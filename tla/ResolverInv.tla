---------------------------- MODULE ResolverInv ----------------------------
(***************************************************************************)
(* What is always true of the resolver's state, as far as the proofs need  *)
(* it: which values the variables can have (TypeInv).                      *)
(*                                                                         *)
(* s is a script, h the number of cells of the heap, so that a pointer is  *)
(* one of 0 .. h, with 0 for the null pointer.                             *)
(***************************************************************************)
EXTENDS Resolver

States == {"live", "freed", "constant"}
Faults == {"none", "null", "stale", "bad free", "overflow", "underflow", "trap", "exit"}

IntCells      == [type : {"int_t"}, v : Int]
StrCells(h)   == [type : {"string_t"}, v : 0 .. h]
Cells(h)      == IntCells \cup StrCells(h)

IsHeap(heap) ==
  /\ Len(heap) \in Nat \ {0}
  /\ DOMAIN heap = 1 .. Len(heap)
  /\ \A p \in 1 .. Len(heap) :
       /\ DOMAIN heap[p] = {"text", "state"}
       /\ heap[p].state \in States

IsMemory(m) ==
  /\ DOMAIN m = {"heap", "vars", "stack", "fault"}
  /\ IsHeap(m.heap)
  /\ \A n \in DOMAIN m.vars : m.vars[n] \in Cells(Len(m.heap))
  /\ m.stack \in Seq(Cells(Len(m.heap))) /\ Len(m.stack) <= StackSize
  /\ m.fault \in Faults

Envs(h) == [formal : Seq(STRING), cooked : Seq(0 .. h)]

\* The frames, by the functions that they stand for.
OptionFrames(s, h) ==
  [kind : {"option"}, todo : Seq(NodeNumbers(s)), acc : 0 .. h, env : Envs(h)]
WaitFrames(s, h) ==
  {f \in [kind : Wrapping \cup {"var_conddef"}, node : NodeNumbers(s), env : Envs(h)] :
     s.nodes[f.node].type = f.kind}
LoopFrames(s, h) ==
  {f \in [kind : {"loop"}, node : NodeNumbers(s), env : Envs(h), acc : 0 .. h,
          left : Int, random : BOOLEAN, first : BOOLEAN] :
     s.nodes[f.node].params # <<>>}
RuleFrames(s, h) ==
  [kind : {"rule"}, name : DOMAIN s.rules, cooked : Seq(0 .. h)]
ArgsFrames(s, h) ==
  {f \in [kind : {"args"}, params : Seq(NodeNumbers(s)), env : Envs(h),
          texts : Seq(0 .. h), left : Nat] :
     Len(f.texts) = Len(f.params) /\ f.left <= Len(f.params)}
NestedFrames(s) == [kind : {"nested"}, node : NodeNumbers(s)]
CodeFramesOf(s) ==
  {f \in [kind : {"code"}, node : NodeNumbers(s), done : Nat, base : Nat] :
     s.nodes[f.node].type = "code"}

Frames(s, h) ==
  OptionFrames(s, h) \cup WaitFrames(s, h) \cup LoopFrames(s, h) \cup RuleFrames(s, h)
    \cup ArgsFrames(s, h) \cup NestedFrames(s) \cup CodeFramesOf(s)

Focuses(s, h) ==
  [at : {"atom"}, node : NodeNumbers(s), env : Envs(h)] \cup [at : {"next"}]
    \cup [at : {"return", "done"}, text : 0 .. h]
    \cup [at : {"cooked"}, texts : Seq(0 .. h)]

\* The parameters are resolved for a rule or for a parameter that has some of
\* its own, and one of them is missing as long as one is being resolved.
ChainAt(i) ==
  /\ kont[i].kind = "args" =>
       /\ i > 1 /\ kont[i - 1].kind \in {"rule", "nested"}
       /\ i < Len(kont) \/ focus.at # "next" => kont[i].left > 0
  /\ kont[i].kind = "nested" => i > 1 /\ kont[i - 1].kind = "args"

TypeInv ==
  /\ script \in Scripts /\ cdrFirst \in BOOLEAN
  /\ IsMemory(mem)
  /\ last \in [NodeNumbers(script) -> Int]
  /\ \A n \in DOMAIN last : last[n] = -1 \/ last[n] \in DOMAIN script.nodes[n].options
  /\ focus \in Focuses(script, Len(mem.heap))
  /\ kont \in Seq(Frames(script, Len(mem.heap))) /\ Len(kont) <= MaxDepth
  /\ \A i \in 1 .. Len(kont) : ChainAt(i)
=============================================================================
