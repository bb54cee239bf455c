---------------------------- MODULE OwnerProofs -----------------------------
(***************************************************************************)
(* The operand stack and the owners of the texts.                          *)
(*                                                                         *)
(* First the stack, for every script whose blocks of code are well-typed   *)
(* (CodeTyping): CodeInv is inductive.  Only a block's own steps touch the *)
(* blocks and the stack (OtherSteps); those of a block go along the types  *)
(* of its cells (BlockStep, BlockStart, BlockEnd).                         *)
(*                                                                         *)
(* Then texts that are handed over: what the steps of the resolver do to   *)
(* the owners of the texts (OwnerInv), for a script whose blocks are       *)
(* careful (CodeTyping).                                                   *)
(*                                                                         *)
(* A step outside of the blocks leaves the operand stack and the variables *)
(* alone and moves one list of texts from the functions that return or go  *)
(* on to one holder (HandOne); most steps are an instance of one of        *)
(* HandAnswer, HandLeave, HandContinue and HandPush.  A step of a block,   *)
(* and a definition, is one of PassOn: who keeps a text, and who gets one  *)
(* from whom.  PUSHV lends a variable's text to a cell, an operator frees  *)
(* the texts of its operands, SET gives the text of a cell to a variable,  *)
(* EMIT to the caller.                                                     *)
(*                                                                         *)
(* At the end, the inductive invariant TextInv, and what follows from it:  *)
(* a text has one owner, and nobody reads one that was freed.              *)
(***************************************************************************)
EXTENDS ResolverProofs, OwnerInv, WellFoundedInduction

\* What an operation on texts and variables does to a memory: neither the stack
\* nor a variable changes, and the stack is not what fails.
TextFaults == {"null", "stale", "bad free", "exit"}

Mild(m, m2) ==
  /\ m2.stack = m.stack /\ m2.vars = m.vars
  /\ m2.fault \in {m.fault} \cup TextFaults

\* Recording a fault of a text is mild.
LEMMA FailMild ==
  ASSUME NEW m, IsMemory(m), NEW what \in TextFaults
  PROVE  Mild(m, Fail(m, what))
  BY DEF Fail, Mild, IsMemory

\* So is reading a text.
LEMMA ReadMild ==
  ASSUME NEW m, IsMemory(m), NEW p
  PROVE  Mild(m, Read(m, p))
  <1>1. Mild(m, m)
    BY DEF Mild
  <1>2. Mild(m, Fail(m, "null")) /\ Mild(m, Fail(m, "stale"))
    BY FailMild DEF TextFaults
  <1> QED
    BY <1>1, <1>2 DEF Read

\* So is malloc().
LEMMA AllocMild ==
  ASSUME NEW m, IsMemory(m), NEW text
  PROVE  Mild(m, Alloc(m, text))
  BY DEF Alloc, Mild, IsMemory

\* So is free().
LEMMA FreeMild ==
  ASSUME NEW m, IsMemory(m), NEW p
  PROVE  Mild(m, Free(m, p))
  <1>1. Mild(m, m)
    BY DEF Mild
  <1>2. Mild(m, Fail(m, "bad free")) /\ Mild(m, Fail(m, "stale"))
    BY FailMild DEF TextFaults
  <1>3. Mild(m, [m EXCEPT !.heap[p].state = "freed"])
    BY DEF Mild, IsMemory
  <1> QED
    BY <1>1, <1>2, <1>3 DEF Free

\* So is free() of a list.
LEMMA FreeAllMild ==
  ASSUME NEW m, IsMemory(m), NEW ps
  PROVE  Mild(m, FreeAll(m, ps))
  <1> DEFINE heap == [p \in DOMAIN m.heap |->
                        IF p \in ToSet(ps) /\ m.heap[p].state = "live"
                        THEN [m.heap[p] EXCEPT !.state = "freed"] ELSE m.heap[p]]
             f == [m EXCEPT !.heap = heap]
  <1>1. FreeAll(m, ps) = f \/ \E what \in {"bad free", "stale"} : FreeAll(m, ps) = Fail(f, what)
    BY DEF FreeAll
  <1> HIDE DEF heap
  <1>2. DOMAIN f = DOMAIN m /\ f.stack = m.stack /\ f.vars = m.vars /\ f.fault = m.fault
    BY DEF IsMemory
  <1>3. DOMAIN f = {"heap", "vars", "stack", "fault"}
    BY <1>2 DEF IsMemory
  <1> HIDE DEF f
  <1>4. \A what \in {"bad free", "stale"} : Mild(f, Fail(f, what))
    BY <1>3 DEF Mild, Fail, TextFaults
  <1> QED
    BY <1>1, <1>2, <1>4 DEF Mild

\* Two mild steps are one.
LEMMA MildTwice ==
  ASSUME NEW m, NEW m2, NEW m3, Mild(m, m2), Mild(m2, m3)
  PROVE  Mild(m, m3)
  BY DEF Mild

\* strdup() is mild.
LEMMA StrdupMild ==
  ASSUME NEW m, IsMemory(m), NEW p
  PROVE  Mild(m, Strdup(m, p))
  <1>1. IsMemory(Read(m, p)) /\ Mild(m, Read(m, p))
    BY ReadMemory, ReadMild
  <1>2. Mild(Read(m, p), Alloc(Read(m, p), TextAt(m, p)))
    BY <1>1, AllocMild
  <1> QED
    BY <1>1, <1>2, MildTwice DEF Strdup

\* dstrcat() is mild.
LEMMA DstrcatMild ==
  ASSUME NEW m, IsMemory(m), NEW a \in 0 .. Len(m.heap), NEW b \in 0 .. Len(m.heap)
  PROVE  Mild(m, Dstrcat(m, a, b))
  <1> DEFINE readA == IF a = Null THEN m ELSE Read(m, a)
             readB == IF b = Null THEN readA ELSE Read(readA, b)
             joined == Alloc(readB, TextAt(m, a) \o TextAt(m, b))
             once == Free(joined, a)
  <1>0. Mild(m, m)
    BY DEF Mild
  <1>1. IsMemory(readA) /\ Mild(m, readA) /\ readA.heap = m.heap
    BY <1>0, ReadMemory, ReadMild
  <1>2. IsMemory(readB) /\ Mild(m, readB) /\ readB.heap = m.heap
    <2> HIDE DEF readA
    <2>1. /\ IsMemory(Read(readA, b)) /\ Mild(readA, Read(readA, b))
          /\ Read(readA, b).heap = readA.heap
      BY <1>1, ReadMemory, ReadMild
    <2>2. Mild(m, Read(readA, b))
      BY <1>1, <2>1, MildTwice
    <2> QED
      BY <1>1, <2>1, <2>2
  <1> HIDE DEF readB
  <1>3. IsMemory(joined) /\ Mild(m, joined) /\ Len(joined.heap) = Len(m.heap) + 1
    <2>1. IsMemory(joined) /\ Mild(readB, joined) /\ Len(joined.heap) = Len(m.heap) + 1
      BY <1>2, AllocMemory, AllocMild DEF Newest
    <2> HIDE DEF joined
    <2> QED
      BY <1>2, <2>1, MildTwice
  <1>4. Dstrcat(m, a, b) = Free(once, b)
    BY DEF Dstrcat, readB
  <1>5. a \in 0 .. Len(joined.heap)
    BY <1>3 DEF IsMemory, IsHeap
  <1> HIDE DEF joined
  <1>6. IsMemory(once) /\ Mild(m, once)
    <2>1. IsMemory(once) /\ Mild(joined, once)
      BY <1>3, <1>5, FreeMemory, FreeMild
    <2> HIDE DEF once
    <2> QED
      BY <1>3, <2>1, MildTwice
  <1> HIDE DEF once
  <1>7. Mild(once, Free(once, b))
    BY <1>6, FreeMild
  <1> QED
    BY <1>4, <1>6, <1>7, MildTwice

\* var_fetch() is mild.
LEMMA VarFetchMild ==
  ASSUME NEW m, IsMemory(m), NEW name
  PROVE  Mild(m, VarFetch(m, name))
  <1>1. Mild(m, m)
    BY DEF Mild
  <1> QED
    BY <1>1, AllocMild DEF VarFetch

\* Copying an actual parameter is mild.
LEMMA CopyActualMild ==
  ASSUME NEW m, IsMemory(m), NEW env, NEW i
  PROVE  Mild(m, CopyActual(m, env, i))
  BY AllocMild, StrdupMild DEF CopyActual
-----------------------------------------------------------------------------
\* The waiting calls up to the n-th are as they were.
Keeps(n) ==
  /\ n \in 0 .. Len(kont) /\ n <= Len(kont')
  /\ \A i \in 1 .. n : kont'[i] = kont[i]

\* A step that leaves the blocks of code and the operand stack alone: those that
\* wait go on waiting, and a block that is on top again is handed a text.
Quiet(n) ==
  /\ script' = script /\ Keeps(n)
  /\ \A i \in n + 1 .. Len(kont) : kont[i].kind # "code"
  /\ \A i \in n + 1 .. Len(kont') : kont'[i].kind # "code"
  /\ n > 0 /\ n = Len(kont) /\ kont[n].kind = "code" => InvokeDue(kont[n])
  /\ n > 0 /\ n = Len(kont') /\ kont[n].kind = "code" => focus'.at = "return"

\* Its variables: a definition gives one that holds texts another text.
VarsKept(ints) ==
  \A name \in ints \cap DOMAIN mem'.vars :
    name \in DOMAIN mem.vars /\ mem'.vars[name] = mem.vars[name]

Calm(ints) ==
  /\ mem'.stack = mem.stack /\ VarsKept(ints)
  /\ mem'.fault \in {mem.fault} \cup TextFaults

\* A quiet step keeps every block of code at an instruction that can wait.
LEMMA QuietWaits ==
  ASSUME TypeInv, TypeInv', WaitInv, NEW n, Quiet(n)
  PROVE  WaitInv'
  <1>1. Len(kont) \in Nat /\ Len(kont') \in Nat /\ n \in Nat /\ script' = script
    BY Given DEF Quiet, Keeps, TypeInv
  <1> SUFFICES ASSUME NEW i \in 1 .. Len(kont') PROVE WaitsAt(i)'
    BY DEF WaitInv
  <1>2. CASE i > n
    <2>1. kont'[i].kind # "code"
      BY <1>1, <1>2 DEF Quiet
    <2> QED
      BY <2>1 DEF WaitsAt
  <1>3. CASE i <= n
    <2>1. i \in 1 .. Len(kont) /\ i \in 1 .. n /\ kont'[i] = kont[i]
      BY <1>1, <1>3 DEF Quiet, Keeps
    <2>2. WaitsAt(i)
      BY <2>1 DEF WaitInv
    <2>3. kont[i].kind = "code" => InvokeDue(kont[i])
      <3>1. CASE i < Len(kont)
        BY <2>2, <3>1 DEF WaitsAt
      <3>2. CASE i = Len(kont)
        <4>1. n > 0 /\ n = Len(kont) /\ n = i
          BY <1>1, <2>1, <3>2 DEF Quiet, Keeps
        <4> QED
          BY <4>1 DEF Quiet
      <3> QED
        BY <1>1, <2>1, <3>1, <3>2
    <2>4. i = Len(kont') /\ kont[i].kind = "code" => focus'.at = "return"
      BY <1>1, <2>1 DEF Quiet, Keeps
    <2> QED
      BY <1>1, <2>1, <2>2, <2>3, <2>4 DEF WaitsAt, InvokeDue, CodeOf
  <1> QED
    BY <1>1, <1>2, <1>3

\* A quiet step keeps the blocks of code.
LEMMA QuietFrames ==
  ASSUME TypeInv, TypeInv', NEW n, Quiet(n)
  PROVE  CodeFrames' = CodeFrames /\ \A i \in CodeFrames : kont'[i] = kont[i]
  <1>1. Len(kont) \in Nat /\ Len(kont') \in Nat /\ n \in Nat
        /\ DOMAIN kont = 1 .. Len(kont) /\ DOMAIN kont' = 1 .. Len(kont')
    BY Given DEF Quiet, Keeps, TypeInv
  <1>2. \A i \in 1 .. n : kont'[i] = kont[i] /\ i \in DOMAIN kont /\ i \in DOMAIN kont'
    BY <1>1 DEF Quiet, Keeps
  <1>3. \A i \in DOMAIN kont : kont[i].kind = "code" => i \in 1 .. n
    <2>1. \A i \in 1 .. Len(kont) : i \in 1 .. n \/ i \in n + 1 .. Len(kont)
      BY <1>1
    <2> QED
      BY <1>1, <2>1 DEF Quiet
  <1>4. \A i \in DOMAIN kont' : kont'[i].kind = "code" => i \in 1 .. n
    <2>1. \A i \in 1 .. Len(kont') : i \in 1 .. n \/ i \in n + 1 .. Len(kont')
      BY <1>1
    <2> QED
      BY <1>1, <2>1 DEF Quiet
  <1> QED
    BY <1>2, <1>3, <1>4 DEF CodeFrames

\* A quiet and calm step keeps the operand stack in order.
LEMMA QuietStack ==
  ASSUME TypeInv, TypeInv', NEW ints, StackInv(ints), Running, NEW n, Quiet(n), Calm(ints)
  PROVE  StackInv(ints)'
  <1>1. CodeFrames' = CodeFrames /\ \A i \in CodeFrames : kont'[i] = kont[i]
    BY QuietFrames
  <1>2. script' = script
    BY DEF Quiet
  <1>3. mem'.stack = mem.stack
    BY DEF Calm
  <1>4. \A i \in CodeFrames : /\ CellsOf(i, ints)' = CellsOf(i, ints)
                              /\ Height(i, ints)' = Height(i, ints)
    BY <1>1, <1>2 DEF CellsOf, Height, TypingAt, CodeOf
  <1>5. HeightsMeet(ints) => HeightsMeet(ints)'
    BY <1>1, <1>3, <1>4 DEF HeightsMeet, Innermost, Outermost, Within
  <1>6. IntsAreInts(ints) => IntsAreInts(ints)'
    BY <1>1, <1>3, <1>4 DEF IntsAreInts, Calm, VarsKept
  <1>7. TypedWith(script, ints)' /\ mem'.fault # "underflow"
    BY <1>2 DEF StackInv, Calm, TextFaults, Running
  <1> QED
    BY <1>5, <1>6, <1>7 DEF StackInv, NoFault, Running

Still(ints) == (\E n : Quiet(n)) /\ Calm(ints)

\* A step that does only what is mild to the memory is calm.
LEMMA MildCalm ==
  ASSUME NEW ints, NEW m, Mild(mem, m), mem' = m
  PROVE  Calm(ints)
  BY DEF Calm, Mild, VarsKept

\* Under an atom that is to be resolved there is no block of code.
LEMMA NoCodeUnderAtom ==
  ASSUME TypeInv, WaitInv, kont # <<>>, focus.at \notin {"next", "return"}
  PROVE  Frame.kind # "code"
  <1>1. Len(kont) \in 1 .. Len(kont) /\ Frame = kont[Len(kont)]
    BY Given DEF Frame
  <1> QED
    BY <1>1 DEF WaitInv, WaitsAt

\* There is a top frame when some function waits.
LEMMA TopIsFrame ==
  ASSUME TypeInv
  PROVE  kont # <<>> <=> Len(kont) > 0
  BY Given

\* A function that returns before it has called is quiet.
LEMMA QuietAnswer ==
  ASSUME TypeInv, WaitInv, focus.at = "atom", NEW m, NEW p, Answer(m, p), NEW ints, Mild(mem, m)
  PROVE  Still(ints) /\ Quiet(Len(kont))
  <1>1. Len(kont) \in Nat /\ kont' = kont /\ script' = script /\ mem' = m
    BY Given DEF Answer, Same
  <1>2. Len(kont) > 0 => kont[Len(kont)].kind # "code"
    BY NoCodeUnderAtom, TopIsFrame DEF Frame
  <1>3. Quiet(Len(kont))
    BY <1>1, <1>2 DEF Quiet, Keeps
  <1> QED
    BY <1>1, <1>3, MildCalm DEF Still

\* So is one that returns, unless it is a block of code.
LEMMA QuietLeave ==
  ASSUME TypeInv, kont # <<>>, Frame.kind # "code", NEW m, NEW p, Leave(m, p),
         NEW ints, Mild(mem, m)
  PROVE  Still(ints) /\ Quiet(Len(kont) - 1)
  <1>1. kont' = Below /\ script' = script /\ mem' = m /\ focus'.at = "return"
    BY DEF Leave, Same, Return
  <1>2. /\ Len(kont) \in Nat \ {0} /\ Len(kont') = Len(kont) - 1
        /\ \A i \in 1 .. Len(kont) - 1 : kont'[i] = kont[i]
        /\ Frame = kont[Len(kont)]
    BY <1>1, Given, TopAndBelow
  <1>3. Quiet(Len(kont) - 1)
    BY <1>1, <1>2 DEF Quiet, Keeps
  <1> QED
    BY <1>1, <1>3, MildCalm DEF Still

\* So is one that goes on, unless it is a block of code.
LEMMA QuietContinue ==
  ASSUME TypeInv, kont # <<>>, Frame.kind # "code", NEW m, NEW f, NEW next,
         f.kind # "code", Continue(m, f, next), NEW ints, Mild(mem, m)
  PROVE  Still(ints) /\ Quiet(Len(kont) - 1)
  <1>1. kont' = Append(Below, f) /\ script' = script /\ mem' = m
    BY DEF Continue, Same
  <1>2. /\ Len(kont) \in Nat \ {0} /\ Below \in Seq(Frames(script, Len(mem.heap)))
        /\ Len(Below) = Len(kont) - 1
        /\ \A i \in 1 .. Len(kont) - 1 : Below[i] = kont[i]
        /\ Frame = kont[Len(kont)]
    BY Given, TopAndBelow
  <1>3. /\ Len(kont') = Len(kont) /\ kont'[Len(kont)] = f
        /\ \A i \in 1 .. Len(kont) - 1 : kont'[i] = kont[i]
    BY <1>1, <1>2
  <1>4. Quiet(Len(kont) - 1)
    BY <1>1, <1>2, <1>3 DEF Quiet, Keeps
  <1> QED
    BY <1>1, <1>4, MildCalm DEF Still

\* So is a call that adds a frame, unless the frame is a block of code.
LEMMA QuietPush ==
  ASSUME TypeInv, kont # <<>> => (Frame.kind = "code" => InvokeDue(Frame)),
         NEW fs, fs = <<fs[1]>> \/ fs = <<fs[1], fs[2]>>,
         \A i \in DOMAIN fs : fs[i].kind # "code",
         kont' = kont \o fs, script' = script, NEW ints, Calm(ints)
  PROVE  Still(ints) /\ Quiet(Len(kont))
  <1>1. Len(kont) \in Nat /\ kont \in Seq(Frames(script, Len(mem.heap)))
    BY Given
  <1>2. /\ Len(kont') > Len(kont)
        /\ \A i \in 1 .. Len(kont) : kont'[i] = kont[i]
        /\ \A i \in Len(kont) + 1 .. Len(kont') : kont'[i].kind # "code"
    BY <1>1
  <1>3. Len(kont) > 0 /\ kont[Len(kont)].kind = "code" => InvokeDue(kont[Len(kont)])
    BY <1>1 DEF Frame
  <1>4. Quiet(Len(kont))
    BY <1>1, <1>2, <1>3 DEF Quiet, Keeps
  <1> QED
    BY <1>4 DEF Still

\* So is a call of the resolver.
LEMMA QuietCall ==
  ASSUME TypeInv, WaitInv, focus.at = "atom", NEW m, NEW f, NEW next, f.kind # "code",
         Call(m, f, next), NEW ints, Mild(mem, m)
  PROVE  Still(ints) /\ Quiet(Len(kont))
  <1>1. kont' = kont \o <<f>> /\ script' = script /\ mem' = m
    <2>1. kont \in Seq(Frames(script, Len(mem.heap)))
      BY Given
    <2> QED
      BY <2>1 DEF Call, Same
  <1>2. Calm(ints)
    BY <1>1, MildCalm
  <1>3. kont # <<>> => Frame.kind # "code"
    BY NoCodeUnderAtom
  <1> DEFINE fs == <<f>>
  <1>4. fs = <<fs[1]>> /\ \A i \in DOMAIN fs : fs[i].kind # "code"
    OBVIOUS
  <1> HIDE DEF fs
  <1>5. kont' = kont \o fs
    BY <1>1 DEF fs
  <1> QED
    BY <1>1, <1>2, <1>3, <1>4, <1>5, QuietPush

\* So is the invocation of a rule.
LEMMA QuietInvokeOn ==
  ASSUME TypeInv, NEW n \in 0 .. Len(kont),
         n = Len(kont) /\ n > 0 /\ kont[n].kind = "code" => InvokeDue(kont[n]),
         \A i \in n + 1 .. Len(kont) : kont[i].kind # "code",
         NEW m, NEW name, NEW params, NEW env, NEW below, below = SubSeq(kont, 1, n),
         InvokeOn(m, below, name, params, env), NEW ints, Mild(mem, m)
  PROVE  Still(ints) /\ Quiet(n)
  <1>1. mem' = m /\ script' = script
    BY DEF InvokeOn, Same
  <1>2. /\ below \in Seq(Frames(script, Len(mem.heap))) /\ Len(below) = n
        /\ \A i \in 1 .. n : below[i] = kont[i]
    BY Given, PrefixOf
  <1> DEFINE r == [kind |-> "rule", name |-> name, cooked |-> <<>>]
             a == ArgsFrame(params, env)
  <1>3. CASE IsRule(name)
    <2>1. kont' = below \o <<r, a>> /\ r.kind # "code" /\ a.kind # "code"
      BY <1>3 DEF InvokeOn, ArgsFrame
    <2> HIDE DEF r, a
    <2>2. /\ Len(kont') = n + 2 /\ \A i \in 1 .. n : kont'[i] = kont[i]
          /\ \A i \in n + 1 .. Len(kont') : kont'[i].kind # "code"
      BY <1>2, <2>1
    <2>3. Quiet(n)
      BY <1>1, <2>2 DEF Quiet, Keeps
    <2> QED
      BY <1>1, <2>3, MildCalm DEF Still
  <1>4. CASE ~IsRule(name)
    <2>1. kont' = below /\ focus'.at = "return"
      BY <1>4 DEF InvokeOn, Return
    <2>2. Quiet(n)
      BY <1>1, <1>2, <2>1 DEF Quiet, Keeps
    <2> QED
      BY <1>1, <2>2, MildCalm DEF Still
  <1> QED
    BY <1>3, <1>4

\* The memory does not change at all.
LEMMA SameCalm ==
  ASSUME mem' = mem, NEW ints
  PROVE  Calm(ints) /\ Mild(mem, mem)
  BY DEF Calm, VarsKept, Mild
-----------------------------------------------------------------------------
\* A literal leaves the blocks and the stack alone.
LEMMA LiteralStill == ASSUME TypeInv, WaitInv, Literal, NEW ints PROVE Still(ints)
  <1> DEFINE m == Alloc(mem, Text(Node.data))
  <1>1. focus.at = "atom" /\ Answer(m, Newest(m))
    BY DEF Literal, IsAtom
  <1>2. Mild(mem, m)
    BY Given, AllocMild
  <1> HIDE DEF m
  <1> QED
    BY <1>1, <1>2, QuietAnswer

\* So does a symbol that stands for an actual parameter.
LEMMA ParameterStill == ASSUME TypeInv, WaitInv, Parameter, NEW ints PROVE Still(ints)
  <1> DEFINE m == CopyActual(mem, focus.env, Position(focus.env.formal, Node.data))
  <1>1. focus.at = "atom" /\ Answer(m, Newest(m))
    BY DEF Parameter, IsAtom
  <1>2. Mild(mem, m)
    BY Given, CopyActualMild
  <1> HIDE DEF m
  <1> QED
    BY <1>1, <1>2, QuietAnswer

\* So does a symbol that is a rule.
LEMMA SymbolStill == ASSUME TypeInv, WaitInv, Symbol, NEW ints PROVE Still(ints)
  <1>1. focus.at = "atom" /\ InvokeOn(mem, kont, Node.data, Node.params, focus.env)
    BY DEF Symbol, IsAtom
  <1>2. Len(kont) \in 0 .. Len(kont) /\ kont = SubSeq(kont, 1, Len(kont))
    BY Given, SubSeqWhole
  <1>3. Len(kont) > 0 => kont[Len(kont)].kind # "code"
    BY <1>1, NoCodeUnderAtom, TopIsFrame DEF Frame
  <1>4. Mild(mem, mem)
    BY DEF Mild
  <1>5. \A i \in Len(kont) + 1 .. Len(kont) : kont[i].kind # "code"
    BY <1>2
  <1> QED
    BY <1>1, <1>2, <1>3, <1>4, <1>5, QuietInvokeOn

\* So do the atoms whose functions only call.
LEMMA CallsStill ==
  ASSUME TypeInv, WaitInv, NEW ints,
         \/ \E type \in Wrapping : Enter(type)
         \/ Star \/ Plus \/ RepeatConst
  PROVE Still(ints)
  <1>1. focus.at = "atom" /\ Mild(mem, mem)
    BY DEF Enter, Star, Plus, RepeatConst, IsAtom, Mild
  <1>2. PICK f, next : f.kind # "code" /\ Call(mem, f, next)
    <2>1. CASE \E type \in Wrapping : Enter(type)
      <3>1. PICK type \in Wrapping : Enter(type)
        BY <2>1
      <3> DEFINE f == [kind |-> type, node |-> focus.node, env |-> focus.env]
      <3>2. f.kind # "code" /\ Call(mem, f, Atom(Node.params[1], focus.env))
        BY <3>1 DEF Enter, Wrapping
      <3> HIDE DEF f
      <3> QED BY <3>2
    <2>2. CASE Star
      <3> DEFINE f == Loop(MaxReps, TRUE, FALSE)
      <3>1. f.kind # "code" /\ Call(mem, f, GoOn)
        BY <2>2 DEF Star, Loop
      <3> HIDE DEF f
      <3> QED BY <3>1
    <2>3. CASE Plus
      <3> DEFINE f == Loop(MaxReps, TRUE, TRUE)
      <3>1. f.kind # "code" /\ Call(mem, f, Atom(Node.params[1], focus.env))
        BY <2>3 DEF Plus, Loop
      <3> HIDE DEF f
      <3> QED BY <3>1
    <2>4. CASE RepeatConst
      <3> DEFINE f == Loop(Node.count, FALSE, FALSE)
      <3>1. f.kind # "code" /\ Call(mem, f, GoOn)
        BY <2>4 DEF RepeatConst, Loop
      <3> HIDE DEF f
      <3> QED BY <3>1
    <2> QED
      BY <2>1, <2>2, <2>3, <2>4
  <1> QED
    BY <1>1, <1>2, QuietCall

\* What Turn says of the top frame.
LEMMA TurnTop ==
  ASSUME NEW at, NEW kind, Turn(at, kind)
  PROVE  kont # <<>> /\ Frame.kind = kind /\ focus.at = at /\ Running
  BY DEF Turn

\* apply_mapping() and apply_xform() leave the blocks and the stack alone.
LEMMA MapStill == ASSUME TypeInv, WaitInv, Map, NEW ints PROVE Still(ints)
  <1> DEFINE name == script.nodes[Frame.node].data
             p == focus.text
             m == Read(mem, p)
             text == TextAt(m, p)
             mapped == Alloc(m, script.maps[name][text])
             freed == Free(mapped, p)
  <1>1. kont # <<>> /\ Frame.kind = "mapping"
    BY TurnTop DEF Map
  <1>2. Leave(mem, p) \/ Leave(m, p) \/ Leave(freed, Newest(mapped))
    BY DEF Map
  <1>3. Mild(mem, mem)
    BY DEF Mild
  <1>4. IsMemory(m) /\ Mild(mem, m)
    BY Given, ReadMemory, ReadMild
  <1> HIDE DEF m
  <1>5. IsMemory(mapped) /\ Mild(m, mapped)
    BY <1>4, AllocMemory, AllocMild
  <1> HIDE DEF mapped
  <1>6. Mild(mapped, freed)
    BY <1>5, FreeMild
  <1> HIDE DEF freed
  <1>7. Mild(mem, freed)
    BY <1>4, <1>5, <1>6, MildTwice
  <1> QED
    BY <1>1, <1>2, <1>3, <1>4, <1>7, QuietLeave

\* So does a dereference.
LEMMA DereferenceStill == ASSUME TypeInv, WaitInv, Dereference, NEW ints PROVE Still(ints)
  <1> DEFINE m == Read(mem, focus.text)
             name == NameIn(TextAt(m, focus.text))
             n == Len(kont) - 1
  <1>1. kont # <<>> /\ Frame.kind = "deref" /\ InvokeOn(m, Below, name, <<>>, Frame.env)
    BY TurnTop DEF Dereference
  <1>2. Mild(mem, m)
    BY Given, ReadMild
  <1>3. /\ n \in 0 .. Len(kont) /\ n # Len(kont) /\ Below = SubSeq(kont, 1, n)
        /\ \A i \in n + 1 .. Len(kont) : kont[i].kind # "code"
    BY <1>1, Given DEF Below, Frame
  <1> HIDE DEF m, name, n
  <1> QED
    BY <1>1, <1>2, <1>3, QuietInvokeOn

\* So does a definition: a variable that gets a text was not to hold integers.
LEMMA DefineStill ==
  ASSUME TypeInv, WaitInv, Define, NEW ints, TypedWith(script, ints)
  PROVE  Still(ints) /\ Quiet(Len(kont) - 1)
  <1> DEFINE p == IF Frame.kind = "var_def" /\ focus.text = Null THEN Undefined ELSE focus.text
             name == script.nodes[Frame.node].data
             put == VarPut(mem, name, StrCell(p))
             m == Strdup(put, p)
  <1>1. /\ kont # <<>> /\ Frame.kind \in {"var_def", "var_conddef"}
        /\ focus.text \in 0 .. Len(mem.heap) /\ Frame \in WaitFrames(script, Len(mem.heap))
    BY GivenTurn, FrameOfKind DEF Define, Wrapping
  <1>2. p \in 0 .. Len(mem.heap)
    BY <1>1, Given DEF Undefined, IsMemory, IsHeap
  <1>3. Leave(m, Newest(m))
    BY DEF Define
  <1>4. name \notin ints
    BY <1>1 DEF TypedWith, WaitFrames
  <1> HIDE DEF p, name
  <1>5. StrCell(p) \in Cells(Len(mem.heap))
    BY <1>2 DEF StrCell, Cells, StrCells
  <1>6. IsMemory(put) /\ put.stack = mem.stack /\ put.fault = mem.fault
        /\ put.vars = [n \in DOMAIN mem.vars \cup {name} |->
                         IF n = name THEN StrCell(p) ELSE mem.vars[n]]
    <2>1. IsMemory(put)
      BY <1>5, Given, VarPutKeeps
    <2> QED
      BY <2>1, Given DEF VarPut, IsMemory
  <1> HIDE DEF put
  <1>7. Mild(put, m)
    BY <1>6, StrdupMild
  <1> HIDE DEF m
  <1>8. /\ mem' = m /\ kont' = Below /\ script' = script /\ focus'.at = "return"
    BY <1>3 DEF Leave, Same, Return
  <1>9. VarsKept(ints)
    <2>1. mem'.vars = put.vars
      BY <1>7, <1>8 DEF Mild
    <2> QED
      BY <1>4, <1>6, <2>1 DEF VarsKept
  <1>10. Calm(ints)
    BY <1>6, <1>7, <1>8, <1>9 DEF Calm, Mild
  <1>11. /\ Len(kont) \in Nat \ {0} /\ Len(kont') = Len(kont) - 1
         /\ \A i \in 1 .. Len(kont) - 1 : kont'[i] = kont[i]
         /\ Frame = kont[Len(kont)]
    BY <1>1, <1>8, Given, TopAndBelow
  <1>12. Quiet(Len(kont) - 1)
    BY <1>1, <1>8, <1>11 DEF Quiet, Keeps
  <1> QED
    BY <1>10, <1>12 DEF Still

\* So does a conditional definition.
LEMMA CondDefStill == ASSUME TypeInv, WaitInv, CondDef, NEW ints PROVE Still(ints)
  <1> DEFINE p == VarFetched(mem, Node.data)
             fetched == VarFetch(mem, Node.data)
             m == Strdup(fetched, p)
  <1>1. focus.at = "atom"
    BY DEF CondDef, IsAtom
  <1>2. CASE p # Null
    <2>1. Answer(m, Newest(m))
      BY <1>2 DEF CondDef
    <2>2. IsMemory(fetched) /\ Mild(mem, fetched)
      BY Given, VarFetchMemory, VarFetchMild
    <2> HIDE DEF fetched, p
    <2>3. Mild(mem, m)
      BY <2>2, StrdupMild, MildTwice
    <2> HIDE DEF m
    <2> QED
      BY <1>1, <2>1, <2>3, QuietAnswer
  <1>3. CASE p = Null
    <2> DEFINE f == [kind |-> "var_conddef", node |-> focus.node, env |-> focus.env]
    <2>1. Call(mem, f, Atom(Node.params[1], focus.env)) /\ f.kind # "code"
      BY <1>3 DEF CondDef
    <2>2. Mild(mem, mem)
      BY DEF Mild
    <2> HIDE DEF f
    <2> QED
      BY <1>1, <2>1, <2>2, QuietCall
  <1> QED
    BY <1>2, <1>3

\* So does a variable reference.
LEMMA VarRefStill == ASSUME TypeInv, WaitInv, VarRef, NEW ints PROVE Still(ints)
  <1> DEFINE p == VarFetched(mem, Node.data)
             fetched == VarFetch(mem, Node.data)
             m == IF p = Null THEN Fail(mem, "exit") ELSE Strdup(fetched, p)
  <1>1. focus.at = "atom" /\ Answer(m, Newest(m))
    BY DEF VarRef, IsAtom
  <1>2. IsMemory(fetched) /\ Mild(mem, fetched)
    BY Given, VarFetchMemory, VarFetchMild
  <1> HIDE DEF p, fetched
  <1>3. Mild(mem, Strdup(fetched, p))
    BY <1>2, StrdupMild, MildTwice
  <1>4. Mild(mem, Fail(mem, "exit"))
    BY Given, FailMild DEF TextFaults
  <1>5. Mild(mem, m)
    BY <1>3, <1>4
  <1> HIDE DEF m
  <1> QED
    BY <1>1, <1>5, QuietAnswer

\* So does a silenced atom.
LEMMA SilenceStill == ASSUME TypeInv, WaitInv, Silence, NEW ints PROVE Still(ints)
  <1>1. kont # <<>> /\ Frame.kind = "silence" /\ Leave(Free(mem, focus.text), Null)
    BY TurnTop DEF Silence
  <1>2. Mild(mem, Free(mem, focus.text))
    BY Given, FreeMild
  <1> QED
    BY <1>1, <1>2, QuietLeave

\* So does a repetition whose count is in a variable.
LEMMA RepeatVarStill == ASSUME TypeInv, WaitInv, RepeatVar, NEW ints PROVE Still(ints)
  <1> DEFINE p == VarFetched(mem, Node.data)
             fetched == VarFetch(mem, Node.data)
             m == IF p = Null THEN Fail(mem, "exit") ELSE Read(fetched, p)
             f == Loop(NumberIn(TextAt(m, p)), FALSE, FALSE)
  <1>1. focus.at = "atom" /\ Call(m, f, GoOn)
    BY DEF RepeatVar, IsAtom
  <1>2. IsMemory(fetched) /\ Mild(mem, fetched)
    BY Given, VarFetchMemory, VarFetchMild
  <1> HIDE DEF p, fetched
  <1>3. Mild(mem, Read(fetched, p))
    BY <1>2, ReadMild, MildTwice
  <1>4. Mild(mem, Fail(mem, "exit"))
    BY Given, FailMild DEF TextFaults
  <1>5. Mild(mem, m)
    BY <1>3, <1>4
  <1> HIDE DEF m
  <1>6. f.kind # "code"
    BY DEF Loop
  <1> HIDE DEF f
  <1> QED
    BY <1>1, <1>5, <1>6, QuietCall

\* So does a round of a repetition.
LEMMA RoundStill == ASSUME TypeInv, WaitInv, Round, NEW ints PROVE Still(ints)
  <1> DEFINE f == [Frame EXCEPT !.left = @ - 1]
  <1>1. kont # <<>> /\ Frame.kind = "loop" /\ Frame \in LoopFrames(script, Len(mem.heap))
        /\ Continue(mem, f, Atom(script.nodes[Frame.node].params[1], Frame.env))
    BY GivenTurn, FrameOfKind DEF Round
  <1>2. f.kind = "loop" /\ Mild(mem, mem)
    BY <1>1 DEF LoopFrames, Mild
  <1> HIDE DEF f
  <1> QED
    BY <1>1, <1>2, QuietContinue

\* The top frame's function returns what it has got.
LEMMA EndsStill ==
  ASSUME TypeInv, WaitInv, EndLoop \/ EndOption, NEW ints
  PROVE  Still(ints)
  <1>1. kont # <<>> /\ Frame.kind # "code" /\ Leave(mem, Frame.acc)
    BY TurnTop DEF EndLoop, EndOption
  <1>2. Mild(mem, mem)
    BY DEF Mild
  <1> QED
    BY <1>1, <1>2, QuietLeave

\* A text added to a repetition leaves the blocks and the stack alone.
LEMMA AccumulateStill == ASSUME TypeInv, WaitInv, Accumulate, NEW ints PROVE Still(ints)
  <1> DEFINE m == Dstrcat(mem, Frame.acc, focus.text)
             f1 == [Frame EXCEPT !.acc = focus.text, !.first = FALSE]
             f2 == [Frame EXCEPT !.acc = Newest(m)]
  <1>1. kont # <<>> /\ Frame.kind = "loop" /\ Frame \in LoopFrames(script, Len(mem.heap))
        /\ focus.text \in 0 .. Len(mem.heap)
    BY GivenTurn, FrameOfKind DEF Accumulate
  <1>2. Mild(mem, m)
    BY <1>1, Given, DstrcatMild DEF LoopFrames
  <1>3. Continue(mem, f1, GoOn) \/ Continue(m, f2, GoOn)
    BY DEF Accumulate
  <1> HIDE DEF m
  <1>4. f1.kind = "loop" /\ f2.kind = "loop" /\ Mild(mem, mem)
    BY <1>1 DEF LoopFrames, Mild
  <1> HIDE DEF f1, f2
  <1>5. CASE Continue(mem, f1, GoOn)
    BY <1>1, <1>4, <1>5, QuietContinue
  <1>6. CASE Continue(m, f2, GoOn)
    BY <1>1, <1>2, <1>4, <1>6, QuietContinue
  <1> QED
    BY <1>3, <1>5, <1>6

\* So does an inline choice.
LEMMA ChoiceStill == ASSUME TypeInv, WaitInv, Choice, NEW ints PROVE Still(ints)
  <1>1. PICK c \in DOMAIN Node.options :
          kont' = Append(kont, OptionFrame(Node.options[c], focus.env))
    BY DEF Choice
  <1> DEFINE o == OptionFrame(Node.options[c], focus.env)
             fs == <<o>>
  <1>2. focus.at = "atom" /\ mem' = mem /\ script' = script
    BY DEF Choice, IsAtom
  <1>3. o.kind # "code" /\ kont \in Seq(Frames(script, Len(mem.heap)))
    BY Given DEF OptionFrame
  <1> HIDE DEF o
  <1>4. fs = <<fs[1]>> /\ kont' = kont \o fs /\ \A i \in DOMAIN fs : fs[i].kind # "code"
    BY <1>1, <1>3 DEF o
  <1> HIDE DEF fs
  <1>5. kont # <<>> => Frame.kind # "code"
    BY <1>2, NoCodeUnderAtom
  <1> QED
    BY <1>2, <1>4, <1>5, SameCalm, QuietPush

\* So does the next atom of an option.
LEMMA NextAtomStill == ASSUME TypeInv, WaitInv, NextAtom, NEW ints PROVE Still(ints)
  <1> DEFINE f == [Frame EXCEPT !.todo = Tail(@)]
  <1>1. kont # <<>> /\ Frame.kind = "option" /\ Frame \in OptionFrames(script, Len(mem.heap))
        /\ Continue(mem, f, Atom(Head(Frame.todo), Frame.env))
    BY GivenTurn, FrameOfKind DEF NextAtom
  <1>2. f.kind = "option" /\ Mild(mem, mem)
    BY <1>1 DEF OptionFrames, Mild
  <1> HIDE DEF f
  <1> QED
    BY <1>1, <1>2, QuietContinue

\* So does a text that is added to an option.
LEMMA AddTextStill == ASSUME TypeInv, WaitInv, AddText, NEW ints PROVE Still(ints)
  <1> DEFINE m == Dstrcat(mem, Frame.acc, focus.text)
             f == [Frame EXCEPT !.acc = Newest(m)]
  <1>1. kont # <<>> /\ Frame.kind = "option" /\ Frame \in OptionFrames(script, Len(mem.heap))
        /\ focus.text \in 0 .. Len(mem.heap) /\ Continue(m, f, GoOn)
    BY GivenTurn, FrameOfKind DEF AddText
  <1>2. Mild(mem, m)
    BY <1>1, Given, DstrcatMild DEF OptionFrames
  <1> HIDE DEF m
  <1>3. f.kind = "option"
    BY <1>1 DEF OptionFrames
  <1> HIDE DEF f
  <1> QED
    BY <1>1, <1>2, <1>3, QuietContinue

\* The frame that collects the parameters stays one of its kind.
LEMMA WithArgKind ==
  ASSUME TypeInv, NEW at, Turn(at, "args"), NEW p
  PROVE  WithArg(p).kind = "args"
  <1>1. Frame \in ArgsFrames(script, Len(mem.heap))
    BY GivenTurn, FrameOfKind
  <1>2. WithArg(p) = [[Frame EXCEPT !.texts = [Frame.texts EXCEPT ![NextArg] = p]]
                        EXCEPT !.left = Frame.left - 1]
    BY <1>1 DEF WithArg, ArgsFrames
  <1> QED
    BY <1>1, <1>2 DEF ArgsFrames

\* So does a parameter that stands for an actual one.
LEMMA CascadeArgStill == ASSUME TypeInv, WaitInv, CascadeArg, NEW ints PROVE Still(ints)
  <1> DEFINE n == Frame.params[NextArg]
             i == Position(Frame.env.formal, script.nodes[n].data)
             m == IF script.nodes[n].type \in Dataless THEN Fail(mem, "null")
                  ELSE CopyActual(mem, Frame.env, i)
  <1>1. kont # <<>> /\ Frame.kind = "args" /\ Continue(m, WithArg(Newest(m)), GoOn)
        /\ Turn("next", "args")
    BY TurnTop DEF CascadeArg
  <1>2. Mild(mem, m)
    BY Given, FailMild, CopyActualMild DEF TextFaults
  <1> HIDE DEF m
  <1>3. WithArg(Newest(m)).kind = "args"
    BY <1>1, WithArgKind
  <1> QED
    BY <1>1, <1>2, <1>3, QuietContinue

\* So does a resolved parameter.
LEMMA TakeArgStill == ASSUME TypeInv, WaitInv, TakeArg, NEW ints PROVE Still(ints)
  <1>1. kont # <<>> /\ Frame.kind = "args" /\ Continue(mem, WithArg(focus.text), GoOn)
        /\ Turn("return", "args")
    BY TurnTop DEF TakeArg
  <1>2. Mild(mem, mem) /\ WithArg(focus.text).kind = "args"
    BY <1>1, WithArgKind DEF Mild
  <1> QED
    BY <1>1, <1>2, QuietContinue

\* So does a parameter that has parameters.
LEMMA NestedArgStill == ASSUME TypeInv, WaitInv, NestedArg, NEW ints PROVE Still(ints)
  <1> DEFINE n == Frame.params[NextArg]
             f == [kind |-> "nested", node |-> n]
             a == ArgsFrame(script.nodes[n].params, Frame.env)
             fs == <<f, a>>
  <1>1. kont # <<>> /\ Frame.kind = "args" /\ mem' = mem /\ script' = script
        /\ kont' = kont \o <<f, a>>
    BY TurnTop DEF NestedArg, Same
  <1>2. f.kind # "code" /\ a.kind # "code"
    BY DEF ArgsFrame
  <1> HIDE DEF f, a
  <1>3. fs = <<fs[1], fs[2]>> /\ \A i \in DOMAIN fs : fs[i].kind # "code"
    BY <1>2
  <1> HIDE DEF fs
  <1>4. kont' = kont \o fs
    BY <1>1 DEF fs
  <1> QED
    BY <1>1, <1>3, <1>4, SameCalm, QuietPush

\* Below the frame that collects parameters, or the one that waits for those of
\* a parameter, there is no block of code.
LEMMA PopsStill == ASSUME TypeInv, WaitInv, ResolveArg \/ EndArgs, NEW ints PROVE Still(ints) /\ Quiet(Len(kont) - 1)
  <1>1. kont # <<>> /\ Frame.kind \in {"args", "nested"} /\ mem' = mem /\ script' = script
        /\ kont' = Below
    BY TurnTop DEF ResolveArg, EndArgs, Same
  <1>2. /\ Len(kont) \in Nat \ {0} /\ Len(kont') = Len(kont) - 1
        /\ \A i \in 1 .. Len(kont) - 1 : kont'[i] = kont[i]
        /\ Frame = kont[Len(kont)]
    BY <1>1, Given, TopAndBelow
  <1>3. Len(kont) > 1 /\ kont[Len(kont) - 1].kind # "code"
    BY <1>1, <1>2 DEF TypeInv, ChainAt
  <1>4. Quiet(Len(kont) - 1)
    BY <1>1, <1>2, <1>3 DEF Quiet, Keeps
  <1> QED
    BY <1>1, <1>4, SameCalm DEF Still

\* A sequence with two more elements.
LEMMA TwoMore ==
  ASSUME NEW S, NEW s \in Seq(S), NEW a, NEW b, NEW t, t = s \o <<a, b>>
  PROVE  /\ Len(t) = Len(s) + 2 /\ \A i \in 1 .. Len(s) : t[i] = s[i]
         /\ t[Len(s) + 1] = a /\ t[Len(s) + 2] = b
  <1> DEFINE T == S \cup {a, b}
  <1>1. s \in Seq(T) /\ <<a, b>> \in Seq(T)
    OBVIOUS
  <1> QED
    BY <1>1

\* So does the selection of an option.
LEMMA SelectOptionStill == ASSUME TypeInv, WaitInv, SelectOption, NEW ints PROVE Still(ints) /\ Quiet(Len(kont) - 1)
  <1> DEFINE f == [Frame EXCEPT !.cooked = focus.texts]
             env == [formal |-> Formals(Frame.name), cooked |-> focus.texts]
  <1>1. PICK c \in DOMAIN script.rules[Frame.name].options :
          kont' = Below \o <<f, OptionFrame(script.rules[Frame.name].options[c], env)>>
    BY DEF SelectOption
  <1> DEFINE o == OptionFrame(script.rules[Frame.name].options[c], env)
  <1>2. /\ kont # <<>> /\ Frame.kind = "rule" /\ Frame \in RuleFrames(script, Len(mem.heap))
        /\ mem' = mem /\ script' = script
    BY GivenTurn, FrameOfKind DEF SelectOption, Same
  <1>3. f.kind # "code" /\ o.kind # "code"
    BY <1>2 DEF RuleFrames, OptionFrame
  <1>4. /\ Below \in Seq(Frames(script, Len(mem.heap))) /\ Len(Below) = Len(kont) - 1
        /\ Len(kont) \in Nat \ {0}
        /\ \A i \in 1 .. Len(kont) - 1 : Below[i] = kont[i]
        /\ Frame = kont[Len(kont)]
    BY <1>2, Given, TopAndBelow
  <1> HIDE DEF f, o, env
  <1>5. /\ Len(kont') = Len(kont) + 1 /\ \A i \in 1 .. Len(kont) - 1 : kont'[i] = kont[i]
        /\ \A i \in Len(kont) .. Len(kont') : kont'[i].kind # "code"
    <2>1. kont' = Below \o <<f, o>>
      BY <1>1 DEF o
    <2>2. /\ Len(kont') = Len(kont) + 1 /\ \A i \in 1 .. Len(kont) - 1 : kont'[i] = Below[i]
          /\ kont'[Len(kont)] = f /\ kont'[Len(kont) + 1] = o
      <3>1. /\ Len(kont') = Len(Below) + 2 /\ \A i \in 1 .. Len(Below) : kont'[i] = Below[i]
            /\ kont'[Len(Below) + 1] = f /\ kont'[Len(Below) + 2] = o
        <4>1. Below \in Seq(Frames(script, Len(mem.heap)))
          BY <1>4
        <4> QED
          BY <2>1, <4>1, TwoMore
      <3>2. Len(Below) + 2 = Len(kont) + 1 /\ Len(Below) + 1 = Len(kont)
        BY <1>4
      <3> QED
        BY <1>4, <3>1, <3>2
    <2>3. \A i \in Len(kont) .. Len(kont') : i = Len(kont) \/ i = Len(kont) + 1
      BY <1>4, <2>2
    <2> QED
      BY <1>3, <1>4, <2>2, <2>3
  <1>6. Quiet(Len(kont) - 1)
    BY <1>2, <1>4, <1>5 DEF Quiet, Keeps
  <1> QED
    BY <1>2, <1>6, SameCalm DEF Still

\* So does the end of a rule.
LEMMA EndRuleStill == ASSUME TypeInv, WaitInv, EndRule, NEW ints PROVE Still(ints)
  <1>1. kont # <<>> /\ Frame.kind = "rule" /\ Leave(FreeAll(mem, Frame.cooked), focus.text)
    BY TurnTop DEF EndRule
  <1>2. Mild(mem, FreeAll(mem, Frame.cooked))
    BY Given, FreeAllMild
  <1> QED
    BY <1>1, <1>2, QuietLeave

\* So does a block that invokes a rule: it waits at the INVOKE.
LEMMA InvokeStill == ASSUME TypeInv, WaitInv, Invoke, NEW ints PROVE Still(ints)
  <1>1. /\ kont # <<>> /\ InvokeOn(mem, kont, InstrDue.name, <<>>, NoEnv)
        /\ InvokeDue(Frame)
    BY TurnTop DEF Invoke, Due, InvokeDue, InstrDue
  <1>2. Len(kont) \in 0 .. Len(kont) /\ kont = SubSeq(kont, 1, Len(kont))
        /\ \A i \in Len(kont) + 1 .. Len(kont) : kont[i].kind # "code"
    BY Given, SubSeqWhole
  <1>3. InvokeDue(kont[Len(kont)]) /\ Mild(mem, mem)
    BY <1>1 DEF Frame, Mild
  <1> QED
    BY <1>1, <1>2, <1>3, QuietInvokeOn

\* So does the output of the whole text.
LEMMA OutputStill == ASSUME TypeInv, WaitInv, Output, NEW ints PROVE Still(ints) /\ Quiet(0)
  <1>1. kont = <<>> /\ kont' = kont /\ script' = script /\ mem' = Read(mem, focus.text)
    BY DEF Output, Same
  <1>2. Mild(mem, Read(mem, focus.text))
    BY Given, ReadMild
  <1>3. Quiet(0)
    BY <1>1 DEF Quiet, Keeps
  <1> QED
    BY <1>1, <1>2, <1>3, MildCalm DEF Still

CodeStep == Code \/ Exec \/ Invoked \/ EmitResult \/ EndCode

\* Every step but those of a block of code leaves the blocks alone.
LEMMA OtherSteps ==
  ASSUME TypeInv, WaitInv, Next, UNCHANGED vars \/ ~CodeStep, NEW ints,
         TypedWith(script, ints)
  PROVE  UNCHANGED vars \/ (Still(ints) /\ Running)
  <1>1. CASE ResolveAtom
    <2>1. Still(ints)
      BY <1>1, LiteralStill, ParameterStill, SymbolStill, CallsStill, MapStill,
         DereferenceStill, DefineStill, CondDefStill, VarRefStill, SilenceStill,
         RepeatVarStill, RoundStill, EndsStill, AccumulateStill, ChoiceStill
         DEF ResolveAtom
    <2>2. Running
      BY <1>1 DEF ResolveAtom, Literal, Parameter, Symbol, Enter, Map, Dereference, Define,
         CondDef, VarRef, Silence, Star, Plus, RepeatConst, RepeatVar, Round, EndLoop,
         Accumulate, Choice, IsAtom, Turn
    <2> QED
      BY <2>1, <2>2
  <1>2. CASE ResolveRule
    <2>1. Still(ints)
      BY <1>2, NextAtomStill, AddTextStill, EndsStill, CascadeArgStill, NestedArgStill,
         PopsStill, TakeArgStill, SelectOptionStill, EndRuleStill DEF ResolveRule
    <2>2. Running
      BY <1>2 DEF ResolveRule, NextAtom, AddText, EndOption, CascadeArg, NestedArg,
         ResolveArg, TakeArg, EndArgs, SelectOption, EndRule, Turn
    <2> QED
      BY <2>1, <2>2
  <1>3. CASE RunCode
    <2>1. UNCHANGED vars \/ Invoke
      BY <1>3 DEF RunCode, CodeStep
    <2> QED
      BY <2>1, InvokeStill DEF Invoke, Due, Turn
  <1>4. CASE Output
    BY <1>4, OutputStill DEF Output
  <1>5. CASE Finished
    BY <1>5 DEF Finished
  <1> QED
    BY <1>1, <1>2, <1>3, <1>4, <1>5 DEF Next

\* What is known of the running block's cells before and after its next instruction.

There(ints) == Typing(CodeOf(Frame), ints)[Frame.done + 1]

\* A block of code that waits or runs is one of the script's, at one of its points.
LEMMA FrameFacts ==
  ASSUME TypeInv, WaitInv, NEW ints, StackInv(ints), NEW i \in CodeFrames
  PROVE  /\ i \in 1 .. Len(kont) /\ kont[i] \in CodeFramesOf(script)
         /\ kont[i].base \in Nat /\ kont[i].done \in 0 .. Len(CodeOf(kont[i]))
         /\ Len(CodeOf(kont[i])) \in Nat
         /\ IsTyping(Typing(CodeOf(kont[i]), ints), CodeOf(kont[i]), ints)
         /\ TypingAt(i, ints) \in Points
         /\ Len(CellsOf(i, ints)) \in Nat /\ DOMAIN CellsOf(i, ints) = 1 .. Len(CellsOf(i, ints))
         /\ Height(i, ints) \in Nat /\ kont[i].base <= Height(i, ints)
  <1>1. /\ i \in 1 .. Len(kont) /\ kont[i] \in CodeFramesOf(script)
    <2>1. i \in 1 .. Len(kont) /\ kont[i].kind = "code"
      BY Given DEF CodeFrames
    <2> QED
      BY <2>1, Given, FrameOfKind
  <1>2. kont[i].base \in Nat /\ kont[i].done \in Nat /\ kont[i].node \in Blocks(script)
        /\ kont[i].kind = "code"
    BY <1>1 DEF CodeFramesOf, Blocks
  <1>3. CodeOf(kont[i]) \in Seq({instr \in ToSet(CodeOf(kont[i])) : IsInstruction(instr)})
    BY <1>2, Given DEF CodeOf, IsScript, IsNode, Blocks
  <1>4. Len(CodeOf(kont[i])) \in Nat
    BY <1>3
  <1>5. kont[i].done \in 0 .. Len(CodeOf(kont[i]))
    BY <1>1, <1>2, <1>4 DEF WaitInv, WaitsAt
  <1>6. IsTyping(Typing(CodeOf(kont[i]), ints), CodeOf(kont[i]), ints)
    BY <1>2 DEF StackInv, TypedWith, CodeOf
  <1>7. TypingAt(i, ints) \in Points
    BY <1>5, <1>6 DEF IsTyping, TypingAt
  <1>8. Len(CellsOf(i, ints)) \in Nat /\ DOMAIN CellsOf(i, ints) = 1 .. Len(CellsOf(i, ints))
    BY <1>7 DEF CellsOf, Points
  <1> QED
    BY <1>1, <1>2, <1>4, <1>5, <1>6, <1>7, <1>8 DEF Height

\* The running block is the innermost; its cells reach up to the top of the stack.
LEMMA BlockFacts ==
  ASSUME TypeInv, WaitInv, NEW ints, StackInv(ints), Running, kont # <<>>, Frame.kind = "code"
  PROVE  /\ Len(kont) \in CodeFrames /\ Frame = kont[Len(kont)] /\ Len(kont) \in Nat \ {0}
         /\ Frame \in CodeFramesOf(script)
         /\ Frame.base \in Nat /\ Frame.done \in 0 .. Len(CodeOf(Frame))
         /\ Len(CodeOf(Frame)) \in Nat
         /\ IsTyping(Typing(CodeOf(Frame), ints), CodeOf(Frame), ints)
         /\ Here(ints) \in Points /\ Innermost(Len(kont))
         /\ Here(ints) = TypingAt(Len(kont), ints)
         /\ Len(mem.stack) = Frame.base + Len(Here(ints).stack)
         /\ HeightsMeet(ints) /\ IntsAreInts(ints)
         /\ \A k \in DOMAIN Here(ints).stack :
              Here(ints).stack[k].type = "int" => mem.stack[Frame.base + k].type = "int_t"
  <1>1. /\ Frame = kont[Len(kont)] /\ Len(kont) \in Nat \ {0} /\ Frame \in CodeFramesOf(script)
        /\ DOMAIN kont = 1 .. Len(kont)
    BY Given, TopAndBelow, FrameOfKind
  <1>2. Len(kont) \in CodeFrames /\ Innermost(Len(kont))
    BY <1>1 DEF CodeFrames, Innermost
  <1>3. /\ Frame.base \in Nat /\ Frame.done \in 0 .. Len(CodeOf(Frame))
        /\ Len(CodeOf(Frame)) \in Nat
        /\ IsTyping(Typing(CodeOf(Frame), ints), CodeOf(Frame), ints)
        /\ TypingAt(Len(kont), ints) \in Points
    BY <1>1, <1>2, FrameFacts
  <1>8. Here(ints) \in Points /\ Here(ints) = TypingAt(Len(kont), ints)
    BY <1>1, <1>3 DEF Here, TypingAt
  <1>9. HeightsMeet(ints) /\ IntsAreInts(ints)
    BY DEF StackInv, NoFault, Running
  <1>10. Len(mem.stack) = Frame.base + Len(Here(ints).stack)
    BY <1>1, <1>2, <1>8, <1>9 DEF HeightsMeet, Height, CellsOf
  <1>11. \A k \in DOMAIN Here(ints).stack :
           Here(ints).stack[k].type = "int" => mem.stack[Frame.base + k].type = "int_t"
    BY <1>1, <1>2, <1>8, <1>9 DEF IntsAreInts, CellsOf
  <1> QED
    BY <1>1, <1>2, <1>3, <1>8, <1>9, <1>10, <1>11

\* The next instruction finds what it needs.
LEMMA DueFacts ==
  ASSUME TypeInv, WaitInv, NEW ints, StackInv(ints), Running, kont # <<>>, Frame.kind = "code",
         Frame.done < Len(CodeOf(Frame))
  PROVE  /\ There(ints) = After(InstrDue, Here(ints), ints)
         /\ Fits(InstrDue, Here(ints), ints)
         /\ There(ints) \in Points
  <1>1. Frame.done + 1 \in 1 .. Len(CodeOf(Frame)) /\ Frame.done + 1 \in 0 .. Len(CodeOf(Frame))
        /\ (Frame.done + 1) - 1 = Frame.done
    BY BlockFacts
  <1>2. IsTyping(Typing(CodeOf(Frame), ints), CodeOf(Frame), ints)
    BY BlockFacts
  <1> DEFINE pt == Typing(CodeOf(Frame), ints)
  <1> HIDE DEF pt
  <1>3. /\ pt[Frame.done + 1] = After(CodeOf(Frame)[Frame.done + 1], pt[Frame.done], ints)
        /\ Fits(CodeOf(Frame)[Frame.done + 1], pt[Frame.done], ints)
        /\ pt[Frame.done + 1] \in Points
    BY <1>1, <1>2 DEF IsTyping, pt
  <1> QED
    BY <1>3 DEF Here, There, InstrDue, pt

\* What an instruction is to make of the stack and the variables.
Reaches(m, ints) ==
  /\ m.fault # "underflow"
  /\ m.fault = "none" =>
       /\ Len(m.stack) = Frame.base + Len(There(ints).stack)
       /\ \A j \in 1 .. Frame.base : m.stack[j] = mem.stack[j]
       /\ \A k \in DOMAIN There(ints).stack :
            There(ints).stack[k].type = "int" => m.stack[Frame.base + k].type = "int_t"
       /\ \A name \in ints \cap DOMAIN m.vars : m.vars[name].type = "int_t"

\* A block takes its next instruction.
LEMMA BlockStep ==
  ASSUME TypeInv, WaitInv, NEW ints, StackInv(ints), Running, kont # <<>>, Frame.kind = "code",
         Frame.done < Len(CodeOf(Frame)), NEW m, Continue(m, InstrDone, GoOn), Reaches(m, ints)
  PROVE  WaitInv' /\ StackInv(ints)'
  <1>0. PICK top \in Nat : top = Len(kont)
    BY Given
  <1>1. /\ mem' = m /\ script' = script /\ kont' = Append(Below, InstrDone) /\ focus'.at = "next"
    BY DEF Continue, Same, GoOn
  <1>2. /\ top \in CodeFrames /\ Frame = kont[top] /\ top \in Nat \ {0}
        /\ Frame \in CodeFramesOf(script) /\ Frame.base \in Nat
        /\ Frame.done \in 0 .. Len(CodeOf(Frame)) /\ Len(CodeOf(Frame)) \in Nat
        /\ HeightsMeet(ints) /\ IntsAreInts(ints) /\ Innermost(top)
    BY <1>0, BlockFacts
  <1>3. /\ Below \in Seq(Frames(script, Len(mem.heap))) /\ Len(Below) = top - 1
        /\ \A i \in 1 .. top - 1 : Below[i] = kont[i]
    BY <1>0, Given, TopAndBelow
  <1>4. /\ InstrDone.kind = "code" /\ InstrDone.node = Frame.node
        /\ InstrDone.base = Frame.base /\ InstrDone.done = Frame.done + 1
    BY <1>2 DEF InstrDone, CodeFramesOf
  <1>5. /\ Len(kont') = top /\ kont'[top] = InstrDone
        /\ \A i \in 1 .. top - 1 : kont'[i] = kont[i]
        /\ DOMAIN kont' = 1 .. top /\ DOMAIN kont = 1 .. top
    BY <1>0, <1>1, <1>2, <1>3, Given
  <1>6. CodeFrames' = CodeFrames /\ CodeFrames \subseteq 1 .. top
    BY <1>2, <1>4, <1>5 DEF CodeFrames
  <1>7. \A i \in CodeFrames : i # top => kont'[i] = kont[i]
    <2>1. \A i \in 1 .. top : i # top => i \in 1 .. top - 1
      BY <1>2
    <2> QED
      BY <1>5, <1>6, <2>1
  <1>8. \A i \in CodeFrames : kont'[i].base = kont[i].base
    BY <1>2, <1>4, <1>5, <1>7
  <1>9. WaitInv'
    <2> SUFFICES ASSUME NEW i \in 1 .. Len(kont') PROVE WaitsAt(i)'
      BY DEF WaitInv
    <2>1. CASE i = top
      BY <1>1, <1>2, <1>4, <1>5, <2>1 DEF WaitsAt, CodeOf
    <2>2. CASE i # top
      <3>1. i \in 1 .. top - 1 /\ i < Len(kont) /\ kont'[i] = kont[i] /\ i \in 1 .. Len(kont)
        <4>1. i \in 1 .. top
          BY <1>5
        <4>2. i \in 1 .. top - 1 /\ i < top
          BY <1>2, <2>2, <4>1
        <4> QED
          BY <1>0, <1>5, <4>1, <4>2
      <3>2. WaitsAt(i)
        BY <3>1 DEF WaitInv
      <3> QED
        BY <1>1, <1>2, <1>5, <3>1, <3>2 DEF WaitsAt, InvokeDue, CodeOf
    <2> QED
      BY <2>1, <2>2
  <1>10. \A i \in CodeFrames : i # top =>
           CellsOf(i, ints)' = CellsOf(i, ints) /\ Height(i, ints)' = Height(i, ints)
    BY <1>1, <1>7 DEF CellsOf, Height, TypingAt, CodeOf
  <1>11. CellsOf(top, ints)' = There(ints).stack
         /\ Height(top, ints)' = Frame.base + Len(There(ints).stack)
    BY <1>1, <1>4, <1>5 DEF CellsOf, Height, TypingAt, CodeOf, There
  <1>12. ASSUME m.fault = "none" PROVE HeightsMeet(ints)'
    <2>1. Len(m.stack) = Height(top, ints)' /\ Len(m.stack) >= Frame.base
      <3>1. There(ints) \in Points
        BY DueFacts
      <3>2. Len(There(ints).stack) \in Nat
        BY <3>1 DEF Points
      <3> QED
        BY <1>2, <1>11, <1>12, <3>2 DEF Reaches
    <2>2. \A i \in CodeFrames : i # top => i < top
      BY <1>2, <1>6
    <2>3. \A i \in CodeFrames : i # top => Frame.base >= Height(i, ints)
      BY <1>2, <2>2 DEF HeightsMeet
    <2>4. \A i \in CodeFrames : Innermost(i)' => i = top
      BY <1>2, <1>6, <2>2 DEF Innermost
    <2>5. \A i \in CodeFrames : Len(m.stack) >= Height(i, ints)'
      <3> SUFFICES ASSUME NEW i \in CodeFrames PROVE Len(m.stack) >= Height(i, ints)'
        OBVIOUS
      <3>1. CASE i = top
        <4>1. Len(m.stack) \in Int
          <5>1. There(ints) \in Points
            BY DueFacts
          <5> QED
            BY <1>2, <1>12, <5>1 DEF Points, Reaches
        <4> QED
          BY <1>1, <1>11, <1>12, <3>1, <4>1 DEF Reaches
      <3>2. CASE i # top
        <4>1. Height(i, ints)' = Height(i, ints) /\ Frame.base >= Height(i, ints)
          BY <1>10, <2>3, <3>2
        <4>2. Height(i, ints) \in Nat
          BY FrameFacts
        <4>3. Len(m.stack) \in Nat
          BY <1>2, <1>12, DueFacts DEF Points, Reaches
        <4> QED
          BY <1>2, <2>1, <4>1, <4>2, <4>3
      <3> QED
        BY <3>1, <3>2
    <2>6. \A i, j \in CodeFrames : Within(i, j)' <=> Within(i, j)
      BY <1>6 DEF Within
    <2>7. \A i \in CodeFrames : Outermost(i)' <=> Outermost(i)
      BY <1>6 DEF Outermost
    <2>8. \A i, j \in CodeFrames : i < j => i # top
      BY <1>2, <1>6
    <2>9. \A i, j \in CodeFrames : Within(i, j)' => kont'[j].base = Height(i, ints)'
      <3> SUFFICES ASSUME NEW i \in CodeFrames, NEW j \in CodeFrames, Within(i, j)'
                   PROVE  kont'[j].base = Height(i, ints)'
        OBVIOUS
      <3>1. Within(i, j) /\ i # top
        BY <2>6, <2>8 DEF Within
      <3> QED
        BY <1>2, <1>8, <1>10, <3>1 DEF HeightsMeet
    <2>10. \A i, j \in CodeFrames : i < j => kont'[j].base >= Height(i, ints)'
      BY <1>2, <1>8, <1>10, <2>8 DEF HeightsMeet
    <2>11. \A i \in CodeFrames : Outermost(i)' => kont'[i].base = 0
      BY <1>2, <1>8, <2>7 DEF HeightsMeet
    <2>12. \A i \in CodeFrames : Innermost(i)' => Len(mem'.stack) = Height(i, ints)'
      BY <1>1, <2>1, <2>4
    <2> QED
      BY <1>1, <1>2, <1>6, <2>5, <2>9, <2>10, <2>11, <2>12 DEF HeightsMeet
  <1>13. ASSUME m.fault = "none" PROVE IntsAreInts(ints)'
    <2>1. ASSUME NEW i \in CodeFrames, NEW k \in DOMAIN (CellsOf(i, ints)'),
                 CellsOf(i, ints)'[k].type = "int"
          PROVE  m.stack[kont[i].base + k].type = "int_t"
      <3>1. CASE i = top
        BY <1>2, <1>11, <1>13, <2>1, <3>1 DEF Reaches
      <3>2. CASE i # top
        <4>1. /\ CellsOf(i, ints)' = CellsOf(i, ints) /\ i < top
              /\ kont[i].base \in Nat /\ k \in 1 .. Len(CellsOf(i, ints))
              /\ Len(CellsOf(i, ints)) \in Nat
          BY <1>2, <1>6, <1>10, <2>1, <3>2, FrameFacts
        <4>2. Frame.base >= kont[i].base + Len(CellsOf(i, ints))
          BY <1>2, <2>1, <4>1 DEF HeightsMeet, Height
        <4>3. kont[i].base + k \in 1 .. Frame.base
          BY <1>2, <4>1, <4>2
        <4>4. mem.stack[kont[i].base + k].type = "int_t"
          BY <1>2, <2>1, <4>1 DEF IntsAreInts
        <4> QED
          BY <1>13, <4>3, <4>4 DEF Reaches
      <3> QED
        BY <3>1, <3>2
    <2> QED
      <3>1. \A i \in CodeFrames' : \A k \in DOMAIN (CellsOf(i, ints)') :
              CellsOf(i, ints)'[k].type = "int" => mem'.stack[kont'[i].base + k].type = "int_t"
        BY <1>1, <1>6, <1>8, <2>1
      <3>2. \A name \in ints \cap DOMAIN mem'.vars : mem'.vars[name].type = "int_t"
        BY <1>1, <1>13 DEF Reaches
      <3> QED
        BY <3>1, <3>2 DEF IntsAreInts
  <1>14. TypedWith(script, ints)' /\ mem'.fault # "underflow"
    BY <1>1 DEF StackInv, Reaches
  <1> QED
    BY <1>1, <1>9, <1>12, <1>13, <1>14 DEF StackInv, NoFault

\* A block ends: its cells are gone.
LEMMA BlockEnd ==
  ASSUME TypeInv, WaitInv, NEW ints, StackInv(ints), Running, kont # <<>>, Frame.kind = "code",
         NEW m, NEW p, Leave(m, p), m.fault # "underflow",
         m.fault = "none" => /\ m.stack = SubSeq(mem.stack, 1, Frame.base)
                             /\ m.vars = mem.vars
  PROVE  WaitInv' /\ StackInv(ints)'
  <1>0. PICK top \in Nat : top = Len(kont)
    BY Given
  <1>1. /\ mem' = m /\ script' = script /\ kont' = Below /\ focus'.at = "return"
    BY DEF Leave, Same, Return
  <1>2. /\ top \in CodeFrames /\ Frame = kont[top] /\ top \in Nat \ {0}
        /\ Frame.base \in Nat /\ HeightsMeet(ints) /\ IntsAreInts(ints) /\ Innermost(top)
        /\ Here(ints) \in Points /\ Len(mem.stack) = Frame.base + Len(Here(ints).stack)
    BY <1>0, BlockFacts
  <1>3. /\ Len(kont') = top - 1 /\ DOMAIN kont' = 1 .. top - 1 /\ DOMAIN kont = 1 .. top
        /\ \A i \in 1 .. top - 1 : kont'[i] = kont[i]
    BY <1>0, <1>1, <1>2, Given, TopAndBelow
  <1>4. CodeFrames' = CodeFrames \ {top} /\ \A i \in CodeFrames' : kont'[i] = kont[i]
    <2>1. \A i \in 1 .. top : i # top <=> i \in 1 .. top - 1
      BY <1>2
    <2> QED
      BY <1>3, <2>1 DEF CodeFrames
  <1>5. WaitInv'
    <2> SUFFICES ASSUME NEW i \in 1 .. Len(kont') PROVE WaitsAt(i)'
      BY DEF WaitInv
    <2>1. i \in 1 .. Len(kont) /\ i < Len(kont) /\ kont'[i] = kont[i]
      BY <1>0, <1>2, <1>3
    <2>2. WaitsAt(i)
      BY <2>1 DEF WaitInv
    <2> QED
      BY <1>1, <2>1, <2>2 DEF WaitsAt, InvokeDue, CodeOf
  <1>6. \A i \in CodeFrames' : CellsOf(i, ints)' = CellsOf(i, ints)
                               /\ Height(i, ints)' = Height(i, ints)
    BY <1>1, <1>4 DEF CellsOf, Height, TypingAt, CodeOf
  <1>7. ASSUME m.fault = "none" PROVE HeightsMeet(ints)' /\ IntsAreInts(ints)'
    <2>1. /\ Len(m.stack) = Frame.base /\ (Frame.base = 0 => m.stack = <<>>)
          /\ \A j \in 1 .. Frame.base : m.stack[j] = mem.stack[j]
      <3>1. Frame.base \in 0 .. Len(mem.stack) /\ mem.stack \in Seq(Cells(Len(mem.heap)))
        BY <1>2, Given DEF Points, IsMemory
      <3> QED
        BY <1>7, <3>1, PrefixOf
    <2>2. \A i \in CodeFrames' : i \in CodeFrames /\ i < top /\ i # top
      <3>1. \A i \in CodeFrames : i \in Nat
        BY <1>3 DEF CodeFrames
      <3> QED
        BY <1>2, <1>4, <3>1 DEF Innermost
    <2>3. \A i \in CodeFrames' : Innermost(i)' => Within(i, top)
      BY <1>2, <1>4, <2>2 DEF Innermost, Within, CodeFrames
    <2>4. \A i \in CodeFrames' : Innermost(i)' => Len(mem'.stack) = Height(i, ints)'
      BY <1>1, <1>2, <1>6, <2>1, <2>2, <2>3 DEF HeightsMeet
    <2>5. \A i, j \in CodeFrames' : Within(i, j)' => Within(i, j)
      BY <1>2, <1>4, <2>2 DEF Within
    <2>6. \A i, j \in CodeFrames' : Within(i, j)' => kont'[j].base = Height(i, ints)'
      BY <1>4, <1>6, <2>2, <2>5, <1>2 DEF HeightsMeet
    <2>7. \A i, j \in CodeFrames' : i < j => kont'[j].base >= Height(i, ints)'
      BY <1>2, <1>4, <1>6, <2>2 DEF HeightsMeet
    <2>8. \A i \in CodeFrames' : Len(mem'.stack) >= Height(i, ints)'
      BY <1>1, <1>2, <1>6, <2>1, <2>2 DEF HeightsMeet
    <2>9. \A i \in CodeFrames' : Outermost(i)' => kont'[i].base = 0
      <3>1. \A i \in CodeFrames' : Outermost(i)' => Outermost(i)
        BY <1>2, <1>4, <2>2 DEF Outermost
      <3> QED
        BY <1>2, <1>4, <2>2, <3>1 DEF HeightsMeet
    <2>10. CodeFrames' = {} => mem'.stack = <<>>
      <3>1. CodeFrames' = {} => Outermost(top)
        BY <1>2, <1>4 DEF Outermost, CodeFrames
      <3> QED
        BY <1>1, <1>2, <2>1, <3>1 DEF HeightsMeet
    <2>11. HeightsMeet(ints)'
      BY <2>4, <2>6, <2>7, <2>8, <2>9, <2>10 DEF HeightsMeet
    <2>12. \A i \in CodeFrames' : \A k \in DOMAIN (CellsOf(i, ints)') :
             CellsOf(i, ints)'[k].type = "int" => mem'.stack[kont'[i].base + k].type = "int_t"
      <3> SUFFICES ASSUME NEW i \in CodeFrames', NEW k \in DOMAIN (CellsOf(i, ints)'),
                          CellsOf(i, ints)'[k].type = "int"
                   PROVE  mem'.stack[kont'[i].base + k].type = "int_t"
        OBVIOUS
      <3>1. i \in CodeFrames /\ i < top /\ CellsOf(i, ints)' = CellsOf(i, ints)
            /\ kont'[i] = kont[i]
        BY <1>4, <1>6, <2>2
      <3>2. kont[i].base \in Nat /\ k \in 1 .. Len(CellsOf(i, ints))
            /\ Len(CellsOf(i, ints)) \in Nat
        BY <3>1, FrameFacts
      <3>3. Frame.base >= kont[i].base + Len(CellsOf(i, ints))
        BY <1>2, <3>1 DEF HeightsMeet, Height
      <3>4. kont[i].base + k \in 1 .. Frame.base
        BY <1>2, <3>2, <3>3
      <3>5. mem.stack[kont[i].base + k].type = "int_t"
        BY <1>2, <3>1 DEF IntsAreInts
      <3> QED
        BY <1>1, <2>1, <3>1, <3>4, <3>5
    <2>13. \A name \in ints \cap DOMAIN mem'.vars : mem'.vars[name].type = "int_t"
      BY <1>1, <1>2, <1>7 DEF IntsAreInts
    <2>14. IntsAreInts(ints)'
      BY <2>12, <2>13 DEF IntsAreInts
    <2> QED
      BY <2>11, <2>14
  <1>8. TypedWith(script, ints)' /\ mem'.fault # "underflow"
    BY <1>1 DEF StackInv
  <1> QED
    BY <1>1, <1>5, <1>7, <1>8 DEF StackInv, NoFault

\* A block is entered.
LEMMA BlockStart ==
  ASSUME TypeInv, WaitInv, NEW ints, StackInv(ints), Running, Code
  PROVE  WaitInv' /\ StackInv(ints)'
  <1> DEFINE f == [kind |-> "code", node |-> focus.node, done |-> 0, base |-> Len(mem.stack)]
  <1>0. PICK top \in Nat : top = Len(kont) + 1
    BY Given
  <1>1. /\ focus.at = "atom" /\ Node.type = "code" /\ mem' = mem /\ script' = script
        /\ kont' = Append(kont, f) /\ focus'.at = "next"
    BY DEF Code, IsAtom, Call, Same, GoOn
  <1>2. f.kind = "code" /\ f.node = focus.node /\ f.done = 0 /\ f.base = Len(mem.stack)
    OBVIOUS
  <1> HIDE DEF f
  <1>3. /\ Len(kont') = top /\ kont'[top] = f /\ DOMAIN kont' = 1 .. top
        /\ DOMAIN kont = 1 .. top - 1 /\ top \in Nat \ {0}
        /\ \A i \in 1 .. top - 1 : kont'[i] = kont[i]
    BY <1>0, <1>1, Given
  <1>4. /\ CodeFrames' = CodeFrames \cup {top} /\ \A i \in CodeFrames : kont'[i] = kont[i]
        /\ \A i \in CodeFrames : i \in Nat /\ i < top /\ i # top
    <2>1. \A i \in 1 .. top : i = top \/ i \in 1 .. top - 1
      BY <1>3
    <2>2. \A i \in 1 .. top - 1 : i \in Nat /\ i < top /\ i # top /\ i \in 1 .. top
      BY <1>3
    <2> QED
      BY <1>2, <1>3, <2>1, <2>2 DEF CodeFrames
  <1>5. Len(CodeOf(f)) \in Nat /\ Typing(CodeOf(f), ints)[0] = AtEntry
    <2>1. f.node \in Blocks(script)
      BY <1>1, <1>2, GivenAtom DEF Blocks
    <2>2. IsTyping(Typing(CodeOf(f), ints), CodeOf(f), ints)
      BY <2>1 DEF StackInv, TypedWith, CodeOf
    <2>3. CodeOf(f) \in Seq({instr \in ToSet(CodeOf(f)) : IsInstruction(instr)})
      BY <2>1, Given DEF CodeOf, IsScript, IsNode, Blocks
    <2> QED
      BY <2>2, <2>3 DEF IsTyping
  <1>6. WaitInv'
    <2> SUFFICES ASSUME NEW i \in 1 .. Len(kont') PROVE WaitsAt(i)'
      BY DEF WaitInv
    <2>1. CASE i = top
      BY <1>1, <1>2, <1>3, <1>5, <2>1 DEF WaitsAt, CodeOf
    <2>2. CASE i # top
      <3>1. i \in 1 .. Len(kont) /\ kont'[i] = kont[i]
        BY <1>0, <1>3, <2>2
      <3>2. WaitsAt(i)
        BY <3>1 DEF WaitInv
      <3>3. i = Len(kont) => kont[i].kind # "code"
        BY <1>1, <3>1, Given, NoCodeUnderAtom DEF Frame
      <3>4. i < Len(kont) \/ i = Len(kont)
        BY <1>0, <3>1
      <3> QED
        BY <1>1, <3>1, <3>2, <3>3, <3>4 DEF WaitsAt, InvokeDue, CodeOf
    <2> QED
      BY <2>1, <2>2
  <1>7. CellsOf(top, ints)' = <<>> /\ Height(top, ints)' = Len(mem.stack)
    <2>1. CellsOf(top, ints)' = <<>>
      BY <1>1, <1>2, <1>3, <1>5 DEF CellsOf, TypingAt, CodeOf, AtEntry
    <2> QED
      BY <1>2, <1>3, <2>1, Given DEF Height, IsMemory
  <1>8. \A i \in CodeFrames : CellsOf(i, ints)' = CellsOf(i, ints)
                              /\ Height(i, ints)' = Height(i, ints)
    BY <1>1, <1>4 DEF CellsOf, Height, TypingAt, CodeOf
  <1>9. HeightsMeet(ints) /\ IntsAreInts(ints)
    BY DEF StackInv, NoFault, Running
  <1>10. HeightsMeet(ints)'
    <2>1. \A i \in CodeFrames' : Innermost(i)' => i = top
      BY <1>3, <1>4 DEF Innermost
    <2>2. \A i \in CodeFrames : Within(i, top)' => Innermost(i)
      BY <1>3, <1>4 DEF Innermost, Within
    <2>3. \A i, j \in CodeFrames : Within(i, j)' => Within(i, j)
      BY <1>3, <1>4 DEF Within
    <2>4. \A i \in CodeFrames' : Innermost(i)' => Len(mem'.stack) = Height(i, ints)'
      BY <1>1, <1>7, <2>1
    <2>5. \A i, j \in CodeFrames' : Within(i, j)' => kont'[j].base = Height(i, ints)'
      <3> SUFFICES ASSUME NEW i \in CodeFrames', NEW j \in CodeFrames', Within(i, j)'
                   PROVE  kont'[j].base = Height(i, ints)'
        OBVIOUS
      <3>1. i \in CodeFrames
        BY <1>3, <1>4 DEF Within
      <3> QED
        BY <1>2, <1>3, <1>4, <1>8, <1>9, <2>2, <2>3, <3>1 DEF HeightsMeet
    <2>6. \A i, j \in CodeFrames' : i < j => kont'[j].base >= Height(i, ints)'
      <3> SUFFICES ASSUME NEW i \in CodeFrames', NEW j \in CodeFrames', i < j
                   PROVE  kont'[j].base >= Height(i, ints)'
        OBVIOUS
      <3>1. i \in CodeFrames
        BY <1>3, <1>4
      <3> QED
        BY <1>2, <1>3, <1>4, <1>8, <1>9, <3>1 DEF HeightsMeet
    <2>7. \A i \in CodeFrames' : Len(mem'.stack) >= Height(i, ints)'
      <3>1. Len(mem.stack) \in Nat
        BY Given DEF IsMemory
      <3> QED
        BY <1>1, <1>4, <1>7, <1>8, <1>9, <3>1 DEF HeightsMeet
    <2>8. \A i \in CodeFrames' : Outermost(i)' => kont'[i].base = 0
      <3>1. Outermost(top)' => CodeFrames = {}
        BY <1>3, <1>4 DEF Outermost
      <3>2. \A i \in CodeFrames : Outermost(i)' => Outermost(i)
        BY <1>3, <1>4 DEF Outermost
      <3> QED
        BY <1>2, <1>3, <1>4, <1>9, <3>1, <3>2 DEF HeightsMeet
    <2>9. CodeFrames' # {}
      BY <1>4
    <2> QED
      BY <2>4, <2>5, <2>6, <2>7, <2>8, <2>9 DEF HeightsMeet
  <1>11. IntsAreInts(ints)'
    <2>1. \A i \in CodeFrames' : \A k \in DOMAIN (CellsOf(i, ints)') :
             CellsOf(i, ints)'[k].type = "int" => mem'.stack[kont'[i].base + k].type = "int_t"
      <3> SUFFICES ASSUME NEW i \in CodeFrames', NEW k \in DOMAIN (CellsOf(i, ints)'),
                          CellsOf(i, ints)'[k].type = "int"
                   PROVE  mem'.stack[kont'[i].base + k].type = "int_t"
        OBVIOUS
      <3>1. i # top
        BY <1>7
      <3>2. i \in CodeFrames
        BY <1>4, <3>1
      <3> QED
        BY <1>1, <1>4, <1>8, <1>9, <3>2 DEF IntsAreInts
    <2>2. \A name \in ints \cap DOMAIN mem'.vars : mem'.vars[name].type = "int_t"
      BY <1>1, <1>9 DEF IntsAreInts
    <2> QED
      BY <2>1, <2>2 DEF IntsAreInts
  <1>12. TypedWith(script, ints)' /\ mem'.fault # "underflow"
    BY <1>1 DEF StackInv
  <1> QED
    BY <1>6, <1>10, <1>11, <1>12 DEF StackInv
-----------------------------------------------------------------------------
\* The faults of an operation on a stack that has the cells it takes.
LEMMA FaultsMild ==
  ASSUME NEW m, NEW m2, Mild(m, m2), m.fault # "underflow"
  PROVE  m2.fault # "underflow"
  BY DEF Mild, TextFaults

\* A push does not pop.
LEMMA PushDry ==
  ASSUME NEW m, IsMemory(m), NEW cell, m.fault # "underflow"
  PROVE  Push(m, cell).fault # "underflow"
  BY DEF Push, Fail, IsMemory

\* A push that does not fail adds its cell.
LEMMA PushAdds ==
  ASSUME NEW m, IsMemory(m), NEW cell \in Cells(Len(m.heap)), Push(m, cell).fault = "none"
  PROVE  Push(m, cell).stack = Append(m.stack, cell)
  <1>1. CASE Len(m.stack) < StackSize
    BY <1>1, PushMemory
  <1>2. CASE Len(m.stack) = StackSize
    <2>1. Push(m, cell) = Fail(m, "overflow")
      BY <1>2, PushMemory
    <2>2. Fail(m, "overflow").fault # "none"
      BY FailIsFault DEF Faults
    <2> QED
      BY <2>1, <2>2
  <1> QED
    BY <1>1, <1>2, StackAssumption DEF IsMemory

\* concat() does not pop.
LEMMA ConcatDry ==
  ASSUME NEW m, IsMemory(m), NEW a, NEW b, m.fault # "underflow"
  PROVE  Concat(m, a, b).fault # "underflow"
  <1> DEFINE readA == IF a = Null THEN m ELSE Read(m, a)
             readB == IF b = Null THEN readA ELSE Read(readA, b)
             joined == Alloc(readB, TextAt(m, a) \o TextAt(m, b))
  <1>1. IsMemory(readA) /\ readA.fault # "underflow"
    BY ReadMemory, ReadMild, FaultsMild
  <1>2. IsMemory(readB) /\ readB.fault # "underflow"
    <2> HIDE DEF readA
    <2>1. IsMemory(Read(readA, b)) /\ Read(readA, b).fault # "underflow"
      BY <1>1, ReadMemory, ReadMild, FaultsMild
    <2> QED
      BY <1>1, <2>1
  <1>3. Concat(m, a, b) = m \/ Concat(m, a, b) = joined
    BY DEF Concat
  <1> HIDE DEF readB
  <1>4. joined.fault # "underflow"
    BY <1>2, AllocMemory
  <1> QED
    BY <1>3, <1>4

\* ADD with a text operand pops no more than it finds.
LEMMA JoinDry ==
  ASSUME NEW m, IsMemory(m), NEW left \in Cells(Len(m.heap)), NEW right \in Cells(Len(m.heap)),
         Len(m.stack) < StackSize, m.fault # "underflow"
  PROVE  Join(m, left, right).fault # "underflow"
  <1> DEFINE m0 == AsText(m, right)
             m1 == AsText(m0, left)
             s0 == TextOf(m0, right)
             s1 == TextOf(m1, left)
             m2 == Concat(m1, s1, s0)
             s  == IF s0 = Null /\ s1 = Null THEN Null ELSE Newest(m2)
             m3 == Push(m2, StrCell(s))
             m4 == Free(m3, s0)
  <1>0. Join(m, left, right) = Free(m4, s1)
    BY DEF Join
  <1>1. Len(m.heap) \in Nat
    BY DEF IsMemory, IsHeap
  <1>2. /\ IsMemory(m0) /\ s0 \in 0 .. Len(m0.heap) /\ m0.stack = m.stack
        /\ m0.fault = m.fault /\ Len(m0.heap) \in Nat /\ Len(m.heap) <= Len(m0.heap)
    BY <1>1, AsTextMemory
  <1>3. left \in Cells(Len(m0.heap))
    <2> HIDE DEF m0
    <2> QED BY <1>1, <1>2, MonoCells
  <1> HIDE DEF m0, s0
  <1>4. /\ IsMemory(m1) /\ s1 \in 0 .. Len(m1.heap) /\ m1.stack = m.stack
        /\ m1.fault = m.fault /\ Len(m1.heap) \in Nat /\ Len(m0.heap) <= Len(m1.heap)
    BY <1>2, <1>3, AsTextMemory
  <1> HIDE DEF m1, s1
  <1>5. s0 \in 0 .. Len(m1.heap)
    BY <1>2, <1>4
  <1>6. /\ IsMemory(m2) /\ m2.stack = m.stack /\ m2.fault # "underflow"
        /\ IF s0 = Null /\ s1 = Null THEN Len(m2.heap) = Len(m1.heap)
           ELSE Len(m2.heap) = Len(m1.heap) + 1
    BY <1>4, <1>5, ConcatMemory, ConcatDry
  <1> HIDE DEF m2
  <1>7. s \in 0 .. Len(m2.heap) /\ s0 \in 0 .. Len(m2.heap) /\ s1 \in 0 .. Len(m2.heap)
    BY <1>1, <1>2, <1>4, <1>5, <1>6 DEF Newest, Null
  <1> HIDE DEF s
  <1>8. StrCell(s) \in Cells(Len(m2.heap))
    BY <1>7 DEF StrCell, Cells, StrCells
  <1>9. IsMemory(m3) /\ m3.fault # "underflow" /\ m3.heap = m2.heap
    BY <1>6, <1>8, PushMemory, PushDry
  <1> HIDE DEF m3
  <1>10. IsMemory(m4) /\ m4.fault # "underflow" /\ Len(m4.heap) = Len(m2.heap)
    <2>1. IsMemory(m4) /\ Mild(m3, m4) /\ Len(m4.heap) = Len(m2.heap)
      BY <1>7, <1>9, FreeMemory, FreeMild
    <2> HIDE DEF m4
    <2> QED
      BY <1>9, <2>1, FaultsMild
  <1> HIDE DEF m4
  <1>11. Mild(m4, Free(m4, s1))
    BY <1>10, FreeMild
  <1> QED
    BY <1>0, <1>10, <1>11, FaultsMild

\* An operator pops no more than the two cells that are there.
LEMMA OperateDry ==
  ASSUME NEW m, IsMemory(m), NEW op, NEW m2 \in Operate(m, op), Len(m.stack) >= 2,
         m.fault # "underflow"
  PROVE  m2.fault # "underflow"
  <1> DEFINE left == Cell(m, 2)
             right == Cell(m, 1)
             popped == Pop(m, 2)
  <1>1. /\ IsMemory(popped) /\ popped.fault = m.fault /\ popped.heap = m.heap
        /\ popped.stack = SubSeq(m.stack, 1, Len(m.stack) - 2)
        /\ Len(m.stack) \in Nat /\ m.stack \in Seq(Cells(Len(m.heap)))
        /\ Len(m.stack) <= StackSize
    BY PopMemory DEF IsMemory
  <1>2. Len(popped.stack) < StackSize
    BY <1>1, PrefixOf, StackAssumption
  <1>3. left \in Cells(Len(m.heap)) /\ right \in Cells(Len(m.heap))
    BY <1>1, CellOnStack
  <1>4. \/ m2 = popped \/ m2 = Fail(popped, "trap")
        \/ \E r \in Results(op, left.v, right.v) : m2 = Push(popped, IntCell(r))
        \/ m2 = Join(popped, left, right)
    BY <1>1 DEF Operate
  <1> HIDE DEF popped, left, right
  <1>5. Fail(popped, "trap").fault # "underflow"
    BY <1>1 DEF Fail, IsMemory
  <1>6. Join(popped, left, right).fault # "underflow"
    BY <1>1, <1>2, <1>3, JoinDry
  <1> QED
    BY <1>1, <1>4, <1>5, <1>6, PushDry

\* The cells that an instruction takes off are the last ones.
LEMMA TakenCells ==
  ASSUME NEW S, NEW cells \in Seq(S), NEW n \in 1 .. Len(cells),
         AreInts(SubSeq(cells, Len(cells) + 1 - n, Len(cells)))
  PROVE  \A i \in Len(cells) + 1 - n .. Len(cells) : cells[i].type = "int"
  <1> DEFINE from == Len(cells) + 1 - n
             tail == SubSeq(cells, from, Len(cells))
  <1>1. /\ from \in 1 .. Len(cells) /\ Len(cells) \in Nat
    OBVIOUS
  <1>2. /\ DOMAIN tail = 1 .. n /\ \A i \in 1 .. n : tail[i] = cells[from - 1 + i]
    BY <1>1
  <1> SUFFICES ASSUME NEW i \in from .. Len(cells) PROVE cells[i].type = "int"
    OBVIOUS
  <1>3. i - from + 1 \in 1 .. n /\ from - 1 + (i - from + 1) = i
    BY <1>1
  <1> HIDE DEF tail, from
  <1>4. tail[i - from + 1].type = "int"
    BY <1>2, <1>3 DEF AreInts, tail, from
  <1> QED
    BY <1>2, <1>3, <1>4

\* What stays of the cells of a block, and of the stack.
LEMMA RestCells ==
  ASSUME TypeInv, WaitInv, NEW ints, StackInv(ints), Running, kont # <<>>, Frame.kind = "code",
         Frame.done < Len(CodeOf(Frame)), NEW n \in {0, 1, 2}, n = Pops(InstrDue.op)
  PROVE  /\ Len(Here(ints).stack) \in Nat /\ n <= Len(Here(ints).stack) /\ n <= Len(mem.stack)
         /\ Len(mem.stack) \in Nat
         /\ Rest(InstrDue, Here(ints)) \in Seq([type : {"int", "any"}, of : STRING])
         /\ Len(Rest(InstrDue, Here(ints))) = Len(Here(ints).stack) - n
         /\ \A k \in 1 .. Len(Here(ints).stack) - n : /\ k \in DOMAIN Here(ints).stack
              /\ Rest(InstrDue, Here(ints))[k] = Here(ints).stack[k]
         /\ Top(mem, n) \in Seq(Cells(Len(mem.heap)))
         /\ Len(Top(mem, n)) = Frame.base + Len(Here(ints).stack) - n
         /\ \A j \in 1 .. Frame.base + Len(Here(ints).stack) - n : Top(mem, n)[j] = mem.stack[j]
         /\ AreInts(Taken(InstrDue, Here(ints))) =>
              \A i \in 1 .. n : Cell(mem, i).type = "int_t"
  <1> DEFINE cells == Here(ints).stack
             S == [type : {"int", "any"}, of : STRING]
  <1>1. /\ cells \in Seq(S) /\ Frame.base \in Nat /\ Len(mem.stack) = Frame.base + Len(cells)
        /\ \A k \in DOMAIN cells : cells[k].type = "int" => mem.stack[Frame.base + k].type = "int_t"
    BY BlockFacts DEF Points
  <1>2. mem.stack \in Seq(Cells(Len(mem.heap)))
    BY Given DEF IsMemory
  <1>3. n <= Len(cells)
    BY DueFacts DEF Fits
  <1> HIDE DEF cells, S
  <1>4. Len(cells) \in Nat /\ DOMAIN cells = 1 .. Len(cells) /\ Len(cells) - n \in 0 .. Len(cells)
    BY <1>1, <1>3
  <1>5. /\ SubSeq(cells, 1, Len(cells) - n) \in Seq(S)
        /\ Len(SubSeq(cells, 1, Len(cells) - n)) = Len(cells) - n
        /\ \A k \in 1 .. Len(cells) - n : SubSeq(cells, 1, Len(cells) - n)[k] = cells[k]
    BY <1>1, <1>4, PrefixOf
  <1>6. Rest(InstrDue, Here(ints)) = SubSeq(cells, 1, Len(cells) - n)
    BY DEF Rest, cells
  <1>7. Len(mem.stack) - n \in 0 .. Len(mem.stack) /\ n <= Len(mem.stack)
    BY <1>1, <1>3, <1>4
  <1>8. /\ Top(mem, n) \in Seq(Cells(Len(mem.heap))) /\ Len(Top(mem, n)) = Len(mem.stack) - n
        /\ \A j \in 1 .. Len(mem.stack) - n : Top(mem, n)[j] = mem.stack[j]
    BY <1>2, <1>7, PrefixOf DEF Top
  <1>9. ASSUME AreInts(Taken(InstrDue, Here(ints))), NEW i \in 1 .. n
        PROVE  Cell(mem, i).type = "int_t"
    <2>1. AreInts(SubSeq(cells, Len(cells) + 1 - n, Len(cells)))
      BY <1>9 DEF Taken, cells
    <2>2. n \in 1 .. Len(cells)
      BY <1>3, <1>4
    <2>3. \A k \in Len(cells) + 1 - n .. Len(cells) : cells[k].type = "int"
      BY <1>1, <2>1, <2>2, TakenCells
    <2>4. /\ Len(cells) + 1 - i \in Len(cells) + 1 - n .. Len(cells)
          /\ Len(cells) + 1 - i \in DOMAIN cells
          /\ Frame.base + (Len(cells) + 1 - i) = Len(mem.stack) + 1 - i
      <3>1. i \in Nat /\ n \in Nat /\ 1 <= i /\ i <= n /\ n <= Len(cells)
        BY <1>3, <1>9
      <3>2. Len(cells) + 1 - i \in Len(cells) + 1 - n .. Len(cells)
        BY <1>4, <3>1
      <3>3. Len(cells) + 1 - i \in DOMAIN cells
        BY <1>4, <3>1
      <3>4. Frame.base \in Nat /\ Len(mem.stack) = Frame.base + Len(cells)
        BY <1>1
      <3>5. Frame.base + (Len(cells) + 1 - i) = Len(mem.stack) + 1 - i
        BY <1>4, <3>1, <3>4
      <3> QED
        BY <3>2, <3>3, <3>5
    <2>5. mem.stack[Frame.base + (Len(cells) + 1 - i)].type = "int_t"
      BY <1>1, <2>3, <2>4
    <2> QED
      BY <2>4, <2>5 DEF Cell
  <1>10. \A k \in 1 .. Len(cells) - n : k \in DOMAIN cells
    BY <1>4
  <1>11. Len(mem.stack) - n = Frame.base + Len(cells) - n
    BY <1>1, <1>4
  <1>12. Len(mem.stack) \in Nat
    BY <1>2
  <1>13. /\ Rest(InstrDue, Here(ints)) \in Seq(S)
         /\ Len(Rest(InstrDue, Here(ints))) = Len(cells) - n
         /\ \A k \in 1 .. Len(cells) - n : k \in DOMAIN cells
                                      /\ Rest(InstrDue, Here(ints))[k] = cells[k]
    BY <1>5, <1>6, <1>10
  <1>14. /\ Len(Top(mem, n)) = Frame.base + Len(cells) - n
         /\ \A j \in 1 .. Frame.base + Len(cells) - n : Top(mem, n)[j] = mem.stack[j]
    BY <1>8, <1>11
  <1> QED
    BY <1>3, <1>4, <1>7, <1>8, <1>9, <1>12, <1>13, <1>14 DEF cells, S

\* What SET does to a stack that is not empty.
LEMMA SetEffect ==
  ASSUME NEW m, IsMemory(m), NEW name, Len(m.stack) >= 1
  PROVE  /\ Set(m, name).fault = m.fault /\ Set(m, name).stack = Top(m, 1)
         /\ DOMAIN Set(m, name).vars = DOMAIN m.vars \cup {name}
         /\ \A n \in DOMAIN Set(m, name).vars :
              IF n = name THEN Set(m, name).vars[n] = Cell(m, 1)
              ELSE n \in DOMAIN m.vars /\ Set(m, name).vars[n] = m.vars[n]
  <1> DEFINE popped == Pop(m, 1)
  <1>1. /\ IsMemory(popped) /\ popped.fault = m.fault /\ popped.vars = m.vars
        /\ popped.stack = Top(m, 1)
    BY PopMemory DEF Top
  <1>2. Set(m, name) = VarPut(popped, name, Cell(m, 1))
    BY DEF Set
  <1> HIDE DEF popped
  <1> QED
    BY <1>1, <1>2 DEF VarPut, IsMemory

\* SET moves its cell into the variable.
LEMMA SetReaches ==
  ASSUME TypeInv, WaitInv, NEW ints, StackInv(ints), Running, kont # <<>>, Frame.kind = "code",
         Frame.done < Len(CodeOf(Frame)), InstrDue.op = "SET"
  PROVE  Reaches(Set(mem, InstrDue.name), ints)
  <1> DEFINE m == Set(mem, InstrDue.name)
             name == InstrDue.name
             rest == Rest(InstrDue, Here(ints))
             h == Here(ints)
             t == There(ints)
  <1>1. Pops(InstrDue.op) = 1
    BY DEF Pops, Operators
  <1>2. /\ Len(h.stack) \in Nat /\ 1 <= Len(h.stack) /\ 1 <= Len(mem.stack)
        /\ rest \in Seq([type : {"int", "any"}, of : STRING])
        /\ Len(rest) = Len(h.stack) - 1
        /\ \A k \in 1 .. Len(h.stack) - 1 : k \in DOMAIN h.stack /\ rest[k] = h.stack[k]
        /\ Len(Top(mem, 1)) = Frame.base + Len(h.stack) - 1
        /\ \A j \in 1 .. Frame.base + Len(h.stack) - 1 : Top(mem, 1)[j] = mem.stack[j]
        /\ AreInts(Taken(InstrDue, h)) => Cell(mem, 1).type = "int_t"
    <2>1. 1 \in {0, 1, 2} /\ 1 \in 1 .. 1
      OBVIOUS
    <2> QED
      BY <1>1, <2>1, RestCells
  <1>3. t = After(InstrDue, h, ints) /\ Fits(InstrDue, h, ints) /\ t \in Points
    BY DueFacts
  <1>4. t.stack = Released(rest, name)
    BY <1>3 DEF After
  <1>5. /\ DOMAIN t.stack = 1 .. Len(h.stack) - 1 /\ Len(t.stack) = Len(h.stack) - 1
        /\ \A k \in 1 .. Len(h.stack) - 1 : t.stack[k].type = h.stack[k].type
    <2> HIDE DEF rest, h, t, name
    <2>1. DOMAIN rest = 1 .. Len(h.stack) - 1
      BY <1>2
    <2>2. DOMAIN t.stack = 1 .. Len(h.stack) - 1
      BY <1>4, <2>1 DEF Released
    <2>3. \A k \in 1 .. Len(h.stack) - 1 : t.stack[k].type = rest[k].type
      BY <1>4, <2>1 DEF Released, OwnCell
    <2>4. Len(t.stack) = Len(h.stack) - 1
      BY <1>2, <1>3, <2>2 DEF Points
    <2> QED
      BY <1>2, <2>2, <2>3, <2>4
  <1>6. /\ Frame.base \in Nat /\ IntsAreInts(ints)
        /\ \A k \in DOMAIN h.stack :
             h.stack[k].type = "int" => mem.stack[Frame.base + k].type = "int_t"
    BY BlockFacts
  <1>7. m.fault = "none"
    BY <1>2, Given, SetEffect DEF Running
  <1>8. /\ m.stack = Top(mem, 1)
        /\ \A n \in DOMAIN m.vars :
             IF n = name THEN m.vars[n] = Cell(mem, 1)
             ELSE n \in DOMAIN mem.vars /\ m.vars[n] = mem.vars[n]
    BY <1>2, Given, SetEffect
  <1> HIDE DEF m, rest, h, t, name
  <1>9. \A j \in 1 .. Frame.base : m.stack[j] = mem.stack[j]
    <2>1. \A j \in 1 .. Frame.base : j \in 1 .. Frame.base + Len(h.stack) - 1
      BY <1>2, <1>6
    <2> QED
      BY <1>2, <1>8, <2>1
  <1>10. \A k \in DOMAIN t.stack : t.stack[k].type = "int" => m.stack[Frame.base + k].type = "int_t"
    <2> SUFFICES ASSUME NEW k \in DOMAIN t.stack, t.stack[k].type = "int"
                 PROVE  m.stack[Frame.base + k].type = "int_t"
      OBVIOUS
    <2>1. k \in 1 .. Len(h.stack) - 1 /\ Frame.base + k \in 1 .. Frame.base + Len(h.stack) - 1
      BY <1>2, <1>5, <1>6
    <2> QED
      BY <1>2, <1>5, <1>6, <1>8, <2>1
  <1>11. \A n \in ints \cap DOMAIN m.vars : m.vars[n].type = "int_t"
    <2>1. name \in ints => AreInts(Taken(InstrDue, h))
      BY <1>3 DEF Fits, name
    <2> QED
      BY <1>2, <1>6, <1>8, <2>1 DEF IntsAreInts
  <1>12. Len(m.stack) = Frame.base + Len(t.stack)
    BY <1>2, <1>5, <1>6, <1>8
  <1> QED
    BY <1>7, <1>9, <1>10, <1>11, <1>12 DEF Reaches, m, t, name

\* A push puts the cell that is expected on top of those that stay.
LEMMA PushReaches ==
  ASSUME TypeInv, WaitInv, NEW ints, StackInv(ints), Running, kont # <<>>, Frame.kind = "code",
         Frame.done < Len(CodeOf(Frame)), InstrDue.op \notin {"SET", "EMIT"},
         NEW n \in {0, 1, 2}, n = Pops(InstrDue.op),
         NEW m, m.fault # "underflow", NEW c,
         m.fault = "none" => /\ m.vars = mem.vars /\ m.stack = Append(Top(mem, n), c)
                             /\ Pushed(InstrDue, Here(ints), ints).type = "int" => c.type = "int_t"
  PROVE  Reaches(m, ints)
  <1> DEFINE rest == Rest(InstrDue, Here(ints))
             h == Here(ints)
             t == There(ints)
             new == Pushed(InstrDue, h, ints)
             S == [type : {"int", "any"}, of : STRING]
  <1>1. /\ Len(h.stack) \in Nat /\ n <= Len(h.stack) /\ rest \in Seq(S)
        /\ Len(rest) = Len(h.stack) - n
        /\ \A k \in 1 .. Len(h.stack) - n : k \in DOMAIN h.stack /\ rest[k] = h.stack[k]
        /\ Top(mem, n) \in Seq(Cells(Len(mem.heap)))
        /\ Len(Top(mem, n)) = Frame.base + Len(h.stack) - n
        /\ \A j \in 1 .. Frame.base + Len(h.stack) - n : Top(mem, n)[j] = mem.stack[j]
    BY RestCells
  <1>2. t = After(InstrDue, h, ints) /\ t \in Points
    BY DueFacts
  <1>3. t.stack = Append(rest, new)
    BY <1>2 DEF After
  <1>4. /\ Frame.base \in Nat /\ IntsAreInts(ints)
        /\ \A k \in DOMAIN h.stack :
             h.stack[k].type = "int" => mem.stack[Frame.base + k].type = "int_t"
    BY BlockFacts
  <1> SUFFICES ASSUME m.fault = "none" PROVE Reaches(m, ints)
    BY DEF Reaches
  <1>5. m.vars = mem.vars /\ m.stack = Append(Top(mem, n), c)
        /\ (new.type = "int" => c.type = "int_t")
    OBVIOUS
  <1> HIDE DEF rest, h, t, new, S
  <1>6. /\ Len(t.stack) = Len(h.stack) - n + 1 /\ DOMAIN t.stack = 1 .. Len(h.stack) - n + 1
        /\ t.stack[Len(h.stack) - n + 1] = new
        /\ \A k \in 1 .. Len(h.stack) - n : t.stack[k] = h.stack[k] /\ k \in DOMAIN h.stack
    BY <1>1, <1>3
  <1>7. /\ Len(m.stack) = Frame.base + Len(h.stack) - n + 1
        /\ m.stack[Frame.base + Len(h.stack) - n + 1] = c
        /\ \A j \in 1 .. Frame.base + Len(h.stack) - n : m.stack[j] = mem.stack[j]
    BY <1>1, <1>4, <1>5
  <1>8. \A j \in 1 .. Frame.base : m.stack[j] = mem.stack[j]
    BY <1>1, <1>4, <1>7
  <1>9. ASSUME NEW k \in DOMAIN t.stack, t.stack[k].type = "int"
        PROVE  m.stack[Frame.base + k].type = "int_t"
    <2>1. CASE k = Len(h.stack) - n + 1
      <3>1. Frame.base + k = Frame.base + Len(h.stack) - n + 1
        BY <1>1, <1>4, <2>1
      <3> QED
        BY <1>5, <1>6, <1>7, <1>9, <2>1, <3>1
    <2>2. CASE k # Len(h.stack) - n + 1
      <3>1. k \in 1 .. Len(h.stack) - n
        BY <1>1, <1>6, <2>2
      <3>2. Frame.base + k \in 1 .. Frame.base + Len(h.stack) - n
        BY <1>1, <1>4, <3>1
      <3> QED
        BY <1>4, <1>6, <1>7, <1>9, <3>1, <3>2
    <2> QED
      BY <2>1, <2>2
  <1>10. Len(m.stack) = Frame.base + Len(t.stack)
    BY <1>1, <1>4, <1>6, <1>7
  <1>11. \A name \in ints \cap DOMAIN m.vars : m.vars[name].type = "int_t"
    BY <1>4, <1>5 DEF IntsAreInts
  <1> QED
    BY <1>8, <1>9, <1>10, <1>11 DEF Reaches, t

\* The cells under the running block are where they were.
Under(m) == \A j \in 1 .. Frame.base : Len(m.stack) >= j /\ m.stack[j] = mem.stack[j]

\* The cells under every block are.
OuterKept ==
  \A i \in CodeFrames : \A j \in 1 .. kont[i].base :
    Len(mem'.stack) >= j /\ mem'.stack[j] = mem.stack[j]

\* What is under a block is under the running one.
LEMMA UnderAll ==
  ASSUME TypeInv, WaitInv, NEW ints, StackInv(ints), Running, kont # <<>>, Frame.kind = "code",
         NEW m, mem' = m, Under(m)
  PROVE  OuterKept
  <1> SUFFICES ASSUME NEW i \in CodeFrames, NEW j \in 1 .. kont[i].base
               PROVE  Len(mem'.stack) >= j /\ mem'.stack[j] = mem.stack[j]
    BY DEF OuterKept
  <1>1. /\ Len(kont) \in CodeFrames /\ Frame = kont[Len(kont)] /\ Frame.base \in Nat
        /\ HeightsMeet(ints) /\ Innermost(Len(kont)) /\ Len(kont) \in Nat
    BY BlockFacts
  <1>2. i \in 1 .. Len(kont) /\ kont[i].base \in Nat /\ Height(i, ints) \in Nat
        /\ kont[i].base <= Height(i, ints)
    BY FrameFacts
  <1>3. kont[i].base <= Frame.base
    <2>1. CASE i = Len(kont)
      BY <1>1, <2>1
    <2>2. CASE i # Len(kont)
      <3>1. i < Len(kont)
        BY <1>1, <1>2, <2>2
      <3>2. kont[Len(kont)].base >= Height(i, ints)
        BY <1>1, <3>1 DEF HeightsMeet
      <3> QED
        BY <1>1, <1>2, <3>2
    <2> QED
      BY <2>1, <2>2
  <1>4. j \in 1 .. Frame.base
    BY <1>1, <1>2, <1>3
  <1> QED
    BY <1>4 DEF Under

\* What an instruction takes off is above the running block's base.
LEMMA TopIsUnder ==
  ASSUME TypeInv, WaitInv, NEW ints, StackInv(ints), Running, kont # <<>>, Frame.kind = "code",
         Frame.done < Len(CodeOf(Frame)), NEW n \in {0, 1, 2}, n = Pops(InstrDue.op),
         NEW m, m.stack = Top(mem, n) \/ (\E c : m.stack = Append(Top(mem, n), c))
  PROVE  Under(m)
  <1> DEFINE top == Top(mem, n)
             L == Len(Here(ints).stack)
  <1>1. /\ L \in Nat /\ n <= L /\ top \in Seq(Cells(Len(mem.heap)))
        /\ Len(top) = Frame.base + L - n
        /\ \A j \in 1 .. Frame.base + L - n : top[j] = mem.stack[j]
    BY RestCells
  <1>2. Frame.base \in Nat
    BY BlockFacts
  <1> HIDE DEF top, L
  <1>3. \A j \in 1 .. Frame.base : j \in 1 .. Frame.base + L - n /\ j \in 1 .. Len(top)
    BY <1>1, <1>2
  <1>4. /\ Len(m.stack) >= Len(top) /\ \A j \in 1 .. Len(top) : m.stack[j] = top[j]
    <2>1. CASE m.stack = top
      BY <1>1, <2>1
    <2>2. CASE \E c : m.stack = Append(top, c)
      BY <1>1, <2>2
    <2> QED
      BY <2>1, <2>2 DEF top
  <1> QED
    BY <1>1, <1>2, <1>3, <1>4 DEF Under

\* Nothing is taken off by an instruction that takes nothing.
LEMMA TopWhole ==
  ASSUME TypeInv
  PROVE  Top(mem, 0) = mem.stack /\ mem.stack \in Seq(Cells(Len(mem.heap)))
  <1>1. mem.stack \in Seq(Cells(Len(mem.heap))) /\ Len(mem.stack) - 0 = Len(mem.stack)
    BY Given DEF IsMemory
  <1> QED
    BY <1>1, SubSeqWhole DEF Top

\* What the pushes leave.
LEMMA PushVarEffect ==
  ASSUME NEW m, IsMemory(m), NEW name, m.fault = "none"
  PROVE  /\ PushVar(m, name).fault # "underflow" /\ PushVar(m, name).vars = m.vars
         /\ PushVar(m, name).stack = m.stack
              \/ (\E c : PushVar(m, name).stack = Append(m.stack, c))
         /\ PushVar(m, name).fault = "none" =>
              name \in DOMAIN m.vars /\ PushVar(m, name).stack = Append(m.stack, m.vars[name])
  <1>1. CASE name \in DOMAIN m.vars
    <2> DEFINE c == m.vars[name]
    <2>1. c \in Cells(Len(m.heap)) /\ PushVar(m, name) = Push(m, c)
      BY <1>1 DEF IsMemory, PushVar
    <2> HIDE DEF c
    <2>2. Push(m, c).fault # "underflow" /\ Push(m, c).vars = m.vars
          /\ (Push(m, c).fault = "none" => Push(m, c).stack = Append(m.stack, c))
      BY <2>1, PushDry, PushMemory, PushAdds
    <2>3. Push(m, c).stack = m.stack \/ Push(m, c).stack = Append(m.stack, c)
      BY DEF Push, Fail, IsMemory
    <2> QED
      BY <1>1, <2>1, <2>2, <2>3 DEF c
  <1>2. CASE name \notin DOMAIN m.vars
    BY <1>2 DEF PushVar, Fail, IsMemory
  <1> QED
    BY <1>1, <1>2

\* What PUSH leaves.
LEMMA PushLiteralEffect ==
  ASSUME NEW m, IsMemory(m), NEW instr, m.fault = "none", IsInstruction(instr), instr.op = "PUSH"
  PROVE  \E c : /\ PushLiteral(m, instr).fault # "underflow"
                /\ PushLiteral(m, instr).vars = m.vars
                /\ \/ PushLiteral(m, instr).stack = m.stack
                   \/ PushLiteral(m, instr).stack = Append(m.stack, c)
                /\ PushLiteral(m, instr).fault = "none" =>
                     PushLiteral(m, instr).stack = Append(m.stack, c)
                /\ c.type = instr.type
  <1>1. CASE instr.type = "int_t"
    <2> DEFINE c == IntCell(instr.i)
    <2>1. c \in Cells(Len(m.heap)) /\ PushLiteral(m, instr) = Push(m, c) /\ c.type = "int_t"
      BY <1>1 DEF IsInstruction, IntCell, Cells, IntCells, PushLiteral
    <2> HIDE DEF c
    <2>2. Push(m, c).fault # "underflow" /\ Push(m, c).vars = m.vars
          /\ (Push(m, c).fault = "none" => Push(m, c).stack = Append(m.stack, c))
      BY <2>1, PushDry, PushMemory, PushAdds
    <2>3. Push(m, c).stack = m.stack \/ Push(m, c).stack = Append(m.stack, c)
      BY DEF Push, Fail, IsMemory
    <2> QED
      BY <1>1, <2>1, <2>2, <2>3
  <1>2. CASE instr.type = "string_t"
    <2> DEFINE a == Alloc(m, Text(instr.word))
               c == StrCell(Newest(a))
    <2>1. PushLiteral(m, instr) = Push(a, c) /\ c.type = "string_t"
      BY <1>2 DEF PushLiteral, StrCell
    <2>2. /\ IsMemory(a) /\ a.fault = "none" /\ Newest(a) = Len(a.heap)
          /\ a.vars = m.vars /\ a.stack = m.stack
      BY AllocMemory DEF Newest
    <2> HIDE DEF a
    <2>3. c \in Cells(Len(a.heap))
      BY <2>2 DEF StrCell, Cells, StrCells, IsMemory, IsHeap
    <2> HIDE DEF c
    <2>4. Push(a, c).fault # "underflow" /\ Push(a, c).vars = m.vars
          /\ (Push(a, c).fault = "none" => Push(a, c).stack = Append(m.stack, c))
      BY <2>2, <2>3, PushDry, PushMemory, PushAdds
    <2>5. Push(a, c).stack = m.stack \/ Push(a, c).stack = Append(m.stack, c)
      BY <2>2 DEF Push, Fail, IsMemory
    <2> QED
      BY <1>2, <2>1, <2>4, <2>5
  <1> QED
    BY <1>1, <1>2 DEF IsInstruction

\* What an operator leaves of two cells that it can work on.
LEMMA OperateEffect ==
  ASSUME NEW m, IsMemory(m), NEW op \in Operators, NEW m2 \in Operate(m, op), m.fault = "none",
         Len(m.stack) >= 2,
         op # "ADD" => Cell(m, 1).type = "int_t" /\ Cell(m, 2).type = "int_t"
  PROVE  \E c : /\ m2.fault # "underflow" /\ m2.vars = m.vars
                /\ m2.stack = Top(m, 2) \/ m2.stack = Append(Top(m, 2), c)
                /\ m2.fault = "none" => m2.stack = Append(Top(m, 2), c)
                /\ Cell(m, 1).type = "int_t" /\ Cell(m, 2).type = "int_t" => c.type = "int_t"
  <1> DEFINE left == Cell(m, 2)
             right == Cell(m, 1)
             popped == Pop(m, 2)
  <1>0. m2.fault # "underflow" /\ m2.vars = m.vars
    BY OperateDry, OperateMemory
  <1>1. /\ IsMemory(popped) /\ popped.fault = "none" /\ popped.heap = m.heap
        /\ popped.vars = m.vars /\ popped.stack = Top(m, 2)
        /\ Len(m.stack) \in Nat /\ m.stack \in Seq(Cells(Len(m.heap)))
        /\ Len(m.stack) <= StackSize
    BY PopMemory DEF IsMemory, Top
  <1>2. Len(popped.stack) < StackSize
    BY <1>1, PrefixOf, StackAssumption DEF Top
  <1>3. left \in Cells(Len(m.heap)) /\ right \in Cells(Len(m.heap))
    BY <1>1, CellOnStack
  <1>4. CASE left.type = "int_t" /\ right.type = "int_t"
    <2>1. \/ m2 = Fail(popped, "trap")
          \/ \E r \in Results(op, left.v, right.v) : m2 = Push(popped, IntCell(r))
      BY <1>1, <1>4 DEF Operate
    <2> HIDE DEF popped, left, right
    <2>2. CASE m2 = Fail(popped, "trap")
      <3>1. m2.fault # "none" /\ m2.stack = Top(m, 2)
        BY <1>1, <2>2, FailIsFault, FailMemory, ZenonT(60) DEF Faults
      <3>2. IntCell(0).type = "int_t"
        BY DEF IntCell
      <3> QED
        BY <1>0, <3>1, <3>2
    <2>3. CASE \E r \in Results(op, left.v, right.v) : m2 = Push(popped, IntCell(r))
      <3>1. PICK r \in Results(op, left.v, right.v) : m2 = Push(popped, IntCell(r))
        BY <2>3
      <3>2. left.v \in Int /\ right.v \in Int
        BY <1>3, <1>4 DEF Cells, IntCells, StrCells
      <3>3. r \in Int
        BY <3>1, <3>2, ResultsAreInts
      <3>4. IntCell(r) \in Cells(Len(popped.heap)) /\ IntCell(r).type = "int_t"
        BY <3>3 DEF IntCell, Cells, IntCells
      <3>5. m2.stack = Append(Top(m, 2), IntCell(r))
        BY <1>1, <1>2, <3>1, <3>4, PushMemory
      <3> QED
        BY <1>0, <3>4, <3>5
    <2> QED
      BY <2>1, <2>2, <2>3
  <1>5. CASE ~(left.type = "int_t" /\ right.type = "int_t")
    <2>1. m2 = Join(popped, left, right)
      BY <1>1, <1>5 DEF Operate
    <2> HIDE DEF popped, left, right
    <2>2. \E p \in 0 .. Len(m2.heap) : m2.stack = Append(popped.stack, StrCell(p))
      <3>1. left \in Cells(Len(popped.heap)) /\ right \in Cells(Len(popped.heap))
        BY <1>1, <1>3
      <3> QED
        BY <1>1, <1>2, <2>1, <3>1, JoinMemory
    <2> QED
      BY <1>0, <1>1, <1>5, <2>2 DEF left, right
  <1> QED
    BY <1>4, <1>5
-----------------------------------------------------------------------------
\* An instruction that neither calls nor returns keeps the stack in order.
LEMMA ExecStep ==
  ASSUME TypeInv, WaitInv, NEW ints, StackInv(ints), Exec
  PROVE  WaitInv' /\ StackInv(ints)' /\ OuterKept
  <1>1. PICK m \in ExecInstr(mem, InstrDue) : Continue(m, InstrDone, GoOn)
    BY DEF Exec
  <1>2. /\ kont # <<>> /\ Frame.kind = "code" /\ Running /\ Frame.done < Len(CodeOf(Frame))
        /\ InstrDue.op \in {"SET", "PUSHV", "PUSH"} \cup Operators
    BY DEF Exec, Due, Turn
  <1>3. IsInstruction(InstrDue) /\ IsMemory(mem) /\ mem.fault = "none"
    BY <1>2, Given, GivenDue DEF Exec, Running
  <1>4. Fits(InstrDue, Here(ints), ints)
    BY <1>2, DueFacts
  <1>5. CASE InstrDue.op = "SET"
    <2>1. m = Set(mem, InstrDue.name)
      BY <1>1, <1>5 DEF ExecInstr, Operators
    <2>2. Reaches(m, ints)
      BY <1>2, <1>5, <2>1, SetReaches
    <2>3. 1 = Pops(InstrDue.op) /\ 1 \in {0, 1, 2}
      BY <1>5 DEF Pops, Operators
    <2>4. Len(mem.stack) >= 1
      BY <1>2, <2>3, RestCells
    <2>5. m.stack = Top(mem, 1)
      BY <1>3, <2>1, <2>4, SetEffect
    <2>6. Under(m)
      BY <1>2, <2>3, <2>5, TopIsUnder
    <2>7. mem' = m
      BY <1>1 DEF Continue
    <2> QED
      BY <1>1, <1>2, <2>2, <2>6, <2>7, BlockStep, UnderAll
  <1>6. ASSUME NEW n \in {0, 1, 2}, n = Pops(InstrDue.op), InstrDue.op \notin {"SET", "EMIT"},
               NEW c, m.fault # "underflow",
               m.stack = Top(mem, n) \/ m.stack = Append(Top(mem, n), c),
               m.fault = "none" =>
                 /\ m.vars = mem.vars /\ m.stack = Append(Top(mem, n), c)
                 /\ Pushed(InstrDue, Here(ints), ints).type = "int" => c.type = "int_t"
        PROVE  WaitInv' /\ StackInv(ints)' /\ OuterKept
    <2>1. Reaches(m, ints)
      BY <1>2, <1>6, PushReaches
    <2>2. Under(m)
      BY <1>2, <1>6, TopIsUnder
    <2>3. mem' = m
      BY <1>1 DEF Continue
    <2> QED
      BY <1>1, <1>2, <2>1, <2>2, <2>3, BlockStep, UnderAll
  <1>7. CASE InstrDue.op = "PUSHV"
    <2>1. m = PushVar(mem, InstrDue.name)
      BY <1>1, <1>7 DEF ExecInstr, Operators
    <2>2. /\ m.fault # "underflow" /\ m.vars = mem.vars
          /\ m.stack = mem.stack \/ (\E c : m.stack = Append(mem.stack, c))
          /\ m.fault = "none" => /\ InstrDue.name \in DOMAIN mem.vars
                                 /\ m.stack = Append(mem.stack, mem.vars[InstrDue.name])
      <3> DEFINE name == InstrDue.name
      <3> HIDE DEF name
      <3>1. /\ PushVar(mem, name).fault # "underflow" /\ PushVar(mem, name).vars = mem.vars
            /\ PushVar(mem, name).stack = mem.stack
                 \/ (\E c : PushVar(mem, name).stack = Append(mem.stack, c))
            /\ PushVar(mem, name).fault = "none" =>
                 name \in DOMAIN mem.vars
                 /\ PushVar(mem, name).stack = Append(mem.stack, mem.vars[name])
        BY <1>3, PushVarEffect
      <3>2. m = PushVar(mem, name)
        BY <2>1 DEF name
      <3> QED
        BY <3>1, <3>2 DEF name
    <2>3. 0 = Pops(InstrDue.op) /\ 0 \in {0, 1, 2} /\ Top(mem, 0) = mem.stack
      BY <1>7, TopWhole DEF Pops, Operators
    <2>4. Pushed(InstrDue, Here(ints), ints).type = "int" => InstrDue.name \in ints
      BY <1>7 DEF Pushed, Operators
    <2>5. InstrDue.name \in ints \cap DOMAIN mem.vars => mem.vars[InstrDue.name].type = "int_t"
      BY <1>2, BlockFacts DEF IntsAreInts
    <2>6. CASE m.fault = "none"
      <3> DEFINE c == mem.vars[InstrDue.name]
      <3> HIDE DEF c
      <3>1. /\ m.vars = mem.vars /\ m.stack = Append(Top(mem, 0), c)
            /\ Pushed(InstrDue, Here(ints), ints).type = "int" => c.type = "int_t"
        BY <2>2, <2>3, <2>4, <2>5, <2>6 DEF c
      <3> QED
        BY <1>6, <1>7, <2>2, <2>3, <3>1
    <2>7. CASE m.fault # "none"
      <3>1. PICK c : m.stack = Top(mem, 0) \/ m.stack = Append(Top(mem, 0), c)
        BY <2>2, <2>3
      <3> QED
        BY <1>6, <1>7, <2>2, <2>3, <2>7, <3>1
    <2> QED
      BY <2>6, <2>7
  <1>8. CASE InstrDue.op = "PUSH"
    <2>1. m = PushLiteral(mem, InstrDue)
      BY <1>1, <1>8 DEF ExecInstr, Operators
    <2>2. PICK c : /\ m.fault # "underflow" /\ m.vars = mem.vars
                   /\ m.stack = mem.stack \/ m.stack = Append(mem.stack, c)
                   /\ m.fault = "none" => m.stack = Append(mem.stack, c)
                   /\ c.type = InstrDue.type
      BY <1>3, <1>8, <2>1, PushLiteralEffect
    <2>3. 0 = Pops(InstrDue.op) /\ 0 \in {0, 1, 2} /\ Top(mem, 0) = mem.stack
      BY <1>8, TopWhole DEF Pops, Operators
    <2>4. Pushed(InstrDue, Here(ints), ints).type = "int" => InstrDue.type = "int_t"
      BY <1>3, <1>8 DEF Pushed, Operators, OwnCell
    <2> QED
      BY <1>6, <1>8, <2>2, <2>3, <2>4
  <1>9. CASE InstrDue.op \in Operators
    <2>1. m \in Operate(mem, InstrDue.op)
      BY <1>1, <1>9 DEF ExecInstr, Operators
    <2>2. 2 = Pops(InstrDue.op) /\ 2 \in {0, 1, 2}
      BY <1>9 DEF Pops
    <2>3. Len(mem.stack) >= 2 /\ (AreInts(Taken(InstrDue, Here(ints))) =>
                                    Cell(mem, 1).type = "int_t" /\ Cell(mem, 2).type = "int_t")
      <3>1. 1 \in 1 .. 2 /\ 2 \in 1 .. 2
        OBVIOUS
      <3> QED
        BY <1>2, <2>2, <3>1, RestCells
    <2>4. InstrDue.op # "ADD" => AreInts(Taken(InstrDue, Here(ints)))
      BY <1>4, <1>9 DEF Fits
    <2>5. PICK c : /\ m.fault # "underflow" /\ m.vars = mem.vars
                   /\ m.stack = Top(mem, 2) \/ m.stack = Append(Top(mem, 2), c)
                   /\ m.fault = "none" => m.stack = Append(Top(mem, 2), c)
                   /\ Cell(mem, 1).type = "int_t" /\ Cell(mem, 2).type = "int_t" =>
                        c.type = "int_t"
      BY <1>3, <1>9, <2>1, <2>3, <2>4, OperateEffect
    <2>6. Pushed(InstrDue, Here(ints), ints).type = "int" => AreInts(Taken(InstrDue, Here(ints)))
      BY <1>9 DEF Pushed, Operators, OwnCell
    <2>7. InstrDue.op \notin {"SET", "EMIT"}
      BY <1>9 DEF Operators
    <2> QED
      BY <1>6, <2>2, <2>3, <2>5, <2>6, <2>7
  <1> QED
    BY <1>2, <1>5, <1>7, <1>8, <1>9

\* The result of an INVOKE keeps the stack in order.
LEMMA InvokedStep ==
  ASSUME TypeInv, WaitInv, NEW ints, StackInv(ints), Invoked
  PROVE  WaitInv' /\ StackInv(ints)' /\ OuterKept
  <1> DEFINE c == StrCell(focus.text)
             m == Push(mem, c)
  <1>1. /\ kont # <<>> /\ Frame.kind = "code" /\ Running /\ focus.at = "return"
        /\ Continue(m, InstrDone, GoOn) /\ focus.text \in 0 .. Len(mem.heap)
    BY GivenTurn DEF Invoked, Turn
  <1>2. InvokeDue(Frame)
    <2>1. Len(kont) \in 1 .. Len(kont) /\ Frame = kont[Len(kont)]
      BY <1>1, BlockFacts
    <2> QED
      BY <1>1, <2>1 DEF WaitInv, WaitsAt
  <1>3. Frame.done < Len(CodeOf(Frame)) /\ InstrDue.op = "INVOKE"
    BY <1>2 DEF InvokeDue, InstrDue
  <1>4. 0 = Pops(InstrDue.op) /\ 0 \in {0, 1, 2} /\ Top(mem, 0) = mem.stack
    BY <1>3, TopWhole DEF Pops, Operators
  <1>5. c \in Cells(Len(mem.heap))
    BY <1>1 DEF StrCell, Cells, StrCells
  <1> HIDE DEF c
  <1>6. IsMemory(mem) /\ mem.fault = "none"
    BY <1>1, Given DEF Running
  <1>7. /\ m.fault # "underflow" /\ m.vars = mem.vars
        /\ m.fault = "none" => m.stack = Append(mem.stack, c)
    BY <1>5, <1>6, PushDry, PushMemory, PushAdds
  <1>8. m.stack = mem.stack \/ m.stack = Append(mem.stack, c)
    BY <1>6 DEF Push, Fail, IsMemory
  <1> HIDE DEF m
  <1>9. Pushed(InstrDue, Here(ints), ints).type # "int"
    BY <1>3 DEF Pushed, Operators, OwnCell
  <1>10. Reaches(m, ints)
    BY <1>1, <1>3, <1>4, <1>7, <1>9, PushReaches
  <1>11. Under(m)
    BY <1>1, <1>3, <1>4, <1>8, TopIsUnder
  <1>12. mem' = m
    BY <1>1 DEF Continue
  <1> QED
    BY <1>1, <1>3, <1>10, <1>11, <1>12, BlockStep, UnderAll

\* What EMIT does to a stack that is not empty.
LEMMA EmitEffect ==
  ASSUME NEW m, IsMemory(m), Len(m.stack) >= 1
  PROVE  /\ Emit(m).fault = m.fault /\ Emit(m).vars = m.vars
         /\ Emit(m).stack = Top(m, 1)
  <1> DEFINE popped == Pop(m, 1)
             c == Cell(m, 1)
  <1>1. /\ IsMemory(popped) /\ popped.fault = m.fault /\ popped.vars = m.vars
        /\ popped.stack = Top(m, 1) /\ popped.heap = m.heap
    BY PopMemory DEF Top
  <1>2. c \in Cells(Len(m.heap))
    <2>1. Len(m.stack) \in Nat
      BY DEF IsMemory
    <2> QED
      BY <2>1, CellOnStack
  <1>3. Emit(m) = AsText(popped, c)
    BY DEF Emit
  <1> HIDE DEF popped, c
  <1> QED
    BY <1>1, <1>2, <1>3, AsTextMemory

\* So does an EMIT, whether it ends the block or finds no text.
LEMMA EmitResultStep ==
  ASSUME TypeInv, WaitInv, NEW ints, StackInv(ints), EmitResult
  PROVE  WaitInv' /\ StackInv(ints)' /\ OuterKept
  <1> DEFINE m == Emit(mem)
             h == Here(ints)
             t == There(ints)
             rest == Rest(InstrDue, h)
  <1>1. /\ kont # <<>> /\ Frame.kind = "code" /\ Running /\ Frame.done < Len(CodeOf(Frame))
        /\ InstrDue.op = "EMIT" /\ IsMemory(mem) /\ mem.fault = "none"
    BY Given DEF EmitResult, Due, Turn, Running
  <1>2. Continue(m, InstrDone, GoOn) \/ Leave(m, Emitted(mem))
    BY DEF EmitResult
  <1>3. 1 = Pops(InstrDue.op) /\ 1 \in {0, 1, 2}
    BY <1>1 DEF Pops, Operators
  <1>4. /\ 1 <= Len(mem.stack) /\ rest \in Seq([type : {"int", "any"}, of : STRING])
        /\ Len(rest) = Len(h.stack) - 1 /\ Len(Top(mem, 1)) = Frame.base + Len(h.stack) - 1
        /\ \A j \in 1 .. Frame.base + Len(h.stack) - 1 : Top(mem, 1)[j] = mem.stack[j]
    BY <1>1, <1>3, RestCells
  <1>5. t = After(InstrDue, h, ints) /\ Fits(InstrDue, h, ints) /\ h \in Points
    BY <1>1, DueFacts, BlockFacts
  <1>6. Len(h.stack) = 1 /\ t.stack = rest
    BY <1>1, <1>5 DEF After, Fits, Points, Operators
  <1>7. Frame.base \in Nat /\ Len(mem.stack) = Frame.base + Len(h.stack) /\ IntsAreInts(ints)
    BY <1>1, BlockFacts
  <1>8. m.fault = "none" /\ m.vars = mem.vars /\ m.stack = Top(mem, 1)
    BY <1>1, <1>4, EmitEffect
  <1>9. Under(m)
    BY <1>1, <1>3, <1>8, TopIsUnder
  <1>10. mem' = m
    BY <1>2 DEF Continue, Leave
  <1> HIDE DEF m, h, t, rest
  <1>11. CASE Continue(m, InstrDone, GoOn)
    <2>1. Len(m.stack) = Frame.base + Len(t.stack) /\ DOMAIN t.stack = {}
      BY <1>4, <1>6, <1>7, <1>8
    <2>2. \A j \in 1 .. Frame.base : m.stack[j] = mem.stack[j]
      BY <1>9 DEF Under
    <2>3. Reaches(m, ints)
      BY <1>7, <1>8, <2>1, <2>2 DEF Reaches, IntsAreInts, t
    <2> QED
      BY <1>1, <1>9, <1>10, <1>11, <2>3, BlockStep, UnderAll
  <1>12. CASE Leave(m, Emitted(mem))
    <2>1. m.stack = SubSeq(mem.stack, 1, Frame.base)
      <3>1. Len(mem.stack) - 1 = Frame.base
        BY <1>6, <1>7
      <3> QED
        BY <1>8, <3>1 DEF Top
    <2>2. m.fault # "underflow"
      BY <1>8
    <2> QED
      BY <1>1, <1>8, <1>9, <1>10, <1>12, <2>1, <2>2, BlockEnd, UnderAll
  <1> QED
    BY <1>2, <1>11, <1>12

\* So does the end of a block.
LEMMA EndCodeStep ==
  ASSUME TypeInv, WaitInv, NEW ints, StackInv(ints), EndCode
  PROVE  WaitInv' /\ StackInv(ints)' /\ OuterKept
  <1>1. /\ kont # <<>> /\ Frame.kind = "code" /\ Running /\ Frame.done = Len(CodeOf(Frame))
        /\ Leave(mem, Null) /\ mem.fault = "none"
    BY DEF EndCode, Turn, Running
  <1>2. Here(ints).stack = <<>>
    <2>1. IsTyping(Typing(CodeOf(Frame), ints), CodeOf(Frame), ints)
      BY <1>1, BlockFacts
    <2> QED
      BY <1>1, <2>1 DEF IsTyping, Here
  <1>3. Len(mem.stack) = Frame.base /\ Frame.base \in Nat
    <2>1. Len(mem.stack) = Frame.base + Len(Here(ints).stack) /\ Frame.base \in Nat
      BY <1>1, BlockFacts
    <2> QED
      BY <1>2, <2>1
  <1>4. mem.stack \in Seq(Cells(Len(mem.heap)))
    BY Given DEF IsMemory
  <1>5. mem.stack = SubSeq(mem.stack, 1, Frame.base)
    BY <1>3, <1>4, SubSeqWhole
  <1>6. Under(mem)
    BY <1>3 DEF Under
  <1>7. mem' = mem
    BY <1>1 DEF Leave
  <1>8. mem.fault # "underflow"
    BY <1>1
  <1> QED
    BY <1>1, <1>5, <1>6, <1>7, <1>8, BlockEnd, UnderAll

\* A step that leaves the stack alone leaves the cells under every block alone.
LEMMA SameUnder ==
  ASSUME TypeInv, WaitInv, NEW ints, StackInv(ints), Running, mem'.stack = mem.stack
  PROVE  OuterKept
  <1> SUFFICES ASSUME NEW i \in CodeFrames, NEW j \in 1 .. kont[i].base
               PROVE  Len(mem.stack) >= j
    BY DEF OuterKept
  <1>1. kont[i].base \in Nat /\ Height(i, ints) \in Nat /\ kont[i].base <= Height(i, ints)
    BY FrameFacts
  <1>2. Len(mem.stack) >= Height(i, ints) /\ Len(mem.stack) \in Nat
    BY Given DEF StackInv, HeightsMeet, NoFault, Running, IsMemory
  <1> QED
    BY <1>1, <1>2

\* Every step that changes something keeps the blocks and the stack in order.
LEMMA NextStack ==
  ASSUME TypeInv, TypeInv', WaitInv, NEW ints, StackInv(ints), [Next]_vars
  PROVE  WaitInv' /\ StackInv(ints)' /\ (OuterKept \/ UNCHANGED vars)
  <1>1. CASE UNCHANGED vars
    <2>1. WaitInv'
      BY <1>1 DEF vars, WaitInv, WaitsAt, InvokeDue, CodeOf
    <2>2. CodeFrames' = CodeFrames /\ \A i : Height(i, ints)' = Height(i, ints)
                                          /\ CellsOf(i, ints)' = CellsOf(i, ints)
      BY <1>1 DEF vars, CodeFrames, Height, CellsOf, TypingAt, CodeOf
    <2>3. HeightsMeet(ints) => HeightsMeet(ints)'
      BY <1>1, <2>2 DEF vars, HeightsMeet, Innermost, Outermost, Within
    <2>4. IntsAreInts(ints) => IntsAreInts(ints)'
      BY <1>1, <2>2 DEF vars, IntsAreInts
    <2> QED
      BY <1>1, <2>1, <2>3, <2>4 DEF vars, StackInv, NoFault
  <1>2. CASE ~CodeStep /\ Next
    <2>1. TypedWith(script, ints)
      BY DEF StackInv
    <2>2. UNCHANGED vars \/ (Still(ints) /\ Running)
      BY <1>2, <2>1, OtherSteps
    <2>3. CASE Still(ints) /\ Running
      <3>1. PICK n : Quiet(n)
        BY <2>3 DEF Still
      <3>2. Calm(ints) /\ mem'.stack = mem.stack
        BY <2>3 DEF Still, Calm
      <3> QED
        BY <2>3, <3>1, <3>2, QuietWaits, QuietStack, SameUnder
    <2> QED
      BY <1>1, <2>2, <2>3
  <1>3. CASE CodeStep
    <2>1. CASE Code
      <3>1. Running /\ mem'.stack = mem.stack
        BY <2>1 DEF Code, IsAtom, Call
      <3> QED
        BY <2>1, <3>1, BlockStart, SameUnder
    <2>2. CASE Exec
      BY <2>2, ExecStep
    <2>3. CASE Invoked
      BY <2>3, InvokedStep
    <2>4. CASE EmitResult
      BY <2>4, EmitResultStep
    <2>5. CASE EndCode
      BY <2>5, EndCodeStep
    <2> QED
      BY <1>3, <2>1, <2>2, <2>3, <2>4, <2>5 DEF CodeStep
  <1> QED
    BY <1>1, <1>2, <1>3

\* At the start there is no block and nothing on the stack.
LEMMA InitStack ==
  ASSUME Init, NEW ints, TypedWith(script, ints)
  PROVE  WaitInv /\ StackInv(ints)
  <1> DEFINE r == [kind |-> "rule", name |-> script.start, cooked |-> <<>>]
             a == ArgsFrame(<<>>, NoEnv)
  <1>1. kont = <<r, a>> /\ r.kind = "rule" /\ a.kind = "args"
    BY DEF Init, ArgsFrame
  <1> HIDE DEF r, a
  <1>2. \A i \in DOMAIN kont : kont[i].kind # "code"
    BY <1>1
  <1>3. CodeFrames = {} /\ WaitInv
    <2>1. DOMAIN kont = 1 .. Len(kont)
      BY <1>1
    <2> QED
      BY <1>2, <2>1 DEF CodeFrames, WaitInv, WaitsAt
  <1>4. mem.stack = <<>> /\ mem.fault = "none" /\ mem.vars = <<>>
    BY DEF Init, NewMemory
  <1>5. DOMAIN mem.vars = {}
    BY <1>4
  <1>6. HeightsMeet(ints) /\ IntsAreInts(ints)
    BY <1>3, <1>4, <1>5 DEF HeightsMeet, IntsAreInts
  <1> QED
    BY <1>3, <1>4, <1>6 DEF StackInv

\* The inductive invariant.
CodeInv == TypeInv /\ WaitInv /\ \E ints \in SUBSET VarNames(script) : StackInv(ints)

\* It holds at the start of a script whose blocks are well-typed.
LEMMA InitCode == Init /\ WellTyped(script) => CodeInv
  BY InitType, InitStack DEF CodeInv, WellTyped

\* Every step keeps it, and leaves the cells under every block alone.
LEMMA NextCode == CodeInv /\ [Next]_vars => CodeInv' /\ (OuterKept \/ UNCHANGED vars)
  <1> SUFFICES ASSUME CodeInv, [Next]_vars PROVE CodeInv' /\ (OuterKept \/ UNCHANGED vars)
    OBVIOUS
  <1>1. PICK ints \in SUBSET VarNames(script) : StackInv(ints)
    BY DEF CodeInv
  <1>2. TypeInv /\ WaitInv /\ TypeInv'
    BY NextType DEF CodeInv
  <1>3. WaitInv' /\ StackInv(ints)' /\ (OuterKept \/ UNCHANGED vars)
    BY <1>1, <1>2, NextStack
  <1>4. script' = script
    BY ScriptStays
  <1>5. ints \in SUBSET VarNames(script')
    BY <1>4
  <1>6. (\E s \in SUBSET VarNames(script) : StackInv(s))'
    BY <1>3, <1>5
  <1> QED
    BY <1>2, <1>3, <1>6 DEF CodeInv

\* In a run of a script whose blocks are well-typed the stack and the blocks are in order.
THEOREM CodeHolds == Spec /\ WellTyped(script) => []CodeInv
  <1>1. Init /\ WellTyped(script) => CodeInv
    BY InitCode
  <1>2. CodeInv /\ [Next]_vars => CodeInv'
    BY NextCode
  <1> QED
    BY <1>1, <1>2, PTL DEF Spec

\* Where the types say how high the stack is, it is as high as it should be.
LEMMA CodeInvBalanced == CodeInv => StackBalanced
  <1> SUFFICES ASSUME CodeInv, NoFault PROVE StackBalanced
    BY DEF StackBalanced
  <1>1. PICK ints \in SUBSET VarNames(script) : StackInv(ints)
    BY DEF CodeInv
  <1>2. TypeInv /\ WaitInv /\ HeightsMeet(ints)
    BY <1>1 DEF CodeInv, StackInv
  <1>3. CodeFrames = {} => mem.stack = <<>>
    BY <1>2 DEF HeightsMeet
  <1>4. ASSUME NEW i \in CodeFrames
        PROVE  /\ Len(mem.stack) >= kont[i].base
               /\ i = Len(kont) /\ kont[i].done = Len(CodeOf(kont[i])) =>
                    Len(mem.stack) = kont[i].base
    <2>1. /\ kont[i].base \in Nat /\ Height(i, ints) \in Nat /\ kont[i].base <= Height(i, ints)
          /\ i \in 1 .. Len(kont)
          /\ IsTyping(Typing(CodeOf(kont[i]), ints), CodeOf(kont[i]), ints)
      BY <1>1, <1>2, FrameFacts
    <2>2. Len(mem.stack) >= Height(i, ints) /\ Len(mem.stack) \in Nat
      BY <1>2, Given DEF HeightsMeet, IsMemory
    <2>3. ASSUME i = Len(kont), kont[i].done = Len(CodeOf(kont[i]))
          PROVE  Len(mem.stack) = kont[i].base
      <3>1. Innermost(i)
        BY <2>1, <2>3, Given DEF Innermost, CodeFrames
      <3>2. Len(mem.stack) = Height(i, ints)
        BY <1>2, <3>1 DEF HeightsMeet
      <3>3. CellsOf(i, ints) = <<>>
        BY <2>1, <2>3 DEF IsTyping, CellsOf, TypingAt
      <3> QED
        BY <2>1, <3>2, <3>3 DEF Height
    <2> QED
      BY <2>1, <2>2, <2>3
  <1> QED
    BY <1>3, <1>4 DEF StackBalanced

\* A block of code gives the stack back as high as it found it.
THEOREM StackStaysBalanced == Spec /\ WellTyped(script) => []StackBalanced
  BY CodeHolds, CodeInvBalanced, PTL

\* No instruction pops what is not there.
THEOREM NeverUnderflows == Spec /\ WellTyped(script) => [](mem.fault # "underflow")
  <1>1. CodeInv => mem.fault # "underflow"
    BY DEF CodeInv, StackInv
  <1> QED
    BY <1>1, CodeHolds, PTL

\* A block never touches the operands of the expression that it runs amid.
THEOREM OuterOperandsStay == Spec /\ WellTyped(script) => OuterOperandsKept
  <1>1. CodeInv /\ [Next]_vars =>
          [\A i \in CodeFrames : \A j \in 1 .. kont[i].base :
             Len(mem'.stack) >= j /\ mem'.stack[j] = mem.stack[j]]_vars
    BY NextCode DEF OuterKept
  <1>2. Spec => [][Next]_vars
    BY DEF Spec
  <1> QED
    BY <1>1, <1>2, CodeHolds, PTL DEF OuterOperandsKept

-----------------------------------------------------------------------------
(* The owners of the texts.                                                *)

\* What an operation does to the heap: no text but those in F is freed, what is
\* new can be used, and a constant stays one.
Frees(m, m2, F) ==
  /\ Len(m.heap) <= Len(m2.heap)
  /\ \A p \in 1 .. Len(m.heap) : p \notin F => m2.heap[p].state = m.heap[p].state
  /\ \A p \in 1 .. Len(m.heap) : m.heap[p].state = "constant" => m2.heap[p].state = "constant"
  /\ \A p \in Len(m.heap) + 1 .. Len(m2.heap) : p \notin F => m2.heap[p].state = "live"

CanRead(m, p)  == p # Null => m.heap[p].state # "freed"
NotStale(m, m2) == m2.fault = "stale" => m.fault = "stale"

\* What leaves the heap alone frees nothing.
LEMMA SameHeap ==
  ASSUME NEW m, IsMemory(m), NEW m2, m2.heap = m.heap
  PROVE  Frees(m, m2, {})
  BY DEF Frees, IsMemory, IsHeap

\* A fault other than "stale" is not one.
LEMMA FailNotStale ==
  ASSUME NEW m, IsMemory(m), NEW what, what # "stale"
  PROVE  NotStale(m, Fail(m, what))
  BY DEF Fail, NotStale, IsMemory

\* Reading a text frees nothing; it is no fault if the text can be read.
LEMMA ReadFrees ==
  ASSUME NEW m, IsMemory(m), NEW p
  PROVE  Frees(m, Read(m, p), {}) /\ (CanRead(m, p) => NotStale(m, Read(m, p)))
  <1>1. Frees(m, Read(m, p), {})
    BY ReadMemory, SameHeap
  <1>2. NotStale(m, m)
    BY DEF NotStale
  <1>3. NotStale(m, Fail(m, "null"))
    BY FailNotStale
  <1> QED
    BY <1>1, <1>2, <1>3 DEF Read, CanRead

\* A heap with one more cell.
LEMMA AppendHeap ==
  ASSUME NEW heap, IsHeap(heap), NEW cell
  PROVE  /\ Len(Append(heap, cell)) = Len(heap) + 1
         /\ Append(heap, cell)[Len(heap) + 1] = cell
         /\ \A p \in 1 .. Len(heap) : Append(heap, cell)[p] = heap[p]
  OBVIOUS

\* malloc() frees nothing, and what it returns is live.
LEMMA AllocFrees ==
  ASSUME NEW m, IsMemory(m), NEW text
  PROVE  Frees(m, Alloc(m, text), {}) /\ NotStale(m, Alloc(m, text))
  <1>1. /\ Alloc(m, text).heap = Append(m.heap, [text |-> text, state |-> "live"])
        /\ Alloc(m, text).fault = m.fault
    BY AllocMemory
  <1> DEFINE cell == [text |-> text, state |-> "live"]
             h == Append(m.heap, cell)
  <1>2. IsHeap(m.heap) /\ cell.state = "live"
    BY DEF IsMemory
  <1> HIDE DEF cell
  <1>3. /\ Len(h) = Len(m.heap) + 1 /\ h[Len(m.heap) + 1] = cell
        /\ \A p \in 1 .. Len(m.heap) : h[p] = m.heap[p]
    BY <1>2, AppendHeap
  <1>4. Len(m.heap) \in Nat
    BY <1>2 DEF IsHeap
  <1>5. Alloc(m, text).heap = h
    BY <1>1 DEF cell
  <1> HIDE DEF h
  <1>6. \A p \in Len(m.heap) + 1 .. Len(h) : p = Len(m.heap) + 1
    BY <1>3, <1>4
  <1> QED
    BY <1>1, <1>2, <1>3, <1>4, <1>5, <1>6 DEF Frees, NotStale

\* free() frees its text and no other; it is not for a second time.
LEMMA FreeFrees ==
  ASSUME NEW m, IsMemory(m), NEW p \in 0 .. Len(m.heap)
  PROVE  Frees(m, Free(m, p), {p}) /\ (CanRead(m, p) => NotStale(m, Free(m, p)))
  <1>0. IsHeap(m.heap) /\ Len(m.heap) \in Nat /\ DOMAIN m.heap = 1 .. Len(m.heap)
    BY DEF IsMemory, IsHeap
  <1>1. CASE p = Null \/ m.heap[p].state # "live"
    <2>1. \/ Free(m, p) = m \/ Free(m, p) = Fail(m, "bad free")
          \/ ~CanRead(m, p) /\ Free(m, p) = Fail(m, "stale")
      BY <1>1 DEF Free, CanRead
    <2>2. Free(m, p).heap = m.heap
      BY <2>1, FailMemory DEF Faults
    <2>3. CanRead(m, p) => NotStale(m, Free(m, p))
      BY <2>1, FailNotStale DEF NotStale
    <2> QED
      BY <1>0, <2>2, <2>3 DEF Frees
  <1>2. CASE p # Null /\ m.heap[p].state = "live"
    <2>1. p \in 1 .. Len(m.heap)
      BY <1>0, <1>2 DEF Null
    <2>2. Free(m, p) = [m EXCEPT !.heap[p].state = "freed"]
      BY <1>2 DEF Free
    <2>3. /\ Free(m, p).fault = m.fault
          /\ Free(m, p).heap = [m.heap EXCEPT ![p].state = "freed"]
      BY <2>2 DEF IsMemory
    <2>4. \A q \in 1 .. Len(m.heap) : q # p => Free(m, p).heap[q] = m.heap[q]
      BY <1>0, <2>3
    <2>5. Len(Free(m, p).heap) = Len(m.heap)
      BY FreeMemory
    <2> HIDE DEF Frees
    <2>6. Frees(m, Free(m, p), {p})
      BY <1>0, <1>2, <2>4, <2>5 DEF Frees
    <2> QED
      BY <2>3, <2>6 DEF NotStale
  <1> QED
    BY <1>1, <1>2

\* free() of a list frees the texts of the list, none of them for a second time.
LEMMA FreeAllFrees ==
  ASSUME NEW m, IsMemory(m), NEW ps \in Seq(0 .. Len(m.heap))
  PROVE  /\ Frees(m, FreeAll(m, ps), ToSet(ps))
         /\ /\ m.heap[Undefined].state = "constant" /\ OnceEach(ps)
            /\ \A p \in ToSet(ps) : CanRead(m, p)
            => NotStale(m, FreeAll(m, ps))
  <1> DEFINE heap == [p \in DOMAIN m.heap |->
                        IF p \in ToSet(ps) /\ m.heap[p].state = "live"
                        THEN [m.heap[p] EXCEPT !.state = "freed"] ELSE m.heap[p]]
             f == [m EXCEPT !.heap = heap]
             orderly == /\ m.heap[Undefined].state = "constant" /\ OnceEach(ps)
                        /\ \A p \in ToSet(ps) : CanRead(m, p)
  <1>0. IsHeap(m.heap) /\ Len(m.heap) \in Nat /\ DOMAIN m.heap = 1 .. Len(m.heap)
    BY DEF IsMemory, IsHeap
  <1>a. ASSUME orderly, NEW i \in DOMAIN ps
        PROVE  Freeable(m, ps, i) \/ m.heap[ps[i]].state = "constant"
    <2>1. ps[i] \in ToSet(ps) /\ ps[i] \in 0 .. Len(m.heap) /\ i \in 1 .. Len(ps)
      BY DEF ToSet
    <2>2. ps[i] # Null => m.heap[ps[i]].state \in {"live", "constant"}
      BY <1>0, <1>a, <2>1 DEF CanRead, IsHeap, States, Null
    <2>3. ASSUME m.heap[ps[i]].state = "live", ps[i] # Null, NEW j \in 1 .. i - 1
          PROVE  ps[j] # ps[i]
      <3>1. j \in DOMAIN ps /\ i # j
        BY <2>1
      <3> QED
        BY <1>a, <2>3, <3>1 DEF OnceEach
    <2> QED
      BY <2>2, <2>3 DEF Freeable
  <1>1. \/ FreeAll(m, ps) = f \/ FreeAll(m, ps) = Fail(f, "bad free")
        \/ ~orderly /\ FreeAll(m, ps) = Fail(f, "stale")
    BY <1>a DEF FreeAll
  <1>2. f.heap = heap /\ f.fault = m.fault
    BY DEF IsMemory
  <1>3. \A p \in 1 .. Len(m.heap) :
          p \notin ToSet(ps) \/ m.heap[p].state # "live" => heap[p] = m.heap[p]
    BY <1>0
  <1>4. Len(FreeAll(m, ps).heap) = Len(m.heap)
    BY FreeAllMemory
  <1> HIDE DEF heap
  <1>5. /\ Fail(f, "bad free").heap = heap /\ Fail(f, "stale").heap = heap
        /\ NotStale(f, Fail(f, "bad free"))
    BY <1>2 DEF Fail, NotStale, IsMemory
  <1> HIDE DEF f, orderly
  <1>6. FreeAll(m, ps).heap = heap /\ (orderly => NotStale(m, FreeAll(m, ps)))
    BY <1>1, <1>2, <1>5 DEF NotStale
  <1> QED
    BY <1>0, <1>3, <1>4, <1>6 DEF Frees, orderly

\* What two operations free is among what both may.
LEMMA FreesTwice ==
  ASSUME NEW m1, IsMemory(m1), NEW m2, IsMemory(m2), NEW m3, IsMemory(m3),
         NEW F, Frees(m1, m2, F), NEW G, Frees(m2, m3, G),
         NEW H, F \subseteq H, G \subseteq H
  PROVE  Frees(m1, m3, H)
  <1>1. Len(m1.heap) \in Nat /\ Len(m2.heap) \in Nat /\ Len(m3.heap) \in Nat
    BY DEF IsMemory, IsHeap
  <1>2. Len(m1.heap) <= Len(m2.heap) /\ Len(m2.heap) <= Len(m3.heap)
    BY DEF Frees
  <1>3. \A p \in 1 .. Len(m1.heap) : p \in 1 .. Len(m2.heap)
    BY <1>1, <1>2
  <1>4. \A p \in Len(m1.heap) + 1 .. Len(m3.heap) :
          p \notin H => m3.heap[p].state = "live"
    <2> SUFFICES ASSUME NEW p \in Len(m1.heap) + 1 .. Len(m3.heap), p \notin H
                 PROVE  m3.heap[p].state = "live"
      OBVIOUS
    <2>1. p \notin G /\ p \notin F
      OBVIOUS
    <2>2. p \in Len(m1.heap) + 1 .. Len(m2.heap) \/ p \in Len(m2.heap) + 1 .. Len(m3.heap)
      BY <1>1, <1>2
    <2>3. p \in Len(m1.heap) + 1 .. Len(m2.heap) => p \in 1 .. Len(m2.heap)
      BY <1>1
    <2> QED
      BY <2>1, <2>2, <2>3 DEF Frees
  <1>5. \A p \in 1 .. Len(m1.heap) : p \notin H => m3.heap[p].state = m1.heap[p].state
    BY <1>3 DEF Frees
  <1>6. \A p \in 1 .. Len(m1.heap) :
          m1.heap[p].state = "constant" => m3.heap[p].state = "constant"
    BY <1>3 DEF Frees
  <1> QED
    BY <1>1, <1>2, <1>4, <1>5, <1>6 DEF Frees

\* strdup() frees nothing; it is no fault if the text can be read.
LEMMA StrdupFrees ==
  ASSUME NEW m, IsMemory(m), NEW p
  PROVE  Frees(m, Strdup(m, p), {}) /\ (CanRead(m, p) => NotStale(m, Strdup(m, p)))
  <1>1. IsMemory(Read(m, p)) /\ Frees(m, Read(m, p), {})
    BY ReadMemory, ReadFrees
  <1>2. /\ IsMemory(Alloc(Read(m, p), TextAt(m, p)))
        /\ Frees(Read(m, p), Alloc(Read(m, p), TextAt(m, p)), {})
        /\ NotStale(Read(m, p), Alloc(Read(m, p), TextAt(m, p)))
    BY <1>1, AllocMemory, AllocFrees
  <1>3. Frees(m, Alloc(Read(m, p), TextAt(m, p)), {})
    BY <1>1, <1>2, FreesTwice
  <1>4. CanRead(m, p) => NotStale(m, Alloc(Read(m, p), TextAt(m, p)))
    BY <1>2, ReadFrees DEF NotStale
  <1> QED
    BY <1>3, <1>4 DEF Strdup

\* What is read before more is allocated can be read then.
LEMMA StaysReadable ==
  ASSUME NEW m, IsMemory(m), NEW m2, Frees(m, m2, {}), NEW p \in 0 .. Len(m.heap), CanRead(m, p)
  PROVE  CanRead(m2, p)
  BY DEF CanRead, Frees, IsMemory, IsHeap, Null

\* dstrcat() frees both of its texts.
LEMMA DstrcatFrees ==
  ASSUME NEW m, IsMemory(m), NEW a \in 0 .. Len(m.heap), NEW b \in 0 .. Len(m.heap)
  PROVE  /\ Frees(m, Dstrcat(m, a, b), {a, b})
         /\ CanRead(m, a) /\ CanRead(m, b) /\ (a = b => a = Null \/ m.heap[a].state = "constant")
            => NotStale(m, Dstrcat(m, a, b))
  <1> DEFINE readA == IF a = Null THEN m ELSE Read(m, a)
             readB == IF b = Null THEN readA ELSE Read(readA, b)
             joined == Alloc(readB, TextAt(m, a) \o TextAt(m, b))
             once == Free(joined, a)
             twice == Free(once, b)
  <1>1. /\ IsMemory(readA) /\ readA.heap = m.heap /\ Frees(m, readA, {})
        /\ CanRead(m, a) => NotStale(m, readA)
    BY ReadMemory, ReadFrees, SameHeap DEF NotStale
  <1> HIDE DEF readA
  <1>2. /\ IsMemory(readB) /\ readB.heap = m.heap
        /\ CanRead(readA, b) => NotStale(readA, readB)
    BY <1>1, ReadMemory, ReadFrees DEF NotStale
  <1>3. CanRead(m, b) => CanRead(readA, b)
    BY <1>1 DEF CanRead
  <1>4. Frees(m, readB, {})
    BY <1>2, SameHeap
  <1> HIDE DEF readB
  <1>5. /\ IsMemory(joined) /\ Len(joined.heap) = Len(m.heap) + 1
        /\ Frees(readB, joined, {}) /\ NotStale(readB, joined)
    BY <1>2, AllocMemory, AllocFrees DEF Newest
  <1>6. Frees(m, joined, {})
    BY <1>2, <1>4, <1>5, FreesTwice
  <1> HIDE DEF joined
  <1>7. Len(m.heap) \in Nat
    BY DEF IsMemory, IsHeap
  <1>8. a \in 0 .. Len(joined.heap) /\ b \in 0 .. Len(joined.heap)
    BY <1>5, <1>7
  <1>9. /\ IsMemory(once) /\ Len(once.heap) = Len(joined.heap)
        /\ Frees(joined, once, {a}) /\ (CanRead(joined, a) => NotStale(joined, once))
    BY <1>5, <1>8, FreeMemory, FreeFrees
  <1>10. Frees(m, once, {a})
    BY <1>5, <1>6, <1>9, FreesTwice
  <1> HIDE DEF once
  <1>11. /\ IsMemory(twice) /\ Frees(once, twice, {b})
         /\ CanRead(once, b) => NotStale(once, twice)
    BY <1>8, <1>9, FreeMemory, FreeFrees
  <1>12. Frees(m, twice, {a, b})
    BY <1>9, <1>10, <1>11, FreesTwice
  <1>13. ASSUME CanRead(m, a), CanRead(m, b), a = b => a = Null \/ m.heap[a].state = "constant"
         PROVE  NotStale(m, twice)
    <2>1. CanRead(joined, a)
      BY <1>6, <1>13, StaysReadable
    <2>2. CanRead(once, b)
      BY <1>7, <1>10, <1>13 DEF Frees, CanRead, Null
    <2> QED
      BY <1>1, <1>2, <1>3, <1>5, <1>9, <1>11, <1>13, <2>1, <2>2 DEF NotStale
  <1>14. Dstrcat(m, a, b) = twice
    BY DEF Dstrcat, twice, once, joined, readB, readA
  <1> QED
    BY <1>12, <1>13, <1>14

\* var_fetch() frees nothing.
LEMMA VarFetchFrees ==
  ASSUME NEW m, IsMemory(m), NEW name
  PROVE  Frees(m, VarFetch(m, name), {}) /\ NotStale(m, VarFetch(m, name))
  <1>1. Frees(m, m, {}) /\ NotStale(m, m)
    BY SameHeap DEF NotStale
  <1>2. \A text : Frees(m, Alloc(m, text), {}) /\ NotStale(m, Alloc(m, text))
    BY AllocFrees
  <1> QED
    BY <1>1, <1>2 DEF VarFetch

\* Copying an actual parameter frees nothing; it is no fault if it can be read.
LEMMA CopyActualFrees ==
  ASSUME NEW m, IsMemory(m), NEW env, NEW i
  PROVE  /\ Frees(m, CopyActual(m, env, i), {})
         /\ (~(i > Len(env.cooked)) => CanRead(m, env.cooked[i])) =>
              NotStale(m, CopyActual(m, env, i))
  BY AllocFrees, StrdupFrees DEF CopyActual

\* What a frame answers for are pointers.
LEMMA OwnedByType ==
  ASSUME NEW s, NEW h \in Nat, NEW f \in Frames(s, h)
  PROVE  /\ OwnedBy(f) \in Seq(0 .. h)
         /\ f.kind \in {"option", "loop"} => OwnedBy(f) = <<f.acc>>
         /\ f.kind = "rule" => OwnedBy(f) = f.cooked
         /\ f.kind = "args" => OwnedBy(f) = f.texts
         /\ f.kind \notin {"option", "loop", "rule", "args"} => OwnedBy(f) = <<>>
  <1>1. CASE f.kind \in {"option", "loop"}
    <2>1. f.acc \in 0 .. h
      BY <1>1, FrameOfKind DEF OptionFrames, LoopFrames
    <2>2. OwnedBy(f) = <<f.acc>>
      BY <1>1 DEF OwnedBy
    <2>3. <<f.acc>> \in Seq(0 .. h)
      BY <2>1
    <2> QED
      BY <1>1, <2>2, <2>3
  <1>2. CASE f.kind = "rule"
    <2>1. f.cooked \in Seq(0 .. h)
      BY <1>2, FrameOfKind DEF RuleFrames
    <2> QED
      BY <1>2, <2>1 DEF OwnedBy
  <1>3. CASE f.kind = "args"
    <2>1. f.texts \in Seq(0 .. h)
      BY <1>3, FrameOfKind DEF ArgsFrames
    <2> QED
      BY <1>3, <2>1 DEF OwnedBy
  <1>4. CASE f.kind \notin {"option", "loop", "rule", "args"}
    <2>1. OwnedBy(f) = <<>>
      BY <1>4 DEF OwnedBy
    <2>2. <<>> \in Seq(0 .. h)
      OBVIOUS
    <2> QED
      BY <1>4, <2>1, <2>2
  <1> QED
    BY <1>1, <1>2, <1>3, <1>4

\* What the holders have.
LEMMA HolderLists ==
  /\ \A i : ListOf(AFrame(i)) = OwnedBy(kont[i])
  /\ \A n : ListOf(AVar(n)) = <<mem.vars[n].v>>
  /\ \A j : ListOf(ACell(j)) = <<mem.stack[j].v>>
  /\ ListOf(Flight) = InFlight
  BY DEF ListOf, AFrame, AVar, ACell, Flight

\* The same after a step.
LEMMA HolderListsNext ==
  /\ \A i : ListOf(AFrame(i))' = OwnedBy(kont'[i])
  /\ \A n : ListOf(AVar(n))' = <<mem'.vars[n].v>>
  /\ \A j : ListOf(ACell(j))' = <<mem'.stack[j].v>>
  /\ ListOf(Flight)' = InFlight'
  BY DEF ListOf, AFrame, AVar, ACell, Flight

\* A holder is a frame, a variable, a cell or the result in flight.
LEMMA HoldersDiffer ==
  /\ \A i, k : AFrame(i) = AFrame(k) => i = k
  /\ \A n, k : AVar(n) = AVar(k) => n = k
  /\ \A j, k : ACell(j) = ACell(k) => j = k
  /\ \A i, n : AFrame(i) # AVar(n) /\ AFrame(i) # ACell(n) /\ AVar(i) # ACell(n)
  /\ \A i : AFrame(i) # Flight /\ AVar(i) # Flight /\ ACell(i) # Flight
  BY DEF AFrame, AVar, ACell, Flight

\* Pointers into the heap point to texts in the heap.
LEMMA SmallTexts ==
  ASSUME NEW h \in Nat, NEW L \in Seq(0 .. h)
  PROVE  Texts(L) \subseteq 1 .. h
  BY DEF Texts, ToSet, Null

\* What a holder has is in the heap.
LEMMA OldTexts ==
  ASSUME TypeInv, NEW ints, NEW h \in Holders(ints)
  PROVE  ListOf(h) \in Seq(0 .. Len(mem.heap)) /\ TextsOf(h) \subseteq 1 .. Len(mem.heap)
  <1>0. Len(mem.heap) \in Nat /\ IsMemory(mem)
    BY Given
  <1>1. ListOf(h) \in Seq(0 .. Len(mem.heap))
    <2>1. CASE h \in {AFrame(i) : i \in DOMAIN kont}
      <3>1. PICK i \in DOMAIN kont : h = AFrame(i)
        BY <2>1
      <3>2. kont[i] \in Frames(script, Len(mem.heap))
        BY Given
      <3>3. OwnedBy(kont[i]) \in Seq(0 .. Len(mem.heap))
        BY <1>0, <3>2, OwnedByType
      <3> QED
        BY <3>1, <3>3, HolderLists
    <2>2. CASE h \in {AVar(n) : n \in TextVars}
      <3>1. PICK n \in TextVars : h = AVar(n)
        BY <2>2
      <3>2. mem.vars[n] \in Cells(Len(mem.heap)) /\ mem.vars[n].type = "string_t"
        BY <1>0 DEF IsMemory, TextVars
      <3>3. mem.vars[n].v \in 0 .. Len(mem.heap)
        BY <3>2 DEF Cells, IntCells, StrCells
      <3>4. <<mem.vars[n].v>> \in Seq(0 .. Len(mem.heap))
        BY <3>3
      <3> QED
        BY <3>1, <3>4, HolderLists
    <2>3. CASE h \in {ACell(j) : j \in OwnCells(ints)}
      <3>1. PICK j \in OwnCells(ints) : h = ACell(j)
        BY <2>3
      <3>2. mem.stack[j] \in Cells(Len(mem.heap)) /\ mem.stack[j].type = "string_t"
        BY <1>0 DEF IsMemory, OwnCells
      <3>3. mem.stack[j].v \in 0 .. Len(mem.heap)
        BY <3>2 DEF Cells, IntCells, StrCells
      <3>4. <<mem.stack[j].v>> \in Seq(0 .. Len(mem.heap))
        BY <3>3
      <3> QED
        BY <3>1, <3>4, HolderLists
    <2>4. CASE h = Flight
      <3>1. InFlight \in Seq(0 .. Len(mem.heap))
        <4>1. focus \in Focuses(script, Len(mem.heap))
          BY DEF TypeInv
        <4>2. focus.at = "return" => focus.text \in 0 .. Len(mem.heap)
          BY <4>1 DEF Focuses
        <4>3. focus.at = "cooked" => focus.texts \in Seq(0 .. Len(mem.heap))
          BY <4>1 DEF Focuses
        <4>4. focus.at = "return" => <<focus.text>> \in Seq(0 .. Len(mem.heap))
          BY <4>2
        <4>5. <<>> \in Seq(0 .. Len(mem.heap))
          OBVIOUS
        <4>6. InFlight \in {IF focus.at = "return" THEN <<focus.text>> ELSE <<>>,
                           IF focus.at = "cooked" THEN focus.texts ELSE <<>>}
          BY DEF InFlight
        <4> QED
          BY <4>3, <4>4, <4>5, <4>6
      <3> QED
        BY <2>4, <3>1, HolderLists
    <2> QED
      BY <2>1, <2>2, <2>3, <2>4 DEF Holders
  <1> QED
    BY <1>0, <1>1, SmallTexts DEF TextsOf
-----------------------------------------------------------------------------
\* The holders in K keep what they have; the others pass on what they have, or
\* what is new, to the others of the next state.
PassedOn(K, ints) ==
  /\ K \subseteq Holders(ints)
  /\ \A h \in K : ListOf(h)' = ListOf(h)
  /\ \A h \in Holders(ints)' \ K : \A p \in TextsOf(h)' :
       p > Len(mem.heap) \/ \E g \in Holders(ints) \ K : p \in TextsOf(g)

\* Texts stay apart when they are passed on.
LEMMA StaysApart ==
  ASSUME TypeInv, NEW ints, Apart(ints), NEW K, PassedOn(K, ints),
         \A h \in Holders(ints)' \ K : OnceEach(ListOf(h)'),
         \A h, g \in Holders(ints)' \ K : h # g => TextsOf(h)' \cap TextsOf(g)' = {}
  PROVE  Apart(ints)'
  <1>1. \A h \in K : TextsOf(h)' = TextsOf(h) /\ h \in Holders(ints)
    BY DEF PassedOn, TextsOf
  <1>2. \A h \in Holders(ints)' : OnceEach(ListOf(h)')
    BY DEF PassedOn, Apart
  <1>3. ASSUME NEW h \in K, NEW g \in Holders(ints)' \ K
        PROVE  TextsOf(h)' \cap TextsOf(g)' = {}
    <2> SUFFICES ASSUME NEW p \in TextsOf(h)', p \in TextsOf(g)' PROVE FALSE
      OBVIOUS
    <2>1. p \in TextsOf(h) /\ h \in Holders(ints)
      BY <1>1, <1>3
    <2>2. p \in 1 .. Len(mem.heap) /\ Len(mem.heap) \in Nat
      BY <2>1, OldTexts, Given
    <2>3. PICK k \in Holders(ints) \ K : p \in TextsOf(k)
      BY <1>3, <2>2 DEF PassedOn
    <2> QED
      BY <1>3, <2>1, <2>3 DEF Apart
  <1>4. \A h, g \in K : h # g => TextsOf(h)' \cap TextsOf(g)' = {}
    BY <1>1 DEF Apart
  <1>5. \A h, g \in Holders(ints)' : h # g => TextsOf(h)' \cap TextsOf(g)' = {}
    BY <1>3, <1>4
  <1> QED
    BY <1>2, <1>5 DEF Apart

\* They stay live when only texts of those that pass theirs on are freed.
LEMMA StaysLive ==
  ASSUME TypeInv, NEW ints, Apart(ints), HeldLive(ints), NEW K, PassedOn(K, ints),
         NEW F, Frees(mem, mem', F), \A p \in F, h \in K : p \notin TextsOf(h),
         \A v \in Spent(ints) : AVar(v) \in K => v \in Spent(ints)',
         \A h \in (Holders(ints)' \ K) \ {AVar(v) : v \in Spent(ints)'} :
           \A p \in TextsOf(h)' : Live(p)'
  PROVE  HeldLive(ints)'
  <1>0. Len(mem.heap) \in Nat \ {0} /\ IsMemory(mem)
    BY Given DEF IsMemory, IsHeap
  <1>1. \A h \in K : TextsOf(h)' = TextsOf(h) /\ h \in Holders(ints)
    BY DEF PassedOn, TextsOf
  <1>2. ASSUME NEW h \in K, h \notin {AVar(v) : v \in Spent(ints)'}, NEW p \in TextsOf(h)'
        PROVE  Live(p)'
    <2>1. h \in Holders(ints) \ {AVar(v) : v \in Spent(ints)} /\ p \in TextsOf(h)
      BY <1>1, <1>2
    <2>2. Live(p) /\ p \in 1 .. Len(mem.heap) /\ p \notin F
      BY <1>2, <2>1, OldTexts DEF HeldLive
    <2> QED
      BY <2>2 DEF Live, Frees
  <1>3. mem'.heap[Undefined].state = "constant"
    BY <1>0 DEF HeldLive, Frees, Undefined
  <1>4. \A h \in Holders(ints)' \ {AVar(n) : n \in Spent(ints)'} : \A p \in TextsOf(h)' : Live(p)'
    BY <1>2
  <1> QED
    BY <1>3, <1>4 DEF HeldLive

\* Safe in the next state.
SafeNext(ps, level, ints) ==
  \A p \in Texts(ps) :
    /\ Live(p)'
    /\ \A h \in Holders(ints)' : p \in TextsOf(h)' => h \in {AFrame(i) : i \in 1 .. level - 1}

\* Actual parameters stay safe when no call that answers for them returns.
LEMMA StaysSafe ==
  ASSUME TypeInv, NEW ints, Apart(ints), NEW K, PassedOn(K, ints),
         NEW F, Frees(mem, mem', F),
         \A p \in F : \/ p \in {Null, Undefined} \/ p > Len(mem.heap)
                      \/ \E g \in Holders(ints) \ K : p \in TextsOf(g),
         NEW n \in Nat, \A i \in 1 .. n : AFrame(i) \in Holders(ints) => AFrame(i) \in K,
         NEW level \in Nat, level <= n + 1, NEW next \in Nat, level <= next,
         NEW ps \in Seq(0 .. Len(mem.heap)), Safe(ps, level, ints)
  PROVE  SafeNext(ps, next, ints)
  <1>0. Len(mem.heap) \in Nat
    BY Given
  <1> SUFFICES ASSUME NEW p \in Texts(ps)
               PROVE  /\ Live(p)'
                      /\ \A h \in Holders(ints)' :
                           p \in TextsOf(h)' => h \in {AFrame(i) : i \in 1 .. next - 1}
    BY DEF SafeNext
  <1>1. p \in 1 .. Len(mem.heap) /\ p \notin {Null, Undefined}
    BY <1>0, SmallTexts DEF Texts
  <1>2. Live(p) /\ \A h \in Holders(ints) :
                     p \in TextsOf(h) => h \in {AFrame(i) : i \in 1 .. level - 1}
    BY DEF Safe
  <1>3. \A g \in Holders(ints) \ K : p \notin TextsOf(g)
    <2> SUFFICES ASSUME NEW g \in Holders(ints) \ K, p \in TextsOf(g) PROVE FALSE
      OBVIOUS
    <2>1. PICK i \in 1 .. level - 1 : g = AFrame(i)
      BY <1>2
    <2>2. i \in 1 .. n
      OBVIOUS
    <2> QED
      BY <2>1, <2>2
  <1>4. p \notin F
    BY <1>1, <1>3
  <1>5. Live(p)'
    BY <1>1, <1>2, <1>4 DEF Live, Frees
  <1>6. ASSUME NEW h \in Holders(ints)', p \in TextsOf(h)'
        PROVE  h \in {AFrame(i) : i \in 1 .. next - 1}
    <2>1. h \in K
      BY <1>0, <1>1, <1>3, <1>6 DEF PassedOn
    <2>2. p \in TextsOf(h) /\ h \in Holders(ints)
      BY <1>6, <2>1 DEF PassedOn, TextsOf
    <2>3. PICK i \in 1 .. level - 1 : h = AFrame(i)
      BY <1>2, <2>2
    <2>4. i \in 1 .. next - 1
      OBVIOUS
    <2> QED
      BY <2>3, <2>4
  <1> QED
    BY <1>5, <1>6

\* What Careful says of the next instruction of the block that runs.
LEMMA CarefulHere ==
  ASSUME TypeInv, WaitInv, NEW ints, StackInv(ints), CarefulWith(script, ints),
         kont # <<>>, Frame.kind = "code", Frame.done < Len(CodeOf(Frame))
  PROVE  Careful(InstrDue, Here(ints), ints)
  <1>1. Frame = kont[Len(kont)] /\ Len(kont) \in CodeFrames
    BY Given, TopAndBelow DEF CodeFrames
  <1>2. /\ Frame \in CodeFramesOf(script) /\ Frame.done \in 0 .. Len(CodeOf(Frame))
        /\ Len(CodeOf(Frame)) \in Nat
    BY <1>1, FrameFacts
  <1>3. Frame.node \in Blocks(script)
    BY <1>2 DEF CodeFramesOf, Blocks
  <1>4. IsCareful(Typing(CodeOf(Frame), ints), CodeOf(Frame), ints)
    BY <1>3 DEF CarefulWith, CodeOf
  <1>5. Frame.done + 1 \in 1 .. Len(CodeOf(Frame)) /\ (Frame.done + 1) - 1 = Frame.done
    BY <1>2
  <1> DEFINE code == CodeOf(Frame)
             pt == Typing(code, ints)
             i == Frame.done + 1
  <1>6. IsCareful(pt, code, ints) /\ i \in 1 .. Len(code) /\ i - 1 = Frame.done
    BY <1>4, <1>5
  <1>7. InstrDue = code[i] /\ Here(ints) = pt[Frame.done]
    BY DEF InstrDue, Here
  <1> HIDE DEF code, pt, i
  <1>8. Careful(code[i], pt[i - 1], ints)
    BY <1>6 DEF IsCareful
  <1> QED
    BY <1>6, <1>7, <1>8

\* No text is on loan before or after a quiet step.
LEMMA QuietNoLoans ==
  ASSUME TypeInv, TypeInv', WaitInv, NEW ints, StackInv(ints), OwnerInv(ints), NEW n, Quiet(n)
  PROVE  /\ Lent(ints) = {} /\ Spent(ints) = {} /\ Lent(ints)' = {} /\ Spent(ints)' = {}
         /\ ~BlockRuns'
  <1>1. Len(kont) \in Nat /\ Len(kont') \in Nat /\ n \in 0 .. Len(kont) /\ n <= Len(kont')
        /\ \A i \in 1 .. n : kont'[i] = kont[i]
    <2>1. Len(kont) \in Nat /\ Len(kont') \in Nat
      BY Given DEF TypeInv
    <2> QED
      BY <2>1 DEF Quiet, Keeps
  <1>2. ~BlockRuns'
    <2> SUFFICES ASSUME kont' # <<>>, Frame'.kind = "code", focus'.at = "next" PROVE FALSE
      BY DEF BlockRuns
    <2>1. Frame' = kont'[Len(kont')] /\ Len(kont') > 0
      <3>1. kont' \in Seq(Frames(script, Len(mem.heap))')
        BY DEF TypeInv
      <3> QED
        BY <1>1, <3>1 DEF Frame
    <2>2. n = Len(kont')
      <3>1. Len(kont') \in n + 1 .. Len(kont') => kont'[Len(kont')].kind # "code"
        BY DEF Quiet
      <3> QED
        BY <1>1, <2>1, <3>1
    <2>3. kont[n].kind = "code" /\ n > 0
      BY <1>1, <2>1, <2>2
    <2> QED
      BY <2>2, <2>3 DEF Quiet
  <1>3. Lent(ints)' = {} /\ Spent(ints)' = {}
    BY <1>2 DEF Lent, Spent
  <1>4. Lent(ints) = {} /\ Spent(ints) = {}
    <2>1. CASE ~BlockRuns
      BY <2>1 DEF Lent, Spent
    <2>2. CASE BlockRuns
      <3>1. kont # <<>> /\ Frame.kind = "code" /\ Frame = kont[Len(kont)] /\ Len(kont) > 0
        BY <2>2, TopIsFrame DEF BlockRuns, Frame
      <3>2. n = Len(kont)
        <4>1. Len(kont) \in n + 1 .. Len(kont) => kont[Len(kont)].kind # "code"
          BY DEF Quiet
        <4> QED
          BY <1>1, <3>1, <4>1
      <3>3. InvokeDue(Frame)
        BY <3>1, <3>2 DEF Quiet
      <3>4. Frame.done < Len(CodeOf(Frame)) /\ InstrDue.op = "INVOKE"
        BY <3>3 DEF InvokeDue, InstrDue
      <3>5. Here(ints).spent = {} /\ Lenders(Here(ints).stack) = {}
        BY <3>1, <3>4, CarefulHere DEF OwnerInv, Careful
      <3>6. Lent(ints) = {}
        BY <2>2, <3>5 DEF Lent, Lenders
      <3> QED
        BY <2>2, <3>5, <3>6 DEF Spent
    <2> QED
      BY <2>1, <2>2
  <1> QED
    BY <1>2, <1>3, <1>4
-----------------------------------------------------------------------------
\* The holders that a quiet step leaves alone.
Kept(n, V, ints) ==
  {AFrame(i) : i \in 1 .. n} \cup {AVar(v) : v \in V} \cup {ACell(j) : j \in OwnCells(ints)}

Others(n, V, ints) == Holders(ints) \ Kept(n, V, ints)

\* These pointers may be freed; this list may be passed on.
MayFree(F, n, V, ints) ==
  \A p \in F : p \in {Null, Undefined} \/ \E g \in Others(n, V, ints) : p \in TextsOf(g)

Passes(L, F, n, V, ints) ==
  /\ OnceEach(L)
  /\ \A p \in Texts(L) : /\ p \notin F
                         /\ \/ p \in Len(mem.heap) + 1 .. Len(mem'.heap)
                            \/ \E g \in Others(n, V, ints) : p \in TextsOf(g)

\* The holders of the next state that are not those.
LEMMA NewHolders ==
  ASSUME TypeInv, TypeInv', NEW n, Quiet(n), mem'.stack = mem.stack, NEW ints,
         Lent(ints) = {}, Lent(ints)' = {},
         NEW V, V \subseteq TextVars, V \subseteq TextVars', \A v \in V : mem'.vars[v] = mem.vars[v]
  PROVE  /\ Kept(n, V, ints) \subseteq Holders(ints)
         /\ \A h \in Kept(n, V, ints) : ListOf(h)' = ListOf(h)
         /\ \A h \in Holders(ints)' \ Kept(n, V, ints) :
              \/ \E i \in n + 1 .. Len(kont') : h = AFrame(i)
              \/ \E v \in TextVars' \ V : h = AVar(v)
              \/ h = Flight
  <1>1. /\ Len(kont) \in Nat /\ Len(kont') \in Nat /\ n \in 0 .. Len(kont) /\ n <= Len(kont')
        /\ DOMAIN kont = 1 .. Len(kont) /\ DOMAIN kont' = 1 .. Len(kont')
        /\ \A i \in 1 .. n : kont'[i] = kont[i]
    <2>1. /\ Len(kont) \in Nat /\ Len(kont') \in Nat
          /\ DOMAIN kont = 1 .. Len(kont) /\ DOMAIN kont' = 1 .. Len(kont')
      BY Given DEF TypeInv
    <2> QED
      BY <2>1 DEF Quiet, Keeps
  <1>2. OwnCells(ints)' = OwnCells(ints)
    <2>1. LentCells(ints) = {} /\ LentCells(ints)' = {}
      BY DEF LentCells
    <2> QED
      BY <2>1 DEF OwnCells
  <1>3. Kept(n, V, ints) \subseteq Holders(ints)
    BY <1>1 DEF Kept, Holders
  <1>4. \A i \in 1 .. n : ListOf(AFrame(i))' = ListOf(AFrame(i))
    BY <1>1, HolderLists, HolderListsNext
  <1>5. \A v \in V : ListOf(AVar(v))' = ListOf(AVar(v))
    BY HolderLists, HolderListsNext
  <1>6. \A j \in OwnCells(ints) : ListOf(ACell(j))' = ListOf(ACell(j))
    BY HolderLists, HolderListsNext
  <1>7. \A h \in Kept(n, V, ints) : ListOf(h)' = ListOf(h)
    BY <1>4, <1>5, <1>6 DEF Kept
  <1>8. ASSUME NEW h \in Holders(ints)' \ Kept(n, V, ints)
        PROVE  \/ \E i \in n + 1 .. Len(kont') : h = AFrame(i)
               \/ \E v \in TextVars' \ V : h = AVar(v)
               \/ h = Flight
    <2>1. CASE h \in {AFrame(i) : i \in DOMAIN kont'}
      <3>1. PICK i \in DOMAIN kont' : h = AFrame(i)
        BY <2>1
      <3>2. i \notin 1 .. n
        BY <1>8, <3>1 DEF Kept
      <3>3. i \in n + 1 .. Len(kont')
        BY <1>1, <3>2
      <3> QED
        BY <3>1, <3>3
    <2>2. CASE h \in {AVar(v) : v \in TextVars'}
      BY <1>8, <2>2 DEF Kept
    <2>3. CASE h \in {ACell(j) : j \in OwnCells(ints)'}
      BY <1>2, <1>8, <2>3 DEF Kept
    <2>4. CASE h = Flight
      BY <2>4
    <2>5. h \in Holders(ints)'
      BY <1>8
    <2> QED
      BY <2>1, <2>2, <2>3, <2>4, <2>5 DEF Holders
  <1> QED
    BY <1>3, <1>7, <1>8

\* What changes hands in a quiet step has one holder again.
LEMMA Handover ==
  ASSUME TypeInv, TypeInv', WaitInv, NEW ints, StackInv(ints), OwnerInv(ints), Running,
         NEW n, Quiet(n), mem'.stack = mem.stack,
         NEW V, V \subseteq TextVars, V \subseteq TextVars',
             \A v \in V : mem'.vars[v] = mem.vars[v],
         NEW F, Frees(mem, mem', F), MayFree(F, n, V, ints),
         \A i \in n + 1 .. Len(kont') : Passes(OwnedBy(kont'[i]), F, n, V, ints),
         Passes(InFlight', F, n, V, ints),
         \A v \in TextVars' \ V : Passes(<<mem'.vars[v].v>>, F, n, V, ints),
         \A h, g \in Holders(ints)' \ Kept(n, V, ints) :
           h # g => TextsOf(h)' \cap TextsOf(g)' = {}
  PROVE  /\ PassedOn(Kept(n, V, ints), ints)
         /\ Apart(ints)' /\ HeldLive(ints)' /\ Loans(ints)'
  <1> DEFINE K == Kept(n, V, ints)
  <1>1. Lent(ints) = {} /\ Spent(ints) = {} /\ Lent(ints)' = {} /\ Spent(ints)' = {}
    BY QuietNoLoans
  <1>2. Apart(ints) /\ HeldLive(ints)
    BY DEF OwnerInv, NoFault, Running
  <1>3. /\ K \subseteq Holders(ints) /\ \A h \in K : ListOf(h)' = ListOf(h)
        /\ \A h \in Holders(ints)' \ K :
              \/ \E i \in n + 1 .. Len(kont') : h = AFrame(i)
              \/ \E v \in TextVars' \ V : h = AVar(v)
              \/ h = Flight
    BY <1>1, NewHolders
  <1>4. \A h \in Holders(ints)' \ K : Passes(ListOf(h)', F, n, V, ints)
    BY <1>3, HolderListsNext
  <1>5. Len(mem.heap) \in Nat
    BY Given
  <1>6. Others(n, V, ints) = Holders(ints) \ K
    BY DEF Others
  <1> HIDE DEF K
  <1>7. \A h \in Holders(ints)' \ K : \A p \in TextsOf(h)' :
          /\ p \notin F
          /\ p \in Len(mem.heap) + 1 .. Len(mem'.heap) \/ \E g \in Holders(ints) \ K :
              p \in TextsOf(g)
    BY <1>4, <1>6 DEF Passes, TextsOf
  <1>8. PassedOn(K, ints)
    BY <1>3, <1>5, <1>7 DEF PassedOn
  <1>9. Apart(ints)'
    <2>1. \A h \in Holders(ints)' \ K : OnceEach(ListOf(h)')
      BY <1>4 DEF Passes
    <2>2. \A h, g \in Holders(ints)' \ K : h # g => TextsOf(h)' \cap TextsOf(g)' = {}
      BY DEF K
    <2> QED
      BY <1>2, <1>8, <2>1, <2>2, StaysApart
  <1>10. \A p \in F, h \in K : p \notin TextsOf(h)
    <2> SUFFICES ASSUME NEW p \in F, NEW h \in K, p \in TextsOf(h) PROVE FALSE
      OBVIOUS
    <2>1. p \notin {Null, Undefined}
      BY DEF TextsOf, Texts
    <2>2. PICK g \in Holders(ints) \ K : p \in TextsOf(g)
      BY <1>6, <2>1 DEF MayFree
    <2> QED
      BY <1>2, <1>3, <2>2 DEF Apart
  <1>11. \A h \in Holders(ints)' \ K : \A p \in TextsOf(h)' : Live(p)'
    <2> SUFFICES ASSUME NEW h \in Holders(ints)' \ K, NEW p \in TextsOf(h)' PROVE Live(p)'
      OBVIOUS
    <2>1. CASE p \in Len(mem.heap) + 1 .. Len(mem'.heap)
      BY <1>7, <2>1 DEF Live, Frees
    <2>2. CASE \E g \in Holders(ints) \ K : p \in TextsOf(g)
      <3>1. PICK g \in Holders(ints) \ K : p \in TextsOf(g)
        BY <2>2
      <3>2. Live(p) /\ p \in 1 .. Len(mem.heap) /\ p \notin F
        BY <1>1, <1>2, <1>7, <3>1, OldTexts DEF HeldLive
      <3> QED
        BY <3>2 DEF Live, Frees
    <2> QED
      BY <1>7, <2>1, <2>2
  <1>12. HeldLive(ints)'
    <2>1. \A v \in Spent(ints) : AVar(v) \in K => v \in Spent(ints)'
      BY <1>1
    <2> QED
      BY <1>2, <1>8, <1>10, <1>11, <2>1, StaysLive
  <1>13. Loans(ints)'
    BY <1>1 DEF Loans
  <1> QED
    BY <1>8, <1>9, <1>12, <1>13 DEF K

\* A list without texts has no text twice.
LEMMA NoTextsOnce ==
  ASSUME NEW L, Texts(L) = {}
  PROVE  OnceEach(L)
  BY DEF Texts, OnceEach, ToSet

\* The actual parameters of a frame are pointers.
LEMMA EnvType ==
  ASSUME NEW s, NEW h, NEW f \in Frames(s, h), "env" \in DOMAIN f
  PROVE  f.env \in Envs(h) /\ f.env.cooked \in Seq(0 .. h)
  <1>1. f.env \in Envs(h)
    BY DEF Frames, OptionFrames, WaitFrames, LoopFrames, RuleFrames, ArgsFrames, NestedFrames,
           CodeFramesOf
  <1> QED
    BY <1>1 DEF Envs

\* The texts of the frames above a level and of the result in flight.
Loose(n) == (UNION {FrameTexts(i) : i \in n + 1 .. Len(kont)}) \cup Texts(InFlight)

\* Actual parameters that a waiting function, or the atom in focus, has had.
Inherits(ps, n, ints) ==
  ps \in Seq(0 .. Len(mem.heap)) /\ \E level \in 0 .. n + 1 : Safe(ps, level, ints)

\* Actual parameters that have just been resolved.
Handed(ps, n, F, level) ==
  /\ Texts(ps) \subseteq Loose(n) \ F
  /\ Texts(ps) \cap Texts(InFlight') = {}
  /\ \A i \in n + 1 .. Len(kont') : i >= level => Texts(ps) \cap Texts(OwnedBy(kont'[i])) = {}

Passable(ps, n, F, level, ints) == Inherits(ps, n, ints) \/ Handed(ps, n, F, level)

\* What is loose has holders that a quiet step does not keep.
LEMMA LooseOthers ==
  ASSUME TypeInv, NEW n \in 0 .. Len(kont), NEW ints, NEW V, NEW p \in Loose(n)
  PROVE  p \notin {Null, Undefined} /\ \E g \in Others(n, V, ints) : p \in TextsOf(g)
  <1>1. Len(kont) \in Nat /\ DOMAIN kont = 1 .. Len(kont)
    BY Given
  <1>2. CASE p \in Texts(InFlight)
    <2>1. Flight \in Others(n, V, ints)
      BY HoldersDiffer DEF Others, Kept, Holders
    <2> QED
      BY <1>2, <2>1, HolderLists DEF TextsOf, Texts
  <1>3. ASSUME NEW i \in n + 1 .. Len(kont), p \in FrameTexts(i)
        PROVE  p \notin {Null, Undefined} /\ \E g \in Others(n, V, ints) : p \in TextsOf(g)
    <2>1. i \in DOMAIN kont /\ i \notin 1 .. n
      BY <1>1
    <2>2. AFrame(i) \in Others(n, V, ints)
      BY <2>1, HoldersDiffer DEF Others, Kept, Holders
    <2> QED
      BY <1>3, <2>2, HolderLists DEF TextsOf, Texts, FrameTexts
  <1> QED
    BY <1>2, <1>3 DEF Loose

\* The actual parameters stay safe in a quiet step.
LEMMA StepsSafe ==
  ASSUME TypeInv, TypeInv', NEW ints, Apart(ints), HeldLive(ints), Lent(ints) = {},
      Spent(ints) = {},
         NEW n, Quiet(n), NEW V,
         NEW F, Frees(mem, mem', F), MayFree(F, n, V, ints), PassedOn(Kept(n, V, ints), ints),
         \A h \in Holders(ints)' \ Kept(n, V, ints) :
              \/ \E i \in n + 1 .. Len(kont') : h = AFrame(i)
              \/ h = Flight,
         NEW level \in Nat, n + 1 <= level, NEW ps, Passable(ps, n, F, level, ints)
  PROVE  SafeNext(ps, level, ints)
  <1>0. n \in 0 .. Len(kont) /\ Len(mem.heap) \in Nat /\ Len(kont') \in Nat
    BY Given DEF Quiet, Keeps, TypeInv
  <1> DEFINE K == Kept(n, V, ints)
  <1>1. CASE Inherits(ps, n, ints)
    <2>1. PICK below \in 0 .. n + 1 : Safe(ps, below, ints)
      BY <1>1 DEF Inherits
    <2>2. \A p \in F : p \in {Null, Undefined} \/ \E g \in Holders(ints) \ K : p \in TextsOf(g)
      BY DEF MayFree, Others
    <2>3. \A i \in 1 .. n : AFrame(i) \in Holders(ints) => AFrame(i) \in K
      BY DEF Kept
    <2>4. below \in Nat /\ below <= n + 1 /\ below <= level /\ n \in Nat
      BY <1>0
    <2>5. PassedOn(K, ints) /\ ps \in Seq(0 .. Len(mem.heap))
      BY <1>1 DEF Inherits
    <2> HIDE DEF K
    <2> QED
      BY <2>1, <2>2, <2>3, <2>4, <2>5, StaysSafe
  <1>2. CASE Handed(ps, n, F, level)
    <2> SUFFICES ASSUME NEW p \in Texts(ps)
                 PROVE  /\ Live(p)'
                        /\ \A h \in Holders(ints)' :
                             p \in TextsOf(h)' => h \in {AFrame(i) : i \in 1 .. level - 1}
      BY DEF SafeNext
    <2>1. p \in Loose(n) /\ p \notin F
      BY <1>2 DEF Handed
    <2>2. PICK g \in Others(n, V, ints) : p \in TextsOf(g)
      BY <1>0, <2>1, LooseOthers
    <2>3. g \in Holders(ints) /\ g \notin K
      BY DEF Others
    <2>4. Live(p) /\ p \in 1 .. Len(mem.heap)
      BY <2>2, <2>3, OldTexts DEF HeldLive
    <2>5. Live(p)'
      BY <2>1, <2>4 DEF Live, Frees
    <2>6. ASSUME NEW h \in Holders(ints)', p \in TextsOf(h)'
          PROVE  h \in {AFrame(i) : i \in 1 .. level - 1}
      <3>1. h \notin K
        <4> SUFFICES ASSUME h \in K PROVE FALSE
          OBVIOUS
        <4>1. h \in Holders(ints) /\ p \in TextsOf(h)
          BY <2>6 DEF PassedOn, TextsOf
        <4> QED
          BY <2>2, <2>3, <4>1 DEF Apart
      <3>2. CASE h = Flight
        BY <1>2, <2>6, <3>2, HolderListsNext DEF Handed, TextsOf
      <3>3. CASE \E i \in n + 1 .. Len(kont') : h = AFrame(i)
        <4>1. PICK i \in n + 1 .. Len(kont') : h = AFrame(i)
          BY <3>3
        <4>2. p \in Texts(OwnedBy(kont'[i]))
          BY <2>6, <4>1, HolderListsNext DEF TextsOf
        <4>3. ~(i >= level)
          BY <1>2, <4>2 DEF Handed
        <4>4. i \in 1 .. level - 1
          BY <1>0, <4>3
        <4> QED
          BY <4>1, <4>4
      <3> QED
        BY <3>1, <3>2, <3>3
    <2> QED
      BY <2>5, <2>6
  <1> QED
    BY <1>1, <1>2 DEF Passable

\* So do those of every waiting function and of the atom in focus.
LEMMA StepsActuals ==
  ASSUME TypeInv, TypeInv', NEW ints, Apart(ints), HeldLive(ints), Lent(ints) = {},
      Spent(ints) = {},
         ActualsSafe(ints), NEW n, Quiet(n), NEW V,
         NEW F, Frees(mem, mem', F), MayFree(F, n, V, ints), PassedOn(Kept(n, V, ints), ints),
         \A h \in Holders(ints)' \ Kept(n, V, ints) :
              \/ \E i \in n + 1 .. Len(kont') : h = AFrame(i)
              \/ h = Flight,
         \A i \in n + 1 .. Len(kont') :
           "env" \in DOMAIN kont'[i] => Passable(kont'[i].env.cooked, n, F, i, ints),
         focus'.at = "atom" => Passable(focus'.env.cooked, n, F, Len(kont') + 1, ints)
  PROVE  ActualsSafe(ints)'
  <1>0. /\ n \in 0 .. Len(kont) /\ n <= Len(kont') /\ Len(mem.heap) \in Nat
        /\ Len(kont') \in Nat /\ Len(kont) \in Nat
        /\ DOMAIN kont = 1 .. Len(kont) /\ DOMAIN kont' = 1 .. Len(kont')
        /\ \A i \in 1 .. n : kont'[i] = kont[i]
    BY Given DEF Quiet, Keeps, TypeInv
  <1>1. \A level \in Nat : \A ps :
          n + 1 <= level /\ Passable(ps, n, F, level, ints) => SafeNext(ps, level, ints)
    BY StepsSafe
  <1>2. ASSUME NEW i \in 1 .. n, "env" \in DOMAIN kont'[i]
        PROVE  SafeNext(kont'[i].env.cooked, i, ints)
    <2>1. i \in DOMAIN kont /\ kont'[i] = kont[i] /\ i \in Nat /\ i <= n + 1 /\ n \in Nat
      BY <1>0
    <2>2. Safe(kont[i].env.cooked, i, ints)
      BY <1>2, <2>1 DEF ActualsSafe
    <2>3. kont[i].env.cooked \in Seq(0 .. Len(mem.heap))
      <3>1. kont[i] \in Frames(script, Len(mem.heap))
        BY <2>1, Given
      <3> QED
        BY <1>2, <2>1, <3>1, EnvType
    <2> DEFINE K == Kept(n, V, ints)
    <2>4. \A p \in F : p \in {Null, Undefined} \/ \E g \in Holders(ints) \ K : p \in TextsOf(g)
      BY DEF MayFree, Others
    <2>5. \A j \in 1 .. n : AFrame(j) \in Holders(ints) => AFrame(j) \in K
      BY DEF Kept
    <2>6. PassedOn(K, ints)
      OBVIOUS
    <2> HIDE DEF K
    <2> DEFINE ps == kont[i].env.cooked
    <2>7. ps \in Seq(0 .. Len(mem.heap)) /\ Safe(ps, i, ints) /\ kont'[i].env.cooked = ps
      BY <2>1, <2>2, <2>3
    <2> HIDE DEF ps
    <2>9. i <= i
      BY <2>1
    <2>8. SafeNext(ps, i, ints)
      BY <2>1, <2>4, <2>5, <2>6, <2>7, <2>9, StaysSafe
    <2> QED
      BY <2>7, <2>8
  <1>3. ASSUME NEW i \in n + 1 .. Len(kont'), "env" \in DOMAIN kont'[i]
        PROVE  SafeNext(kont'[i].env.cooked, i, ints)
    <2>1. i \in Nat /\ n + 1 <= i
      BY <1>0
    <2>2. Passable(kont'[i].env.cooked, n, F, i, ints)
      BY <1>3
    <2> QED
      BY <1>1, <2>1, <2>2
  <1>4. focus'.at = "atom" => SafeNext(focus'.env.cooked, Len(kont') + 1, ints)
    <2>1. Len(kont') + 1 \in Nat /\ n + 1 <= Len(kont') + 1
      BY <1>0
    <2> QED
      BY <1>1, <2>1
  <1>5. \A i \in DOMAIN kont' : i \in 1 .. n \/ i \in n + 1 .. Len(kont')
    BY <1>0
  <1> QED
    BY <1>2, <1>3, <1>4, <1>5 DEF ActualsSafe, Safe, SafeNext

\* What the ownership invariant says while the resolver runs.
LEMMA OwnerFacts ==
  ASSUME NEW ints, OwnerInv(ints), Running
  PROVE  /\ CarefulWith(script, ints) /\ mem.fault # "stale"
         /\ Apart(ints) /\ HeldLive(ints) /\ Loans(ints) /\ ActualsSafe(ints)
  BY DEF OwnerInv, NoFault, Running

\* The function that answers for the texts of L, the only new ones to answer for.
Single(n, L, who) ==
  /\ \A i \in n + 1 .. Len(kont') :
       IF AFrame(i) = who THEN OwnedBy(kont'[i]) = L ELSE Texts(OwnedBy(kont'[i])) = {}
  /\ IF Flight = who THEN InFlight' = L ELSE Texts(InFlight') = {}

\* A quiet step that leaves the variables alone hands one list of texts on.
LEMMA HandOne ==
  ASSUME TypeInv, TypeInv', WaitInv, NEW ints, StackInv(ints), OwnerInv(ints), Running,
         NEW n, Quiet(n), mem'.stack = mem.stack, mem'.vars = mem.vars,
         NEW F, Frees(mem, mem', F), NotStale(mem, mem'), F \subseteq Loose(n) \cup {Null,
             Undefined},
         NEW L, OnceEach(L), \A p \in Texts(L) : /\ p \notin F
                                           /\ \/ p \in Loose(n)
                                              \/ p \in Len(mem.heap) + 1 .. Len(mem'.heap),
         NEW who, Single(n, L, who),
         \A i \in n + 1 .. Len(kont') :
           "env" \in DOMAIN kont'[i] => Passable(kont'[i].env.cooked, n, F, i, ints),
         focus'.at = "atom" => Passable(focus'.env.cooked, n, F, Len(kont') + 1, ints)
  PROVE  OwnerInv(ints)'
  <1> DEFINE V == TextVars
             K == Kept(n, V, ints)
  <1>1. Apart(ints) /\ HeldLive(ints) /\ ActualsSafe(ints)
    BY OwnerFacts
  <1>2. Lent(ints) = {} /\ Spent(ints) = {} /\ Lent(ints)' = {} /\ Spent(ints)' = {}
    BY QuietNoLoans
  <1>3. TextVars' = V /\ \A v \in V : mem'.vars[v] = mem.vars[v]
    BY DEF TextVars
  <1>4. n \in 0 .. Len(kont) /\ Len(mem.heap) \in Nat /\ Len(kont') \in Nat
    BY Given DEF Quiet, Keeps, TypeInv
  <1>5. MayFree(F, n, V, ints)
    BY <1>4, LooseOthers DEF MayFree
  <1> HIDE DEF V
  <1>6. Passes(L, F, n, V, ints)
    BY <1>4, LooseOthers DEF Passes
  <1>7. \A M : Texts(M) = {} => Passes(M, F, n, V, ints)
    BY NoTextsOnce DEF Passes
  <1>8. \A i \in n + 1 .. Len(kont') : Passes(OwnedBy(kont'[i]), F, n, V, ints)
    BY <1>6, <1>7 DEF Single
  <1>9. Passes(InFlight', F, n, V, ints)
    BY <1>6, <1>7 DEF Single
  <1>10. /\ K \subseteq Holders(ints) /\ \A h \in K : ListOf(h)' = ListOf(h)
         /\ \A h \in Holders(ints)' \ K :
              \/ \E i \in n + 1 .. Len(kont') : h = AFrame(i)
              \/ h = Flight
    BY <1>2, <1>3, NewHolders DEF V
  <1>11. \A h \in Holders(ints)' \ K : h # who => TextsOf(h)' = {}
    BY <1>10, HolderListsNext DEF Single, TextsOf
  <1>12. \A h, g \in Holders(ints)' \ K : h # g => TextsOf(h)' \cap TextsOf(g)' = {}
    BY <1>11
  <1>13. /\ PassedOn(K, ints)
         /\ Apart(ints)' /\ HeldLive(ints)' /\ Loans(ints)'
    BY <1>3, <1>5, <1>8, <1>9, <1>12, Handover DEF V
  <1>14. ActualsSafe(ints)'
    BY <1>1, <1>2, <1>5, <1>10, <1>13, StepsActuals
  <1>15. CarefulWith(script', ints) /\ mem'.fault # "stale"
    BY OwnerFacts DEF Quiet, NotStale
  <1> QED
    BY <1>13, <1>14, <1>15 DEF OwnerInv

Owned(ints) == TypeInv /\ WaitInv /\ StackInv(ints) /\ OwnerInv(ints)

\* Once something has gone wrong, but for a text that was read too late, nothing
\* more is claimed.
LEMMA FaultOwned ==
  ASSUME NEW ints, OwnerInv(ints), script' = script, mem'.fault \notin {"none", "stale"}
  PROVE  OwnerInv(ints)'
  BY DEF OwnerInv, NoFault

\* The lists of no pointer and of one.
LEMMA SmallLists ==
  /\ Texts(<<>>) = {} /\ OnceEach(<<>>)
  /\ \A p : OnceEach(<<p>>) /\ Texts(<<p>>) = {p} \ {Null, Undefined}
  <1>1. Texts(<<>>) = {} /\ OnceEach(<<>>)
    BY DEF Texts, OnceEach, ToSet
  <1>2. ASSUME NEW p PROVE OnceEach(<<p>>) /\ Texts(<<p>>) = {p} \ {Null, Undefined}
    <2>1. DOMAIN <<p>> = {1} /\ <<p>>[1] = p
      OBVIOUS
    <2> QED
      BY <2>1 DEF Texts, OnceEach, ToSet
  <1> QED
    BY <1>1, <1>2

\* What is loose when only the top frame is not kept, or none.
LEMMA LooseTop ==
  ASSUME TypeInv
  PROVE  /\ Loose(Len(kont)) = Texts(InFlight)
         /\ kont # <<>> => Loose(Len(kont) - 1) = Texts(OwnedBy(Frame)) \cup Texts(InFlight)
  <1>1. Len(kont) \in Nat
    BY Given
  <1>2. \A i : i \notin Len(kont) + 1 .. Len(kont)
    BY <1>1
  <1>3. Loose(Len(kont)) = Texts(InFlight)
    BY <1>2 DEF Loose
  <1>4. ASSUME kont # <<>>
        PROVE  Loose(Len(kont) - 1) = Texts(OwnedBy(Frame)) \cup Texts(InFlight)
    <2>1. Frame = kont[Len(kont)] /\ Len(kont) - 1 + 1 .. Len(kont) = {Len(kont)}
      BY <1>1, <1>4, Given, TopAndBelow
    <2>2. UNION {FrameTexts(i) : i \in Len(kont) - 1 + 1 .. Len(kont)} = FrameTexts(Len(kont))
      BY <2>1
    <2> QED
      BY <2>1, <2>2 DEF Loose, FrameTexts
  <1> QED
    BY <1>3, <1>4

\* The actual parameters of the atom in focus and of the top frame.
LEMMA FocusInherits ==
  ASSUME TypeInv, NEW ints, ActualsSafe(ints), focus.at = "atom"
  PROVE  Inherits(focus.env.cooked, Len(kont), ints)
  <1>1. Len(kont) \in Nat
    BY Given
  <1>2. Len(kont) + 1 \in 0 .. Len(kont) + 1
    BY <1>1
  <1> QED
    BY <1>2, GivenAtom DEF Inherits, ActualsSafe

\* So does the top frame, and who replaces it.
LEMMA FrameInherits ==
  ASSUME TypeInv, NEW ints, ActualsSafe(ints), kont # <<>>, "env" \in DOMAIN Frame,
         NEW n \in Len(kont) - 1 .. Len(kont)
  PROVE  Inherits(Frame.env.cooked, n, ints)
  <1>1. Len(kont) \in Nat \ {0} /\ Frame = kont[Len(kont)]
            /\ Frame \in Frames(script, Len(mem.heap))
    BY Given, TopAndBelow
  <1>2. Len(kont) \in 0 .. n + 1 /\ Len(kont) \in DOMAIN kont
    BY <1>1, Given
  <1>3. Frame.env.cooked \in Seq(0 .. Len(mem.heap))
    BY <1>1, EnvType
  <1>4. Safe(Frame.env.cooked, Len(kont), ints)
    BY <1>1, <1>2 DEF ActualsSafe
  <1> QED
    BY <1>2, <1>3, <1>4 DEF Inherits

\* Without actual parameters there is nothing to keep.
LEMMA NoEnvInherits ==
  ASSUME NEW ints, NEW n \in Nat
  PROVE  Inherits(NoEnv.cooked, n, ints)
  <1>1. NoEnv.cooked = <<>>
    BY DEF NoEnv
  <1>2. Texts(<<>>) = {} /\ <<>> \in Seq(0 .. Len(mem.heap)) /\ 0 \in 0 .. n + 1
    BY SmallLists
  <1> QED
    BY <1>1, <1>2 DEF Inherits, Safe

\* The result is nobody's but the caller's.
LEMMA HandAnswer ==
  ASSUME NEW ints, Owned(ints), TypeInv', Running, focus.at = "atom",
         NEW m, Mild(mem, m), Frees(mem, m, {}), NotStale(mem, m), NEW p, Answer(m, p),
         p \in {Null, Undefined} \/ p \in Len(mem.heap) + 1 .. Len(m.heap)
  PROVE  OwnerInv(ints)'
  <1> DEFINE n == Len(kont)
  <1>1. mem' = m /\ kont' = kont /\ focus' = Return(p) /\ n \in Nat
    BY Given DEF Answer, Same, Owned
  <1>2. Quiet(n)
    BY QuietAnswer DEF Owned
  <1>3. InFlight' = <<p>> /\ focus'.at # "atom"
    BY <1>1 DEF InFlight, Return
  <1>4. \A i : i \notin n + 1 .. Len(kont')
    BY <1>1
  <1>5. Single(n, <<p>>, Flight)
    BY <1>3, <1>4 DEF Single
  <1>6. OnceEach(<<p>>) /\ \A q \in Texts(<<p>>) : q = p /\ q \notin {Null, Undefined}
    BY SmallLists
  <1>7. mem'.stack = mem.stack /\ mem'.vars = mem.vars
    BY <1>1 DEF Mild
  <1> DEFINE L == <<p>>
  <1>8. /\ OnceEach(L) /\ Single(n, L, Flight)
        /\ \A q \in Texts(L) : q \in Len(mem.heap) + 1 .. Len(mem'.heap)
    BY <1>1, <1>5, <1>6
  <1>9. Frees(mem, mem', {}) /\ NotStale(mem, mem')
    BY <1>1
  <1> HIDE DEF n, L
  <1> QED
    BY <1>2, <1>3, <1>4, <1>7, <1>8, <1>9, HandOne DEF Owned

\* The top frame's function returns a text that it had, that it was handed, or
\* that is new.
LEMMA HandLeave ==
  ASSUME NEW ints, Owned(ints), TypeInv', Running, kont # <<>>, Frame.kind # "code",
         NEW m, Mild(mem, m), NEW F, Frees(mem, m, F), NotStale(mem, m), NEW p, Leave(m, p),
         F \subseteq Texts(OwnedBy(Frame)) \cup Texts(InFlight) \cup {Null, Undefined},
         \/ p \in {Null, Undefined} \/ (p \in Len(mem.heap) + 1 .. Len(m.heap) /\ p \notin F)
         \/ p \in (Texts(OwnedBy(Frame)) \cup Texts(InFlight)) \ F
  PROVE  OwnerInv(ints)'
  <1> DEFINE n == Len(kont) - 1
  <1>1. mem' = m /\ kont' = Below /\ focus' = Return(p)
    BY DEF Leave
  <1>2. Quiet(n) /\ Len(kont) \in Nat /\ Len(kont') = n
    BY <1>1, QuietLeave, Given, TopAndBelow DEF Owned
  <1>3. InFlight' = <<p>> /\ focus'.at # "atom"
    BY <1>1 DEF InFlight, Return
  <1>4. \A i : i \notin n + 1 .. Len(kont')
    BY <1>2
  <1>5. Single(n, <<p>>, Flight)
    BY <1>3, <1>4 DEF Single
  <1>6. OnceEach(<<p>>) /\ \A q \in Texts(<<p>>) : q = p /\ q \notin {Null, Undefined}
    BY SmallLists
  <1>7. mem'.stack = mem.stack /\ mem'.vars = mem.vars
    BY <1>1 DEF Mild
  <1>8. Loose(n) = Texts(OwnedBy(Frame)) \cup Texts(InFlight)
    BY LooseTop DEF Owned
  <1> DEFINE L == <<p>>
  <1>9. /\ OnceEach(L) /\ Single(n, L, Flight)
        /\ \A q \in Texts(L) :
             q \notin F /\ (q \in Loose(n) \/ q \in Len(mem.heap) + 1 .. Len(mem'.heap))
    BY <1>1, <1>5, <1>6, <1>8
  <1>10. Frees(mem, mem', F) /\ NotStale(mem, mem') /\ F \subseteq Loose(n) \cup {Null, Undefined}
    BY <1>1, <1>8
  <1> HIDE DEF n, L
  <1> QED
    BY <1>2, <1>3, <1>4, <1>7, <1>9, <1>10, HandOne DEF Owned

\* The top frame's function goes on with what it has.
LEMMA HandContinue ==
  ASSUME NEW ints, Owned(ints), TypeInv', Running, kont # <<>>, Frame.kind # "code",
         NEW m, Mild(mem, m), NEW F, Frees(mem, m, F), NotStale(mem, m),
         NEW f, f.kind # "code", NEW next, Continue(m, f, next),
         F \subseteq Texts(OwnedBy(Frame)) \cup Texts(InFlight) \cup {Null, Undefined},
         OnceEach(OwnedBy(f)),
         \A p \in Texts(OwnedBy(f)) :
           /\ p \notin F
           /\ \/ p \in Texts(OwnedBy(Frame)) \cup Texts(InFlight)
              \/ p \in Len(mem.heap) + 1 .. Len(m.heap),
         "env" \in DOMAIN Frame, "env" \in DOMAIN f => f.env = Frame.env,
         next.at \notin {"return", "cooked"}, next.at = "atom" => next.env = Frame.env
  PROVE  OwnerInv(ints)'
  <1> DEFINE n == Len(kont) - 1
             L == OwnedBy(f)
  <1>1. mem' = m /\ kont' = Append(Below, f) /\ focus' = next
    BY DEF Continue
  <1>2. Quiet(n) /\ Len(kont) \in Nat /\ Len(kont') = n + 1 /\ kont'[n + 1] = f
    <2>1. Below \in Seq(Frames(script, Len(mem.heap))) /\ Len(Below) = n /\ Len(kont) \in Nat
      BY Given, TopAndBelow DEF Owned
    <2>2. Quiet(n)
      BY QuietContinue DEF Owned
    <2> QED
      BY <1>1, <2>1, <2>2
  <1>3. InFlight' = <<>> /\ Texts(InFlight') = {}
    BY <1>1, SmallLists DEF InFlight
  <1>4. \A i \in n + 1 .. Len(kont') : i = n + 1 /\ kont'[i] = f
    BY <1>2
  <1>5. Single(n, L, AFrame(n + 1))
    BY <1>3, <1>4, HoldersDiffer DEF Single
  <1>7. mem'.stack = mem.stack /\ mem'.vars = mem.vars
    BY <1>1 DEF Mild
  <1>8. Loose(n) = Texts(OwnedBy(Frame)) \cup Texts(InFlight)
    BY LooseTop DEF Owned
  <1>9. \A p \in Texts(L) :
          p \notin F /\ (p \in Loose(n) \/ p \in Len(mem.heap) + 1 .. Len(mem'.heap))
    BY <1>1, <1>8
  <1>10. Frees(mem, mem', F) /\ NotStale(mem, mem') /\ F \subseteq Loose(n) \cup {Null, Undefined}
    BY <1>1, <1>8
  <1>11. Inherits(Frame.env.cooked, n, ints)
    <2>1. n \in Len(kont) - 1 .. Len(kont)
      BY <1>2
    <2> QED
      BY <2>1, FrameInherits, OwnerFacts DEF Owned
  <1>12. \A i \in n + 1 .. Len(kont') :
           "env" \in DOMAIN kont'[i] => Passable(kont'[i].env.cooked, n, F, i, ints)
    BY <1>4, <1>11 DEF Passable
  <1>13. focus'.at = "atom" => Passable(focus'.env.cooked, n, F, Len(kont') + 1, ints)
    BY <1>1, <1>11 DEF Passable
  <1>14. OnceEach(L)
    OBVIOUS
  <1> HIDE DEF n, L
  <1> QED
    BY <1>2, <1>5, <1>7, <1>9, <1>10, <1>12, <1>13, <1>14, HandOne DEF Owned

\* A frame that has yet to resolve its parameters has no texts.
LEMMA ArgsHaveNone ==
  ASSUME NEW params, NEW env
  PROVE  /\ Texts(OwnedBy(ArgsFrame(params, env))) = {}
         /\ ArgsFrame(params, env).kind = "args" /\ ArgsFrame(params, env).env = env
  <1> DEFINE a == ArgsFrame(params, env)
             texts == [i \in DOMAIN params |-> Null]
  <1>1. a.kind = "args" /\ a.env = env /\ a.texts = texts
    BY DEF ArgsFrame
  <1>2. OwnedBy(a) = texts
    BY <1>1 DEF OwnedBy
  <1>3. Texts(texts) = {}
    BY DEF Texts, ToSet
  <1> QED
    BY <1>1, <1>2, <1>3

\* A call that adds frames which have no texts yet.
LEMMA HandPush ==
  ASSUME NEW ints, Owned(ints), TypeInv', Running,
         kont # <<>> => (Frame.kind = "code" => InvokeDue(Frame)),
         NEW fs, fs = <<fs[1]>> \/ fs = <<fs[1], fs[2]>>,
         \A i \in DOMAIN fs :
           /\ fs[i].kind # "code" /\ Texts(OwnedBy(fs[i])) = {}
           /\ "env" \in DOMAIN fs[i] => Inherits(fs[i].env.cooked, Len(kont), ints),
         kont' = kont \o fs, script' = script,
         NEW m, Mild(mem, m), Frees(mem, m, {}), NotStale(mem, m), mem' = m,
         focus'.at \notin {"return", "cooked"},
         focus'.at = "atom" => Inherits(focus'.env.cooked, Len(kont), ints)
  PROVE  OwnerInv(ints)'
  <1> DEFINE n == Len(kont)
             L == <<>>
  <1>1. n \in Nat /\ kont \in Seq(Frames(script, Len(mem.heap)))
    BY Given DEF Owned
  <1>2. Quiet(n)
    BY MildCalm, QuietPush DEF Owned
  <1>3. \A i \in n + 1 .. Len(kont') : i - n \in DOMAIN fs /\ kont'[i] = fs[i - n]
    BY <1>1
  <1>4. Texts(InFlight') = {}
    BY SmallLists DEF InFlight
  <1>5. \A i \in n + 1 .. Len(kont') : Texts(OwnedBy(kont'[i])) = {}
    BY <1>3
  <1>6. \A i \in n + 1 .. Len(kont') :
          "env" \in DOMAIN kont'[i] => Passable(kont'[i].env.cooked, n, {}, i, ints)
    BY <1>3 DEF Passable
  <1>7. focus'.at = "atom" => Passable(focus'.env.cooked, n, {}, Len(kont') + 1, ints)
    BY DEF Passable
  <1>8. OnceEach(L) /\ Texts(L) = {}
    BY SmallLists
  <1>9. Single(n, L, <<"none">>)
    BY <1>4, <1>5 DEF Single, AFrame, Flight
  <1>10. mem'.stack = mem.stack /\ mem'.vars = mem.vars /\ Frees(mem, mem', {})
             /\ NotStale(mem, mem')
    BY DEF Mild
  <1>11. {} \subseteq Loose(n) \cup {Null, Undefined}
    OBVIOUS
  <1>12. \A p \in Texts(L) : p \notin {}
             /\ (p \in Loose(n) \/ p \in Len(mem.heap) + 1 .. Len(mem'.heap))
    BY <1>8
  <1> HIDE DEF n, L
  <1> QED
    BY <1>2, <1>6, <1>7, <1>8, <1>9, <1>10, <1>11, <1>12, HandOne DEF Owned

\* A function that is called has nothing yet.
LEMMA HandCall ==
  ASSUME NEW ints, Owned(ints), TypeInv', Running, focus.at = "atom",
         NEW m, Mild(mem, m), Frees(mem, m, {}), NotStale(mem, m), NEW f, NEW next, f.kind # "code",
         Call(m, f, next), Texts(OwnedBy(f)) = {}, "env" \in DOMAIN f => f.env = focus.env,
         next.at \notin {"return", "cooked"}, next.at = "atom" => next.env = focus.env
  PROVE  OwnerInv(ints)'
  <1>1. kont' = kont \o <<f>> /\ script' = script /\ mem' = m /\ focus' = next
    <2>1. kont \in Seq(Frames(script, Len(mem.heap)))
      BY Given DEF Owned
    <2> QED
      BY <2>1 DEF Call, Same
  <1>2. kont # <<>> => Frame.kind # "code"
    BY NoCodeUnderAtom DEF Owned
  <1>3. Inherits(focus.env.cooked, Len(kont), ints)
    BY FocusInherits, OwnerFacts DEF Owned
  <1> DEFINE fs == <<f>>
  <1>4. /\ fs = <<fs[1]>> /\ kont' = kont \o fs
        /\ \A i \in DOMAIN fs :
             /\ fs[i].kind # "code" /\ Texts(OwnedBy(fs[i])) = {}
             /\ "env" \in DOMAIN fs[i] => Inherits(fs[i].env.cooked, Len(kont), ints)
    BY <1>1, <1>3
  <1> HIDE DEF fs
  <1> QED
    BY <1>1, <1>2, <1>3, <1>4, HandPush

\* Nor has an invoked rule.
LEMMA HandInvokeOn ==
  ASSUME NEW ints, Owned(ints), TypeInv', Running, NEW n \in 0 .. Len(kont),
         n = Len(kont) /\ n > 0 /\ kont[n].kind = "code" => InvokeDue(kont[n]),
         \A i \in n + 1 .. Len(kont) : kont[i].kind # "code",
         NEW m, NEW name, NEW params, NEW env, NEW below, below = SubSeq(kont, 1, n),
         InvokeOn(m, below, name, params, env), Mild(mem, m), Frees(mem, m, {}), NotStale(mem, m),
         Inherits(env.cooked, n, ints)
  PROVE  OwnerInv(ints)'
  <1> DEFINE L == <<>>
             who == <<"none">>
  <1>1. mem' = m /\ mem'.stack = mem.stack /\ mem'.vars = mem.vars
        /\ Frees(mem, mem', {}) /\ NotStale(mem, mem')
    BY DEF InvokeOn, Mild
  <1>2. Quiet(n)
    BY QuietInvokeOn DEF Owned
  <1>3. below \in Seq(Frames(script, Len(mem.heap))) /\ Len(below) = n /\ n \in Nat
    BY Given, PrefixOf DEF Owned
  <1>4. /\ Texts(InFlight') = {} /\ focus'.at # "atom"
        /\ \A i \in n + 1 .. Len(kont') :
             /\ Texts(OwnedBy(kont'[i])) = {}
             /\ "env" \in DOMAIN kont'[i] => kont'[i].env = env
    <2> DEFINE r == [kind |-> "rule", name |-> name, cooked |-> <<>>]
               a == ArgsFrame(params, env)
    <2>1. CASE IsRule(name)
      <3>1. kont' = below \o <<r, a>> /\ focus' = GoOn
        BY <2>1 DEF InvokeOn
      <3>2. Texts(OwnedBy(a)) = {} /\ a.env = env
        BY ArgsHaveNone
      <3>3. Texts(OwnedBy(r)) = {} /\ "env" \notin DOMAIN r
        BY SmallLists DEF OwnedBy
      <3> HIDE DEF r, a
      <3>4. Len(kont') = n + 2 /\ kont'[n + 1] = r /\ kont'[n + 2] = a
        BY <1>3, <3>1, TwoMore
      <3>5. \A i \in n + 1 .. Len(kont') : i = n + 1 \/ i = n + 2
        BY <1>3, <3>4
      <3>6. Texts(InFlight') = {} /\ focus'.at # "atom"
        BY <3>1, SmallLists DEF InFlight, GoOn
      <3> QED
        BY <3>2, <3>3, <3>4, <3>5, <3>6
    <2>2. CASE ~IsRule(name)
      <3>1. kont' = below /\ focus' = Return(Null)
        BY <2>2 DEF InvokeOn
      <3>2. InFlight' = <<Null>> /\ focus'.at # "atom"
        BY <3>1 DEF InFlight, Return
      <3>3. \A i : i \notin n + 1 .. Len(kont')
        BY <1>3, <3>1
      <3> QED
        BY <3>2, <3>3, SmallLists
    <2> QED
      BY <2>1, <2>2
  <1>5. OnceEach(L) /\ Texts(L) = {}
    BY SmallLists
  <1>6. Single(n, L, who)
    BY <1>4 DEF Single, AFrame, Flight
  <1>7. \A i \in n + 1 .. Len(kont') :
          "env" \in DOMAIN kont'[i] => Passable(kont'[i].env.cooked, n, {}, i, ints)
    BY <1>4 DEF Passable
  <1>8. {} \subseteq Loose(n) \cup {Null, Undefined}
    OBVIOUS
  <1>9. \A p \in Texts(L) : p \notin {}
            /\ (p \in Loose(n) \/ p \in Len(mem.heap) + 1 .. Len(mem'.heap))
    BY <1>5
  <1> HIDE DEF L, who
  <1> QED
    BY <1>1, <1>2, <1>4, <1>5, <1>6, <1>7, <1>8, <1>9, HandOne DEF Owned

\* Texts that a function has at hand can be read.
LEMMA FlightReadable ==
  ASSUME NEW ints, Owned(ints), Running, focus.at = "return"
  PROVE  /\ CanRead(mem, focus.text)
         /\ focus.text \in {Null, Undefined} \/ focus.text \in Texts(InFlight)
  <1>1. HeldLive(ints)
    BY OwnerFacts DEF Owned
  <1>2. InFlight = <<focus.text>> /\ TextsOf(Flight) = {focus.text} \ {Null, Undefined}
    BY SmallLists, HolderLists DEF InFlight, TextsOf
  <1>3. Flight \in Holders(ints) \ {AVar(v) : v \in Spent(ints)}
    BY HoldersDiffer DEF Holders
  <1> QED
    BY <1>1, <1>2, <1>3, SmallLists DEF HeldLive, Live, CanRead

\* What the top frame has can be read.
LEMMA TopReadable ==
  ASSUME NEW ints, Owned(ints), Running, kont # <<>>,
      NEW p \in Texts(OwnedBy(Frame)) \cup {Null, Undefined}
  PROVE  CanRead(mem, p)
  <1>1. HeldLive(ints)
    BY OwnerFacts DEF Owned
  <1>2. Len(kont) \in DOMAIN kont /\ Frame = kont[Len(kont)]
    BY Given, TopAndBelow DEF Owned
  <1>3. AFrame(Len(kont)) \in Holders(ints) \ {AVar(v) : v \in Spent(ints)}
    BY <1>2, HoldersDiffer DEF Holders
  <1>4. TextsOf(AFrame(Len(kont))) = Texts(OwnedBy(Frame))
    BY <1>2, HolderLists DEF TextsOf
  <1> QED
    BY <1>1, <1>3, <1>4 DEF HeldLive, Live, CanRead

\* The variables can be read, but by a block that has freed what they hold.
LEMMA VarReadable ==
  ASSUME NEW ints, Owned(ints), Running, NEW v \in TextVars, ~BlockRuns \/ v \notin Spent(ints)
  PROVE  CanRead(mem, mem.vars[v].v)
  <1>1. HeldLive(ints)
    BY OwnerFacts DEF Owned
  <1>2. v \notin Spent(ints)
    BY DEF Spent
  <1>3. AVar(v) \in Holders(ints) \ {AVar(k) : k \in Spent(ints)}
    BY <1>2, HoldersDiffer DEF Holders
  <1>4. TextsOf(AVar(v)) = {mem.vars[v].v} \ {Null, Undefined}
    BY HolderLists, SmallLists DEF TextsOf
  <1> QED
    BY <1>1, <1>3, <1>4 DEF HeldLive, Live, CanRead

\* What is fetched from a variable can be read.
LEMMA FetchedReadable ==
  ASSUME NEW ints, Owned(ints), Running, focus.at = "atom", NEW name
  PROVE  CanRead(VarFetch(mem, name), VarFetched(mem, name))
  <1> DEFINE m == VarFetch(mem, name)
             p == VarFetched(mem, name)
  <1>0. IsMemory(mem) /\ IsHeap(mem.heap)
    BY Given DEF Owned, IsMemory
  <1>1. CASE Holds(mem, name, "int_t")
    <2> DEFINE text == Numeral(mem.vars[name].v)
               cell == [text |-> text, state |-> "live"]
    <2>1. m = Alloc(mem, text) /\ p = Newest(m)
      BY <1>1 DEF VarFetch, VarFetched
    <2>2. m.heap = Append(mem.heap, cell)
      BY <1>0, <2>1, AllocMemory
    <2>4. cell.state = "live"
      OBVIOUS
    <2> HIDE DEF cell
    <2>3. m.heap[Len(mem.heap) + 1] = cell /\ Len(m.heap) = Len(mem.heap) + 1
      BY <1>0, <2>2, AppendHeap
    <2> QED
      BY <2>1, <2>3, <2>4 DEF CanRead, Newest
  <1>2. CASE ~Holds(mem, name, "int_t") /\ Holds(mem, name, "string_t")
    <2>1. m = mem /\ p = mem.vars[name].v /\ name \in TextVars
      BY <1>2 DEF VarFetch, VarFetched, Holds, TextVars
    <2>2. ~BlockRuns
      BY DEF BlockRuns
    <2> QED
      BY <2>1, <2>2, VarReadable
  <1>3. CASE ~Holds(mem, name, "int_t") /\ ~Holds(mem, name, "string_t")
    BY <1>3 DEF VarFetched, CanRead
  <1> QED
    BY <1>1, <1>2, <1>3

\* An actual parameter can be read.
LEMMA ActualReadable ==
  ASSUME NEW ints, NEW env, NEW level, Safe(env.cooked, level, ints),
         mem.heap[Undefined].state = "constant", env.cooked \in Seq(0 .. Len(mem.heap)),
         NEW i \in Nat \ {0}, ~(i > Len(env.cooked))
  PROVE  CanRead(mem, env.cooked[i])
  <1>1. i \in DOMAIN env.cooked
    OBVIOUS
  <1>2. env.cooked[i] \in Texts(env.cooked) \cup {Null, Undefined}
    BY <1>1 DEF Texts, ToSet
  <1> QED
    BY <1>2 DEF Safe, Live, CanRead

\* A literal: its text is new.
LEMMA LiteralOwned ==
  ASSUME NEW ints, Owned(ints), TypeInv', Running, Literal
  PROVE  OwnerInv(ints)'
  <1> DEFINE m == Alloc(mem, Text(Node.data))
             p == Newest(m)
  <1>0. IsMemory(mem) /\ Len(mem.heap) \in Nat
    BY Given DEF Owned
  <1>1. focus.at = "atom" /\ Answer(m, p)
    BY DEF Literal, IsAtom
  <1>2. Mild(mem, m) /\ Frees(mem, m, {}) /\ NotStale(mem, m)
    BY <1>0, AllocMild, AllocFrees
  <1>3. p = Len(mem.heap) + 1 /\ p = Len(m.heap)
    BY <1>0, AllocMemory DEF Newest
  <1>4. p \in Len(mem.heap) + 1 .. Len(m.heap)
    BY <1>0, <1>3
  <1> HIDE DEF m, p
  <1> QED
    BY <1>1, <1>2, <1>4, HandAnswer

\* The position of a formal parameter.
LEMMA PositionType ==
  ASSUME NEW formal \in Seq(STRING), NEW name, Position(formal, name) # 0
  PROVE  Position(formal, name) \in Nat \ {0}
  <1> DEFINE R == {ss \in Nat \X Nat : ss[1] < ss[2]}
             T == {i \in DOMAIN formal : formal[i] = name}
             P(i) == formal[i] = name /\ \A j \in 1 .. i - 1 : formal[j] # name
  <1>1. \E i \in DOMAIN formal : formal[i] = name
    BY DEF Position
  <1>2. Position(formal, name) = CHOOSE i \in DOMAIN formal : P(i)
    BY <1>1 DEF Position
  <1>3. IsWellFoundedOn(R, Nat)
    BY NatLessThanWellFounded DEF OpToRel
  <1>4. \A x, y \in Nat : y < x => <<y, x>> \in R
    OBVIOUS
  <1>5. T \subseteq Nat /\ T # {} /\ DOMAIN formal = 1 .. Len(formal)
    BY <1>1
  <1> HIDE DEF R
  <1>6. \E x \in T : \A y \in T : ~ (<<y, x>> \in R)
    <2> HIDE DEF T
    <2> QED
      BY <1>3, <1>5, WFMin
  <1>7. PICK x \in T : \A y \in T : ~(y < x)
    BY <1>4, <1>5, <1>6
  <1>8. x \in DOMAIN formal /\ x \in Nat \ {0} /\ formal[x] = name
    BY <1>5
  <1>9. P(x)
    <2> SUFFICES ASSUME NEW j \in 1 .. x - 1, formal[j] = name PROVE FALSE
      BY <1>8
    <2>1. j \in T /\ j < x
      BY <1>5, <1>8
    <2> QED
      BY <1>7, <2>1
  <1>10. \E i \in DOMAIN formal : P(i)
    BY <1>8, <1>9
  <1> HIDE DEF P
  <1>11. Position(formal, name) \in DOMAIN formal
    BY <1>2, <1>10
  <1> QED
    BY <1>5, <1>11

\* A copy of an actual parameter is a new text.
LEMMA ActualCopied ==
  ASSUME NEW ints, Owned(ints), Running, NEW env \in Envs(Len(mem.heap)), NEW level,
         Safe(env.cooked, level, ints), NEW name, Position(env.formal, name) # 0
  PROVE  LET m == CopyActual(mem, env, Position(env.formal, name))
         IN  /\ Mild(mem, m) /\ Frees(mem, m, {}) /\ NotStale(mem, m)
             /\ Newest(m) \in Len(mem.heap) + 1 .. Len(m.heap)
  <1> DEFINE i == Position(env.formal, name)
             m == CopyActual(mem, env, i)
  <1>0. IsMemory(mem) /\ Len(mem.heap) \in Nat
    BY Given DEF Owned
  <1>1. env.formal \in Seq(STRING) /\ env.cooked \in Seq(0 .. Len(mem.heap))
    BY DEF Envs
  <1>2. i \in Nat \ {0}
    BY <1>1, PositionType
  <1>3. mem.heap[Undefined].state = "constant"
    BY OwnerFacts DEF Owned, HeldLive
  <1> HIDE DEF i
  <1>4. ~(i > Len(env.cooked)) => CanRead(mem, env.cooked[i])
    BY <1>1, <1>2, <1>3, ActualReadable
  <1>5. Mild(mem, m) /\ Frees(mem, m, {}) /\ NotStale(mem, m)
    BY <1>0, <1>4, CopyActualMild, CopyActualFrees
  <1>6. Newest(m) = Len(mem.heap) + 1 /\ Len(m.heap) = Len(mem.heap) + 1
    BY <1>0, CopyActualMemory
  <1>7. Newest(m) \in Len(mem.heap) + 1 .. Len(m.heap)
    BY <1>0, <1>6
  <1> QED
    BY <1>5, <1>7 DEF i

\* A symbol that stands for an actual parameter: the text is a copy.
LEMMA ParameterOwned ==
  ASSUME NEW ints, Owned(ints), TypeInv', Running, Parameter
  PROVE  OwnerInv(ints)'
  <1> DEFINE m == CopyActual(mem, focus.env, Position(focus.env.formal, Node.data))
             p == Newest(m)
  <1>1. focus.at = "atom" /\ Answer(m, p) /\ Position(focus.env.formal, Node.data) # 0
    BY DEF Parameter, IsAtom
  <1>2. focus.env \in Envs(Len(mem.heap))
    BY <1>1, GivenAtom DEF Owned
  <1>3. Safe(focus.env.cooked, Len(kont) + 1, ints)
    BY <1>1, OwnerFacts DEF Owned, ActualsSafe
  <1>4. /\ Mild(mem, m) /\ Frees(mem, m, {}) /\ NotStale(mem, m)
        /\ p \in Len(mem.heap) + 1 .. Len(m.heap)
    BY <1>1, <1>2, <1>3, ActualCopied
  <1> HIDE DEF m, p
  <1> QED
    BY <1>1, <1>4, HandAnswer

\* A symbol that is a rule: the rule has nothing yet.
LEMMA SymbolOwned ==
  ASSUME NEW ints, Owned(ints), TypeInv', Running, Symbol
  PROVE  OwnerInv(ints)'
  <1> DEFINE n == Len(kont)
  <1>1. focus.at = "atom" /\ InvokeOn(mem, kont, Node.data, Node.params, focus.env)
    BY DEF Symbol, IsAtom
  <1>2. n \in 0 .. Len(kont) /\ kont = SubSeq(kont, 1, n)
    BY Given, SubSeqWhole DEF Owned
  <1>3. n > 0 => kont[n].kind # "code"
    BY <1>1, NoCodeUnderAtom, TopIsFrame DEF Frame, Owned
  <1>4. Mild(mem, mem) /\ Frees(mem, mem, {}) /\ NotStale(mem, mem)
    BY Given, SameHeap DEF Mild, NotStale, Owned
  <1>5. \A i \in n + 1 .. Len(kont) : kont[i].kind # "code"
    BY <1>2
  <1>6. Inherits(focus.env.cooked, n, ints)
    BY <1>1, FocusInherits, OwnerFacts DEF Owned
  <1> HIDE DEF n
  <1> QED
    BY <1>1, <1>2, <1>3, <1>4, <1>5, <1>6, HandInvokeOn

\* A frame that only waits has no texts, and one of a loop has none yet.
LEMMA WaitersHaveNone ==
  /\ \A type \in Wrapping \cup {"var_conddef"} : \A n, env :
       Texts(OwnedBy([kind |-> type, node |-> n, env |-> env])) = {}
  /\ \A left, random, first :
       Texts(OwnedBy(Loop(left, random, first))) = {} /\ Loop(left, random, first).env = focus.env
  <1>1. ASSUME NEW type \in Wrapping \cup {"var_conddef"}, NEW n, NEW env
        PROVE  Texts(OwnedBy([kind |-> type, node |-> n, env |-> env])) = {}
    <2> DEFINE f == [kind |-> type, node |-> n, env |-> env]
    <2>1. f.kind \in {"mapping", "deref", "var_def", "silence", "var_conddef"}
      BY DEF Wrapping
    <2> HIDE DEF f
    <2>2. OwnedBy(f) = <<>>
      BY <2>1 DEF OwnedBy
    <2> QED
      BY <2>2, SmallLists DEF f
  <1>2. ASSUME NEW left, NEW random, NEW first
        PROVE  Texts(OwnedBy(Loop(left, random, first))) = {}
            /\ Loop(left, random, first).env = focus.env
    <2>1. /\ Loop(left, random, first).kind = "loop" /\ Loop(left, random, first).acc = Null
          /\ Loop(left, random, first).env = focus.env
      BY DEF Loop
    <2>2. OwnedBy(Loop(left, random, first)) = <<Null>>
      BY <2>1 DEF OwnedBy
    <2> QED
      BY <2>1, <2>2, SmallLists
  <1> QED
    BY <1>1, <1>2

\* The atoms whose functions only call.
LEMMA CallsOwned ==
  ASSUME NEW ints, Owned(ints), TypeInv', Running,
         \/ \E type \in Wrapping : Enter(type)
         \/ Star \/ Plus \/ RepeatConst
  PROVE  OwnerInv(ints)'
  <1>1. focus.at = "atom" /\ Mild(mem, mem) /\ Frees(mem, mem, {}) /\ NotStale(mem, mem)
    BY Given, SameHeap DEF Enter, Star, Plus, RepeatConst, IsAtom, Mild, NotStale, Owned
  <1>2. PICK f, next :
          /\ f.kind # "code" /\ Call(mem, f, next)
          /\ Texts(OwnedBy(f)) = {} /\ f.env = focus.env
          /\ next = GoOn \/ next = Atom(Node.params[1], focus.env)
    <2>1. CASE \E type \in Wrapping : Enter(type)
      <3>1. PICK type \in Wrapping : Enter(type)
        BY <2>1
      <3> DEFINE f == [kind |-> type, node |-> focus.node, env |-> focus.env]
      <3>2. /\ f.kind # "code" /\ Call(mem, f, Atom(Node.params[1], focus.env))
            /\ f.env = focus.env
        BY <3>1 DEF Enter, Wrapping
      <3>3. Texts(OwnedBy(f)) = {}
        BY WaitersHaveNone
      <3> HIDE DEF f
      <3> QED BY <3>2, <3>3
    <2>2. CASE Star
      <3> DEFINE f == Loop(MaxReps, TRUE, FALSE)
      <3>1. f.kind # "code" /\ Call(mem, f, GoOn)
        BY <2>2 DEF Star, Loop
      <3>2. Texts(OwnedBy(f)) = {} /\ f.env = focus.env
        BY WaitersHaveNone
      <3> HIDE DEF f
      <3> QED BY <3>1, <3>2
    <2>3. CASE Plus
      <3> DEFINE f == Loop(MaxReps, TRUE, TRUE)
      <3>1. f.kind # "code" /\ Call(mem, f, Atom(Node.params[1], focus.env))
        BY <2>3 DEF Plus, Loop
      <3>2. Texts(OwnedBy(f)) = {} /\ f.env = focus.env
        BY WaitersHaveNone
      <3> HIDE DEF f
      <3> QED BY <3>1, <3>2
    <2>4. CASE RepeatConst
      <3> DEFINE f == Loop(Node.count, FALSE, FALSE)
      <3>1. f.kind # "code" /\ Call(mem, f, GoOn)
        BY <2>4 DEF RepeatConst, Loop
      <3>2. Texts(OwnedBy(f)) = {} /\ f.env = focus.env
        BY WaitersHaveNone
      <3> HIDE DEF f
      <3> QED BY <3>1, <3>2
    <2> QED
      BY <2>1, <2>2, <2>3, <2>4
  <1>3. next.at \notin {"return", "cooked"} /\ (next.at = "atom" => next.env = focus.env)
    BY <1>2 DEF GoOn, Atom
  <1> QED
    BY <1>1, <1>2, <1>3, HandCall

\* apply_mapping() and apply_xform() free the text that they replace by a new one.
LEMMA MapOwned ==
  ASSUME NEW ints, Owned(ints), TypeInv', Running, Map
  PROVE  OwnerInv(ints)'
  <1> DEFINE name == script.nodes[Frame.node].data
             p == focus.text
             m == Read(mem, p)
             text == TextAt(m, p)
             mapped == Alloc(m, script.maps[name][text])
             freed == Free(mapped, p)
  <1>0. IsMemory(mem) /\ Len(mem.heap) \in Nat
    BY Given DEF Owned
  <1>1. kont # <<>> /\ Frame.kind = "mapping" /\ focus.at = "return" /\ p \in 0 .. Len(mem.heap)
    BY GivenTurn DEF Map, Owned
  <1>2. Leave(mem, p) \/ Leave(m, p) \/ Leave(freed, Newest(mapped))
    BY DEF Map
  <1>3. CanRead(mem, p) /\ (p \in {Null, Undefined} \/ p \in Texts(InFlight))
    BY <1>1, FlightReadable
  <1>4. Mild(mem, mem) /\ Frees(mem, mem, {}) /\ NotStale(mem, mem)
    BY <1>0, SameHeap DEF Mild, NotStale
  <1>5. /\ IsMemory(m) /\ Mild(mem, m) /\ Frees(mem, m, {}) /\ NotStale(mem, m)
        /\ m.heap = mem.heap
    BY <1>0, <1>3, ReadMemory, ReadMild, ReadFrees
  <1> HIDE DEF m, text
  <1>6. /\ IsMemory(mapped) /\ Mild(m, mapped) /\ Frees(m, mapped, {}) /\ NotStale(m, mapped)
        /\ Newest(mapped) = Len(mem.heap) + 1 /\ Len(mapped.heap) = Len(mem.heap) + 1
    <2>1. IsMemory(mapped) /\ Newest(mapped) = Len(mem.heap) + 1
      BY <1>5, AllocMemory
    <2> QED
      BY <1>5, <2>1, AllocMild, AllocFrees DEF Newest
  <1> HIDE DEF mapped
  <1>7. /\ IsMemory(freed) /\ Mild(mapped, freed) /\ Frees(mapped, freed, {p})
        /\ NotStale(mapped, freed) /\ Len(freed.heap) = Len(mem.heap) + 1
    <2>1. p \in 0 .. Len(mapped.heap)
      BY <1>0, <1>1, <1>6
    <2>2. CanRead(m, p) /\ p \in 0 .. Len(m.heap)
      BY <1>1, <1>3, <1>5 DEF CanRead
    <2> HIDE DEF p
    <2>3. CanRead(mapped, p)
      BY <1>5, <1>6, <2>2, StaysReadable
    <2> QED
      BY <1>6, <2>1, <2>3, FreeMemory, FreeMild, FreeFrees
  <1> HIDE DEF freed
  <1>8. Mild(mem, freed) /\ NotStale(mem, freed)
    BY <1>5, <1>6, <1>7, MildTwice DEF NotStale
  <1>9. Frees(mem, freed, {p})
    <2>1. Frees(mem, mapped, {})
      BY <1>0, <1>5, <1>6, FreesTwice
    <2>2. \A q \in {p} : q <= Len(mem.heap)
      BY <1>1
    <2> QED
      BY <1>0, <1>6, <1>7, <2>1, <2>2, FreesTwice
  <1> HIDE DEF p, name
  <1>10. CASE Leave(mem, p)
    BY <1>1, <1>3, <1>4, <1>10, HandLeave
  <1>11. CASE Leave(m, p)
    BY <1>1, <1>3, <1>5, <1>11, HandLeave
  <1>12. CASE Leave(freed, Newest(mapped))
    <2> DEFINE q == Newest(mapped)
    <2>1. q \in Len(mem.heap) + 1 .. Len(freed.heap) /\ q \notin {p}
      BY <1>0, <1>1, <1>6, <1>7
    <2>2. {p} \subseteq Texts(OwnedBy(Frame)) \cup Texts(InFlight) \cup {Null, Undefined}
      BY <1>3
    <2> HIDE DEF q
    <2> QED
      BY <1>1, <1>8, <1>9, <1>12, <2>1, <2>2, HandLeave DEF q
  <1> QED
    BY <1>2, <1>10, <1>11, <1>12

\* An indirection goes on with a new text.
LEMMA DereferenceOwned ==
  ASSUME NEW ints, Owned(ints), TypeInv', Running, Dereference
  PROVE  OwnerInv(ints)'
  <1> DEFINE m == Read(mem, focus.text)
             name == NameIn(TextAt(m, focus.text))
             n == Len(kont) - 1
  <1>1. /\ kont # <<>> /\ Frame.kind = "deref" /\ focus.at = "return"
        /\ Frame \in WaitFrames(script, Len(mem.heap))
        /\ InvokeOn(m, Below, name, <<>>, Frame.env)
    BY GivenTurn, FrameOfKind DEF Dereference, Owned, Wrapping
  <1>2. CanRead(mem, focus.text)
    BY <1>1, FlightReadable
  <1>3. Mild(mem, m) /\ Frees(mem, m, {}) /\ NotStale(mem, m)
    BY <1>2, Given, ReadMild, ReadFrees DEF Owned
  <1>4. /\ n \in 0 .. Len(kont) /\ n # Len(kont) /\ Below = SubSeq(kont, 1, n)
        /\ n \in Len(kont) - 1 .. Len(kont)
        /\ \A i \in n + 1 .. Len(kont) : kont[i].kind # "code"
    BY <1>1, Given DEF Below, Frame, Owned
  <1>5. "env" \in DOMAIN Frame
    BY <1>1 DEF WaitFrames
  <1>6. Inherits(Frame.env.cooked, n, ints)
    BY <1>1, <1>4, <1>5, FrameInherits, OwnerFacts DEF Owned
  <1> HIDE DEF m, name, n
  <1> QED
    BY <1>1, <1>3, <1>4, <1>6, HandInvokeOn

\* What is fetched from a variable, and copied.
LEMMA FetchedCopied ==
  ASSUME NEW ints, Owned(ints), Running, focus.at = "atom", NEW name
  PROVE  LET p == VarFetched(mem, name)
             m == Strdup(VarFetch(mem, name), p)
         IN  /\ Mild(mem, m) /\ Frees(mem, m, {}) /\ NotStale(mem, m)
             /\ Newest(m) \in Len(mem.heap) + 1 .. Len(m.heap)
  <1> DEFINE p == VarFetched(mem, name)
             fetched == VarFetch(mem, name)
             m == Strdup(fetched, p)
  <1>0. IsMemory(mem) /\ Len(mem.heap) \in Nat
    BY Given DEF Owned
  <1>1. CanRead(fetched, p)
    BY FetchedReadable
  <1>2. /\ IsMemory(fetched) /\ Mild(mem, fetched) /\ Frees(mem, fetched, {})
        /\ NotStale(mem, fetched) /\ Len(fetched.heap) \in {Len(mem.heap), Len(mem.heap) + 1}
    BY <1>0, VarFetchMemory, VarFetchMild, VarFetchFrees
  <1> HIDE DEF fetched, p
  <1>3. /\ IsMemory(m) /\ Mild(fetched, m) /\ Frees(fetched, m, {}) /\ NotStale(fetched, m)
        /\ Newest(m) = Len(fetched.heap) + 1 /\ Len(m.heap) = Len(fetched.heap) + 1
    BY <1>1, <1>2, StrdupMemory, StrdupMild, StrdupFrees
  <1> HIDE DEF m
  <1>4. Mild(mem, m) /\ NotStale(mem, m) /\ Frees(mem, m, {})
    BY <1>0, <1>2, <1>3, MildTwice, FreesTwice DEF NotStale
  <1>5. Newest(m) \in Len(mem.heap) + 1 .. Len(m.heap)
    BY <1>0, <1>2, <1>3
  <1> QED
    BY <1>4, <1>5 DEF m, fetched, p

\* A conditional definition copies what the variable has, or calls.
LEMMA CondDefOwned ==
  ASSUME NEW ints, Owned(ints), TypeInv', Running, CondDef
  PROVE  OwnerInv(ints)'
  <1> DEFINE p == VarFetched(mem, Node.data)
             m == Strdup(VarFetch(mem, Node.data), p)
             q == Newest(m)
  <1>1. focus.at = "atom"
    BY DEF CondDef, IsAtom
  <1>2. CASE p # Null
    <2>1. Answer(m, q)
      BY <1>2 DEF CondDef
    <2>2. /\ Mild(mem, m) /\ Frees(mem, m, {}) /\ NotStale(mem, m)
          /\ q \in Len(mem.heap) + 1 .. Len(m.heap)
      BY <1>1, FetchedCopied
    <2> HIDE DEF m, q
    <2> QED
      BY <1>1, <2>1, <2>2, HandAnswer
  <1>3. CASE p = Null
    <2> DEFINE f == [kind |-> "var_conddef", node |-> focus.node, env |-> focus.env]
               next == Atom(Node.params[1], focus.env)
    <2>1. Call(mem, f, next) /\ f.kind # "code" /\ f.env = focus.env
      BY <1>3 DEF CondDef
    <2>2. Mild(mem, mem) /\ Frees(mem, mem, {}) /\ NotStale(mem, mem)
      BY Given, SameHeap DEF Mild, NotStale, Owned
    <2>3. next.at = "atom" /\ next.env = focus.env
      BY DEF Atom
    <2>4. Texts(OwnedBy(f)) = {}
      BY WaitersHaveNone
    <2> HIDE DEF f, next
    <2> QED
      BY <1>1, <2>1, <2>2, <2>3, <2>4, HandCall
  <1> QED
    BY <1>2, <1>3

\* A variable reference copies what the variable has.
LEMMA VarRefOwned ==
  ASSUME NEW ints, Owned(ints), TypeInv', Running, VarRef
  PROVE  OwnerInv(ints)'
  <1> DEFINE p == VarFetched(mem, Node.data)
             m == Strdup(VarFetch(mem, Node.data), p)
             q == Newest(m)
  <1>1. focus.at = "atom"
    BY DEF VarRef, IsAtom
  <1>2. CASE p # Null
    <2>1. Answer(m, q)
      BY <1>2 DEF VarRef
    <2>2. /\ Mild(mem, m) /\ Frees(mem, m, {}) /\ NotStale(mem, m)
          /\ q \in Len(mem.heap) + 1 .. Len(m.heap)
      BY <1>1, FetchedCopied
    <2> HIDE DEF m, q
    <2> QED
      BY <1>1, <2>1, <2>2, HandAnswer
  <1>3. CASE p = Null
    <2>1. mem' = Fail(mem, "exit") /\ script' = script
      BY <1>3 DEF VarRef, Answer, Same
    <2>2. mem'.fault = "exit"
      BY <2>1, Given DEF Fail, Running, IsMemory, Owned
    <2> QED
      BY <2>1, <2>2, FaultOwned DEF Owned
  <1> QED
    BY <1>2, <1>3

\* A silenced atom frees its text.
LEMMA SilenceOwned ==
  ASSUME NEW ints, Owned(ints), TypeInv', Running, Silence
  PROVE  OwnerInv(ints)'
  <1> DEFINE m == Free(mem, focus.text)
             F == {focus.text}
  <1>1. /\ kont # <<>> /\ Frame.kind = "silence" /\ Leave(m, Null) /\ focus.at = "return"
        /\ focus.text \in 0 .. Len(mem.heap)
    BY GivenTurn DEF Silence, Owned
  <1>2. Mild(mem, m) /\ Frees(mem, m, F) /\ NotStale(mem, m)
    <2>1. CanRead(mem, focus.text)
      BY <1>1, FlightReadable
    <2> QED
      BY <1>1, <2>1, Given, FreeMild, FreeFrees DEF Owned
  <1>3. F \subseteq Texts(OwnedBy(Frame)) \cup Texts(InFlight) \cup {Null, Undefined}
    BY <1>1, FlightReadable
  <1> DEFINE p == Null
  <1>4. Leave(m, p) /\ p \in {Null, Undefined} /\ Frame.kind # "code"
    BY <1>1
  <1> HIDE DEF m, F, p
  <1> QED
    BY <1>1, <1>2, <1>3, <1>4, HandLeave

\* A repetition that a variable counts has nothing yet.
LEMMA RepeatVarOwned ==
  ASSUME NEW ints, Owned(ints), TypeInv', Running, RepeatVar
  PROVE  OwnerInv(ints)'
  <1> DEFINE p == VarFetched(mem, Node.data)
             fetched == VarFetch(mem, Node.data)
             m == IF p = Null THEN Fail(mem, "exit") ELSE Read(fetched, p)
             f == Loop(NumberIn(TextAt(m, p)), FALSE, FALSE)
  <1>0. IsMemory(mem) /\ Len(mem.heap) \in Nat
    BY Given DEF Owned
  <1>1. focus.at = "atom" /\ Call(m, f, GoOn)
    BY DEF RepeatVar, IsAtom
  <1>2. CASE p = Null
    <2>1. mem' = Fail(mem, "exit") /\ script' = script
      BY <1>1, <1>2 DEF Call, Same
    <2>2. mem'.fault = "exit"
      BY <1>0, <2>1 DEF Fail, Running, IsMemory
    <2> QED
      BY <2>1, <2>2, FaultOwned DEF Owned
  <1>3. CASE p # Null
    <2>1. m = Read(fetched, p)
      BY <1>3
    <2>2. CanRead(fetched, p)
      BY <1>1, FetchedReadable
    <2>3. /\ IsMemory(fetched) /\ Mild(mem, fetched) /\ Frees(mem, fetched, {})
          /\ NotStale(mem, fetched)
      BY <1>0, VarFetchMemory, VarFetchMild, VarFetchFrees
    <2>4. Texts(OwnedBy(f)) = {} /\ f.env = focus.env
      BY WaitersHaveNone
    <2>5. f.kind # "code" /\ GoOn.at = "next"
      BY DEF Loop, GoOn
    <2> HIDE DEF f, m, fetched, p
    <2>6. IsMemory(m) /\ Mild(fetched, m) /\ Frees(fetched, m, {}) /\ NotStale(fetched, m)
      BY <2>1, <2>2, <2>3, ReadMemory, ReadMild, ReadFrees
    <2>7. Mild(mem, m) /\ NotStale(mem, m) /\ Frees(mem, m, {})
      BY <1>0, <2>3, <2>6, MildTwice, FreesTwice DEF NotStale
    <2> QED
      BY <1>1, <2>4, <2>5, <2>7, HandCall
  <1> QED
    BY <1>2, <1>3

\* A round of a repetition keeps what was joined.
LEMMA RoundOwned ==
  ASSUME NEW ints, Owned(ints), TypeInv', Running, Round
  PROVE  OwnerInv(ints)'
  <1> DEFINE f == [Frame EXCEPT !.left = @ - 1]
             next == Atom(script.nodes[Frame.node].params[1], Frame.env)
  <1>1. /\ kont # <<>> /\ Frame.kind = "loop" /\ Frame \in LoopFrames(script, Len(mem.heap))
        /\ Continue(mem, f, next)
    BY GivenTurn, FrameOfKind DEF Round, Owned
  <1>2. /\ f.kind = "loop" /\ f.env = Frame.env /\ f.acc = Frame.acc /\ "env" \in DOMAIN Frame
        /\ next.at = "atom" /\ next.env = Frame.env
    BY <1>1 DEF LoopFrames, Atom
  <1>3. Mild(mem, mem) /\ Frees(mem, mem, {}) /\ NotStale(mem, mem)
    BY Given, SameHeap DEF Mild, NotStale, Owned
  <1> HIDE DEF f, next
  <1>4. OwnedBy(f) = <<Frame.acc>> /\ OwnedBy(Frame) = <<Frame.acc>>
    BY <1>1, <1>2 DEF OwnedBy
  <1>5. OnceEach(OwnedBy(f))
    BY <1>4, SmallLists
  <1> QED
    BY <1>1, <1>2, <1>3, <1>4, <1>5, HandContinue

\* A repetition or an option hands its text to its caller.
LEMMA EndsOwned ==
  ASSUME NEW ints, Owned(ints), TypeInv', Running, EndLoop \/ EndOption
  PROVE  OwnerInv(ints)'
  <1>1. kont # <<>> /\ Frame.kind \in {"loop", "option"} /\ Leave(mem, Frame.acc)
    BY TurnTop DEF EndLoop, EndOption
  <1>2. Mild(mem, mem) /\ Frees(mem, mem, {}) /\ NotStale(mem, mem)
    BY Given, SameHeap DEF Mild, NotStale, Owned
  <1>3. OwnedBy(Frame) = <<Frame.acc>>
    BY <1>1 DEF OwnedBy
  <1>4. Frame.acc \in {Null, Undefined} \/ Frame.acc \in Texts(OwnedBy(Frame))
    BY <1>3, SmallLists
  <1> QED
    BY <1>1, <1>2, <1>4, HandLeave

\* A top frame has its texts once, and they are not in flight.
LEMMA TopApart ==
  ASSUME NEW ints, Owned(ints), Running, kont # <<>>
  PROVE  /\ OnceEach(OwnedBy(Frame)) /\ Texts(OwnedBy(Frame)) \cap Texts(InFlight) = {}
         /\ OnceEach(InFlight) /\ Texts(OwnedBy(Frame)) \subseteq 1 .. Len(mem.heap)
  <1>1. Len(kont) \in DOMAIN kont /\ Frame = kont[Len(kont)]
    BY Given, TopAndBelow DEF Owned
  <1>2. AFrame(Len(kont)) \in Holders(ints) /\ Flight \in Holders(ints)
            /\ AFrame(Len(kont)) # Flight
    BY <1>1, HoldersDiffer DEF Holders
  <1>3. ListOf(AFrame(Len(kont))) = OwnedBy(Frame) /\ ListOf(Flight) = InFlight
    BY <1>1, HolderLists
  <1>4. TextsOf(AFrame(Len(kont))) \subseteq 1 .. Len(mem.heap)
    BY <1>2, OldTexts DEF Owned
  <1>5. Apart(ints)
    BY OwnerFacts DEF Owned
  <1> QED
    BY <1>2, <1>3, <1>4, <1>5 DEF Apart, TextsOf

\* What has come so far, and the text it is joined to.
LEMMA JoinedTexts ==
  ASSUME NEW ints, Owned(ints), Running, kont # <<>>, OwnedBy(Frame) = <<Frame.acc>>,
         focus.at = "return", Frame.acc \in 0 .. Len(mem.heap), focus.text \in 0 .. Len(mem.heap)
  PROVE  LET m == Dstrcat(mem, Frame.acc, focus.text)
             F == {Frame.acc, focus.text}
         IN  /\ Mild(mem, m) /\ Frees(mem, m, F) /\ NotStale(mem, m)
             /\ Newest(m) \in Len(mem.heap) + 1 .. Len(m.heap) /\ Newest(m) \notin F
             /\ F \subseteq Texts(OwnedBy(Frame)) \cup Texts(InFlight) \cup {Null, Undefined}
  <1> DEFINE m == Dstrcat(mem, Frame.acc, focus.text)
             F == {Frame.acc, focus.text}
  <1>0. IsMemory(mem) /\ Len(mem.heap) \in Nat
    BY Given DEF Owned
  <1>1. Frame.acc \in Texts(OwnedBy(Frame)) \cup {Null, Undefined}
    BY SmallLists
  <1>2. CanRead(mem, focus.text) /\ focus.text \in Texts(InFlight) \cup {Null, Undefined}
    BY FlightReadable
  <1>3. CanRead(mem, Frame.acc)
    BY <1>1, TopReadable
  <1>a. Frame.acc = focus.text => Frame.acc = Null \/ mem.heap[Frame.acc].state = "constant"
    <2>1. Texts(OwnedBy(Frame)) \cap Texts(InFlight) = {} /\ mem.heap[Undefined].state = "constant"
      BY TopApart, OwnerFacts DEF HeldLive, Owned
    <2>2. Frame.acc = focus.text => Frame.acc \in {Null, Undefined}
      BY <1>1, <1>2, <2>1
    <2> QED
      BY <2>1, <2>2
  <1>4. Mild(mem, m) /\ Frees(mem, m, F) /\ NotStale(mem, m)
    BY <1>0, <1>2, <1>3, <1>a, DstrcatMild, DstrcatFrees
  <1>5. Newest(m) = Len(mem.heap) + 1 /\ Len(m.heap) = Len(mem.heap) + 1
    BY <1>0, DstrcatMemory
  <1>6. Newest(m) \in Len(mem.heap) + 1 .. Len(m.heap) /\ Newest(m) \notin F
    BY <1>0, <1>5
  <1> QED
    BY <1>1, <1>2, <1>4, <1>6

\* A round's text becomes the loop's, joined to those before it.
LEMMA AccumulateOwned ==
  ASSUME NEW ints, Owned(ints), TypeInv', Running, Accumulate
  PROVE  OwnerInv(ints)'
  <1> DEFINE m == Dstrcat(mem, Frame.acc, focus.text)
             p == Newest(m)
             F == {Frame.acc, focus.text}
             f1 == [Frame EXCEPT !.acc = focus.text, !.first = FALSE]
             f2 == [Frame EXCEPT !.acc = p]
  <1>1. /\ kont # <<>> /\ Frame.kind = "loop" /\ Frame \in LoopFrames(script, Len(mem.heap))
        /\ focus.text \in 0 .. Len(mem.heap) /\ focus.at = "return"
    BY GivenTurn, FrameOfKind DEF Accumulate, Owned
  <1>2. OwnedBy(Frame) = <<Frame.acc>> /\ Frame.acc \in 0 .. Len(mem.heap) /\ "env" \in DOMAIN Frame
    BY <1>1 DEF OwnedBy, LoopFrames
  <1>3. /\ Mild(mem, m) /\ Frees(mem, m, F) /\ NotStale(mem, m)
        /\ p \in Len(mem.heap) + 1 .. Len(m.heap) /\ p \notin F
        /\ F \subseteq Texts(OwnedBy(Frame)) \cup Texts(InFlight) \cup {Null, Undefined}
    BY <1>1, <1>2, JoinedTexts
  <1>4. Continue(mem, f1, GoOn) \/ Continue(m, f2, GoOn)
    BY DEF Accumulate
  <1>5. /\ f1.kind = "loop" /\ f1.env = Frame.env /\ f1.acc = focus.text
        /\ f2.kind = "loop" /\ f2.env = Frame.env /\ f2.acc = p
    BY <1>1 DEF LoopFrames
  <1>6. OwnedBy(f1) = <<focus.text>> /\ OwnedBy(f2) = <<p>>
    BY <1>5 DEF OwnedBy
  <1>7. /\ OnceEach(<<focus.text>>)
            /\ Texts(<<focus.text>>) \subseteq {focus.text} \ {Null, Undefined}
        /\ OnceEach(<<p>>) /\ Texts(<<p>>) \subseteq {p}
    BY SmallLists
  <1>8. focus.text \in {Null, Undefined} \/ focus.text \in Texts(InFlight)
    BY <1>1, FlightReadable
  <1>9. Mild(mem, mem) /\ Frees(mem, mem, {}) /\ NotStale(mem, mem) /\ GoOn.at = "next"
    BY Given, SameHeap DEF Mild, NotStale, Owned, GoOn
  <1> HIDE DEF m, p, F, f1, f2
  <1>10. CASE Continue(mem, f1, GoOn)
    <2>1. {} \subseteq Texts(OwnedBy(Frame)) \cup Texts(InFlight) \cup {Null, Undefined}
      OBVIOUS
    <2>2. OnceEach(OwnedBy(f1)) /\ \A q \in Texts(OwnedBy(f1)) : q \in Texts(InFlight)
      BY <1>6, <1>7, <1>8
    <2> QED
      BY <1>1, <1>2, <1>5, <1>9, <1>10, <2>1, <2>2, HandContinue
  <1>11. CASE Continue(m, f2, GoOn)
    <2>1. OnceEach(OwnedBy(f2)) /\ \A q \in Texts(OwnedBy(f2)) : q = p
      BY <1>6, <1>7
    <2> QED
      BY <1>1, <1>2, <1>3, <1>5, <1>9, <1>11, <2>1, HandContinue
  <1> QED
    BY <1>4, <1>10, <1>11

\* An atom's text becomes the option's, joined to those before it.
LEMMA AddTextOwned ==
  ASSUME NEW ints, Owned(ints), TypeInv', Running, AddText
  PROVE  OwnerInv(ints)'
  <1> DEFINE m == Dstrcat(mem, Frame.acc, focus.text)
             p == Newest(m)
             F == {Frame.acc, focus.text}
             f == [Frame EXCEPT !.acc = p]
  <1>1. /\ kont # <<>> /\ Frame.kind = "option" /\ Frame \in OptionFrames(script, Len(mem.heap))
        /\ focus.text \in 0 .. Len(mem.heap) /\ focus.at = "return" /\ Continue(m, f, GoOn)
    BY GivenTurn, FrameOfKind DEF AddText, Owned
  <1>2. OwnedBy(Frame) = <<Frame.acc>> /\ Frame.acc \in 0 .. Len(mem.heap) /\ "env" \in DOMAIN Frame
    BY <1>1 DEF OwnedBy, OptionFrames
  <1>3. /\ Mild(mem, m) /\ Frees(mem, m, F) /\ NotStale(mem, m)
        /\ p \in Len(mem.heap) + 1 .. Len(m.heap) /\ p \notin F
        /\ F \subseteq Texts(OwnedBy(Frame)) \cup Texts(InFlight) \cup {Null, Undefined}
    BY <1>1, <1>2, JoinedTexts
  <1>4. f.kind = "option" /\ f.env = Frame.env /\ f.acc = p
    BY <1>1 DEF OptionFrames
  <1>5. OwnedBy(f) = <<p>>
    BY <1>4 DEF OwnedBy
  <1>6. OnceEach(OwnedBy(f)) /\ (\A q \in Texts(OwnedBy(f)) : q = p) /\ GoOn.at = "next"
    BY <1>5, SmallLists DEF GoOn
  <1> HIDE DEF m, p, F, f
  <1> QED
    BY <1>1, <1>2, <1>3, <1>4, <1>6, HandContinue

\* The next atom of an option gets the option's actual parameters.
LEMMA NextAtomOwned ==
  ASSUME NEW ints, Owned(ints), TypeInv', Running, NextAtom
  PROVE  OwnerInv(ints)'
  <1> DEFINE f == [Frame EXCEPT !.todo = Tail(@)]
             next == Atom(Head(Frame.todo), Frame.env)
  <1>1. /\ kont # <<>> /\ Frame.kind = "option" /\ Frame \in OptionFrames(script, Len(mem.heap))
        /\ Continue(mem, f, next)
    BY GivenTurn, FrameOfKind DEF NextAtom, Owned
  <1>2. /\ f.kind = "option" /\ f.env = Frame.env /\ f.acc = Frame.acc /\ "env" \in DOMAIN Frame
        /\ next.at = "atom" /\ next.env = Frame.env
    BY <1>1 DEF OptionFrames, Atom
  <1>3. Mild(mem, mem) /\ Frees(mem, mem, {}) /\ NotStale(mem, mem)
    BY Given, SameHeap DEF Mild, NotStale, Owned
  <1> HIDE DEF f, next
  <1>4. OwnedBy(f) = <<Frame.acc>> /\ OwnedBy(Frame) = <<Frame.acc>>
    BY <1>1, <1>2 DEF OwnedBy
  <1>5. OnceEach(OwnedBy(f))
    BY <1>4, SmallLists
  <1> QED
    BY <1>1, <1>2, <1>3, <1>4, <1>5, HandContinue

\* An option that is to be resolved has no text yet.
LEMMA OptionHasNone ==
  ASSUME NEW atoms, NEW env
  PROVE  /\ Texts(OwnedBy(OptionFrame(atoms, env))) = {}
         /\ OptionFrame(atoms, env).env = env /\ OptionFrame(atoms, env).kind = "option"
  <1> DEFINE o == OptionFrame(atoms, env)
  <1>1. o.kind = "option" /\ o.acc = Null /\ o.env = env
    BY DEF OptionFrame
  <1>2. OwnedBy(o) = <<Null>>
    BY <1>1 DEF OwnedBy
  <1> QED
    BY <1>1, <1>2, SmallLists

\* An inline choice has nothing yet.
LEMMA ChoiceOwned ==
  ASSUME NEW ints, Owned(ints), TypeInv', Running, Choice
  PROVE  OwnerInv(ints)'
  <1>1. PICK c \in DOMAIN Node.options :
          kont' = Append(kont, OptionFrame(Node.options[c], focus.env))
    BY DEF Choice
  <1> DEFINE o == OptionFrame(Node.options[c], focus.env)
             fs == <<o>>
  <1>2. focus.at = "atom" /\ mem' = mem /\ script' = script /\ focus'.at = "next"
    BY DEF Choice, IsAtom, GoOn
  <1>3. kont \in Seq(Frames(script, Len(mem.heap)))
    BY Given DEF Owned
  <1>4. o.kind # "code" /\ Texts(OwnedBy(o)) = {} /\ o.env = focus.env
    BY OptionHasNone
  <1>5. Inherits(focus.env.cooked, Len(kont), ints)
    BY <1>2, FocusInherits, OwnerFacts DEF Owned
  <1> HIDE DEF o
  <1>6. /\ fs = <<fs[1]>> /\ kont' = kont \o fs
        /\ \A i \in DOMAIN fs :
             /\ fs[i].kind # "code" /\ Texts(OwnedBy(fs[i])) = {}
             /\ "env" \in DOMAIN fs[i] => Inherits(fs[i].env.cooked, Len(kont), ints)
    BY <1>1, <1>3, <1>4, <1>5 DEF o
  <1> HIDE DEF fs
  <1>7. kont # <<>> => Frame.kind # "code"
    BY <1>2, NoCodeUnderAtom DEF Owned
  <1>8. Mild(mem, mem) /\ Frees(mem, mem, {}) /\ NotStale(mem, mem)
    BY Given, SameHeap DEF Mild, NotStale, Owned
  <1> QED
    BY <1>2, <1>6, <1>7, <1>8, HandPush

\* The texts of the parameters when one more is there.
LEMMA WithArgTexts ==
  ASSUME TypeInv, NEW at, Turn(at, "args"), Frame.left > 0, NEW p,
         OnceEach(OwnedBy(Frame)), p \in {Null, Undefined} \/ p \notin Texts(OwnedBy(Frame))
  PROVE  /\ OnceEach(OwnedBy(WithArg(p)))
         /\ Texts(OwnedBy(WithArg(p))) \subseteq Texts(OwnedBy(Frame)) \cup {p}
         /\ WithArg(p).env = Frame.env /\ WithArg(p).kind = "args" /\ "env" \in DOMAIN Frame
  <1>1. Frame \in ArgsFrames(script, Len(mem.heap)) /\ Frame.kind = "args"
    BY GivenTurn, FrameOfKind
  <1> DEFINE old == Frame.texts
             new == [Frame.texts EXCEPT ![NextArg] = p]
  <1>2. NextArg \in DOMAIN old
    BY <1>1, NextIsArg
  <1>3. /\ WithArg(p).texts = new /\ WithArg(p).env = Frame.env /\ WithArg(p).kind = "args"
        /\ "env" \in DOMAIN Frame
    <2>1. WithArg(p) = [[Frame EXCEPT !.texts = new] EXCEPT !.left = Frame.left - 1]
      BY <1>1 DEF WithArg, ArgsFrames
    <2>2. {"kind", "env", "texts", "left"} \subseteq DOMAIN Frame
      BY <1>1 DEF ArgsFrames
    <2> HIDE DEF new
    <2> QED
      BY <1>1, <2>1, <2>2
  <1>4. OwnedBy(Frame) = old /\ OwnedBy(WithArg(p)) = new
    BY <1>1, <1>3 DEF OwnedBy
  <1>5. DOMAIN new = DOMAIN old /\ new[NextArg] = p /\ \A i \in DOMAIN old : i # NextArg =>
            new[i] = old[i]
    BY <1>2
  <1> HIDE DEF new, old
  <1>6. Texts(new) \subseteq Texts(old) \cup {p}
    BY <1>5 DEF Texts, ToSet
  <1>7. \A i \in DOMAIN old : old[i] \in Texts(old) \/ old[i] \in {Null, Undefined}
    BY DEF Texts, ToSet
  <1>8. OnceEach(new)
    BY <1>4, <1>5, <1>7 DEF OnceEach
  <1> QED
    BY <1>3, <1>4, <1>6, <1>8

\* One more parameter is there: the function that resolves them has its text.
LEMMA ArgTaken ==
  ASSUME NEW ints, Owned(ints), TypeInv', Running, NEW at, Turn(at, "args"), Frame.left > 0,
         NEW m, Mild(mem, m), Frees(mem, m, {}), NotStale(mem, m),
         NEW p, Continue(m, WithArg(p), GoOn),
         \/ p \in {Null, Undefined} \/ p \in Texts(InFlight)
         \/ p \in Len(mem.heap) + 1 .. Len(m.heap)
  PROVE  OwnerInv(ints)'
  <1>1. TypeInv /\ kont # <<>> /\ Frame.kind = "args"
    BY DEF Owned, Turn
  <1>2. /\ OnceEach(OwnedBy(Frame)) /\ Texts(OwnedBy(Frame)) \cap Texts(InFlight) = {}
        /\ Texts(OwnedBy(Frame)) \subseteq 1 .. Len(mem.heap)
    BY <1>1, TopApart
  <1>3. Len(mem.heap) \in Nat
    BY <1>1, Given
  <1>4. p \in {Null, Undefined} \/ p \notin Texts(OwnedBy(Frame))
    BY <1>2, <1>3
  <1> DEFINE f == WithArg(p)
  <1>5. /\ OnceEach(OwnedBy(f)) /\ Texts(OwnedBy(f)) \subseteq Texts(OwnedBy(Frame)) \cup {p}
        /\ f.env = Frame.env /\ f.kind = "args" /\ "env" \in DOMAIN Frame
    BY <1>1, <1>2, <1>4, WithArgTexts
  <1>6. Null \notin Texts(OwnedBy(f)) /\ Undefined \notin Texts(OwnedBy(f))
    BY DEF Texts
  <1>7. \A q \in Texts(OwnedBy(f)) :
          /\ q \notin {}
          /\ \/ q \in Texts(OwnedBy(Frame)) \cup Texts(InFlight)
             \/ q \in Len(mem.heap) + 1 .. Len(m.heap)
    BY <1>5, <1>6
  <1>8. GoOn.at = "next"
            /\ {} \subseteq Texts(OwnedBy(Frame)) \cup Texts(InFlight) \cup {Null, Undefined}
    BY DEF GoOn
  <1> HIDE DEF f
  <1>9. Continue(m, f, GoOn)
    BY DEF f
  <1> QED
    BY <1>1, <1>5, <1>7, <1>8, <1>9, HandContinue

\* A parameter that stands for an actual one is a copy of it.
LEMMA CascadeArgOwned ==
  ASSUME NEW ints, Owned(ints), TypeInv', Running, CascadeArg
  PROVE  OwnerInv(ints)'
  <1> DEFINE node == script.nodes[Frame.params[NextArg]]
             i == Position(Frame.env.formal, node.data)
             c == CopyActual(mem, Frame.env, i)
             failed == Fail(mem, "null")
  <1>1. /\ Turn("next", "args") /\ Frame.left > 0
        /\ \/ node.type \in Dataless /\ Continue(failed, WithArg(Newest(failed)), GoOn)
           \/ i # 0 /\ Continue(c, WithArg(Newest(c)), GoOn)
    BY DEF CascadeArg
  <1>2. IsMemory(mem) /\ "null" \in Faults \ {"none"}
    BY Given DEF Owned, Faults
  <1>3. failed.fault # "none" /\ NotStale(mem, failed)
    BY <1>2, FailIsFault, FailNotStale
  <1> HIDE DEF failed
  <1>4. CASE Continue(failed, WithArg(Newest(failed)), GoOn)
    <2>1. mem' = failed /\ script' = script
      BY <1>4 DEF Continue, Same
    <2>2. mem'.fault \notin {"none", "stale"}
      BY <1>3, <2>1 DEF NotStale, Running
    <2> QED
      BY <2>1, <2>2, FaultOwned DEF Owned
  <1>5. CASE i # 0 /\ Continue(c, WithArg(Newest(c)), GoOn)
    <2>1. kont # <<>> /\ Frame \in ArgsFrames(script, Len(mem.heap))
      BY <1>1, GivenTurn, FrameOfKind DEF Owned
    <2>2. Frame.env \in Envs(Len(mem.heap)) /\ "env" \in DOMAIN Frame
      BY <2>1 DEF ArgsFrames
    <2>3. Len(kont) \in DOMAIN kont /\ Frame = kont[Len(kont)]
      BY <2>1, Given, TopAndBelow DEF Owned
    <2>4. Safe(Frame.env.cooked, Len(kont), ints)
      BY <2>2, <2>3, OwnerFacts DEF Owned, ActualsSafe
    <2>5. /\ Mild(mem, c) /\ Frees(mem, c, {}) /\ NotStale(mem, c)
          /\ Newest(c) \in Len(mem.heap) + 1 .. Len(c.heap)
      BY <1>5, <2>2, <2>4, ActualCopied
    <2>6. Continue(c, WithArg(Newest(c)), GoOn)
      BY <1>5
    <2> HIDE DEF c
    <2> DEFINE p == Newest(c)
    <2>7. Continue(c, WithArg(p), GoOn) /\ p \in Len(mem.heap) + 1 .. Len(c.heap)
      BY <2>5, <2>6
    <2> HIDE DEF p
    <2> QED
      BY <1>1, <2>5, <2>7, ArgTaken
  <1> QED
    BY <1>1, <1>4, <1>5

\* The text of a resolved parameter becomes the list's.
LEMMA TakeArgOwned ==
  ASSUME NEW ints, Owned(ints), TypeInv', Running, TakeArg
  PROVE  OwnerInv(ints)'
  <1>1. Turn("return", "args") /\ Continue(mem, WithArg(focus.text), GoOn)
    BY DEF TakeArg
  <1>2. kont # <<>> /\ focus.at = "return" /\ Frame.kind = "args"
    BY <1>1 DEF Turn
  <1>3. Len(kont) \in 1 .. Len(kont) /\ Frame = kont[Len(kont)]
    BY <1>2, Given, TopAndBelow DEF Owned
  <1>4. Frame.left > 0
    BY <1>2, <1>3 DEF Owned, TypeInv, ChainAt
  <1>5. focus.text \in {Null, Undefined} \/ focus.text \in Texts(InFlight)
    BY <1>2, FlightReadable
  <1>6. Mild(mem, mem) /\ Frees(mem, mem, {}) /\ NotStale(mem, mem)
    BY Given, SameHeap DEF Mild, NotStale, Owned
  <1> QED
    BY <1>1, <1>4, <1>5, <1>6, ArgTaken

\* A parameter with parameters of its own waits for them.
LEMMA NestedArgOwned ==
  ASSUME NEW ints, Owned(ints), TypeInv', Running, NestedArg
  PROVE  OwnerInv(ints)'
  <1> DEFINE n == Frame.params[NextArg]
             r == [kind |-> "nested", node |-> n]
             a == ArgsFrame(script.nodes[n].params, Frame.env)
             fs == <<r, a>>
  <1>1. /\ Turn("next", "args") /\ kont' = kont \o fs /\ focus' = GoOn /\ mem' = mem
        /\ script' = script
    BY DEF NestedArg, Same
  <1>2. kont # <<>> /\ Frame \in ArgsFrames(script, Len(mem.heap)) /\ Frame.kind = "args"
    BY <1>1, GivenTurn, FrameOfKind DEF Owned
  <1>3. a.kind = "args" /\ Texts(OwnedBy(a)) = {} /\ a.env = Frame.env
    BY ArgsHaveNone
  <1>4. r.kind = "nested" /\ "env" \notin DOMAIN r
    OBVIOUS
  <1> HIDE DEF a, r
  <1>5. OwnedBy(r) = <<>>
    BY <1>4 DEF OwnedBy
  <1>6. "env" \in DOMAIN Frame /\ Len(kont) \in Len(kont) - 1 .. Len(kont)
    BY <1>2, Given DEF ArgsFrames, Owned
  <1>7. Inherits(Frame.env.cooked, Len(kont), ints)
    BY <1>2, <1>6, FrameInherits, OwnerFacts DEF Owned
  <1>8. \A i \in DOMAIN fs :
          /\ fs[i].kind # "code" /\ Texts(OwnedBy(fs[i])) = {}
          /\ "env" \in DOMAIN fs[i] => Inherits(fs[i].env.cooked, Len(kont), ints)
    BY <1>3, <1>4, <1>5, <1>7, SmallLists
  <1>9. Mild(mem, mem) /\ Frees(mem, mem, {}) /\ NotStale(mem, mem) /\ GoOn.at = "next"
    BY Given, SameHeap DEF Mild, NotStale, Owned, GoOn
  <1>10. fs = <<fs[1], fs[2]>>
    OBVIOUS
  <1> HIDE DEF fs
  <1> QED
    BY <1>1, <1>2, <1>8, <1>9, <1>10, HandPush

\* The parameters are all there: they are in flight.
LEMMA EndArgsOwned ==
  ASSUME NEW ints, Owned(ints), TypeInv', Running, EndArgs
  PROVE  OwnerInv(ints)'
  <1> DEFINE n == Len(kont) - 1
             L == Frame.texts
  <1>1. /\ Turn("next", "args") /\ mem' = mem /\ kont' = Below /\ focus' = Cooked(L)
    BY DEF EndArgs
  <1>2. kont # <<>> /\ Frame.kind = "args"
    BY <1>1 DEF Turn
  <1>3. Quiet(n) /\ Len(kont) \in Nat /\ Len(kont') = n
    BY <1>1, <1>2, PopsStill, Given, TopAndBelow DEF Owned
  <1>4. InFlight' = L /\ focus'.at # "atom"
    BY <1>1 DEF Cooked, InFlight
  <1>5. OwnedBy(Frame) = L
    BY <1>2 DEF OwnedBy
  <1>6. OnceEach(L)
    BY <1>2, <1>5, TopApart
  <1>7. Loose(n) = Texts(L) \cup Texts(InFlight)
    BY <1>2, <1>5, LooseTop DEF Owned
  <1>8. \A i : i \notin n + 1 .. Len(kont')
    BY <1>3
  <1>9. Single(n, L, Flight)
    BY <1>4, <1>8 DEF Single
  <1>10. /\ Frees(mem, mem', {}) /\ NotStale(mem, mem')
             /\ {} \subseteq Loose(n) \cup {Null, Undefined}
         /\ mem'.stack = mem.stack /\ mem'.vars = mem.vars
    BY <1>1, Given, SameHeap DEF NotStale, Owned
  <1>11. \A p \in Texts(L) : p \notin {}
             /\ (p \in Loose(n) \/ p \in Len(mem.heap) + 1 .. Len(mem'.heap))
    BY <1>7
  <1> HIDE DEF n, L
  <1> QED
    BY <1>3, <1>4, <1>6, <1>8, <1>9, <1>10, <1>11, HandOne DEF Owned

\* The parameters in flight become those of the parameter that they were for.
LEMMA ResolveArgOwned ==
  ASSUME NEW ints, Owned(ints), TypeInv', Running, ResolveArg
  PROVE  OwnerInv(ints)'
  <1> DEFINE n == Len(kont) - 1
             L == <<>>
             ps == focus.texts
             who == <<"none">>
  <1>1. /\ Turn("cooked", "nested") /\ mem' = mem /\ kont' = Below
        /\ focus'.at = "atom" /\ focus'.env.cooked = ps
    BY DEF ResolveArg, Atom
  <1>2. kont # <<>> /\ Frame.kind = "nested" /\ focus.at = "cooked"
    BY <1>1 DEF Turn
  <1>3. Quiet(n) /\ Len(kont) \in Nat /\ Len(kont') = n
    BY <1>1, <1>2, PopsStill, Given, TopAndBelow DEF Owned
  <1>4. InFlight' = <<>> /\ Texts(InFlight') = {} /\ InFlight = ps
    BY <1>1, <1>2, SmallLists DEF InFlight
  <1>5. \A i : i \notin n + 1 .. Len(kont')
    BY <1>3
  <1>6. OnceEach(L) /\ Texts(L) = {}
    BY SmallLists
  <1>7. Single(n, L, who)
    BY <1>4, <1>5 DEF Single, Flight
  <1>8. Handed(ps, n, {}, Len(kont') + 1)
    BY <1>2, <1>4, <1>5, LooseTop DEF Handed, Owned
  <1>9. Passable(focus'.env.cooked, n, {}, Len(kont') + 1, ints)
    BY <1>1, <1>8 DEF Passable
  <1>10. /\ Frees(mem, mem', {}) /\ NotStale(mem, mem')
             /\ {} \subseteq Loose(n) \cup {Null, Undefined}
         /\ mem'.stack = mem.stack /\ mem'.vars = mem.vars
    BY <1>1, Given, SameHeap DEF NotStale, Owned
  <1>11. \A p \in Texts(L) : p \notin {}
             /\ (p \in Loose(n) \/ p \in Len(mem.heap) + 1 .. Len(mem'.heap))
    BY <1>6
  <1> HIDE DEF n, L, who, ps
  <1> QED
    BY <1>3, <1>5, <1>6, <1>7, <1>9, <1>10, <1>11, HandOne DEF Owned

\* The rule keeps the parameters, and its option may copy them.
LEMMA SelectOptionOwned ==
  ASSUME NEW ints, Owned(ints), TypeInv', Running, SelectOption
  PROVE  OwnerInv(ints)'
  <1> DEFINE n == Len(kont) - 1
             L == focus.texts
             who == AFrame(n + 1)
             r == [Frame EXCEPT !.cooked = focus.texts]
             env == [formal |-> Formals(Frame.name), cooked |-> L]
  <1>1. Turn("cooked", "rule") /\ mem' = mem /\ focus' = GoOn
    BY DEF SelectOption
  <1>2. PICK c \in DOMAIN script.rules[Frame.name].options :
          kont' = Below \o <<r, OptionFrame(script.rules[Frame.name].options[c], env)>>
    BY DEF SelectOption
  <1> DEFINE o == OptionFrame(script.rules[Frame.name].options[c], env)
  <1>3. kont # <<>> /\ Frame.kind = "rule" /\ focus.at = "cooked"
            /\ Frame \in RuleFrames(script, Len(mem.heap))
    BY <1>1, GivenTurn, FrameOfKind DEF Turn, Owned
  <1>4. Quiet(n)
    BY SelectOptionStill DEF Owned
  <1>5. Below \in Seq(Frames(script, Len(mem.heap))) /\ Len(Below) = n /\ Len(kont) \in Nat
    BY <1>3, Given, TopAndBelow DEF Owned
  <1>6. r.kind = "rule" /\ r.cooked = L /\ "env" \notin DOMAIN r
    BY <1>3 DEF RuleFrames
  <1>7. Texts(OwnedBy(o)) = {} /\ o.env = env /\ env.cooked = L
    BY OptionHasNone
  <1>21. kont' = Below \o <<r, o>>
    BY <1>2
  <1> HIDE DEF r, o
  <1>8. Len(kont') = n + 2 /\ kont'[n + 1] = r /\ kont'[n + 2] = o
    <2> DEFINE below == Below
               all == kont'
    <2>1. all = below \o <<r, o>> /\ below \in Seq(Frames(script, Len(mem.heap)))
      BY <1>5, <1>21
    <2> HIDE DEF below, all
    <2>2. Len(all) = Len(below) + 2 /\ all[Len(below) + 1] = r /\ all[Len(below) + 2] = o
      BY <2>1, TwoMore
    <2> QED
      BY <1>5, <2>2 DEF below, all
  <1>9. \A i \in n + 1 .. Len(kont') : i = n + 1 \/ i = n + 2
    BY <1>5, <1>8
  <1>10. OwnedBy(r) = L
    BY <1>6 DEF OwnedBy
  <1>11. InFlight' = <<>> /\ Texts(InFlight') = {} /\ InFlight = L /\ focus'.at # "atom"
    BY <1>1, <1>3, SmallLists DEF InFlight, GoOn
  <1>12. AFrame(n + 2) # who /\ AFrame(n + 1) = who /\ Flight # who
    BY <1>5, HoldersDiffer
  <1>13. Single(n, L, who)
    BY <1>7, <1>8, <1>9, <1>10, <1>11, <1>12 DEF Single
  <1>14. OnceEach(L)
    BY <1>3, <1>11, TopApart
  <1>15. Texts(L) \subseteq Loose(n)
    BY <1>3, <1>11, LooseTop DEF Owned
  <1>16. \A i \in n + 1 .. Len(kont') : i >= n + 2 => i = n + 2
    BY <1>5, <1>9
  <1>17. Handed(L, n, {}, n + 2)
    BY <1>7, <1>8, <1>11, <1>15, <1>16 DEF Handed
  <1>18. \A i \in n + 1 .. Len(kont') :
           "env" \in DOMAIN kont'[i] => Passable(kont'[i].env.cooked, n, {}, i, ints)
    BY <1>6, <1>7, <1>8, <1>9, <1>17 DEF Passable
  <1>19. /\ Frees(mem, mem', {}) /\ NotStale(mem, mem')
             /\ {} \subseteq Loose(n) \cup {Null, Undefined}
         /\ mem'.stack = mem.stack /\ mem'.vars = mem.vars
    BY <1>1, Given, SameHeap DEF NotStale, Owned
  <1>20. \A p \in Texts(L) : p \notin {}
             /\ (p \in Loose(n) \/ p \in Len(mem.heap) + 1 .. Len(mem'.heap))
    BY <1>15
  <1> HIDE DEF n, L, who, env
  <1> QED
    BY <1>4, <1>11, <1>13, <1>14, <1>18, <1>19, <1>20, HandOne DEF Owned

\* The rule frees the parameters and hands its text on.
LEMMA EndRuleOwned ==
  ASSUME NEW ints, Owned(ints), TypeInv', Running, EndRule
  PROVE  OwnerInv(ints)'
  <1> DEFINE m == FreeAll(mem, Frame.cooked)
             F == ToSet(Frame.cooked)
  <1>1. Turn("return", "rule") /\ Leave(m, focus.text)
    BY DEF EndRule
  <1>2. kont # <<>> /\ Frame.kind = "rule" /\ focus.at = "return"
            /\ Frame \in RuleFrames(script, Len(mem.heap))
    BY <1>1, GivenTurn, FrameOfKind DEF Turn, Owned
  <1>3. Frame.cooked \in Seq(0 .. Len(mem.heap)) /\ OwnedBy(Frame) = Frame.cooked /\ IsMemory(mem)
    BY <1>2, Given DEF RuleFrames, OwnedBy, Owned
  <1>4. Mild(mem, m) /\ Frees(mem, m, F) /\ NotStale(mem, m)
    <2>1. OnceEach(Frame.cooked) /\ mem.heap[Undefined].state = "constant"
      BY <1>2, <1>3, TopApart, OwnerFacts DEF HeldLive, Owned
    <2>2. \A p \in ToSet(Frame.cooked) : CanRead(mem, p)
      <3>1. ToSet(Frame.cooked) \subseteq Texts(OwnedBy(Frame)) \cup {Null, Undefined}
        BY <1>3 DEF Texts
      <3> QED
        BY <1>2, <3>1, TopReadable
    <2> QED
      BY <1>3, <2>1, <2>2, FreeAllFrees, FreeAllMild
  <1>5. F \subseteq Texts(OwnedBy(Frame)) \cup {Null, Undefined}
    BY <1>3 DEF Texts
  <1>6. focus.text \in {Null, Undefined} \/ focus.text \in Texts(InFlight)
    BY <1>2, FlightReadable
  <1>7. Texts(OwnedBy(Frame)) \cap Texts(InFlight) = {}
    BY <1>2, TopApart
  <1>8. Null \notin Texts(InFlight) /\ Undefined \notin Texts(InFlight)
    BY DEF Texts
  <1>9. \/ focus.text \in {Null, Undefined}
        \/ focus.text \in (Texts(OwnedBy(Frame)) \cup Texts(InFlight)) \ F
    BY <1>5, <1>6, <1>7, <1>8
  <1>10. Frame.kind # "code"
             /\ F \subseteq Texts(OwnedBy(Frame)) \cup Texts(InFlight) \cup {Null, Undefined}
    BY <1>2, <1>5
  <1> HIDE DEF m, F
  <1> QED
    BY <1>1, <1>2, <1>4, <1>9, <1>10, HandLeave

\* A block invokes a rule: nothing is on loan while it waits.
LEMMA InvokeOwned ==
  ASSUME NEW ints, Owned(ints), TypeInv', Running, Invoke
  PROVE  OwnerInv(ints)'
  <1> DEFINE n == Len(kont)
             env == NoEnv
  <1>1. /\ Due({"INVOKE"})
        /\ InvokeOn(mem, kont, InstrDue.name, <<>>, env)
    BY DEF Invoke
  <1>2. kont # <<>> /\ Frame = kont[n]
    BY <1>1 DEF Due, Turn, Frame
  <1>3. n \in 0 .. Len(kont) /\ kont = SubSeq(kont, 1, n) /\ n \in Nat
    BY Given, SubSeqWhole DEF Owned
  <1>4. InvokeDue(kont[n])
    BY <1>1, <1>2 DEF Due, InvokeDue, InstrDue
  <1>5. \A i \in n + 1 .. Len(kont) : kont[i].kind # "code"
    BY <1>3
  <1>6. Mild(mem, mem) /\ Frees(mem, mem, {}) /\ NotStale(mem, mem)
    BY Given, SameHeap DEF Mild, NotStale, Owned
  <1>7. Inherits(env.cooked, n, ints)
    BY <1>3, NoEnvInherits
  <1> HIDE DEF n, env
  <1> QED
    BY <1>1, <1>3, <1>4, <1>5, <1>6, <1>7, HandInvokeOn

\* The text that is printed can be read.
LEMMA OutputOwned ==
  ASSUME NEW ints, Owned(ints), TypeInv', Running, Output
  PROVE  OwnerInv(ints)'
  <1> DEFINE L == <<>>
             who == <<"none">>
             n == 0
  <1>1. focus.at = "return" /\ kont = <<>> /\ mem' = Read(mem, focus.text) /\ kont' = kont
        /\ focus'.at = "done"
    BY DEF Output
  <1>2. Quiet(n)
    BY OutputStill DEF Owned
  <1>3. CanRead(mem, focus.text) /\ IsMemory(mem)
    BY <1>1, FlightReadable, Given DEF Owned
  <1>4. Frees(mem, mem', {}) /\ NotStale(mem, mem') /\ mem'.stack = mem.stack
            /\ mem'.vars = mem.vars
    BY <1>1, <1>3, ReadFrees, ReadMemory
  <1>5. InFlight' = <<>> /\ Texts(InFlight') = {} /\ focus'.at # "atom"
    BY <1>1, SmallLists DEF InFlight
  <1>6. \A i : i \notin n + 1 .. Len(kont')
    BY <1>1
  <1>7. OnceEach(L) /\ Texts(L) = {}
    BY SmallLists
  <1>8. Single(n, L, who)
    BY <1>5, <1>6 DEF Single, Flight
  <1>9. {} \subseteq Loose(n) \cup {Null, Undefined}
    OBVIOUS
  <1>10. \A p \in Texts(L) : p \notin {}
             /\ (p \in Loose(n) \/ p \in Len(mem.heap) + 1 .. Len(mem'.heap))
    BY <1>7
  <1> HIDE DEF n, L, who
  <1> QED
    BY <1>2, <1>4, <1>5, <1>6, <1>7, <1>8, <1>9, <1>10, HandOne DEF Owned

\* A step after which only waiting functions that were there before may copy
\* actual parameters: those in K keep what they have, the others pass it on.
LEMMA PassOn ==
  ASSUME NEW ints, Owned(ints), TypeInv', Running, script' = script, NEW n, Keeps(n),
         \A i \in n + 1 .. Len(kont') : "env" \notin DOMAIN kont'[i], focus'.at # "atom",
         NEW K, K \subseteq Holders(ints), \A h \in K : ListOf(h)' = ListOf(h),
         \A i \in 1 .. n : AFrame(i) \in K,
         NEW F, Frees(mem, mem', F), NotStale(mem, mem'),
         \A p \in F : \/ p \in {Null, Undefined} \/ p > Len(mem.heap)
                      \/ \E g \in Holders(ints) \ K : p \in TextsOf(g),
         \A h \in Holders(ints)' \ K :
           /\ OnceEach(ListOf(h)')
           /\ \A p \in TextsOf(h)' :
                /\ \/ p \in Len(mem.heap) + 1 .. Len(mem'.heap)
                   \/ \E g \in Holders(ints) \ K : p \in TextsOf(g)
                /\ h \notin {AVar(v) : v \in Spent(ints)'} =>
                     p \notin F /\ (p \in Len(mem.heap) + 1 .. Len(mem'.heap) \/ Live(p)),
         \A h, g \in Holders(ints)' \ K : h # g => TextsOf(h)' \cap TextsOf(g)' = {},
         \A v \in Spent(ints) : AVar(v) \in K => v \in Spent(ints)',
         Loans(ints)'
  PROVE  OwnerInv(ints)'
  <1>0. TypeInv /\ Len(mem.heap) \in Nat /\ IsMemory(mem)
    BY Given DEF Owned
  <1>1. Apart(ints) /\ HeldLive(ints) /\ ActualsSafe(ints) /\ CarefulWith(script, ints)
    BY OwnerFacts DEF Owned
  <1>2. PassedOn(K, ints)
    BY <1>0 DEF PassedOn
  <1>3. Apart(ints)'
    BY <1>0, <1>1, <1>2, StaysApart
  <1>4. \A p \in F, h \in K : p \notin TextsOf(h)
    <2> SUFFICES ASSUME NEW p \in F, NEW h \in K, p \in TextsOf(h) PROVE FALSE
      OBVIOUS
    <2>1. p \notin {Null, Undefined} /\ p \in 1 .. Len(mem.heap)
      BY <1>0, OldTexts DEF TextsOf, Texts
    <2>2. PICK g \in Holders(ints) \ K : p \in TextsOf(g)
      BY <1>0, <2>1
    <2> QED
      BY <1>1, <2>2 DEF Apart
  <1>5. \A h \in (Holders(ints)' \ K) \ {AVar(v) : v \in Spent(ints)'} :
          \A p \in TextsOf(h)' : Live(p)'
    <2> SUFFICES ASSUME NEW h \in (Holders(ints)' \ K) \ {AVar(v) : v \in Spent(ints)'},
                        NEW p \in TextsOf(h)'
                 PROVE  Live(p)'
      OBVIOUS
    <2>1. p \notin F /\ (p \in Len(mem.heap) + 1 .. Len(mem'.heap) \/ Live(p))
      OBVIOUS
    <2>2. CASE p \in Len(mem.heap) + 1 .. Len(mem'.heap)
      BY <2>1, <2>2 DEF Frees, Live
    <2>3. CASE p \notin Len(mem.heap) + 1 .. Len(mem'.heap)
      <3>1. PICK g \in Holders(ints) \ K : p \in TextsOf(g)
        BY <2>3
      <3>2. p \in 1 .. Len(mem.heap)
        BY <1>0, <3>1, OldTexts
      <3> QED
        BY <2>1, <2>3, <3>2 DEF Frees, Live
    <2> QED
      BY <2>2, <2>3
  <1>6. HeldLive(ints)'
    BY <1>0, <1>1, <1>2, <1>4, <1>5, StaysLive
  <1>7. ActualsSafe(ints)'
    <2>1. /\ n \in Nat /\ n \in 0 .. Len(kont) /\ Len(kont) \in Nat /\ Len(kont') \in Nat
          /\ DOMAIN kont = 1 .. Len(kont) /\ DOMAIN kont' = 1 .. Len(kont')
          /\ \A i \in 1 .. n : kont'[i] = kont[i]
      BY <1>0 DEF Keeps, TypeInv
    <2>2. ASSUME NEW i \in 1 .. n, "env" \in DOMAIN kont'[i]
          PROVE  SafeNext(kont'[i].env.cooked, i, ints)
      <3>1. i \in DOMAIN kont /\ kont'[i] = kont[i] /\ i \in Nat /\ i <= n + 1 /\ i <= i
        BY <2>1
      <3> DEFINE ps == kont[i].env.cooked
      <3>2. Safe(ps, i, ints)
        BY <1>1, <2>2, <3>1 DEF ActualsSafe
      <3>3. ps \in Seq(0 .. Len(mem.heap))
        <4>1. kont[i] \in Frames(script, Len(mem.heap))
          BY <1>0, <3>1 DEF TypeInv
        <4> QED
          BY <2>2, <3>1, <4>1, EnvType
      <3>4. \A j \in 1 .. n : AFrame(j) \in Holders(ints) => AFrame(j) \in K
        OBVIOUS
      <3> HIDE DEF ps
      <3>5. SafeNext(ps, i, ints)
        BY <1>0, <1>1, <1>2, <2>1, <3>1, <3>2, <3>3, <3>4, StaysSafe
      <3> QED
        BY <3>1, <3>5 DEF ps
    <2>3. \A i \in DOMAIN kont' : i \in 1 .. n \/ i \in n + 1 .. Len(kont')
      BY <2>1
    <2> QED
      BY <2>2, <2>3 DEF ActualsSafe, SafeNext, Safe
  <1>8. CarefulWith(script', ints) /\ mem'.fault # "stale"
    BY <1>1 DEF NotStale, Running
  <1> QED
    BY <1>3, <1>6, <1>7, <1>8 DEF OwnerInv

\* The variable gets the text and the caller a copy of it; the variable's old
\* text is lost.
LEMMA DefineOwned ==
  ASSUME NEW ints, Owned(ints), TypeInv', Running, Define
  PROVE  OwnerInv(ints)'
  <1>0. PICK name : name = script.nodes[Frame.node].data
    OBVIOUS
  <1> DEFINE n == Len(kont) - 1
             p == IF Frame.kind = "var_def" /\ focus.text = Null THEN Undefined ELSE focus.text
             put == VarPut(mem, name, StrCell(p))
             m == Strdup(put, p)
             new == Newest(m)
             V == TextVars \ {name}
             K == Kept(n, V, ints)
  <1>1. /\ kont # <<>> /\ Frame.kind \in {"var_def", "var_conddef"} /\ focus.at = "return"
        /\ focus.text \in 0 .. Len(mem.heap) /\ Frame \in WaitFrames(script, Len(mem.heap))
    BY GivenTurn, FrameOfKind DEF Define, Wrapping, Owned
  <1>2. Leave(m, new)
    BY <1>0 DEF Define
  <1>3. TypeInv /\ IsMemory(mem) /\ Len(mem.heap) \in Nat /\ WaitInv
    BY Given DEF Owned
  <1>4. Quiet(n) /\ TypedWith(script, ints)
    <2>1. TypedWith(script, ints)
      BY DEF Owned, StackInv
    <2> QED
      BY <1>3, <2>1, DefineStill
  <1>5. CanRead(mem, p) /\ (p \in {Null, Undefined} \/ p \in Texts(InFlight))
            /\ p \in 0 .. Len(mem.heap)
    <2>1. CanRead(mem, Undefined) /\ Undefined \in 0 .. Len(mem.heap)
      <3>1. mem.heap[Undefined].state = "constant"
        BY OwnerFacts DEF Owned, HeldLive
      <3>2. Len(mem.heap) >= 1
        BY <1>3 DEF IsMemory, IsHeap
      <3> QED
        BY <1>3, <3>1, <3>2 DEF CanRead, Undefined
    <2>2. CanRead(mem, focus.text)
              /\ (focus.text \in {Null, Undefined} \/ focus.text \in Texts(InFlight))
      BY <1>1, FlightReadable
    <2> QED
      BY <1>1, <2>1, <2>2
  <1> HIDE DEF p
  <1>6. StrCell(p) \in Cells(Len(mem.heap)) /\ StrCell(p).type = "string_t" /\ StrCell(p).v = p
    BY <1>5 DEF StrCell, Cells, StrCells
  <1>7. /\ IsMemory(put) /\ put.heap = mem.heap /\ put.stack = mem.stack
        /\ put.vars = [v \in DOMAIN mem.vars \cup {name} |-> IF v = name THEN StrCell(p)
            ELSE mem.vars[v]]
    <2>1. IsMemory(put)
      BY <1>3, <1>6, VarPutKeeps
    <2> QED
      BY <1>3, <2>1 DEF VarPut, IsMemory
  <1>8. put.fault = mem.fault
    BY <1>3 DEF VarPut, IsMemory
  <1>9. Frees(mem, put, {}) /\ NotStale(mem, put) /\ CanRead(put, p)
    BY <1>3, <1>5, <1>7, <1>8, SameHeap DEF NotStale, CanRead
  <1> HIDE DEF put
  <1>10. /\ IsMemory(m) /\ new = Len(mem.heap) + 1 /\ Len(m.heap) = Len(mem.heap) + 1
         /\ m.vars = put.vars /\ m.stack = mem.stack
    BY <1>7, StrdupMemory
  <1>11. Frees(put, m, {}) /\ NotStale(put, m)
    BY <1>7, <1>9, StrdupFrees
  <1>12. Frees(mem, m, {}) /\ NotStale(mem, m)
    BY <1>3, <1>7, <1>9, <1>10, <1>11, FreesTwice DEF NotStale
  <1> HIDE DEF m, new
  <1>13. mem' = m /\ kont' = Below /\ focus' = Return(new) /\ script' = script
    BY <1>2 DEF Leave, Same
  <1>14. Len(kont) \in Nat /\ Len(kont') = n /\ n \in Nat
    BY <1>1, <1>3, <1>13, Given, TopAndBelow
  <1>15. /\ TextVars' = V \cup {name} /\ V \subseteq TextVars
         /\ \A v \in V : mem'.vars[v] = mem.vars[v]
         /\ mem'.vars[name].v = p
    BY <1>6, <1>7, <1>10, <1>13 DEF TextVars
  <1>16. Lent(ints) = {} /\ Spent(ints) = {} /\ Lent(ints)' = {} /\ Spent(ints)' = {}
    BY <1>4, QuietNoLoans DEF Owned
  <1>17. \A i : i \notin n + 1 .. Len(kont')
    BY <1>14
  <1>18. /\ K \subseteq Holders(ints) /\ \A h \in K : ListOf(h)' = ListOf(h)
         /\ \A h \in Holders(ints)' \ K : h = AVar(name) \/ h = Flight
    <2>1. V \subseteq TextVars' /\ TextVars' \ V \subseteq {name} /\ mem'.stack = mem.stack
      BY <1>10, <1>13, <1>15
    <2> HIDE DEF V
    <2> QED
      BY <1>3, <1>4, <1>15, <1>16, <1>17, <2>1, NewHolders
  <1>19. Flight \in Holders(ints) \ K /\ \A i \in 1 .. n : AFrame(i) \in K
    BY HoldersDiffer DEF Holders, Kept
  <1>20. ListOf(AVar(name))' = <<p>> /\ ListOf(Flight)' = <<new>>
    <2>1. InFlight' = <<new>>
      BY <1>13 DEF InFlight, Return
    <2> QED
      BY <1>15, <2>1, HolderListsNext
  <1>21. /\ OnceEach(<<p>>) /\ OnceEach(<<new>>) /\ TextsOf(Flight)' = {new} \ {Null, Undefined}
         /\ TextsOf(AVar(name))' = {p} \ {Null, Undefined}
    BY <1>20, SmallLists DEF TextsOf
  <1>22. p # new /\ new \in Len(mem.heap) + 1 .. Len(mem'.heap) /\ new > Len(mem.heap)
    BY <1>3, <1>5, <1>10, <1>13
  <1>23. p \in {Null, Undefined} \/ (p \in TextsOf(Flight) /\ Live(p))
    <2>1. Texts(InFlight) = TextsOf(Flight)
      BY HolderLists DEF TextsOf
    <2>2. Flight \in Holders(ints) \ {AVar(v) : v \in Spent(ints)}
      BY <1>16, <1>19
    <2> QED
      BY <1>5, <2>1, <2>2, OwnerFacts DEF Owned, HeldLive
  <1>24. \A h \in Holders(ints)' \ K :
           /\ OnceEach(ListOf(h)')
           /\ \A q \in TextsOf(h)' :
                /\ \/ q \in Len(mem.heap) + 1 .. Len(mem'.heap)
                   \/ \E g \in Holders(ints) \ K : q \in TextsOf(g)
                /\ h \notin {AVar(v) : v \in Spent(ints)'} =>
                     q \notin {} /\ (q \in Len(mem.heap) + 1 .. Len(mem'.heap) \/ Live(q))
    <2> HIDE DEF K
    <2>1. /\ OnceEach(ListOf(AVar(name))') /\ OnceEach(ListOf(Flight)')
          /\ \A q \in TextsOf(AVar(name))' : q \in TextsOf(Flight) /\ Live(q)
          /\ \A q \in TextsOf(Flight)' : q \in Len(mem.heap) + 1 .. Len(mem'.heap)
      BY <1>20, <1>21, <1>22, <1>23
    <2>2. Flight \in Holders(ints) \ K
      BY <1>19
    <2> SUFFICES ASSUME NEW h \in Holders(ints)' \ K
                 PROVE  /\ OnceEach(ListOf(h)')
                        /\ \A q \in TextsOf(h)' :
                             /\ \/ q \in Len(mem.heap) + 1 .. Len(mem'.heap)
                                \/ \E g \in Holders(ints) \ K : q \in TextsOf(g)
                             /\ q \in Len(mem.heap) + 1 .. Len(mem'.heap) \/ Live(q)
      OBVIOUS
    <2>3. CASE h = AVar(name)
      BY <2>1, <2>2, <2>3
    <2>4. CASE h = Flight
      BY <2>1, <2>4
    <2> QED
      BY <1>18, <2>3, <2>4
  <1>25. \A h, g \in Holders(ints)' \ K : h # g => TextsOf(h)' \cap TextsOf(g)' = {}
    <2> HIDE DEF K
    <2>1. TextsOf(AVar(name))' \cap TextsOf(Flight)' = {}
      BY <1>21, <1>22
    <2> SUFFICES ASSUME NEW h \in Holders(ints)' \ K, NEW g \in Holders(ints)' \ K, h # g
                 PROVE  TextsOf(h)' \cap TextsOf(g)' = {}
      OBVIOUS
    <2>2. (h = AVar(name) \/ h = Flight) /\ (g = AVar(name) \/ g = Flight)
      BY <1>18
    <2> QED
      BY <2>1, <2>2
  <1>26. Loans(ints)' /\ (\A v \in Spent(ints) : AVar(v) \in K => v \in Spent(ints)')
    BY <1>16 DEF Loans
  <1>27. Keeps(n) /\ focus'.at # "atom" /\ script' = script /\ Frees(mem, mem', {})
             /\ NotStale(mem, mem')
    BY <1>4, <1>12, <1>13 DEF Quiet, Return
  <1> HIDE DEF K, n
  <1> QED
    BY <1>17, <1>18, <1>19, <1>24, <1>25, <1>26, <1>27, PassOn
-----------------------------------------------------------------------------
\* The cells of the block on top that it has on loan.
LentHere(ints) == {k \in DOMAIN Here(ints).stack : Here(ints).stack[k].of # NoVar}

\* What a block has on loan and has freed is what the description of its cells says.
LEMMA LoansHere ==
  ASSUME NEW ints, Owned(ints), Running, kont # <<>>, Frame.kind = "code"
  PROVE  Lent(ints) = LentHere(ints) /\ Spent(ints) = Here(ints).spent
  <1>1. TypeInv /\ WaitInv /\ StackInv(ints) /\ CarefulWith(script, ints)
    BY OwnerFacts DEF Owned
  <1>2. Len(kont) \in 1 .. Len(kont) /\ Frame = kont[Len(kont)]
    BY <1>1, Given, TopAndBelow
  <1>3. focus.at \in {"next", "return"} /\ (focus.at = "return" => InvokeDue(Frame))
    BY <1>1, <1>2 DEF WaitInv, WaitsAt
  <1>4. CASE focus.at = "next"
    BY <1>4 DEF Lent, Spent, LentHere, BlockRuns
  <1>5. CASE focus.at = "return"
    <2>1. Frame.done < Len(CodeOf(Frame)) /\ InstrDue.op = "INVOKE"
      BY <1>3, <1>5 DEF InvokeDue, InstrDue
    <2>2. Here(ints).spent = {} /\ Lenders(Here(ints).stack) = {}
      BY <1>1, <2>1, CarefulHere DEF Careful
    <2>3. LentHere(ints) = {}
      BY <2>2 DEF LentHere, Lenders
    <2>4. ~BlockRuns
      BY <1>5 DEF BlockRuns
    <2> QED
      BY <2>2, <2>3, <2>4 DEF Lent, Spent
  <1> QED
    BY <1>3, <1>4, <1>5

\* A block goes on to its next instruction.
LEMMA BlockGoesOn ==
  ASSUME NEW ints, Owned(ints), TypeInv', Running, kont # <<>>, Frame.kind = "code",
         Frame.done < Len(CodeOf(Frame)), NEW m, Continue(m, InstrDone, GoOn)
  PROVE  /\ mem' = m /\ script' = script /\ focus'.at # "atom" /\ InFlight' = <<>>
         /\ Len(kont) - 1 \in Nat /\ Keeps(Len(kont) - 1)
         /\ \A i \in Len(kont) - 1 + 1 .. Len(kont') : "env" \notin DOMAIN kont'[i]
         /\ DOMAIN kont' = DOMAIN kont
         /\ \A i \in DOMAIN kont : OwnedBy(kont'[i]) = OwnedBy(kont[i])
         /\ Frame'.base = Frame.base /\ Here(ints)' = There(ints)
         /\ Lent(ints)' = {k \in DOMAIN There(ints).stack : There(ints).stack[k].of # NoVar}
         /\ Spent(ints)' = There(ints).spent
  <1>0. TypeInv /\ WaitInv /\ StackInv(ints)
    BY DEF Owned
  <1> DEFINE top == Len(kont)
  <1>1. /\ mem' = m /\ script' = script /\ kont' = Append(Below, InstrDone) /\ focus' = GoOn
    BY DEF Continue, Same
  <1>2. top \in Nat \ {0} /\ Frame = kont[top] /\ Frame \in CodeFramesOf(script)
    BY <1>0, BlockFacts
  <1>3. /\ Below \in Seq(Frames(script, Len(mem.heap))) /\ Len(Below) = top - 1
        /\ \A i \in 1 .. top - 1 : Below[i] = kont[i]
    BY <1>0, Given, TopAndBelow
  <1>4. /\ InstrDone.kind = "code" /\ InstrDone.node = Frame.node /\ "env" \notin DOMAIN InstrDone
        /\ InstrDone.base = Frame.base /\ InstrDone.done = Frame.done + 1
    BY <1>2 DEF InstrDone, CodeFramesOf
  <1> HIDE DEF top
  <1>5. /\ Len(kont') = top /\ kont'[top] = InstrDone
        /\ \A i \in 1 .. top - 1 : kont'[i] = kont[i]
        /\ DOMAIN kont' = 1 .. top /\ DOMAIN kont = 1 .. top
    BY <1>0, <1>1, <1>2, <1>3, Given DEF top
  <1>6. focus'.at = "next" /\ InFlight' = <<>>
    BY <1>1 DEF GoOn, InFlight
  <1>7. top - 1 \in Nat /\ Keeps(top - 1)
    BY <1>2, <1>5 DEF Keeps, top
  <1>8. \A i \in top - 1 + 1 .. Len(kont') : i = top
    BY <1>2, <1>5
  <1>9. OwnedBy(InstrDone) = <<>> /\ OwnedBy(Frame) = <<>>
    BY <1>4 DEF OwnedBy
  <1>10. \A i \in DOMAIN kont : OwnedBy(kont'[i]) = OwnedBy(kont[i])
    <2> SUFFICES ASSUME NEW i \in 1 .. top PROVE OwnedBy(kont'[i]) = OwnedBy(kont[i])
      BY <1>5
    <2>1. i = top \/ i \in 1 .. top - 1
      BY <1>2
    <2> QED
      BY <1>2, <1>5, <1>9, <2>1
  <1>11. Frame' = InstrDone /\ kont' # <<>>
    BY <1>2, <1>5 DEF Frame
  <1>12. Here(ints)' = There(ints)
    BY <1>1, <1>4, <1>11 DEF Here, There, CodeOf
  <1>13. BlockRuns'
    BY <1>4, <1>6, <1>11 DEF BlockRuns
  <1>14. /\ Lent(ints)' = {k \in DOMAIN There(ints).stack : There(ints).stack[k].of # NoVar}
         /\ Spent(ints)' = There(ints).spent
    BY <1>12, <1>13 DEF Lent, Spent
  <1> QED
    BY <1>1, <1>4, <1>5, <1>6, <1>7, <1>8, <1>10, <1>11, <1>12, <1>14 DEF top

\* The holders that an instruction leaves alone when it takes away the cells
\* above a height and changes no variable.
Beneath(top, ints) ==
  {AFrame(i) : i \in DOMAIN kont} \cup {AVar(v) : v \in TextVars}
    \cup {ACell(j) : j \in {i \in OwnCells(ints) : i <= top}}

\* What the holders are once it has pushed c, described as pushed, on top of the
\* cells up to this height, the first rest ones of which are the block's.
PushLeaves(ints, m, c, rest, top, pushed) ==
  /\ Beneath(top, ints) \subseteq Holders(ints)
  /\ \A h \in Beneath(top, ints) : ListOf(h)' = ListOf(h)
  /\ \A h \in Holders(ints)' : h \in Beneath(top, ints) \/ h = Flight \/ h = ACell(top + 1)
  /\ ListOf(ACell(top + 1))' = <<c.v>>
  /\ ACell(top + 1) \in Holders(ints)' => pushed.of = NoVar /\ c.type = "string_t"
  /\ \A k \in Lent(ints)' :
       IF k = rest + 1 THEN pushed.of # NoVar
       ELSE k \in Lent(ints) /\ k \in 1 .. rest
  /\ \A k \in 1 .. rest :
       /\ k \in DOMAIN Here(ints).stack
       /\ There(ints).stack[k] = Here(ints).stack[k]
       /\ m.stack[Frame.base + k] = mem.stack[Frame.base + k]
  /\ There(ints).stack[rest + 1] = pushed /\ m.stack[Frame.base + (rest + 1)] = c
  /\ Spent(ints)' = Spent(ints) \cup Lenders(Taken(InstrDue, Here(ints)))
  /\ rest \in Nat /\ top \in Nat

\* An instruction that leaves one cell more on the stack than it does not take.
LEMMA PushHolders ==
  ASSUME NEW ints, Owned(ints), TypeInv', Running, kont # <<>>, Frame.kind = "code",
         Frame.done < Len(CodeOf(Frame)), NEW m, Continue(m, InstrDone, GoOn),
         InstrDue.op \notin {"SET", "EMIT"}, NEW n \in {0, 1, 2}, n = Pops(InstrDue.op),
         m.vars = mem.vars, NEW c, m.stack = Append(Top(mem, n), c),
         NEW rest, rest = Len(Here(ints).stack) - n, NEW top, top = Frame.base + rest,
         NEW pushed, pushed = Pushed(InstrDue, Here(ints), ints)
  PROVE  PushLeaves(ints, m, c, rest, top, pushed)
  <1>0. TypeInv /\ WaitInv /\ StackInv(ints)
    BY DEF Owned
  <1> DEFINE S == [type : {"int", "any"}, of : STRING]
             cells == Rest(InstrDue, Here(ints))
  <1>1. /\ mem' = m /\ Frame'.base = Frame.base /\ DOMAIN kont' = DOMAIN kont
        /\ \A i \in DOMAIN kont : OwnedBy(kont'[i]) = OwnedBy(kont[i])
        /\ Lent(ints)' = {k \in DOMAIN There(ints).stack : There(ints).stack[k].of # NoVar}
        /\ Spent(ints)' = There(ints).spent
    BY BlockGoesOn
  <1>2. Frame.base \in Nat
    BY <1>0, BlockFacts
  <1>3. /\ rest \in Nat /\ cells \in Seq(S) /\ Len(cells) = rest
        /\ \A k \in 1 .. rest : k \in DOMAIN Here(ints).stack /\ cells[k] = Here(ints).stack[k]
        /\ Top(mem, n) \in Seq(Cells(Len(mem.heap))) /\ Len(Top(mem, n)) = top
        /\ \A j \in 1 .. top : Top(mem, n)[j] = mem.stack[j]
    <2>1. /\ Len(Here(ints).stack) \in Nat /\ n <= Len(Here(ints).stack)
          /\ Rest(InstrDue, Here(ints)) \in Seq(S)
          /\ Len(Rest(InstrDue, Here(ints))) = Len(Here(ints).stack) - n
          /\ \A k \in 1 .. Len(Here(ints).stack) - n : /\ k \in DOMAIN Here(ints).stack
               /\ Rest(InstrDue, Here(ints))[k] = Here(ints).stack[k]
          /\ Top(mem, n) \in Seq(Cells(Len(mem.heap)))
          /\ Len(Top(mem, n)) = Frame.base + Len(Here(ints).stack) - n
          /\ \A j \in 1 .. Frame.base + Len(Here(ints).stack) - n : Top(mem, n)[j] = mem.stack[j]
      BY <1>0, RestCells
    <2>2. rest \in Nat /\ Frame.base + Len(Here(ints).stack) - n = top
      BY <1>2, <2>1
    <2> HIDE DEF S
    <2> QED
      BY <2>1, <2>2
  <1>4. top \in Nat
    BY <1>2, <1>3
  <1>5. /\ There(ints).stack = Append(cells, pushed)
        /\ There(ints).spent = Here(ints).spent \cup Lenders(Taken(InstrDue, Here(ints)))
    <2>1. There(ints) = After(InstrDue, Here(ints), ints)
      BY <1>0, DueFacts
    <2> QED
      BY <2>1 DEF After
  <1> HIDE DEF S, cells
  <1>6. /\ DOMAIN There(ints).stack = 1 .. rest + 1 /\ There(ints).stack[rest + 1] = pushed
        /\ \A k \in 1 .. rest : There(ints).stack[k] = Here(ints).stack[k]
    <2> DEFINE after == There(ints).stack
    <2>1. after = Append(cells, pushed) /\ cells \in Seq(S) /\ Len(cells) = rest
      BY <1>3, <1>5
    <2> HIDE DEF after
    <2>2. DOMAIN after = 1 .. rest + 1 /\ after[rest + 1] = pushed
      BY <2>1
    <2>3. \A k \in 1 .. rest : after[k] = cells[k]
      BY <2>1
    <2> QED
      BY <1>3, <2>2, <2>3 DEF after
  <1>7. /\ DOMAIN m.stack = 1 .. top + 1 /\ m.stack[top + 1] = c
        /\ \A j \in 1 .. top : m.stack[j] = mem.stack[j]
    BY <1>3, <1>4
  <1>8. \A k \in 1 .. rest : Frame.base + k \in 1 .. top
            /\ m.stack[Frame.base + k] = mem.stack[Frame.base + k]
    <2>1. \A k \in 1 .. rest : Frame.base + k \in 1 .. top
      BY <1>2, <1>3, <1>4
    <2> QED
      BY <1>7, <2>1
  <1>9. Frame.base + (rest + 1) = top + 1
    BY <1>2, <1>3
  <1>10. Lent(ints) = LentHere(ints) /\ Spent(ints) = Here(ints).spent
    BY LoansHere
  <1>11. \A k \in Lent(ints)' :
           IF k = rest + 1 THEN pushed.of # NoVar ELSE k \in Lent(ints) /\ k \in 1 .. rest
    <2> SUFFICES ASSUME NEW k \in Lent(ints)'
                 PROVE  IF k = rest + 1 THEN pushed.of # NoVar ELSE k \in Lent(ints)
                     /\ k \in 1 .. rest
      OBVIOUS
    <2>1. k \in 1 .. rest + 1 /\ There(ints).stack[k].of # NoVar
      BY <1>1, <1>6
    <2>2. k = rest + 1 \/ k \in 1 .. rest
      BY <1>3, <2>1
    <2> QED
      BY <1>3, <1>6, <1>10, <2>1, <2>2 DEF LentHere
  <1>12. \A k \in LentHere(ints) : k \in 1 .. rest => k \in Lent(ints)'
    <2>1. \A k \in 1 .. rest : k \in 1 .. rest + 1
      BY <1>3
    <2> QED
      BY <1>1, <1>6, <2>1 DEF LentHere
  <1>13. pushed.of # NoVar => rest + 1 \in Lent(ints)'
    BY <1>1, <1>3, <1>6
  <1>14. \A j \in OwnCells(ints)' :
           \/ j \in OwnCells(ints) /\ j <= top
           \/ j = top + 1 /\ pushed.of = NoVar /\ c.type = "string_t"
    <2> SUFFICES ASSUME NEW j \in OwnCells(ints)'
                 PROVE  \/ j \in OwnCells(ints) /\ j <= top
                        \/ j = top + 1 /\ pushed.of = NoVar /\ c.type = "string_t"
      OBVIOUS
    <2>1. /\ j \in 1 .. top + 1 /\ m.stack[j].type = "string_t"
          /\ \A k \in Lent(ints)' : j # Frame.base + k
      BY <1>1, <1>7 DEF OwnCells, LentCells
    <2>2. CASE j = top + 1
      BY <1>7, <1>9, <1>13, <2>1, <2>2
    <2>3. CASE j # top + 1
      <3>1. j \in 1 .. top /\ j <= top
        BY <1>4, <2>1, <2>3
      <3>2. mem.stack[j].type = "string_t" /\ j \in DOMAIN mem.stack
        <4>1. mem.stack[j] = m.stack[j]
          BY <1>7, <3>1
        <4>2. mem.stack \in Seq(Cells(Len(mem.heap)))
                  /\ Len(mem.stack) = Frame.base + Len(Here(ints).stack)
          BY <1>0, BlockFacts, Given DEF IsMemory
        <4>3. top <= Len(mem.stack)
          <5>1. Len(Here(ints).stack) \in Nat
            BY <1>0, RestCells
          <5> QED
            BY <1>2, <4>2, <5>1
        <4> QED
          <5>1. Len(mem.stack) \in Nat /\ DOMAIN mem.stack = 1 .. Len(mem.stack)
            BY <4>2
          <5>2. j \in 1 .. Len(mem.stack)
            BY <1>4, <3>1, <4>3, <5>1
          <5> QED
            BY <2>1, <4>1, <5>1, <5>2
      <3>3. j \notin LentCells(ints)
        <4> SUFFICES ASSUME NEW k \in LentHere(ints), j = Frame.base + k PROVE FALSE
          BY <1>10 DEF LentCells
        <4>1. k \in Nat \ {0}
          <5>1. Here(ints) \in Points
            BY <1>0, BlockFacts
          <5> QED
            BY <5>1 DEF LentHere, Points
        <4>2. k \in 1 .. rest
          BY <1>2, <1>3, <3>1, <4>1
        <4> QED
          BY <1>12, <2>1, <4>2
      <3> QED
        BY <3>1, <3>2, <3>3 DEF OwnCells
    <2> QED
      BY <2>2, <2>3
  <1>15. TextVars' = TextVars
    BY <1>1 DEF TextVars
  <1>16. Beneath(top, ints) \subseteq Holders(ints)
    BY DEF Beneath, Holders
  <1>17. \A h \in Beneath(top, ints) : ListOf(h)' = ListOf(h)
    <2>1. \A i \in DOMAIN kont : ListOf(AFrame(i))' = ListOf(AFrame(i))
      BY <1>1, HolderLists, HolderListsNext
    <2>2. \A v : ListOf(AVar(v))' = ListOf(AVar(v))
      <3>1. mem'.vars = mem.vars
        BY <1>1
      <3> QED
        BY <3>1, HolderLists, HolderListsNext
    <2>3. \A j \in OwnCells(ints) : j <= top => ListOf(ACell(j))' = ListOf(ACell(j))
      <3> SUFFICES ASSUME NEW j \in OwnCells(ints), j <= top
              PROVE ListOf(ACell(j))' = ListOf(ACell(j))
        OBVIOUS
      <3>1. j \in DOMAIN mem.stack
        BY DEF OwnCells
      <3>2. mem.stack \in Seq(Cells(Len(mem.heap)))
        BY <1>0, Given DEF IsMemory
      <3>3. j \in 1 .. top
        BY <1>4, <3>1, <3>2
      <3>4. mem'.stack[j] = mem.stack[j]
        BY <1>1, <1>7, <3>3
      <3> QED
        BY <3>4, HolderLists, HolderListsNext
    <2> QED
      BY <2>1, <2>2, <2>3 DEF Beneath
  <1>18. \A h \in Holders(ints)' : h \in Beneath(top, ints) \/ h = Flight \/ h = ACell(top + 1)
    BY <1>1, <1>14, <1>15 DEF Holders, Beneath
  <1>19. ListOf(ACell(top + 1))' = <<c.v>>
    BY <1>1, <1>7, HolderListsNext
  <1>20. ACell(top + 1) \in Holders(ints)' => pushed.of = NoVar /\ c.type = "string_t"
    <2> SUFFICES ASSUME ACell(top + 1) \in Holders(ints)'
                 PROVE  pushed.of = NoVar /\ c.type = "string_t"
      OBVIOUS
    <2>1. top + 1 \in OwnCells(ints)'
      BY HoldersDiffer DEF Holders
    <2>2. ~(top + 1 <= top)
      BY <1>4
    <2> QED
      BY <1>14, <2>1, <2>2
  <1> QED
    BY <1>1, <1>3, <1>4, <1>5, <1>6, <1>7, <1>8, <1>9, <1>10, <1>11, <1>16, <1>17, <1>18, <1>19,
        <1>20
       DEF PushLeaves

\* The variables of the last cells of a sequence.
LEMMA LastCells ==
  ASSUME NEW S, NEW cells \in Seq(S), NEW n \in {0, 1, 2}, n <= Len(cells),
         NEW v, v # NoVar
  PROVE  v \in Lenders(SubSeq(cells, Len(cells) + 1 - n, Len(cells))) <=>
           \E l \in DOMAIN cells : ~(l <= Len(cells) - n) /\ cells[l].of = v
  <1> DEFINE L == Len(cells)
             taken == SubSeq(cells, L + 1 - n, L)
  <1>1. L \in Nat /\ DOMAIN cells = 1 .. L /\ L - n \in Nat
    OBVIOUS
  <1>2. DOMAIN taken = 1 .. n /\ \A i \in 1 .. n : taken[i] = cells[L - n + i]
    <2>1. CASE n = 0
      <3>1. taken = <<>>
        BY <1>1, <2>1
      <3> QED
        BY <2>1, <3>1
    <2>2. CASE n # 0
      <3>1. L + 1 - n \in 1 .. L /\ L \in 1 .. L
        BY <1>1, <2>2
      <3> QED
        BY <1>1, <3>1
    <2> QED
      BY <2>1, <2>2
  <1>3. \A i \in 1 .. n : L - n + i \in 1 .. L /\ ~(L - n + i <= L - n)
    BY <1>1
  <1>4. \A l \in 1 .. L : ~(l <= L - n) => l - (L - n) \in 1 .. n /\ L - n + (l - (L - n)) = l
    BY <1>1
  <1> HIDE DEF taken
  <1>5. v \in Lenders(taken) <=> \E i \in 1 .. n : taken[i].of = v
    BY <1>2 DEF Lenders
  <1> HIDE DEF L
  <1>6. (\E i \in 1 .. n : taken[i].of = v) <=> \E l \in 1 .. L : ~(l <= L - n) /\ cells[l].of = v
    <2>1. ASSUME NEW i \in 1 .. n, taken[i].of = v
          PROVE  \E l \in 1 .. L : ~(l <= L - n) /\ cells[l].of = v
      <3>1. cells[L - n + i].of = v
        BY <1>2, <2>1
      <3> QED
        BY <1>3, <3>1
    <2>2. ASSUME NEW l \in 1 .. L, ~(l <= L - n), cells[l].of = v
          PROVE  \E i \in 1 .. n : taken[i].of = v
      <3>1. l - (L - n) \in 1 .. n /\ L - n + (l - (L - n)) = l
        BY <1>4, <2>2
      <3>2. taken[l - (L - n)] = cells[l]
        BY <1>2, <3>1
      <3> QED
        BY <2>2, <3>1, <3>2
    <2> QED
      BY <2>1, <2>2
  <1> QED
    BY <1>1, <1>5, <1>6 DEF L, taken

\* The variables of which an instruction takes the texts.
LEMMA TakenLenders ==
  ASSUME NEW ints, Owned(ints), Running, kont # <<>>, Frame.kind = "code",
         Frame.done < Len(CodeOf(Frame)), NEW n \in {0, 1, 2}, n = Pops(InstrDue.op),
         NEW rest, rest = Len(Here(ints).stack) - n
  PROVE  \A v : v \in Lenders(Taken(InstrDue, Here(ints))) <=>
           \E l \in Lent(ints) : ~(l <= rest) /\ Here(ints).stack[l].of = v
  <1> DEFINE S == [type : {"int", "any"}, of : STRING]
             cells == Here(ints).stack
             taken == Taken(InstrDue, Here(ints))
  <1>0. TypeInv /\ WaitInv /\ StackInv(ints)
    BY DEF Owned
  <1>1. cells \in Seq(S) /\ n <= Len(cells)
    <2>1. Here(ints) \in Points
      BY <1>0, BlockFacts
    <2>2. n <= Len(Here(ints).stack)
      BY <1>0, RestCells
    <2> QED
      BY <2>1, <2>2 DEF Points
  <1>2. Lent(ints) = {k \in DOMAIN cells : cells[k].of # NoVar}
    BY LoansHere DEF LentHere
  <1>3. taken = SubSeq(cells, Len(cells) + 1 - n, Len(cells)) /\ rest = Len(cells) - n
    BY DEF Taken
  <1> HIDE DEF cells, S, taken
  <1>4. \A v : v \in Lenders(taken) => v # NoVar
    BY DEF Lenders
  <1>5. \A v : v # NoVar => (v \in Lenders(taken) <=>
                               \E l \in DOMAIN cells : ~(l <= rest) /\ cells[l].of = v)
    <2> SUFFICES ASSUME NEW v, v # NoVar
                 PROVE  v \in Lenders(taken) <=> \E l \in DOMAIN cells : ~(l <= rest)
                     /\ cells[l].of = v
      OBVIOUS
    <2>1. v \in Lenders(SubSeq(cells, Len(cells) + 1 - n, Len(cells))) <=>
            \E l \in DOMAIN cells : ~(l <= Len(cells) - n) /\ cells[l].of = v
      BY <1>1, LastCells
    <2> QED
      BY <1>3, <2>1
  <1>6. \A v : v \in Lenders(taken) <=> \E l \in Lent(ints) : ~(l <= rest) /\ cells[l].of = v
    BY <1>2, <1>4, <1>5
  <1> QED
    BY <1>6 DEF cells, taken

\* What such an instruction has to see to: it takes n cells, frees the texts of F,
\* which were its own cells' or on loan to them, and pushes c.
MayPush(ints, m, n, c, rest, top, pushed, lenders, F) ==
  /\ Continue(m, InstrDone, GoOn) /\ InstrDue.op \notin {"SET", "EMIT"}
  /\ n \in {0, 1, 2} /\ n = Pops(InstrDue.op)
  /\ m.vars = mem.vars /\ m.stack = Append(Top(mem, n), c)
  /\ rest = Len(Here(ints).stack) - n /\ top = Frame.base + rest
  /\ pushed = Pushed(InstrDue, Here(ints), ints)
  /\ lenders = Lenders(Taken(InstrDue, Here(ints)))
  /\ Frees(mem, m, F) /\ NotStale(mem, m)
  /\ \A p \in F : \/ p \in {Null, Undefined} \/ p > Len(mem.heap)
                  \/ \E j \in OwnCells(ints) : ~(j <= top) /\ p = mem.stack[j].v
                  \/ \E v \in TextVars \cap lenders : p = mem.vars[v].v
  /\ pushed.of = NoVar /\ c.type = "string_t" =>
       /\ c.v \in {Null, Undefined} \/ c.v \notin F
       /\ \/ c.v \in {Null, Undefined} \cup Texts(InFlight)
          \/ c.v \in Len(mem.heap) + 1 .. Len(m.heap)
  /\ pushed.of # NoVar =>
       /\ pushed.of \in DOMAIN mem.vars \ (Spent(ints) \cup lenders) /\ c = mem.vars[pushed.of]
       /\ \A k \in Lent(ints) : Here(ints).stack[k].of # pushed.of

\* An instruction that pushes a cell, its own or on loan, and takes others.
LEMMA PushOwned ==
  ASSUME NEW ints, Owned(ints), TypeInv', Running, kont # <<>>, Frame.kind = "code",
         Frame.done < Len(CodeOf(Frame)), NEW m, NEW n, NEW c, NEW rest, NEW top, NEW pushed,
         NEW lenders, NEW F, MayPush(ints, m, n, c, rest, top, pushed, lenders, F)
  PROVE  OwnerInv(ints)'
  <1>b. /\ Continue(m, InstrDone, GoOn) /\ InstrDue.op \notin {"SET", "EMIT"}
        /\ n \in {0, 1, 2} /\ n = Pops(InstrDue.op)
        /\ m.vars = mem.vars /\ m.stack = Append(Top(mem, n), c)
        /\ rest = Len(Here(ints).stack) - n /\ top = Frame.base + rest
        /\ pushed = Pushed(InstrDue, Here(ints), ints)
        /\ lenders = Lenders(Taken(InstrDue, Here(ints)))
        /\ Frees(mem, m, F) /\ NotStale(mem, m)
    BY DEF MayPush
  <1>26. PushLeaves(ints, m, c, rest, top, pushed)
    BY <1>b, PushHolders
  <1> DEFINE B == Beneath(top, ints)
             K == B \ {AVar(v) : v \in lenders}
             cell == ACell(top + 1)
  <1>0. TypeInv /\ Apart(ints) /\ HeldLive(ints) /\ Loans(ints)
    BY OwnerFacts DEF Owned
  <1>1. /\ B \subseteq Holders(ints) /\ \A h \in B : ListOf(h)' = ListOf(h)
        /\ \A h \in Holders(ints)' : h \in B \/ h = Flight \/ h = cell
        /\ ListOf(cell)' = <<c.v>>
        /\ cell \in Holders(ints)' => pushed.of = NoVar /\ c.type = "string_t"
        /\ \A k \in Lent(ints)' : IF k = rest + 1 THEN pushed.of # NoVar
                                  ELSE k \in Lent(ints) /\ k \in 1 .. rest
        /\ \A k \in 1 .. rest :
             /\ k \in DOMAIN Here(ints).stack
             /\ There(ints).stack[k] = Here(ints).stack[k]
             /\ m.stack[Frame.base + k] = mem.stack[Frame.base + k]
        /\ There(ints).stack[rest + 1] = pushed /\ m.stack[Frame.base + (rest + 1)] = c
        /\ Spent(ints)' = Spent(ints) \cup lenders
        /\ rest \in Nat /\ top \in Nat
    BY <1>b, <1>26 DEF PushLeaves
  <1>2. /\ mem' = m /\ script' = script /\ focus'.at # "atom" /\ InFlight' = <<>>
        /\ Len(kont) - 1 \in Nat /\ Keeps(Len(kont) - 1)
        /\ \A i \in Len(kont) - 1 + 1 .. Len(kont') : "env" \notin DOMAIN kont'[i]
        /\ Frame'.base = Frame.base /\ Here(ints)' = There(ints)
    BY <1>b, BlockGoesOn
  <1>3. Len(mem.heap) \in Nat
    BY <1>0, Given
  <1>4. \A i \in 1 .. Len(kont) - 1 : AFrame(i) \in K
    <2>1. \A i \in 1 .. Len(kont) - 1 : i \in DOMAIN kont
      BY <1>0, Given
    <2> QED
      BY <2>1, HoldersDiffer DEF Beneath
  <1>5. \A v \in TextVars : v \in lenders => AVar(v) \in B /\ AVar(v) \notin K /\ v \in Spent(ints)'
    BY <1>1 DEF Beneath
  <1>6. Flight \in Holders(ints) \ K /\ Flight \notin B
    BY HoldersDiffer DEF Holders, Beneath
  <1>7. \A j \in OwnCells(ints) : ~(j <= top) => ACell(j) \in Holders(ints) \ K
    BY HoldersDiffer DEF Holders, Beneath
  <1>8. \A h \in B \ K : \E v \in TextVars \cap lenders : h = AVar(v)
    BY HoldersDiffer DEF Beneath
  <1>9. \A h \in Holders(ints)' \ K : (h \in B \ K) \/ h = Flight \/ h = cell
    BY <1>1
  <1>10. \A h \in B \ K : h \in Holders(ints) \ K /\ h \in {AVar(v) : v \in Spent(ints)'}
    BY <1>1, <1>5, <1>8
  <1>11. K \subseteq B
    OBVIOUS
  <1> HIDE DEF B, K, cell
  <1>12. \A h \in B : TextsOf(h)' = TextsOf(h) /\ OnceEach(ListOf(h)')
    BY <1>0, <1>1 DEF TextsOf, Apart
  <1>13. TextsOf(Flight)' = {} /\ OnceEach(ListOf(Flight)')
    BY <1>2, HolderListsNext, SmallLists DEF TextsOf
  <1>14. TextsOf(Flight) = Texts(InFlight) /\ \A p \in Texts(InFlight) : Live(p)
    <2>1. TextsOf(Flight) = Texts(InFlight)
      BY HolderLists DEF TextsOf
    <2>2. Flight \in Holders(ints) \ {AVar(v) : v \in Spent(ints)}
      BY <1>6, HoldersDiffer
    <2> QED
      BY <1>0, <2>1, <2>2 DEF HeldLive
  <1>15. /\ TextsOf(cell)' = {c.v} \ {Null, Undefined} /\ OnceEach(ListOf(cell)')
    BY <1>1, SmallLists DEF TextsOf
  <1>16. ASSUME cell \in Holders(ints)', NEW p \in TextsOf(cell)'
         PROVE  /\ p \notin F
                /\ \/ p \in Len(mem.heap) + 1 .. Len(mem'.heap)
                   \/ p \in TextsOf(Flight) /\ Live(p)
    BY <1>1, <1>2, <1>14, <1>15, <1>16 DEF MayPush
  <1>17. \A h \in Holders(ints)' \ K :
           /\ OnceEach(ListOf(h)')
           /\ \A p \in TextsOf(h)' :
                /\ \/ p \in Len(mem.heap) + 1 .. Len(mem'.heap)
                   \/ \E g \in Holders(ints) \ K : p \in TextsOf(g)
                /\ h \notin {AVar(v) : v \in Spent(ints)'} =>
                     p \notin F /\ (p \in Len(mem.heap) + 1 .. Len(mem'.heap) \/ Live(p))
    <2> SUFFICES ASSUME NEW h \in Holders(ints)' \ K
                 PROVE  /\ OnceEach(ListOf(h)')
                        /\ \A p \in TextsOf(h)' :
                             /\ \/ p \in Len(mem.heap) + 1 .. Len(mem'.heap)
                                \/ \E g \in Holders(ints) \ K : p \in TextsOf(g)
                             /\ h \notin {AVar(v) : v \in Spent(ints)'} =>
                                  p \notin F /\ (p \in Len(mem.heap) + 1 .. Len(mem'.heap) \/ Live(p))
      OBVIOUS
    <2>1. CASE h \in B \ K
      BY <1>10, <1>12, <2>1
    <2>2. CASE h = Flight
      BY <1>13, <2>2
    <2>3. CASE h = cell
      BY <1>6, <1>15, <1>16, <2>3
    <2> QED
      BY <1>9, <2>1, <2>2, <2>3
  <1>18. \A h, g \in Holders(ints)' \ K : h # g => TextsOf(h)' \cap TextsOf(g)' = {}
    <2>1. ASSUME NEW h \in B, cell \in Holders(ints)' PROVE TextsOf(h)' \cap TextsOf(cell)' = {}
      <3> SUFFICES ASSUME NEW p \in TextsOf(h), p \in TextsOf(cell)' PROVE FALSE
        BY <1>12
      <3>1. p \in 1 .. Len(mem.heap) /\ h \in Holders(ints) /\ h # Flight
        BY <1>0, <1>1, <1>6, OldTexts
      <3>2. p \in TextsOf(Flight)
        BY <1>3, <1>16, <2>1, <3>1
      <3> QED
        BY <1>0, <1>6, <3>1, <3>2 DEF Apart
    <2>2. ASSUME NEW h \in B, NEW g \in B, h # g PROVE TextsOf(h)' \cap TextsOf(g)' = {}
      BY <1>0, <1>1, <1>12, <2>2 DEF Apart
    <2> SUFFICES ASSUME NEW h \in Holders(ints)' \ K, NEW g \in Holders(ints)' \ K, h # g
                 PROVE  TextsOf(h)' \cap TextsOf(g)' = {}
      OBVIOUS
    <2>3. (h \in B \/ h = Flight \/ h = cell) /\ (g \in B \/ g = Flight \/ g = cell)
      BY <1>1
    <2>4. CASE h = Flight \/ g = Flight
      BY <1>13, <2>4
    <2>5. CASE h \in B /\ g \in B
      BY <2>2, <2>5
    <2>6. CASE h = cell /\ g \in B
      BY <2>1, <2>6
    <2>7. CASE h \in B /\ g = cell
      BY <2>1, <2>7
    <2> QED
      BY <2>3, <2>4, <2>5, <2>6, <2>7
  <1>19. \A p \in F : \/ p \in {Null, Undefined} \/ p > Len(mem.heap)
                      \/ \E g \in Holders(ints) \ K : p \in TextsOf(g)
    <2> SUFFICES ASSUME NEW p \in F, p \notin {Null, Undefined}, ~(p > Len(mem.heap))
                 PROVE  \E g \in Holders(ints) \ K : p \in TextsOf(g)
      OBVIOUS
    <2>0. \/ \E j \in OwnCells(ints) : ~(j <= top) /\ p = mem.stack[j].v
          \/ \E v \in TextVars \cap lenders : p = mem.vars[v].v
      BY DEF MayPush
    <2>1. CASE \E j \in OwnCells(ints) : ~(j <= top) /\ p = mem.stack[j].v
      <3>1. PICK j \in OwnCells(ints) : ~(j <= top) /\ p = mem.stack[j].v
        BY <2>1
      <3>2. TextsOf(ACell(j)) = {p} \ {Null, Undefined}
        BY <3>1, HolderLists, SmallLists DEF TextsOf
      <3> QED
        BY <1>7, <3>1, <3>2
    <2>2. CASE \E v \in TextVars \cap lenders : p = mem.vars[v].v
      <3>1. PICK v \in TextVars \cap lenders : p = mem.vars[v].v
        BY <2>2
      <3>2. TextsOf(AVar(v)) = {p} \ {Null, Undefined}
        BY <3>1, HolderLists, SmallLists DEF TextsOf
      <3> QED
        BY <1>1, <1>5, <3>1, <3>2
    <2> QED
      BY <2>0, <2>1, <2>2
  <1>20. \A v \in Spent(ints) : AVar(v) \in K => v \in Spent(ints)'
    BY <1>1
  <1>25. \A v : v \in lenders <=> \E l \in Lent(ints) : ~(l <= rest) /\ Here(ints).stack[l].of = v
    <2>1. \A v : v \in Lenders(Taken(InstrDue, Here(ints))) <=>
            \E l \in Lent(ints) : ~(l <= rest) /\ Here(ints).stack[l].of = v
      BY <1>b, TakenLenders
    <2> QED
      BY <1>b, <2>1
  <1>21. Loans(ints)'
    <2>1. ASSUME NEW k \in Lent(ints)'
          PROVE  /\ There(ints).stack[k].of \in DOMAIN m.vars \ Spent(ints)'
                 /\ m.stack[Frame.base + k] = m.vars[There(ints).stack[k].of]
      <3>1. CASE k = rest + 1
        BY <1>1, <1>b, <2>1, <3>1 DEF MayPush
      <3>2. CASE k # rest + 1
        <4>1. k \in Lent(ints) /\ k \in 1 .. rest /\ There(ints).stack[k] = Here(ints).stack[k]
              /\ m.stack[Frame.base + k] = mem.stack[Frame.base + k]
          BY <1>1, <2>1, <3>2
        <4>2. Here(ints).stack[k].of \notin lenders
          <5> SUFFICES ASSUME Here(ints).stack[k].of \in lenders PROVE FALSE
            OBVIOUS
          <5>1. PICK l \in Lent(ints) : ~(l <= rest)
                    /\ Here(ints).stack[l].of = Here(ints).stack[k].of
            BY <1>25
          <5>2. l # k
            BY <1>1, <4>1, <5>1
          <5> QED
            BY <1>0, <4>1, <5>1, <5>2 DEF Loans
        <4> QED
          BY <1>0, <1>1, <1>b, <4>1, <4>2 DEF Loans
      <3> QED
        BY <3>1, <3>2
    <2>2. ASSUME NEW k \in Lent(ints)', NEW l \in Lent(ints)', k # l
          PROVE  There(ints).stack[k].of # There(ints).stack[l].of
      <3>1. k # rest + 1 => k \in Lent(ints) /\ There(ints).stack[k] = Here(ints).stack[k]
        BY <1>1, <2>2
      <3>2. l # rest + 1 => l \in Lent(ints) /\ There(ints).stack[l] = Here(ints).stack[l]
        BY <1>1, <2>2
      <3>3. CASE k = rest + 1
        <4>1. l # rest + 1 /\ pushed.of # NoVar /\ There(ints).stack[k] = pushed
          BY <1>1, <2>2, <3>3
        <4> QED
          BY <3>2, <4>1 DEF MayPush
      <3>4. CASE l = rest + 1
        <4>1. k # rest + 1 /\ pushed.of # NoVar /\ There(ints).stack[l] = pushed
          BY <1>1, <2>2, <3>4
        <4> QED
          BY <3>1, <4>1 DEF MayPush
      <3>5. CASE k # rest + 1 /\ l # rest + 1
        BY <1>0, <2>2, <3>1, <3>2, <3>5 DEF Loans
      <3> QED
        BY <3>3, <3>4, <3>5
    <2> QED
      BY <1>2, <2>1, <2>2 DEF Loans
  <1>22. K \subseteq Holders(ints) /\ \A h \in K : ListOf(h)' = ListOf(h)
    BY <1>1, <1>11
  <1>23. Frees(mem, mem', F) /\ NotStale(mem, mem')
    BY <1>2, <1>b
  <1> DEFINE below == Len(kont) - 1
  <1>24. /\ Keeps(below) /\ \A i \in below + 1 .. Len(kont') : "env" \notin DOMAIN kont'[i]
         /\ \A i \in 1 .. below : AFrame(i) \in K
    BY <1>2, <1>4
  <1> HIDE DEF below
  <1> QED
    BY <1>2, <1>17, <1>18, <1>19, <1>20, <1>21, <1>22, <1>23, <1>24, PassOn

\* A block begins: it has nothing on the stack yet.
LEMMA CodeOwned ==
  ASSUME NEW ints, Owned(ints), TypeInv', Running, Code
  PROVE  OwnerInv(ints)'
  <1> DEFINE f == [kind |-> "code", node |-> focus.node, done |-> 0, base |-> Len(mem.stack)]
             K == Holders(ints)
  <1>0. PICK top \in Nat : top = Len(kont) + 1
    BY Given DEF Owned
  <1>a. TypeInv /\ WaitInv /\ StackInv(ints)
    BY DEF Owned
  <1>1. /\ focus.at = "atom" /\ Node.type = "code" /\ mem' = mem /\ script' = script
        /\ kont' = Append(kont, f) /\ focus'.at = "next"
    BY DEF Code, IsAtom, Call, Same, GoOn
  <1>2. /\ f.kind = "code" /\ f.node = focus.node /\ f.done = 0 /\ "env" \notin DOMAIN f
        /\ OwnedBy(f) = <<>>
    BY DEF OwnedBy
  <1> HIDE DEF f
  <1>3. /\ Len(kont') = top /\ kont'[top] = f /\ DOMAIN kont' = 1 .. top
        /\ DOMAIN kont = 1 .. top - 1 /\ top \in Nat \ {0} /\ kont' # <<>>
        /\ \A i \in 1 .. top - 1 : kont'[i] = kont[i]
    BY <1>0, <1>1, <1>a, Given
  <1>4. Frame' = f
    BY <1>3 DEF Frame
  <1>5. Here(ints)' = AtEntry
    <2>1. f.node \in Blocks(script)
      BY <1>1, <1>2, <1>a, GivenAtom DEF Blocks
    <2>2. IsTyping(Typing(CodeOf(f), ints), CodeOf(f), ints)
      BY <2>1, <1>a DEF StackInv, TypedWith, CodeOf
    <2>3. Typing(CodeOf(f), ints)[0] = AtEntry
      BY <2>2 DEF IsTyping
    <2> QED
      BY <1>1, <1>2, <1>4, <2>3 DEF Here, CodeOf
  <1>6. Lent(ints) = {} /\ Spent(ints) = {} /\ Lent(ints)' = {} /\ Spent(ints)' = {}
    <2>1. ~BlockRuns
      BY <1>1 DEF BlockRuns
    <2>2. Here(ints)'.stack = <<>> /\ Here(ints)'.spent = {} /\ DOMAIN (Here(ints)'.stack) = {}
      BY <1>5 DEF AtEntry
    <2> QED
      BY <2>1, <2>2 DEF Lent, Spent
  <1>7. OwnCells(ints)' = OwnCells(ints) /\ TextVars' = TextVars
    BY <1>1, <1>6 DEF OwnCells, LentCells, TextVars
  <1>8. \A h \in Holders(ints)' \ K : h = AFrame(top)
    <2>1. \A i \in 1 .. top : i \in 1 .. top - 1 \/ i = top
      BY <1>3
    <2> QED
      BY <1>3, <1>7, <2>1 DEF Holders
  <1>9. \A h \in K : ListOf(h)' = ListOf(h)
    <2>1. \A i \in DOMAIN kont : ListOf(AFrame(i))' = ListOf(AFrame(i))
      BY <1>3, HolderLists, HolderListsNext
    <2>2. /\ \A v : ListOf(AVar(v))' = ListOf(AVar(v))
          /\ \A j : ListOf(ACell(j))' = ListOf(ACell(j))
      <3>1. mem'.vars = mem.vars /\ mem'.stack = mem.stack
        BY <1>1
      <3> QED
        BY <3>1, HolderLists, HolderListsNext
    <2>3. ListOf(Flight)' = ListOf(Flight)
      <3>1. InFlight = <<>> /\ InFlight' = <<>>
        BY <1>1 DEF InFlight
      <3> QED
        BY <3>1, HolderLists, HolderListsNext
    <2> QED
      BY <2>1, <2>2, <2>3 DEF Holders
  <1>10. OnceEach(ListOf(AFrame(top))') /\ TextsOf(AFrame(top))' = {}
    <2>1. ListOf(AFrame(top))' = <<>>
      BY <1>2, <1>3, HolderListsNext
    <2> QED
      BY <2>1, SmallLists DEF TextsOf
  <1>11. \A h \in Holders(ints)' \ K : OnceEach(ListOf(h)') /\ TextsOf(h)' = {}
    BY <1>8, <1>10
  <1>12. Loans(ints)'
    BY <1>6 DEF Loans
  <1>13. Frees(mem, mem', {}) /\ NotStale(mem, mem')
    BY <1>1, <1>a, Given, SameHeap DEF NotStale
  <1> DEFINE n == Len(kont)
  <1>14. Keeps(n) /\ \A i \in n + 1 .. Len(kont') : "env" \notin DOMAIN kont'[i]
    <2>1. n \in Nat /\ n = top - 1 /\ \A i \in n + 1 .. Len(kont') : i = top
      BY <1>0, <1>3
    <2> QED
      BY <1>0, <1>2, <1>3, <2>1 DEF Keeps
  <1>15. \A i \in 1 .. n : AFrame(i) \in K
    BY <1>a, Given DEF Holders
  <1> HIDE DEF n, K
  <1>16. K \subseteq Holders(ints)
    BY DEF K
  <1>17. \A v \in Spent(ints) : AVar(v) \in K => v \in Spent(ints)'
    BY <1>6
  <1> QED
    BY <1>1, <1>9, <1>11, <1>12, <1>13, <1>14, <1>15, <1>16, <1>17, PassOn

\* An instruction that takes no cell takes no variable's text.
LEMMA TakesNone ==
  ASSUME NEW ints, Owned(ints), Running, kont # <<>>, Frame.kind = "code",
         Frame.done < Len(CodeOf(Frame)), Pops(InstrDue.op) = 0
  PROVE  /\ Lenders(Taken(InstrDue, Here(ints))) = {}
         /\ Top(mem, 0) = mem.stack /\ Len(Here(ints).stack) \in Nat
         /\ \A k \in Lent(ints) : Here(ints).stack[k].of \in Lenders(Here(ints).stack)
  <1>1. Here(ints) \in Points
    BY BlockFacts DEF Owned
  <1>2. /\ Len(Here(ints).stack) \in Nat
        /\ DOMAIN Here(ints).stack = 1 .. Len(Here(ints).stack)
    BY <1>1 DEF Points
  <1>3. Lent(ints) = LentHere(ints)
    BY LoansHere
  <1>4. Lenders(Taken(InstrDue, Here(ints))) = {}
    <2> DEFINE rest == Len(Here(ints).stack) - 0
    <2>1. \A v : v \in Lenders(Taken(InstrDue, Here(ints))) <=>
            \E l \in Lent(ints) : ~(l <= rest) /\ Here(ints).stack[l].of = v
      <3>1. 0 \in {0, 1, 2} /\ 0 = Pops(InstrDue.op)
        OBVIOUS
      <3> HIDE DEF rest
      <3>2. rest = Len(Here(ints).stack) - 0
        BY DEF rest
      <3> QED
        BY <3>1, <3>2, TakenLenders
    <2>2. \A l \in Lent(ints) : l <= rest
      BY <1>2, <1>3 DEF LentHere
    <2> QED
      BY <2>1, <2>2
  <1> QED
    BY <1>2, <1>3, <1>4, TopWhole DEF Owned, LentHere, Lenders

\* An instruction that takes none and pushes a text of its own, or an integer.
LEMMA PushOwn ==
  ASSUME NEW ints, Owned(ints), TypeInv', Running, kont # <<>>, Frame.kind = "code",
         Frame.done < Len(CodeOf(Frame)), NEW m, Continue(m, InstrDone, GoOn),
         InstrDue.op \in {"PUSHV", "PUSH", "INVOKE"},
         m.vars = mem.vars, NEW c, m.stack = Append(mem.stack, c),
         Frees(mem, m, {}), NotStale(mem, m),
         c.type # "string_t" \/ c.v \in {Null, Undefined} \cup Texts(InFlight)
           \/ c.v \in Len(mem.heap) + 1 .. Len(m.heap),
         Pushed(InstrDue, Here(ints), ints).of = NoVar
  PROVE  OwnerInv(ints)'
  <1> DEFINE n == 0
             rest == Len(Here(ints).stack) - n
             top == Frame.base + rest
             pushed == Pushed(InstrDue, Here(ints), ints)
             lenders == Lenders(Taken(InstrDue, Here(ints)))
             F == {}
  <1>1. n \in {0, 1, 2} /\ n = Pops(InstrDue.op) /\ InstrDue.op \notin {"SET", "EMIT"}
    BY DEF Pops, Operators
  <1>2. m.stack = Append(Top(mem, n), c)
    BY <1>1, TakesNone
  <1>3. /\ rest = Len(Here(ints).stack) - n /\ top = Frame.base + rest
        /\ pushed = Pushed(InstrDue, Here(ints), ints)
        /\ lenders = Lenders(Taken(InstrDue, Here(ints)))
        /\ Frees(mem, m, F) /\ pushed.of = NoVar
    OBVIOUS
  <1>4. \A p \in F : \/ p \in {Null, Undefined} \/ p > Len(mem.heap)
                     \/ \E j \in OwnCells(ints) : ~(j <= top) /\ p = mem.stack[j].v
                     \/ \E v \in TextVars \cap lenders : p = mem.vars[v].v
    OBVIOUS
  <1>5. pushed.of = NoVar /\ c.type = "string_t" =>
           /\ c.v \in {Null, Undefined} \/ c.v \notin F
           /\ \/ c.v \in {Null, Undefined} \cup Texts(InFlight)
              \/ c.v \in Len(mem.heap) + 1 .. Len(m.heap)
    OBVIOUS
  <1> HIDE DEF n, rest, top, pushed, lenders, F
  <1>6. MayPush(ints, m, n, c, rest, top, pushed, lenders, F)
    BY <1>1, <1>2, <1>3, <1>4, <1>5 DEF MayPush
  <1> QED
    BY <1>6, PushOwned

\* The run ends with a fault of the machine.
LEMMA StepFails ==
  ASSUME NEW ints, Owned(ints), NEW m, NEW f, NEW next, Continue(m, f, next),
         m.fault \notin {"none", "stale"}
  PROVE  OwnerInv(ints)'
  BY FaultOwned DEF Continue, Same, Owned

\* A push of a cell, when it does not run over.
LEMMA PushFrees ==
  ASSUME NEW m, IsMemory(m), NEW cell \in Cells(Len(m.heap)), m.fault = "none"
  PROVE  /\ Push(m, cell).heap = m.heap /\ Push(m, cell).vars = m.vars
         /\ Frees(m, Push(m, cell), {}) /\ NotStale(m, Push(m, cell))
         /\ \/ Push(m, cell).fault = "none" /\ Push(m, cell).stack = Append(m.stack, cell)
            \/ Push(m, cell).fault = "overflow"
  <1>1. Push(m, cell).heap = m.heap /\ Push(m, cell).vars = m.vars
    BY PushMemory
  <1>2. \/ Push(m, cell).fault = "none" /\ Push(m, cell).stack = Append(m.stack, cell)
        \/ Push(m, cell).fault = "overflow"
    BY DEF Push, Fail, IsMemory
  <1> QED
    BY <1>1, <1>2, SameHeap DEF NotStale

\* PUSH: the text is the cell's own.
LEMMA PushLiteralOwned ==
  ASSUME NEW ints, Owned(ints), TypeInv', Running, kont # <<>>, Frame.kind = "code",
         Frame.done < Len(CodeOf(Frame)), InstrDue.op = "PUSH", IsInstruction(InstrDue),
         Continue(PushLiteral(mem, InstrDue), InstrDone, GoOn)
  PROVE  OwnerInv(ints)'
  <1> DEFINE m == PushLiteral(mem, InstrDue)
             a == Alloc(mem, Text(InstrDue.word))
  <1>1. IsMemory(mem) /\ mem.fault = "none" /\ Len(mem.heap) \in Nat
    BY Given DEF Owned, Running
  <1>2. Pushed(InstrDue, Here(ints), ints).of = NoVar
    BY DEF Pushed, OwnCell, Operators
  <1>3. CASE InstrDue.type = "int_t"
    <2> DEFINE c == IntCell(InstrDue.i)
    <2>1. m = Push(mem, c)
      BY <1>3 DEF PushLiteral
    <2>2. c \in Cells(Len(mem.heap)) /\ c.type # "string_t"
      BY <1>3 DEF IntCell, Cells, IntCells, IsInstruction
    <2> HIDE DEF m, c
    <2>3. CASE m.fault = "none"
      <3>1. /\ m.vars = mem.vars /\ m.stack = Append(mem.stack, c)
            /\ Frees(mem, m, {}) /\ NotStale(mem, m)
        BY <1>1, <2>1, <2>2, <2>3, PushFrees
      <3>2. Continue(m, InstrDone, GoOn)
        BY DEF m
      <3> QED
        BY <1>2, <2>2, <3>1, <3>2, PushOwn
    <2>4. CASE m.fault # "none"
      <3>1. m.fault \notin {"none", "stale"}
        BY <1>1, <2>1, <2>2, <2>4, PushFrees
      <3>2. Continue(m, InstrDone, GoOn)
        BY DEF m
      <3> QED
        BY <3>1, <3>2, StepFails
    <2> QED
      BY <2>3, <2>4
  <1>4. CASE InstrDue.type # "int_t"
    <2> DEFINE c == StrCell(Newest(a))
    <2>1. m = Push(a, c)
      BY <1>4 DEF PushLiteral
    <2>2. /\ IsMemory(a) /\ Newest(a) = Len(mem.heap) + 1 /\ a.fault = "none"
          /\ a.vars = mem.vars /\ a.stack = mem.stack /\ Len(a.heap) = Len(mem.heap) + 1
          /\ Frees(mem, a, {}) /\ NotStale(mem, a)
      <3>1. /\ IsMemory(a) /\ Newest(a) = Len(mem.heap) + 1 /\ a.fault = mem.fault
            /\ a.vars = mem.vars /\ a.stack = mem.stack
        BY <1>1, AllocMemory
      <3>2. Len(a.heap) = Len(mem.heap) + 1
        BY <3>1 DEF Newest
      <3> QED
        BY <1>1, <3>1, <3>2, AllocFrees
    <2> HIDE DEF a
    <2>3. c \in Cells(Len(a.heap)) /\ c.v = Len(mem.heap) + 1
      BY <1>1, <2>2 DEF StrCell, Cells, StrCells
    <2> HIDE DEF m, c
    <2>4. CASE m.fault = "none"
      <3>1. /\ m.vars = mem.vars /\ m.stack = Append(mem.stack, c) /\ m.heap = a.heap
            /\ Frees(a, m, {}) /\ NotStale(mem, m)
        BY <2>1, <2>2, <2>3, <2>4, PushFrees DEF NotStale
      <3>2. Frees(mem, m, {})
        BY <2>2, <3>1 DEF Frees
      <3>3. Continue(m, InstrDone, GoOn)
        BY DEF m
      <3>4. c.v \in Len(mem.heap) + 1 .. Len(m.heap)
        BY <1>1, <2>2, <2>3, <3>1
      <3> QED
        BY <1>2, <3>1, <3>2, <3>3, <3>4, PushOwn
    <2>5. CASE m.fault # "none"
      <3>1. m.fault \notin {"none", "stale"}
        BY <2>1, <2>2, <2>3, <2>5, PushFrees
      <3>2. Continue(m, InstrDone, GoOn)
        BY DEF m
      <3> QED
        BY <3>1, <3>2, StepFails
    <2> QED
      BY <2>4, <2>5
  <1> QED
    BY <1>3, <1>4

\* The text of an INVOKE becomes the cell's own.
LEMMA InvokedOwned ==
  ASSUME NEW ints, Owned(ints), TypeInv', Running, Invoked
  PROVE  OwnerInv(ints)'
  <1> DEFINE c == StrCell(focus.text)
             m == Push(mem, c)
  <1>1. /\ kont # <<>> /\ Frame.kind = "code" /\ focus.at = "return"
        /\ Continue(m, InstrDone, GoOn) /\ focus.text \in 0 .. Len(mem.heap)
    BY GivenTurn DEF Invoked, Turn, Owned
  <1>2. InvokeDue(Frame)
    <2>1. Len(kont) \in 1 .. Len(kont) /\ Frame = kont[Len(kont)]
      BY <1>1, BlockFacts DEF Owned
    <2> QED
      BY <1>1, <2>1 DEF WaitInv, WaitsAt, Owned
  <1>3. Frame.done < Len(CodeOf(Frame)) /\ InstrDue.op = "INVOKE"
    BY <1>2 DEF InvokeDue, InstrDue
  <1>4. c \in Cells(Len(mem.heap)) /\ c.v = focus.text
    BY <1>1 DEF StrCell, Cells, StrCells
  <1>5. IsMemory(mem) /\ mem.fault = "none"
    BY Given DEF Running, Owned
  <1>6. focus.text \in {Null, Undefined} \cup Texts(InFlight)
    BY <1>1, FlightReadable
  <1>7. Pushed(InstrDue, Here(ints), ints).of = NoVar
    BY <1>3 DEF Pushed, OwnCell, Operators
  <1> HIDE DEF c
  <1>8. /\ Frees(mem, m, {}) /\ NotStale(mem, m) /\ m.vars = mem.vars
        /\ \/ m.fault = "none" /\ m.stack = Append(mem.stack, c)
           \/ m.fault = "overflow"
    BY <1>4, <1>5, PushFrees
  <1> HIDE DEF m
  <1>9. CASE m.fault = "none"
    BY <1>1, <1>3, <1>4, <1>6, <1>7, <1>8, <1>9, PushOwn
  <1>10. CASE m.fault # "none"
    BY <1>1, <1>8, <1>10, StepFails
  <1> QED
    BY <1>9, <1>10

\* PUSHV: an integer, or a text on loan.
LEMMA PushVarOwned ==
  ASSUME NEW ints, Owned(ints), TypeInv', Running, kont # <<>>, Frame.kind = "code",
         Frame.done < Len(CodeOf(Frame)), InstrDue.op = "PUSHV",
         Continue(PushVar(mem, InstrDue.name), InstrDone, GoOn)
  PROVE  OwnerInv(ints)'
  <1> DEFINE name == InstrDue.name
             m == PushVar(mem, InstrDue.name)
             c == mem.vars[InstrDue.name]
  <1>1. IsMemory(mem) /\ mem.fault = "none" /\ IntsAreInts(ints)
    BY Given, BlockFacts DEF Owned, Running
  <1>2. CASE InstrDue.name \notin DOMAIN mem.vars
    <2>1. m.fault = "null"
      BY <1>1, <1>2 DEF PushVar, Fail, IsMemory
    <2> QED
      BY <2>1, StepFails
  <1>3. CASE InstrDue.name \in DOMAIN mem.vars
    <2>1. m = Push(mem, c) /\ c \in Cells(Len(mem.heap))
      BY <1>1, <1>3 DEF PushVar, IsMemory
    <2>2. /\ Frees(mem, m, {}) /\ NotStale(mem, m) /\ m.vars = mem.vars
          /\ \/ m.fault = "none" /\ m.stack = Append(mem.stack, c)
           \/ m.fault = "overflow"
      BY <1>1, <2>1, PushFrees
    <2>3. CASE m.fault # "none"
      BY <2>2, <2>3, StepFails
    <2>4. CASE m.fault = "none" /\ InstrDue.name \in ints
      <3>1. c.type # "string_t"
        BY <1>1, <1>3, <2>4 DEF IntsAreInts
      <3>2. Pushed(InstrDue, Here(ints), ints).of = NoVar
        BY <2>4 DEF Pushed, OwnCell, Operators
      <3> HIDE DEF m, c
      <3>3. Continue(m, InstrDone, GoOn)
        BY DEF m
      <3> QED
        BY <2>2, <2>4, <3>1, <3>2, <3>3, PushOwn
    <2>5. CASE m.fault = "none" /\ InstrDue.name \notin ints
      <3>1. /\ InstrDue.name \notin {NoVar} \cup Here(ints).spent
            /\ InstrDue.name \notin Lenders(Here(ints).stack)
        BY <2>5, CarefulHere, OwnerFacts DEF Careful, Owned
      <3>2. Spent(ints) = Here(ints).spent
        BY LoansHere
      <3>3. Pushed(InstrDue, Here(ints), ints).of = InstrDue.name
        BY <2>5 DEF Pushed, Operators
      <3>4. /\ Lenders(Taken(InstrDue, Here(ints))) = {} /\ Top(mem, 0) = mem.stack
            /\ \A k \in Lent(ints) : Here(ints).stack[k].of # InstrDue.name
        BY <3>1, TakesNone DEF Pops, Operators
      <3> DEFINE rest == Len(Here(ints).stack) - 0
                 top == Frame.base + rest
                 pushed == Pushed(InstrDue, Here(ints), ints)
      <3> HIDE DEF m, c
      <3>5. /\ Continue(m, InstrDone, GoOn) /\ c = mem.vars[InstrDue.name]
            /\ m.stack = Append(Top(mem, 0), c)
        BY <2>2, <2>5, <3>4 DEF m, c
      <3>6. 0 \in {0, 1, 2} /\ 0 = Pops(InstrDue.op) /\ InstrDue.op \notin {"SET", "EMIT"}
        BY DEF Pops, Operators
      <3>7. /\ pushed.of # NoVar
            /\ pushed.of \in DOMAIN mem.vars \ (Spent(ints) \cup {}) /\ c = mem.vars[pushed.of]
            /\ \A k \in Lent(ints) : Here(ints).stack[k].of # pushed.of
        BY <1>3, <3>1, <3>2, <3>3, <3>4, <3>5
      <3>8. MayPush(ints, m, 0, c, rest, top, pushed, {}, {})
        BY <2>2, <3>4, <3>5, <3>6, <3>7 DEF MayPush
      <3> QED
        BY <3>8, PushOwned
    <2> QED
      BY <2>3, <2>4, <2>5
  <1> QED
    BY <1>2, <1>3

\* The text of an operand: its own, or a new one.
LEMMA AsTextFrees ==
  ASSUME NEW m, IsMemory(m), NEW cell \in Cells(Len(m.heap))
  PROVE  /\ Frees(m, AsText(m, cell), {}) /\ NotStale(m, AsText(m, cell))
         /\ (cell.type = "string_t" => CanRead(m, cell.v)) =>
              CanRead(AsText(m, cell), TextOf(AsText(m, cell), cell))
         /\ \/ cell.type = "string_t" /\ TextOf(AsText(m, cell), cell) = cell.v
            \/ TextOf(AsText(m, cell), cell) > Len(m.heap)
  <1>1. Len(m.heap) \in Nat
    BY DEF IsMemory, IsHeap
  <1>2. CASE cell.type = "int_t"
    <2> DEFINE a == Alloc(m, Numeral(cell.v))
    <2>1. AsText(m, cell) = a /\ TextOf(a, cell) = Newest(a)
      BY <1>2 DEF AsText, TextOf
    <2>2. /\ Frees(m, a, {}) /\ NotStale(m, a) /\ Newest(a) = Len(m.heap) + 1
          /\ Len(a.heap) = Len(m.heap) + 1
      BY AllocFrees, AllocMemory DEF Newest
    <2> HIDE DEF a
    <2>3. CanRead(a, Newest(a))
      BY <1>1, <2>2 DEF Frees, CanRead
    <2> QED
      BY <1>1, <2>1, <2>2, <2>3
  <1>3. CASE cell.type # "int_t"
    <2>1. cell.type = "string_t"
      BY <1>3 DEF Cells, IntCells, StrCells
    <2>2. AsText(m, cell) = m /\ TextOf(m, cell) = cell.v
      BY <1>3 DEF AsText, TextOf
    <2> QED
      BY <2>1, <2>2, SameHeap DEF NotStale
  <1> QED
    BY <1>2, <1>3

\* concat() frees nothing, and reads two texts that can be read.
LEMMA ConcatFrees ==
  ASSUME NEW m, IsMemory(m), NEW a \in 0 .. Len(m.heap), NEW b \in 0 .. Len(m.heap),
         CanRead(m, a), CanRead(m, b)
  PROVE  Frees(m, Concat(m, a, b), {}) /\ NotStale(m, Concat(m, a, b))
  <1> DEFINE readA == IF a = Null THEN m ELSE Read(m, a)
             readB == IF b = Null THEN readA ELSE Read(readA, b)
             joined == Alloc(readB, TextAt(m, a) \o TextAt(m, b))
  <1>1. IsMemory(readA) /\ readA.heap = m.heap /\ NotStale(m, readA)
    BY ReadMemory, ReadFrees DEF NotStale
  <1> HIDE DEF readA
  <1>2. CanRead(readA, b)
    BY <1>1 DEF CanRead
  <1>3. IsMemory(readB) /\ readB.heap = m.heap /\ NotStale(readA, readB)
    BY <1>1, <1>2, ReadMemory, ReadFrees DEF NotStale
  <1>4. Frees(m, readB, {})
    BY <1>3, SameHeap
  <1> HIDE DEF readB
  <1>5. IsMemory(joined) /\ Frees(readB, joined, {}) /\ NotStale(readB, joined)
    BY <1>3, AllocMemory, AllocFrees
  <1>6. Frees(m, joined, {})
    BY <1>3, <1>4, <1>5, FreesTwice
  <1> HIDE DEF joined
  <1>7. Concat(m, a, b) = IF a = Null /\ b = Null THEN m ELSE joined
    BY DEF Concat, joined, readB, readA
  <1>8. Frees(m, m, {}) /\ NotStale(m, m)
    BY SameHeap DEF NotStale
  <1> QED
    BY <1>1, <1>3, <1>5, <1>6, <1>7, <1>8 DEF NotStale

\* A concatenation frees the operands that are texts, and its own copies of the
\* others, and pushes a new text, or a null pointer.
LEMMA JoinFrees ==
  ASSUME NEW m, IsMemory(m), Len(m.stack) < StackSize,
         NEW left \in Cells(Len(m.heap)), NEW right \in Cells(Len(m.heap)),
         left.type = "string_t" => CanRead(m, left.v),
         right.type = "string_t" => CanRead(m, right.v),
         left.type = "string_t" /\ right.type = "string_t" /\ left.v = right.v =>
           left.v = Null \/ m.heap[left.v].state = "constant"
  PROVE  \E F, s :
           /\ Frees(m, Join(m, left, right), F) /\ NotStale(m, Join(m, left, right))
           /\ Join(m, left, right).stack = Append(m.stack, StrCell(s))
           /\ Join(m, left, right).vars = m.vars
           /\ \/ s = Null
              \/ s \notin F /\ s \in Len(m.heap) + 1 .. Len(Join(m, left, right).heap)
           /\ \A p \in F : \/ p > Len(m.heap)
                           \/ left.type = "string_t" /\ p = left.v
                           \/ right.type = "string_t" /\ p = right.v
  <1> DEFINE m0 == AsText(m, right)
             m1 == AsText(m0, left)
             s0 == TextOf(m0, right)
             s1 == TextOf(m1, left)
             m2 == Concat(m1, s1, s0)
             s  == IF s0 = Null /\ s1 = Null THEN Null ELSE Newest(m2)
             m3 == Push(m2, StrCell(s))
             m4 == Free(m3, s0)
             m5 == Free(m4, s1)
             F  == {s0, s1}
  <1>0. Join(m, left, right) = m5
    BY DEF Join
  <1>1. Len(m.heap) \in Nat /\ m.stack \in Seq(Cells(Len(m.heap)))
    BY DEF IsMemory, IsHeap
  <1>2. /\ IsMemory(m0) /\ s0 \in 0 .. Len(m0.heap)
        /\ m0.vars = m.vars /\ m0.stack = m.stack
        /\ Len(m0.heap) \in Nat /\ Len(m.heap) <= Len(m0.heap)
        /\ Frees(m, m0, {}) /\ NotStale(m, m0) /\ CanRead(m0, s0)
        /\ s0 > Len(m.heap) \/ (right.type = "string_t" /\ s0 = right.v)
    <2>1. /\ IsMemory(m0) /\ s0 \in 0 .. Len(m0.heap)
          /\ m0.vars = m.vars /\ m0.stack = m.stack
          /\ Len(m0.heap) \in {Len(m.heap), Len(m.heap) + 1}
      BY AsTextMemory
    <2>2. /\ Frees(m, m0, {}) /\ NotStale(m, m0) /\ CanRead(m0, s0)
          /\ s0 > Len(m.heap) \/ (right.type = "string_t" /\ s0 = right.v)
      BY AsTextFrees
    <2> QED
      BY <1>1, <2>1, <2>2
  <1>3. /\ left \in Cells(Len(m0.heap))
        /\ left.type = "string_t" => CanRead(m0, left.v) /\ left.v \in 0 .. Len(m.heap)
    <2> HIDE DEF m0
    <2>1. left \in Cells(Len(m0.heap))
      BY <1>1, <1>2, MorePointers
    <2>2. left.type = "string_t" => left.v \in 0 .. Len(m.heap)
      BY DEF Cells, IntCells, StrCells
    <2> QED
      BY <1>2, <2>1, <2>2, StaysReadable
  <1> HIDE DEF m0, s0
  <1>4. /\ IsMemory(m1) /\ s1 \in 0 .. Len(m1.heap)
        /\ m1.vars = m.vars /\ m1.stack = m.stack
        /\ Len(m1.heap) \in Nat /\ Len(m0.heap) <= Len(m1.heap)
        /\ Frees(m0, m1, {}) /\ NotStale(m0, m1) /\ CanRead(m1, s1)
        /\ s1 > Len(m0.heap) \/ (left.type = "string_t" /\ s1 = left.v)
    <2>1. /\ IsMemory(m1) /\ s1 \in 0 .. Len(m1.heap)
          /\ m1.vars = m.vars /\ m1.stack = m.stack
          /\ Len(m1.heap) \in {Len(m0.heap), Len(m0.heap) + 1}
      BY <1>2, <1>3, AsTextMemory
    <2>2. /\ Frees(m0, m1, {}) /\ NotStale(m0, m1) /\ CanRead(m1, s1)
          /\ s1 > Len(m0.heap) \/ (left.type = "string_t" /\ s1 = left.v)
      BY <1>2, <1>3, AsTextFrees
    <2> QED
      BY <1>2, <2>1, <2>2
  <1> HIDE DEF m1, s1
  <1>5. s0 \in 0 .. Len(m1.heap) /\ CanRead(m1, s0)
    BY <1>2, <1>4, StaysReadable
  <1>6. /\ IsMemory(m2) /\ m2.vars = m.vars /\ m2.stack = m.stack
        /\ IF s0 = Null /\ s1 = Null THEN Len(m2.heap) = Len(m1.heap)
           ELSE Len(m2.heap) = Len(m1.heap) + 1
        /\ Frees(m1, m2, {}) /\ NotStale(m1, m2)
    BY <1>4, <1>5, ConcatMemory, ConcatFrees
  <1> HIDE DEF m2
  <1>7. /\ s \in 0 .. Len(m2.heap) /\ s0 \in 0 .. Len(m2.heap) /\ s1 \in 0 .. Len(m2.heap)
        /\ Len(m2.heap) \in Nat /\ Len(m.heap) <= Len(m2.heap)
    BY <1>1, <1>2, <1>4, <1>5, <1>6, SMTT(30) DEF Newest, Null
  <1>8. s = Null \/ (s \notin F /\ s \in Len(m.heap) + 1 .. Len(m2.heap))
    BY <1>1, <1>2, <1>4, <1>5, <1>6, SMTT(30) DEF Newest
  <1> HIDE DEF s
  <1>9. StrCell(s) \in Cells(Len(m2.heap))
    BY <1>7 DEF StrCell, Cells, StrCells
  <1>10. /\ IsMemory(m3) /\ m3.heap = m2.heap /\ m3.vars = m.vars
         /\ m3.stack = Append(m.stack, StrCell(s)) /\ Frees(m2, m3, {}) /\ NotStale(m2, m3)
    <2>1. /\ IsMemory(m3) /\ m3.heap = m2.heap /\ m3.vars = m.vars
          /\ m3.stack = Append(m.stack, StrCell(s))
      BY <1>6, <1>9, PushMemory
    <2>2. m3.fault = m2.fault
      <3>1. Len(m2.stack) # StackSize
        BY <1>1, <1>6, StackAssumption
      <3> QED
        BY <1>6, <3>1 DEF Push, IsMemory
    <2> QED
      BY <1>6, <2>1, <2>2, SameHeap DEF NotStale
  <1> HIDE DEF m3
  <1>11. /\ IsMemory(m4) /\ Len(m4.heap) = Len(m2.heap) /\ m4.vars = m.vars
         /\ m4.stack = Append(m.stack, StrCell(s))
         /\ Frees(m3, m4, {s0}) /\ (CanRead(m3, s0) => NotStale(m3, m4))
    BY <1>7, <1>10, FreeMemory, FreeFrees
  <1> HIDE DEF m4
  <1>12. /\ IsMemory(m5) /\ Len(m5.heap) = Len(m2.heap)
         /\ m5.vars = m.vars /\ m5.stack = Append(m.stack, StrCell(s))
         /\ Frees(m4, m5, {s1}) /\ (CanRead(m4, s1) => NotStale(m4, m5))
    BY <1>7, <1>11, FreeMemory, FreeFrees
  <1> HIDE DEF m5
  <1>13. Frees(m, m1, {})
    BY <1>2, <1>4, FreesTwice
  <1>14. Frees(m, m2, {})
    BY <1>4, <1>6, <1>13, FreesTwice
  <1>15. Frees(m, m3, {})
    BY <1>6, <1>10, <1>14, FreesTwice
  <1>16. Frees(m, m4, {s0})
    BY <1>10, <1>11, <1>15, FreesTwice
  <1>17. Frees(m, m5, F)
    BY <1>11, <1>12, <1>16, FreesTwice
  <1>a. CanRead(m3, s0) /\ CanRead(m3, s1)
    <2>1. CanRead(m2, s0) /\ CanRead(m2, s1)
      BY <1>4, <1>5, <1>6, StaysReadable
    <2> QED
      BY <1>10, <2>1 DEF CanRead
  <1>b. s0 = s1 => s0 = Null \/ m3.heap[s0].state = "constant"
    <2> SUFFICES ASSUME s0 = s1, s0 # Null PROVE m3.heap[s0].state = "constant"
      OBVIOUS
    <2>1. left.type = "string_t" /\ right.type = "string_t" /\ s0 = right.v /\ s0 = left.v
      BY <1>2, <1>3, <1>4
    <2>2. m.heap[s0].state = "constant" /\ s0 \in 1 .. Len(m.heap)
      BY <1>3, <2>1 DEF Null
    <2> QED
      BY <1>15, <2>2 DEF Frees
  <1>c. CanRead(m4, s1)
    BY <1>7, <1>10, <1>11, <1>a, <1>b DEF Frees, CanRead, Null
  <1>18. NotStale(m, m5)
    BY <1>2, <1>4, <1>6, <1>10, <1>11, <1>12, <1>a, <1>c DEF NotStale
  <1>19. \A p \in F : \/ p > Len(m.heap)
                      \/ left.type = "string_t" /\ p = left.v
                      \/ right.type = "string_t" /\ p = right.v
    BY <1>1, <1>2, <1>4
  <1> HIDE DEF F
  <1> QED
    BY <1>0, <1>8, <1>12, <1>17, <1>18, <1>19

\* The text of a cell that is an instruction's to take can be read: it is the
\* cell's own, or a variable's that has not been freed.
LEMMA CellReadable ==
  ASSUME NEW ints, Owned(ints), Running, kont # <<>>, Frame.kind = "code",
         NEW j \in DOMAIN mem.stack, mem.stack[j].type = "string_t"
  PROVE  /\ CanRead(mem, mem.stack[j].v)
         /\ \/ j \in OwnCells(ints)
            \/ \E k \in Lent(ints) :
                 /\ j = Frame.base + k /\ Here(ints).stack[k].of \in TextVars
                 /\ mem.stack[j] = mem.vars[Here(ints).stack[k].of]
  <1>0. TypeInv /\ WaitInv /\ StackInv(ints) /\ HeldLive(ints) /\ Loans(ints)
    BY OwnerFacts DEF Owned
  <1>1. CASE j \in OwnCells(ints)
    <2>1. ACell(j) \in Holders(ints) \ {AVar(v) : v \in Spent(ints)}
      BY <1>1, HoldersDiffer DEF Holders
    <2>2. TextsOf(ACell(j)) = {mem.stack[j].v} \ {Null, Undefined}
      BY HolderLists, SmallLists DEF TextsOf
    <2>3. \A p \in TextsOf(ACell(j)) : Live(p)
      BY <1>0, <2>1 DEF HeldLive
    <2>4. mem.stack[j].v \in {Null, Undefined} \/ Live(mem.stack[j].v)
      BY <2>2, <2>3
    <2> QED
      BY <1>0, <1>1, <2>4 DEF CanRead, HeldLive, Live
  <1>2. CASE j \notin OwnCells(ints)
    <2>1. PICK k \in Lent(ints) : j = Frame.base + k
      BY <1>2 DEF OwnCells, LentCells
    <2> DEFINE v == Here(ints).stack[k].of
    <2>2. v \in DOMAIN mem.vars \ Spent(ints) /\ mem.stack[j] = mem.vars[v]
      BY <1>0, <2>1 DEF Loans
    <2> HIDE DEF v
    <2>3. v \in TextVars
      BY <2>2 DEF TextVars
    <2>4. CanRead(mem, mem.vars[v].v)
      BY <2>2, <2>3, VarReadable
    <2> QED
      BY <2>1, <2>2, <2>3, <2>4 DEF v
  <1> QED
    BY <1>1, <1>2

\* Who answers for the text of a cell: the cell, or the variable that lent it.
LEMMA CellHolder ==
  ASSUME NEW ints, Owned(ints), Running, kont # <<>>, Frame.kind = "code",
         NEW j \in DOMAIN mem.stack, mem.stack[j].type = "string_t"
  PROVE  \E h \in Holders(ints) :
           /\ TextsOf(h) = {mem.stack[j].v} \ {Null, Undefined}
           /\ \/ h = ACell(j)
              \/ \E k \in Lent(ints) : j = Frame.base + k /\ h = AVar(Here(ints).stack[k].of)
  <1>1. \/ j \in OwnCells(ints)
        \/ \E k \in Lent(ints) :
             /\ j = Frame.base + k /\ Here(ints).stack[k].of \in TextVars
             /\ mem.stack[j] = mem.vars[Here(ints).stack[k].of]
    BY CellReadable
  <1>2. CASE j \in OwnCells(ints)
    <2>1. ACell(j) \in Holders(ints)
      BY <1>2 DEF Holders
    <2>2. TextsOf(ACell(j)) = {mem.stack[j].v} \ {Null, Undefined}
      BY HolderLists, SmallLists DEF TextsOf
    <2> QED
      BY <2>1, <2>2
  <1>3. ASSUME NEW k \in Lent(ints), j = Frame.base + k, Here(ints).stack[k].of \in TextVars,
               mem.stack[j] = mem.vars[Here(ints).stack[k].of]
        PROVE  \E h \in Holders(ints) :
                 /\ TextsOf(h) = {mem.stack[j].v} \ {Null, Undefined}
                 /\ \E i \in Lent(ints) : j = Frame.base + i /\ h = AVar(Here(ints).stack[i].of)
    <2>1. PICK v : v = Here(ints).stack[k].of
      OBVIOUS
    <2>2. AVar(v) \in Holders(ints)
      BY <1>3, <2>1 DEF Holders
    <2>3. TextsOf(AVar(v)) = {mem.vars[v].v} \ {Null, Undefined}
      BY HolderLists, SmallLists DEF TextsOf
    <2> QED
      BY <1>3, <2>1, <2>2, <2>3
  <1> QED
    BY <1>1, <1>2, <1>3

\* Two cells do not have the same text, so that no operator frees one twice.
LEMMA CellsApart ==
  ASSUME NEW ints, Owned(ints), Running, kont # <<>>, Frame.kind = "code",
         NEW j \in DOMAIN mem.stack, mem.stack[j].type = "string_t",
         NEW l \in DOMAIN mem.stack, mem.stack[l].type = "string_t",
         j # l, mem.stack[j].v = mem.stack[l].v
  PROVE  mem.stack[j].v \in {Null, Undefined}
  <1>1. Apart(ints) /\ Loans(ints)
    BY OwnerFacts DEF Owned
  <1>2. PICK h \in Holders(ints) :
          /\ TextsOf(h) = {mem.stack[j].v} \ {Null, Undefined}
          /\ \/ h = ACell(j)
             \/ \E k \in Lent(ints) : j = Frame.base + k /\ h = AVar(Here(ints).stack[k].of)
    BY CellHolder
  <1>3. PICK g \in Holders(ints) :
          /\ TextsOf(g) = {mem.stack[l].v} \ {Null, Undefined}
          /\ \/ g = ACell(l)
             \/ \E k \in Lent(ints) : l = Frame.base + k /\ g = AVar(Here(ints).stack[k].of)
    BY CellHolder
  <1>4. h # g
    <2>1. ASSUME NEW k \in Lent(ints), NEW i \in Lent(ints), k # i
          PROVE  AVar(Here(ints).stack[k].of) # AVar(Here(ints).stack[i].of)
      BY <1>1, <2>1, HoldersDiffer DEF Loans
    <2> QED
      BY <1>2, <1>3, <2>1, HoldersDiffer
  <1>5. TextsOf(h) \cap TextsOf(g) = {}
    BY <1>1, <1>4 DEF Apart
  <1> QED
    BY <1>2, <1>3, <1>5

\* The operands of an operator: two cells above those that it leaves.
LEMMA Operands ==
  ASSUME NEW ints, Owned(ints), Running, kont # <<>>, Frame.kind = "code",
         Frame.done < Len(CodeOf(Frame)), InstrDue.op \in Operators
  PROVE  /\ 2 = Pops(InstrDue.op) /\ Len(mem.stack) >= 2 /\ Len(mem.stack) \in Nat
         /\ Pop(mem, 2).stack = Top(mem, 2) /\ Pop(mem, 2).heap = mem.heap
         /\ Pop(mem, 2).vars = mem.vars /\ Pop(mem, 2).fault = "none"
         /\ IsMemory(Pop(mem, 2)) /\ Len(Top(mem, 2)) < StackSize
         /\ Pushed(InstrDue, Here(ints), ints).of = NoVar
         /\ InstrDue.op # "ADD" => Cell(mem, 1).type = "int_t" /\ Cell(mem, 2).type = "int_t"
         /\ \A i \in {1, 2} :
              /\ Cell(mem, i) \in Cells(Len(mem.heap))
              /\ Cell(mem, i).type = "string_t" =>
                   /\ CanRead(mem, Cell(mem, i).v)
                   /\ \/ \E j \in OwnCells(ints) :
                           /\ ~(j <= Frame.base + (Len(Here(ints).stack) - 2))
                           /\ Cell(mem, i).v = mem.stack[j].v
                      \/ \E v \in TextVars \cap Lenders(Taken(InstrDue, Here(ints))) :
                           Cell(mem, i).v = mem.vars[v].v
  <1> DEFINE rest == Len(Here(ints).stack) - 2
             top == Frame.base + rest
  <1>0. TypeInv /\ WaitInv /\ StackInv(ints)
    BY DEF Owned
  <1>1. 2 = Pops(InstrDue.op) /\ 2 \in {0, 1, 2}
    BY DEF Pops
  <1>2. /\ Len(Here(ints).stack) \in Nat /\ 2 <= Len(Here(ints).stack) /\ 2 <= Len(mem.stack)
        /\ Len(mem.stack) \in Nat
        /\ AreInts(Taken(InstrDue, Here(ints))) => \A i \in 1 .. 2 : Cell(mem, i).type = "int_t"
        /\ Len(Top(mem, 2)) = Frame.base + Len(Here(ints).stack) - 2
    BY <1>0, <1>1, RestCells
  <1>3. IsMemory(mem) /\ mem.fault = "none" /\ Len(mem.stack) <= StackSize
    BY <1>0, Given DEF Running, IsMemory
  <1>4. /\ Pop(mem, 2).stack = Top(mem, 2) /\ Pop(mem, 2).heap = mem.heap
        /\ Pop(mem, 2).vars = mem.vars /\ Pop(mem, 2).fault = "none" /\ IsMemory(Pop(mem, 2))
    BY <1>2, <1>3, PopMemory DEF Top
  <1>5. Frame.base \in Nat /\ Len(mem.stack) = Frame.base + Len(Here(ints).stack)
    BY <1>0, BlockFacts
  <1>6. Len(Top(mem, 2)) < StackSize
    BY <1>2, <1>3, <1>5, StackAssumption
  <1>7. Pushed(InstrDue, Here(ints), ints).of = NoVar
    BY DEF Pushed, OwnCell, Operators
  <1>8. InstrDue.op # "ADD" => Cell(mem, 1).type = "int_t" /\ Cell(mem, 2).type = "int_t"
    <2>1. Fits(InstrDue, Here(ints), ints)
      BY <1>0, DueFacts
    <2>2. 1 \in 1 .. 2 /\ 2 \in 1 .. 2
      OBVIOUS
    <2> QED
      BY <1>2, <2>1, <2>2 DEF Fits
  <1>9. \A l \in Lent(ints) : ~(l <= rest) =>
          Here(ints).stack[l].of \in Lenders(Taken(InstrDue, Here(ints)))
    <2>1. rest = Len(Here(ints).stack) - 2
      OBVIOUS
    <2> HIDE DEF rest
    <2>2. \A v : v \in Lenders(Taken(InstrDue, Here(ints))) <=>
            \E l \in Lent(ints) : ~(l <= rest) /\ Here(ints).stack[l].of = v
      BY <1>1, <2>1, TakenLenders
    <2> QED
      BY <2>2
  <1>10. ASSUME NEW i \in {1, 2}
         PROVE  /\ Cell(mem, i) \in Cells(Len(mem.heap))
                /\ Cell(mem, i).type = "string_t" =>
                     /\ CanRead(mem, Cell(mem, i).v)
                     /\ \/ \E j \in OwnCells(ints) : ~(j <= top) /\ Cell(mem, i).v = mem.stack[j].v
                        \/ \E v \in TextVars \cap Lenders(Taken(InstrDue, Here(ints))) :
                             Cell(mem, i).v = mem.vars[v].v
    <2> DEFINE j == Len(mem.stack) + 1 - i
    <2>1. j \in 1 .. Len(mem.stack) /\ i \in 1 .. Len(mem.stack) /\ ~(j <= top)
      BY <1>2, <1>5
    <2>2. Cell(mem, i) = mem.stack[j] /\ DOMAIN mem.stack = 1 .. Len(mem.stack)
      BY <1>3 DEF Cell, IsMemory
    <2>3. Cell(mem, i) \in Cells(Len(mem.heap))
      BY <1>3, <2>1, CellOnStack
    <2>4. \A k : j = Frame.base + k /\ k \in DOMAIN Here(ints).stack => ~(k <= rest)
      <3>1. Here(ints) \in Points
        BY <1>0, BlockFacts
      <3>2. \A k \in DOMAIN Here(ints).stack : k \in Nat
        BY <3>1 DEF Points
      <3> QED
        BY <1>2, <1>5, <2>1, <3>2
    <2>5. \A k \in Lent(ints) : k \in DOMAIN Here(ints).stack
      BY LoansHere DEF LentHere
    <2> HIDE DEF j, top, rest
    <2> SUFFICES ASSUME mem.stack[j].type = "string_t"
                 PROVE  /\ CanRead(mem, mem.stack[j].v)
                        /\ \/ \E g \in OwnCells(ints) : ~(g <= top)
                            /\ mem.stack[j].v = mem.stack[g].v
                           \/ \E v \in TextVars \cap Lenders(Taken(InstrDue, Here(ints))) :
                                mem.stack[j].v = mem.vars[v].v
      BY <2>2, <2>3
    <2>6. /\ CanRead(mem, mem.stack[j].v)
          /\ \/ j \in OwnCells(ints)
             \/ \E k \in Lent(ints) :
                  /\ j = Frame.base + k /\ Here(ints).stack[k].of \in TextVars
                  /\ mem.stack[j] = mem.vars[Here(ints).stack[k].of]
      BY <2>1, <2>2, CellReadable
    <2>7. CASE j \in OwnCells(ints)
      BY <2>1, <2>6, <2>7
    <2>8. CASE j \notin OwnCells(ints)
      <3>1. PICK k \in Lent(ints) : /\ j = Frame.base + k /\ Here(ints).stack[k].of \in TextVars
                                    /\ mem.stack[j] = mem.vars[Here(ints).stack[k].of]
        BY <2>6, <2>8
      <3>2. ~(k <= rest)
        BY <2>4, <2>5, <3>1
      <3> QED
        BY <1>9, <2>6, <3>1, <3>2
    <2> QED
      BY <2>7, <2>8
  <1> QED
    BY <1>1, <1>2, <1>4, <1>6, <1>7, <1>8, <1>10

\* An operator frees the texts that it takes, and what it pushes is the cell's own.
LEMMA OperateOwned ==
  ASSUME NEW ints, Owned(ints), TypeInv', Running, kont # <<>>, Frame.kind = "code",
         Frame.done < Len(CodeOf(Frame)), InstrDue.op \in Operators,
         NEW m \in Operate(mem, InstrDue.op), Continue(m, InstrDone, GoOn)
  PROVE  OwnerInv(ints)'
  <1> DEFINE left == Cell(mem, 2)
             right == Cell(mem, 1)
             popped == Pop(mem, 2)
             rest == Len(Here(ints).stack) - 2
             top == Frame.base + rest
             pushed == Pushed(InstrDue, Here(ints), ints)
             lenders == Lenders(Taken(InstrDue, Here(ints)))
  <1>1. /\ 2 = Pops(InstrDue.op) /\ Len(mem.stack) >= 2 /\ Len(mem.stack) \in Nat
        /\ popped.stack = Top(mem, 2) /\ popped.heap = mem.heap
        /\ popped.vars = mem.vars /\ popped.fault = "none"
        /\ IsMemory(popped) /\ Len(Top(mem, 2)) < StackSize
        /\ pushed.of = NoVar
        /\ InstrDue.op # "ADD" => right.type = "int_t" /\ left.type = "int_t"
    BY Operands
  <1>2. /\ left \in Cells(Len(mem.heap)) /\ right \in Cells(Len(mem.heap))
        /\ left.type = "string_t" => CanRead(mem, left.v)
        /\ right.type = "string_t" => CanRead(mem, right.v)
    BY Operands
  <1>a. left.type = "string_t" /\ right.type = "string_t" /\ left.v = right.v =>
          left.v = Null \/ mem.heap[left.v].state = "constant"
    <2>1. PICK j, l : j = Len(mem.stack) - 1 /\ l = Len(mem.stack)
      OBVIOUS
    <2>2. j \in 1 .. Len(mem.stack) /\ l \in 1 .. Len(mem.stack) /\ j # l
          /\ left = mem.stack[j] /\ right = mem.stack[l]
      BY <1>1, <2>1 DEF Cell
    <2>3. DOMAIN mem.stack = 1 .. Len(mem.stack) /\ mem.heap[Undefined].state = "constant"
      BY Given, OwnerFacts DEF Owned, HeldLive, IsMemory
    <2> HIDE DEF left, right
    <2> QED
      BY <2>2, <2>3, CellsApart
  <1>3. \A cell \in {left, right} : cell.type = "string_t" =>
          \/ \E j \in OwnCells(ints) : ~(j <= top) /\ cell.v = mem.stack[j].v
          \/ \E v \in TextVars \cap lenders : cell.v = mem.vars[v].v
    BY Operands
  <1>4. 2 \in {0, 1, 2} /\ InstrDue.op \notin {"SET", "EMIT"}
    BY DEF Operators
  <1>5. /\ rest = Len(Here(ints).stack) - 2 /\ top = Frame.base + rest
        /\ pushed = Pushed(InstrDue, Here(ints), ints)
        /\ lenders = Lenders(Taken(InstrDue, Here(ints)))
    OBVIOUS
  <1>6. ASSUME NEW F, Frees(popped, m, F) PROVE Frees(mem, m, F)
    BY <1>1, <1>6 DEF Frees
  <1>7. CASE left.type = "int_t" /\ right.type = "int_t"
            /\ Results(InstrDue.op, left.v, right.v) = {}
    <2>1. m = Fail(popped, "trap")
      BY <1>1, <1>7 DEF Operate
    <2>2. m.fault = "trap"
      BY <1>1, <2>1 DEF Fail, IsMemory
    <2> QED
      BY <2>2, StepFails
  <1>8. CASE left.type = "int_t" /\ right.type = "int_t"
            /\ Results(InstrDue.op, left.v, right.v) # {}
    <2>1. PICK r \in Results(InstrDue.op, left.v, right.v) : m = Push(popped, IntCell(r))
      BY <1>1, <1>8 DEF Operate
    <2>2. left.v \in Int /\ right.v \in Int
      BY <1>2, <1>8 DEF Cells, IntCells, StrCells
    <2>3. r \in Int
      BY <2>2, ResultsAreInts
    <2> DEFINE c == IntCell(r)
    <2>4. c \in Cells(Len(popped.heap)) /\ c.type # "string_t"
      BY <2>3 DEF IntCell, Cells, IntCells
    <2> HIDE DEF popped, c, left, right
    <2>5. /\ m.vars = popped.vars /\ Frees(popped, m, {}) /\ NotStale(popped, m)
          /\ \/ m.fault = "none" /\ m.stack = Append(popped.stack, c)
             \/ m.fault = "overflow"
      BY <1>1, <2>1, <2>4, PushFrees DEF c
    <2>6. CASE m.fault = "none"
      <3> HIDE DEF rest, top, pushed, lenders
      <3>1. /\ m.vars = mem.vars /\ m.stack = Append(Top(mem, 2), c)
            /\ Frees(mem, m, {}) /\ NotStale(mem, m)
        BY <1>1, <1>6, <2>5, <2>6 DEF NotStale
      <3>2. MayPush(ints, m, 2, c, rest, top, pushed, lenders, {})
        BY <1>1, <1>4, <1>5, <2>4, <3>1 DEF MayPush
      <3> QED
        BY <3>2, PushOwned
    <2>7. CASE m.fault # "none"
      BY <2>5, <2>7, StepFails
    <2> QED
      BY <2>6, <2>7
  <1>9. CASE ~(left.type = "int_t" /\ right.type = "int_t")
    <2>1. InstrDue.op = "ADD"
      BY <1>1, <1>9
    <2>2. m = Join(popped, left, right)
      BY <1>1, <1>9, <2>1 DEF Operate
    <2>3. /\ left.type = "string_t" => CanRead(popped, left.v)
          /\ right.type = "string_t" => CanRead(popped, right.v)
          /\ left \in Cells(Len(popped.heap)) /\ right \in Cells(Len(popped.heap))
          /\ left.type = "string_t" /\ right.type = "string_t" /\ left.v = right.v =>
               left.v = Null \/ popped.heap[left.v].state = "constant"
      BY <1>1, <1>2, <1>a DEF CanRead
    <2> HIDE DEF popped, left, right
    <2>4. PICK F, s :
            /\ Frees(popped, m, F) /\ NotStale(popped, m)
            /\ m.stack = Append(popped.stack, StrCell(s)) /\ m.vars = popped.vars
            /\ \/ s = Null
               \/ s \notin F /\ s \in Len(popped.heap) + 1 .. Len(m.heap)
            /\ \A p \in F : \/ p > Len(popped.heap)
                            \/ left.type = "string_t" /\ p = left.v
                            \/ right.type = "string_t" /\ p = right.v
      BY <1>1, <2>2, <2>3, JoinFrees
    <2> DEFINE c == StrCell(s)
    <2>5. c.v = s /\ c.type = "string_t"
      BY DEF StrCell
    <2> HIDE DEF c, rest, top, pushed, lenders
    <2>6. /\ m.vars = mem.vars /\ m.stack = Append(Top(mem, 2), c)
          /\ Frees(mem, m, F) /\ NotStale(mem, m)
      BY <1>1, <1>6, <2>4 DEF NotStale, c
    <2>7. \A p \in F : \/ p \in {Null, Undefined} \/ p > Len(mem.heap)
                       \/ \E j \in OwnCells(ints) : ~(j <= top) /\ p = mem.stack[j].v
                       \/ \E v \in TextVars \cap lenders : p = mem.vars[v].v
      BY <1>1, <1>3, <2>4
    <2>8. /\ c.v \in {Null, Undefined} \/ c.v \notin F
          /\ \/ c.v \in {Null, Undefined} \cup Texts(InFlight)
             \/ c.v \in Len(mem.heap) + 1 .. Len(m.heap)
      BY <1>1, <2>4, <2>5
    <2>9. MayPush(ints, m, 2, c, rest, top, pushed, lenders, F)
      BY <1>1, <1>4, <1>5, <2>6, <2>7, <2>8 DEF MayPush
    <2> QED
      BY <2>9, PushOwned
  <1> QED
    BY <1>7, <1>8, <1>9

\* What a SET leaves of the block's cells, of the stack and of the variables: a
\* cell that the variable lent is the block's own from now on.
SetLeaves(ints, rest, top, name) ==
  /\ rest \in Nat /\ top \in Nat /\ top = Frame.base + rest
  /\ \A k \in Lent(ints) : k \in 1 .. rest + 1
  /\ Lent(ints)' = {k \in Lent(ints) : k \in 1 .. rest /\ Here(ints).stack[k].of # name}
  /\ \A k \in Lent(ints)' : There(ints).stack[k].of = Here(ints).stack[k].of
  /\ Spent(ints)' = Spent(ints) \ {name}
  /\ DOMAIN mem.stack = 1 .. top + 1 /\ DOMAIN mem'.stack = 1 .. top
  /\ \A j \in 1 .. top : mem'.stack[j] = mem.stack[j]
  /\ DOMAIN mem'.vars = DOMAIN mem.vars \cup {name} /\ mem'.vars[name] = mem.stack[top + 1]
  /\ \A v \in DOMAIN mem.vars : v # name => mem'.vars[v] = mem.vars[v]
  /\ rest + 1 \in Lent(ints) => Here(ints).stack[rest + 1].of = name
  /\ mem'.heap = mem.heap /\ mem'.fault = mem.fault

\* What SET changes.
LEMMA SetStep ==
  ASSUME NEW ints, Owned(ints), TypeInv', Running, kont # <<>>, Frame.kind = "code",
         Frame.done < Len(CodeOf(Frame)), InstrDue.op = "SET",
         Continue(Set(mem, InstrDue.name), InstrDone, GoOn),
         NEW rest, rest = Len(Here(ints).stack) - 1, NEW top, top = Frame.base + rest
  PROVE  SetLeaves(ints, rest, top, InstrDue.name)
  <1> DEFINE m == Set(mem, InstrDue.name)
             S == [type : {"int", "any"}, of : STRING]
             cells == Rest(InstrDue, Here(ints))
             name == InstrDue.name
  <1>0. TypeInv /\ WaitInv /\ StackInv(ints) /\ CarefulWith(script, ints)
    BY OwnerFacts DEF Owned
  <1>1. 1 = Pops(InstrDue.op) /\ 1 \in {0, 1, 2}
    BY DEF Pops, Operators
  <1>2. /\ mem' = m /\ Frame'.base = Frame.base
        /\ Lent(ints)' = {k \in DOMAIN There(ints).stack : There(ints).stack[k].of # NoVar}
        /\ Spent(ints)' = There(ints).spent
    BY BlockGoesOn
  <1>3. Lent(ints) = LentHere(ints) /\ Spent(ints) = Here(ints).spent
    BY LoansHere
  <1>4. /\ Len(Here(ints).stack) \in Nat /\ 1 <= Len(Here(ints).stack) /\ 1 <= Len(mem.stack)
        /\ Len(mem.stack) \in Nat
        /\ cells \in Seq(S) /\ Len(cells) = rest
        /\ \A k \in 1 .. rest : /\ k \in DOMAIN Here(ints).stack
                                /\ cells[k] = Here(ints).stack[k]
    <2>1. /\ Len(Here(ints).stack) \in Nat /\ 1 <= Len(Here(ints).stack) /\ 1 <= Len(mem.stack)
          /\ Len(mem.stack) \in Nat
          /\ Rest(InstrDue, Here(ints)) \in Seq([type : {"int", "any"}, of : STRING])
          /\ Len(Rest(InstrDue, Here(ints))) = Len(Here(ints).stack) - 1
          /\ \A k \in 1 .. Len(Here(ints).stack) - 1 : /\ k \in DOMAIN Here(ints).stack
               /\ Rest(InstrDue, Here(ints))[k] = Here(ints).stack[k]
      BY <1>0, <1>1, RestCells
    <2> QED
      BY <2>1
  <1>5. Frame.base \in Nat /\ Len(mem.stack) = Frame.base + Len(Here(ints).stack)
            /\ Here(ints) \in Points
    BY <1>0, BlockFacts
  <1>6. /\ rest \in Nat /\ top \in Nat /\ Len(mem.stack) = top + 1
        /\ Len(Here(ints).stack) = rest + 1
    BY <1>4, <1>5
  <1>7. There(ints).stack = Released(cells, name) /\ There(ints).spent = Here(ints).spent \ {name}
    <2>1. There(ints) = After(InstrDue, Here(ints), ints)
      BY <1>0, DueFacts
    <2> QED
      BY <2>1 DEF After
  <1>8. IsMemory(mem) /\ mem.fault = "none"
    BY <1>0, Given DEF Running
  <1>9. DOMAIN mem.stack = 1 .. top + 1
    BY <1>6, <1>8 DEF IsMemory
  <1>10. DOMAIN Here(ints).stack = 1 .. rest + 1
    BY <1>5, <1>6 DEF Points
  <1> HIDE DEF S, cells
  <1>11. /\ DOMAIN There(ints).stack = 1 .. rest
         /\ \A k \in 1 .. rest : There(ints).stack[k] =
              IF Here(ints).stack[k].of = name THEN OwnCell(Here(ints).stack[k].type)
              ELSE Here(ints).stack[k]
    <2>1. DOMAIN cells = 1 .. rest
      BY <1>4
    <2> QED
      BY <1>4, <1>7, <2>1 DEF Released
  <1>12. \A k \in 1 .. rest : There(ints).stack[k].of # NoVar <=>
           Here(ints).stack[k].of # NoVar /\ Here(ints).stack[k].of # name
    <2> SUFFICES ASSUME NEW k \in 1 .. rest
                 PROVE  There(ints).stack[k].of # NoVar <=>
                          Here(ints).stack[k].of # NoVar /\ Here(ints).stack[k].of # name
      OBVIOUS
    <2>1. \A type : OwnCell(type).of = NoVar
      BY DEF OwnCell
    <2>2. CASE Here(ints).stack[k].of = name
      <3>1. There(ints).stack[k] = OwnCell(Here(ints).stack[k].type)
        BY <1>11, <2>2
      <3> QED
        BY <2>1, <2>2, <3>1
    <2>3. CASE Here(ints).stack[k].of # name
      <3>1. There(ints).stack[k] = Here(ints).stack[k]
        BY <1>11, <2>3
      <3> QED
        BY <2>3, <3>1
    <2> QED
      BY <2>2, <2>3
  <1>13. Lent(ints)' = {k \in Lent(ints) : k \in 1 .. rest /\ Here(ints).stack[k].of # name}
    <2>1. \A k : k \in Lent(ints)' => k \in Lent(ints) /\ k \in 1 .. rest
              /\ Here(ints).stack[k].of # name
      BY <1>2, <1>3, <1>4, <1>11, <1>12 DEF LentHere
    <2>2. \A k \in Lent(ints) : k \in 1 .. rest /\ Here(ints).stack[k].of # name =>
              k \in Lent(ints)'
      BY <1>2, <1>3, <1>11, <1>12 DEF LentHere
    <2> QED
      BY <2>1, <2>2
  <1>14. \A k \in Lent(ints)' : There(ints).stack[k].of = Here(ints).stack[k].of
    BY <1>11, <1>13
  <1>15. rest + 1 \in Lent(ints) => Here(ints).stack[rest + 1].of = name
    <2> SUFFICES ASSUME rest + 1 \in Lent(ints) PROVE Here(ints).stack[rest + 1].of = name
      OBVIOUS
    <2>1. Lenders(Taken(InstrDue, Here(ints))) \subseteq {name}
      BY <1>0, CarefulHere DEF Careful
    <2>2. \A v : v \in Lenders(Taken(InstrDue, Here(ints))) <=>
            \E l \in Lent(ints) : ~(l <= rest) /\ Here(ints).stack[l].of = v
      BY <1>1, TakenLenders
    <2>3. ~(rest + 1 <= rest)
      BY <1>6
    <2> QED
      BY <2>1, <2>2, <2>3
  <1>16. /\ m.fault = mem.fault /\ m.stack = Top(mem, 1)
         /\ DOMAIN m.vars = DOMAIN mem.vars \cup {name}
         /\ \A n \in DOMAIN m.vars :
              IF n = name THEN m.vars[n] = Cell(mem, 1)
              ELSE n \in DOMAIN mem.vars /\ m.vars[n] = mem.vars[n]
    BY <1>4, <1>8, SetEffect
  <1>17. m.heap = mem.heap
    BY <1>8, SetMemory
  <1>18. Cell(mem, 1) = mem.stack[top + 1]
    <2>1. Len(mem.stack) + 1 - 1 = top + 1
      BY <1>6
    <2> QED
      BY <2>1 DEF Cell
  <1>19. DOMAIN m.stack = 1 .. top /\ \A j \in 1 .. top : m.stack[j] = mem.stack[j]
    <2>1. Len(mem.stack) - 1 = top /\ mem.stack \in Seq(Cells(Len(mem.heap)))
              /\ top \in 0 .. Len(mem.stack)
      BY <1>6, <1>8 DEF IsMemory
    <2>2. m.stack = SubSeq(mem.stack, 1, top)
      BY <1>16, <2>1 DEF Top
    <2>3. /\ SubSeq(mem.stack, 1, top) \in Seq(Cells(Len(mem.heap)))
          /\ Len(SubSeq(mem.stack, 1, top)) = top
          /\ \A i \in 1 .. top : SubSeq(mem.stack, 1, top)[i] = mem.stack[i]
      BY <2>1, PrefixOf
    <2> QED
      BY <2>2, <2>3
  <1>20. \A k \in Lent(ints) : k \in 1 .. rest + 1
    BY <1>3, <1>10 DEF LentHere
  <1> HIDE DEF m
  <1> QED
    BY <1>2, <1>3, <1>6, <1>7, <1>9, <1>13, <1>14, <1>15, <1>16, <1>17, <1>18, <1>19, <1>20
       DEF SetLeaves

\* SET: the variable gets the cell's text, or gets its own back; a cell that had
\* the old one on loan keeps it.
LEMMA SetOwned ==
  ASSUME NEW ints, Owned(ints), TypeInv', Running, kont # <<>>, Frame.kind = "code",
         Frame.done < Len(CodeOf(Frame)), InstrDue.op = "SET",
         Continue(Set(mem, InstrDue.name), InstrDone, GoOn)
  PROVE  OwnerInv(ints)'
  <1>0. TypeInv /\ Apart(ints) /\ HeldLive(ints) /\ Loans(ints) /\ IsMemory(mem)
    BY OwnerFacts, Given DEF Owned
  <1>1. PICK rest : rest = Len(Here(ints).stack) - 1
    OBVIOUS
  <1>2. PICK top : top = Frame.base + rest
    OBVIOUS
  <1>3. PICK name : name = InstrDue.name
    OBVIOUS
  <1>21. PICK base : base = Frame.base
    OBVIOUS
  <1>4. SetLeaves(ints, rest, top, name)
    BY <1>1, <1>2, <1>3, SetStep
  <1>5. /\ script' = script /\ focus'.at # "atom" /\ InFlight' = <<>>
        /\ Len(kont) - 1 \in Nat /\ Keeps(Len(kont) - 1)
        /\ \A i \in Len(kont) - 1 + 1 .. Len(kont') : "env" \notin DOMAIN kont'[i]
        /\ DOMAIN kont' = DOMAIN kont
        /\ \A i \in DOMAIN kont : OwnedBy(kont'[i]) = OwnedBy(kont[i])
        /\ Frame'.base = Frame.base /\ Here(ints)' = There(ints)
    BY BlockGoesOn
  <1> DEFINE K == {AFrame(i) : i \in DOMAIN kont} \cup {AVar(v) : v \in TextVars \ {name}}
                    \cup {ACell(j) : j \in {i \in OwnCells(ints) : i <= top}}
             back == {k \in Lent(ints) : k \in 1 .. rest /\ Here(ints).stack[k].of = name}
             source == IF rest + 1 \in Lent(ints) THEN AVar(name) ELSE ACell(top + 1)
             cell == mem.stack[top + 1]
  <1>6. /\ rest \in Nat /\ top \in Nat /\ top = Frame.base + rest
        /\ DOMAIN mem.stack = 1 .. top + 1 /\ DOMAIN mem'.stack = 1 .. top
        /\ Frame.base \in Nat
    BY <1>4, BlockFacts DEF SetLeaves, Owned
  <1>7. \A k \in 1 .. rest : Frame.base + k \in 1 .. top
    BY <1>6
  <1>8. \A v \in TextVars' : (v \in TextVars \ {name}) \/ (v = name /\ cell.type = "string_t")
    BY <1>4 DEF SetLeaves, TextVars
  <1>9. \A j \in OwnCells(ints)' :
          \/ j \in OwnCells(ints) /\ j <= top
          \/ \E k \in back : j = base + k /\ mem.stack[j].type = "string_t"
    <2> SUFFICES ASSUME NEW j \in OwnCells(ints)'
                 PROVE  \/ j \in OwnCells(ints) /\ j <= top
                        \/ \E k \in back : j = base + k /\ mem.stack[j].type = "string_t"
      OBVIOUS
    <2>1. /\ j \in 1 .. top /\ mem'.stack[j].type = "string_t"
          /\ \A k \in Lent(ints)' : j # Frame.base + k
      BY <1>5, <1>6 DEF OwnCells, LentCells
    <2>2. mem.stack[j].type = "string_t" /\ j \in 1 .. top + 1 /\ j <= top
      BY <1>4, <1>6, <2>1 DEF SetLeaves
    <2>3. CASE j \in OwnCells(ints)
      BY <2>2, <2>3
    <2>4. CASE j \notin OwnCells(ints)
      <3>1. PICK k \in Lent(ints) : j = Frame.base + k
        BY <1>6, <2>2, <2>4 DEF OwnCells, LentCells
      <3>2. k \in 1 .. rest + 1
        BY <1>4 DEF SetLeaves
      <3>3. k \in 1 .. rest
        BY <1>6, <2>1, <3>1, <3>2
      <3>4. Here(ints).stack[k].of = name
        BY <1>4, <2>1, <3>1, <3>3 DEF SetLeaves
      <3> QED
        BY <1>21, <2>2, <3>1, <3>3, <3>4
    <2> QED
      BY <2>3, <2>4
  <1>10. K \subseteq Holders(ints)
    BY DEF Holders
  <1>11. \A h \in K : ListOf(h)' = ListOf(h)
    <2>1. \A i \in DOMAIN kont : ListOf(AFrame(i))' = ListOf(AFrame(i))
      BY <1>5, HolderLists, HolderListsNext
    <2>2. \A v \in TextVars \ {name} : ListOf(AVar(v))' = ListOf(AVar(v))
      <3> SUFFICES ASSUME NEW v \in TextVars \ {name} PROVE ListOf(AVar(v))' = ListOf(AVar(v))
        OBVIOUS
      <3>1. mem'.vars[v] = mem.vars[v]
        BY <1>4 DEF SetLeaves, TextVars
      <3> QED
        BY <3>1, HolderLists, HolderListsNext
    <2>3. \A j \in OwnCells(ints) : j <= top => ListOf(ACell(j))' = ListOf(ACell(j))
      <3> SUFFICES ASSUME NEW j \in OwnCells(ints), j <= top
              PROVE ListOf(ACell(j))' = ListOf(ACell(j))
        OBVIOUS
      <3>1. j \in 1 .. top + 1
        BY <1>6 DEF OwnCells
      <3>2. j \in 1 .. top
        BY <1>6, <3>1
      <3>3. mem'.stack[j] = mem.stack[j]
        BY <1>4, <3>2 DEF SetLeaves
      <3> QED
        BY <3>3, HolderLists, HolderListsNext
    <2> QED
      BY <2>1, <2>2, <2>3
  <1>12. \A h \in Holders(ints)' \ K :
           \/ h = Flight
           \/ h = AVar(name) /\ cell.type = "string_t"
           \/ \E k \in back : h = ACell(base + k) /\ mem.stack[base + k].type = "string_t"
    BY <1>5, <1>8, <1>9 DEF Holders
  <1>13. \A i \in 1 .. Len(kont) - 1 : AFrame(i) \in K
    BY <1>0, Given
  <1>14. AVar(name) \notin K /\ ACell(top + 1) \notin K
    <2>1. ~(top + 1 <= top)
      BY <1>6
    <2> QED
      BY <2>1, HoldersDiffer
  <1>15. \A v : AVar(v) \in K => v # name
    BY <1>14
  <1> HIDE DEF K
  \* The cell's text comes from the cell, or from the variable that lent it.
  <1>16. cell.type = "string_t" =>
           /\ source \in Holders(ints) \ K /\ TextsOf(source) = {cell.v} \ {Null, Undefined}
           /\ \A p \in TextsOf(source) : Live(p)
    <2> SUFFICES ASSUME cell.type = "string_t"
                 PROVE  /\ source \in Holders(ints) \ K
                     /\ TextsOf(source) = {cell.v} \ {Null, Undefined}
                        /\ \A p \in TextsOf(source) : Live(p)
      OBVIOUS
    <2>1. CASE rest + 1 \in Lent(ints)
      <3>1. name \in DOMAIN mem.vars \ Spent(ints) /\ cell = mem.vars[name]
        <4>1. Here(ints).stack[rest + 1].of = name
          BY <1>4, <2>1 DEF SetLeaves
        <4>2. Frame.base + (rest + 1) = top + 1
          BY <1>6, SMTT(30)
        <4> QED
          BY <1>0, <2>1, <4>1, <4>2 DEF Loans
      <3>2. name \in TextVars
        BY <3>1 DEF TextVars
      <3>3. AVar(name) \in Holders(ints) \ {AVar(v) : v \in Spent(ints)}
        BY <3>1, <3>2, HoldersDiffer DEF Holders
      <3>4. TextsOf(AVar(name)) = {cell.v} \ {Null, Undefined}
        BY <3>1, HolderLists, SmallLists DEF TextsOf
      <3> QED
        BY <1>0, <1>14, <2>1, <3>3, <3>4 DEF HeldLive
    <2>2. CASE rest + 1 \notin Lent(ints)
      <3>1. top + 1 \in DOMAIN mem.stack
        BY <1>6
      <3>2. top + 1 \notin LentCells(ints)
        <4> SUFFICES ASSUME NEW k \in Lent(ints), top + 1 = base + k PROVE FALSE
          BY <1>21 DEF LentCells
        <4>1. k \in 1 .. rest + 1
          BY <1>4 DEF SetLeaves
        <4>2. k = rest + 1
          BY <1>6, <1>21, <4>1
        <4> QED
          BY <2>2, <4>2
      <3>3. ACell(top + 1) \in Holders(ints) \ {AVar(v) : v \in Spent(ints)}
        BY <3>1, <3>2, HoldersDiffer DEF Holders, OwnCells
      <3>4. TextsOf(ACell(top + 1)) = {cell.v} \ {Null, Undefined}
        BY HolderLists, SmallLists DEF TextsOf
      <3> QED
        BY <1>0, <1>14, <2>2, <3>3, <3>4 DEF HeldLive
    <2> QED
      BY <2>1, <2>2
  \* That of a cell that gets its text for good comes from the variable.
  <1>17. ASSUME NEW k \in back, mem.stack[base + k].type = "string_t"
         PROVE  /\ AVar(name) \in Holders(ints) \ K /\ AVar(name) # source
                /\ TextsOf(AVar(name)) = {mem.stack[base + k].v} \ {Null, Undefined}
                /\ \A p \in TextsOf(AVar(name)) : Live(p)
                /\ mem'.stack[base + k] = mem.stack[base + k]
                /\ \A l \in back : l = k
    <2>1. k \in Lent(ints) /\ k \in 1 .. rest /\ Here(ints).stack[k].of = name
      OBVIOUS
    <2>2. name \in DOMAIN mem.vars \ Spent(ints) /\ mem.stack[base + k] = mem.vars[name]
      BY <1>0, <1>21, <2>1 DEF Loans
    <2>3. name \in TextVars
      BY <1>17, <2>2 DEF TextVars
    <2>4. AVar(name) \in Holders(ints) \ {AVar(v) : v \in Spent(ints)}
      BY <2>2, <2>3, HoldersDiffer DEF Holders
    <2>5. TextsOf(AVar(name)) = {mem.stack[base + k].v} \ {Null, Undefined}
      BY <2>2, HolderLists, SmallLists DEF TextsOf
    <2>6. rest + 1 \notin Lent(ints)
      <3>1. k # rest + 1
        BY <1>6, <2>1
      <3>2. rest + 1 \in Lent(ints) => Here(ints).stack[rest + 1].of = name
        BY <1>4 DEF SetLeaves
      <3> QED
        BY <1>0, <2>1, <3>1, <3>2 DEF Loans
    <2>7. AVar(name) # source
      BY <2>6, HoldersDiffer
    <2>8. mem'.stack[base + k] = mem.stack[base + k]
      BY <1>4, <1>7, <1>21, <2>1 DEF SetLeaves
    <2>9. \A l \in back : l = k
      BY <1>0, <2>1 DEF Loans
    <2>10. \A p \in TextsOf(AVar(name)) : Live(p)
      BY <1>0, <2>4 DEF HeldLive
    <2> QED
      BY <1>14, <2>4, <2>5, <2>7, <2>8, <2>9, <2>10
  <1>18. TextsOf(Flight)' = {} /\ OnceEach(ListOf(Flight)')
    BY <1>5, HolderListsNext, SmallLists DEF TextsOf
  <1>19. OnceEach(ListOf(AVar(name))') /\ TextsOf(AVar(name))' = {cell.v} \ {Null, Undefined}
    <2>1. ListOf(AVar(name))' = <<cell.v>>
      BY <1>4, HolderListsNext DEF SetLeaves
    <2> QED
      BY <2>1, SmallLists DEF TextsOf
  <1>20. ASSUME NEW k \in back, mem.stack[base + k].type = "string_t"
         PROVE  /\ OnceEach(ListOf(ACell(base + k))')
                /\ TextsOf(ACell(base + k))' = TextsOf(AVar(name))
    <2>1. ListOf(ACell(base + k))' = <<mem.stack[base + k].v>>
      <3>1. mem'.stack[base + k] = mem.stack[base + k]
        BY <1>17, <1>20
      <3>2. ListOf(ACell(base + k))' = <<mem'.stack[base + k].v>>
        BY HolderListsNext
      <3> QED
        BY <3>1, <3>2
    <2>2. TextsOf(AVar(name)) = {mem.stack[base + k].v} \ {Null, Undefined}
      BY <1>17, <1>20
    <2> QED
      BY <2>1, <2>2, SmallLists DEF TextsOf
  <1>22. Loans(ints)'
    <2>1. ASSUME NEW k \in Lent(ints)'
          PROVE  /\ k \in Lent(ints) /\ k \in 1 .. rest /\ Here(ints).stack[k].of # name
                 /\ There(ints).stack[k].of = Here(ints).stack[k].of
      BY <1>4, <2>1 DEF SetLeaves
    <2>2. ASSUME NEW k \in Lent(ints)'
          PROVE  /\ There(ints).stack[k].of \in DOMAIN mem'.vars \ Spent(ints)'
                 /\ mem'.stack[Frame.base + k] = mem'.vars[There(ints).stack[k].of]
      <3>1. PICK v : v = Here(ints).stack[k].of
        OBVIOUS
      <3>2. v \in DOMAIN mem.vars \ Spent(ints) /\ mem.stack[Frame.base + k] = mem.vars[v]
                /\ v # name
        BY <1>0, <2>1, <2>2, <3>1 DEF Loans
      <3>3. mem'.stack[Frame.base + k] = mem.stack[Frame.base + k]
        BY <1>4, <1>7, <2>1, <2>2 DEF SetLeaves
      <3>4. v \in DOMAIN mem'.vars \ Spent(ints)' /\ mem'.vars[v] = mem.vars[v]
        BY <1>4, <3>2 DEF SetLeaves
      <3> QED
        BY <2>1, <2>2, <3>1, <3>2, <3>3, <3>4
    <2>3. ASSUME NEW k \in Lent(ints)', NEW l \in Lent(ints)', k # l
          PROVE  There(ints).stack[k].of # There(ints).stack[l].of
      BY <1>0, <2>1, <2>3 DEF Loans
    <2> QED
      BY <1>5, <2>2, <2>3 DEF Loans
  <1>23. \A h \in Holders(ints)' \ K :
           /\ OnceEach(ListOf(h)')
           /\ \A p \in TextsOf(h)' : Live(p) /\ \E g \in Holders(ints) \ K : p \in TextsOf(g)
    <2> SUFFICES ASSUME NEW h \in Holders(ints)' \ K
                 PROVE  /\ OnceEach(ListOf(h)')
                        /\ \A p \in TextsOf(h)' :
                             Live(p) /\ \E g \in Holders(ints) \ K : p \in TextsOf(g)
      OBVIOUS
    <2>1. CASE h = Flight
      BY <1>18, <2>1
    <2>2. CASE h = AVar(name) /\ cell.type = "string_t"
      BY <1>16, <1>19, <2>2
    <2>3. CASE \E k \in back : h = ACell(base + k) /\ mem.stack[base + k].type = "string_t"
      BY <1>17, <1>20, <2>3
    <2> QED
      BY <1>12, <2>1, <2>2, <2>3
  <1>24. \A h, g \in Holders(ints)' \ K : h # g => TextsOf(h)' \cap TextsOf(g)' = {}
    <2>1. ASSUME cell.type = "string_t", NEW k \in back, mem.stack[base + k].type = "string_t"
          PROVE  TextsOf(AVar(name))' \cap TextsOf(ACell(base + k))' = {}
      <3>1. /\ source \in Holders(ints) /\ TextsOf(AVar(name))' = TextsOf(source)
            /\ AVar(name) \in Holders(ints) /\ AVar(name) # source
            /\ TextsOf(ACell(base + k))' = TextsOf(AVar(name))
        BY <1>16, <1>17, <1>19, <1>20, <2>1
      <3>2. TextsOf(source) \cap TextsOf(AVar(name)) = {}
        BY <1>0, <3>1 DEF Apart
      <3> QED
        BY <3>1, <3>2
    <2> SUFFICES ASSUME NEW h \in Holders(ints)' \ K, NEW g \in Holders(ints)' \ K, h # g
                 PROVE  TextsOf(h)' \cap TextsOf(g)' = {}
      OBVIOUS
    <2>2. CASE h = Flight \/ g = Flight
      BY <1>18, <2>2
    <2>3. CASE h = AVar(name) /\ g # Flight
      <3>1. cell.type = "string_t"
        BY <1>12, <2>3, HoldersDiffer
      <3>2. PICK k \in back : g = ACell(base + k) /\ mem.stack[base + k].type = "string_t"
        BY <1>12, <2>3
      <3> QED
        BY <2>1, <2>3, <3>1, <3>2
    <2>4. CASE h # Flight /\ g = AVar(name)
      <3>1. cell.type = "string_t"
        BY <1>12, <2>4, HoldersDiffer
      <3>2. PICK k \in back : h = ACell(base + k) /\ mem.stack[base + k].type = "string_t"
        BY <1>12, <2>4
      <3> QED
        BY <2>1, <2>4, <3>1, <3>2
    <2>5. CASE h \notin {Flight, AVar(name)} /\ g \notin {Flight, AVar(name)}
      <3>1. PICK k \in back : h = ACell(base + k) /\ mem.stack[base + k].type = "string_t"
        BY <1>12, <2>5
      <3>2. PICK l \in back : g = ACell(base + l) /\ mem.stack[base + l].type = "string_t"
        BY <1>12, <2>5
      <3> QED
        BY <1>17, <3>1, <3>2
    <2> QED
      BY <2>2, <2>3, <2>4, <2>5
  <1>25. Frees(mem, mem', {}) /\ NotStale(mem, mem')
    BY <1>0, <1>4, SameHeap DEF SetLeaves, NotStale
  <1>26. \A v \in Spent(ints) : AVar(v) \in K => v \in Spent(ints)'
    BY <1>4, <1>15 DEF SetLeaves
  <1> DEFINE n == Len(kont) - 1
  <1>27. /\ Keeps(n) /\ \A i \in n + 1 .. Len(kont') : "env" \notin DOMAIN kont'[i]
         /\ \A i \in 1 .. n : AFrame(i) \in K
    BY <1>5, <1>13
  <1> HIDE DEF n
  <1>28. \A p \in {} : \/ p \in {Null, Undefined} \/ p > Len(mem.heap)
                      \/ \E g \in Holders(ints) \ K : p \in TextsOf(g)
    OBVIOUS
  <1>29. \A h \in Holders(ints)' \ K :
           /\ OnceEach(ListOf(h)')
           /\ \A p \in TextsOf(h)' :
                /\ \/ p \in Len(mem.heap) + 1 .. Len(mem'.heap)
                   \/ \E g \in Holders(ints) \ K : p \in TextsOf(g)
                /\ h \notin {AVar(v) : v \in Spent(ints)'} =>
                     p \notin {} /\ (p \in Len(mem.heap) + 1 .. Len(mem'.heap) \/ Live(p))
    BY <1>23
  <1> QED
    BY <1>5, <1>10, <1>11, <1>22, <1>24, <1>25, <1>26, <1>27, <1>28, <1>29, PassOn

\* A block has nothing on loan and has freed nothing; it drops what it has above
\* its base, or hands out the text of one cell or a new one.
MayDrop(ints, base, L) ==
  /\ script' = script /\ focus'.at # "atom" /\ InFlight' = L
  /\ Lent(ints) = {} /\ Spent(ints) = {} /\ Lent(ints)' = {} /\ Spent(ints)' = {}
  /\ Keeps(Len(kont) - 1) /\ Len(kont) - 1 \in Nat
  /\ \A i \in Len(kont) - 1 + 1 .. Len(kont') :
       "env" \notin DOMAIN kont'[i] /\ OwnedBy(kont'[i]) = <<>>
  /\ base \in Nat /\ mem'.vars = mem.vars
  /\ DOMAIN mem'.stack = 1 .. base /\ 1 .. base \subseteq DOMAIN mem.stack
  /\ \A j \in 1 .. base : mem'.stack[j] = mem.stack[j]
  /\ Frees(mem, mem', {}) /\ NotStale(mem, mem')
  /\ OnceEach(L)
  /\ \A p \in Texts(L) :
       \/ p \in Len(mem.heap) + 1 .. Len(mem'.heap)
       \/ \E j \in DOMAIN mem.stack :
            j \notin 1 .. base /\ mem.stack[j].type = "string_t" /\ p = mem.stack[j].v

\* Then the texts still have one holder each.
LEMMA DropOwned ==
  ASSUME NEW ints, Owned(ints), TypeInv', Running, NEW base, NEW L, MayDrop(ints, base, L)
  PROVE  OwnerInv(ints)'
  <1>0. TypeInv /\ Apart(ints) /\ HeldLive(ints)
    BY OwnerFacts DEF Owned
  <1>1. PICK n \in Nat : n = Len(kont) - 1
    BY DEF MayDrop
  <1> DEFINE K == {AFrame(i) : i \in 1 .. n} \cup {AVar(v) : v \in TextVars}
                    \cup {ACell(j) : j \in {i \in OwnCells(ints) : i \in 1 .. base}}
  <1>2. /\ DOMAIN kont = 1 .. n + 1 /\ DOMAIN kont' = 1 .. Len(kont') /\ Len(kont') \in Nat
        /\ \A i \in 1 .. n : kont'[i] = kont[i]
    BY <1>0, <1>1, Given DEF MayDrop, Keeps, TypeInv
  <1>3. OwnCells(ints) = {j \in DOMAIN mem.stack : mem.stack[j].type = "string_t"}
    BY DEF MayDrop, OwnCells, LentCells
  <1>4. OwnCells(ints)' = {j \in OwnCells(ints) : j \in 1 .. base}
    <2>1. OwnCells(ints)' = {j \in DOMAIN mem'.stack : mem'.stack[j].type = "string_t"}
      BY DEF MayDrop, OwnCells, LentCells
    <2> QED
      BY <1>3, <2>1 DEF MayDrop
  <1>5. TextVars' = TextVars
    BY DEF MayDrop, TextVars
  <1>6. K \subseteq Holders(ints)
    BY <1>2 DEF Holders
  <1>7. \A h \in K : ListOf(h)' = ListOf(h)
    <2>1. \A i \in 1 .. n : ListOf(AFrame(i))' = ListOf(AFrame(i))
      BY <1>2, HolderLists, HolderListsNext
    <2>2. \A v : ListOf(AVar(v))' = ListOf(AVar(v))
      <3>1. mem'.vars = mem.vars
        BY DEF MayDrop
      <3> QED
        BY <3>1, HolderLists, HolderListsNext
    <2>3. \A j \in 1 .. base : ListOf(ACell(j))' = ListOf(ACell(j))
      <3> SUFFICES ASSUME NEW j \in 1 .. base PROVE ListOf(ACell(j))' = ListOf(ACell(j))
        OBVIOUS
      <3>1. mem'.stack[j] = mem.stack[j]
        BY DEF MayDrop
      <3> QED
        BY <3>1, HolderLists, HolderListsNext
    <2> QED
      BY <2>1, <2>2, <2>3
  <1>8. \A h \in Holders(ints)' \ K :
          h = Flight \/ \E i \in n + 1 .. Len(kont') : h = AFrame(i)
    <2>1. \A i \in DOMAIN kont' : i \in 1 .. n \/ i \in n + 1 .. Len(kont')
      BY <1>1, <1>2
    <2> QED
      BY <1>4, <1>5, <2>1 DEF Holders
  <1>9. \A j \in DOMAIN mem.stack : j \notin 1 .. base => ACell(j) \notin K
    BY HoldersDiffer
  <1>10. \A i \in 1 .. n : AFrame(i) \in K
    OBVIOUS
  <1> HIDE DEF K
  <1>11. ASSUME NEW i \in n + 1 .. Len(kont')
         PROVE  OnceEach(ListOf(AFrame(i))') /\ TextsOf(AFrame(i))' = {}
    <2>1. ListOf(AFrame(i))' = <<>>
      BY <1>1, HolderListsNext DEF MayDrop
    <2> QED
      BY <2>1, SmallLists DEF TextsOf
  <1>12. OnceEach(ListOf(Flight)') /\ TextsOf(Flight)' = Texts(L)
    <2>1. ListOf(Flight)' = L /\ OnceEach(L)
      BY HolderListsNext DEF MayDrop
    <2> QED
      BY <2>1 DEF TextsOf
  <1>13. ASSUME NEW p \in Texts(L)
         PROVE  \/ p \in Len(mem.heap) + 1 .. Len(mem'.heap)
                \/ Live(p) /\ \E g \in Holders(ints) \ K : p \in TextsOf(g)
    <2>1. CASE p \in Len(mem.heap) + 1 .. Len(mem'.heap)
      BY <2>1
    <2>2. CASE p \notin Len(mem.heap) + 1 .. Len(mem'.heap)
      <3>1. PICK j \in DOMAIN mem.stack :
                   j \notin 1 .. base /\ mem.stack[j].type = "string_t" /\ p = mem.stack[j].v
        BY <2>2 DEF MayDrop
      <3>2. ACell(j) \in Holders(ints) \ K /\ ACell(j) \notin {AVar(v) : v \in Spent(ints)}
        BY <1>3, <1>9, <3>1, HoldersDiffer DEF Holders
      <3>3. TextsOf(ACell(j)) = {p} \ {Null, Undefined} /\ p \notin {Null, Undefined}
        BY <3>1, HolderLists, SmallLists DEF TextsOf, Texts
      <3> QED
        BY <1>0, <3>2, <3>3 DEF HeldLive
    <2> QED
      BY <2>1, <2>2
  <1>14. \A h \in Holders(ints)' \ K :
           /\ OnceEach(ListOf(h)')
           /\ \A p \in TextsOf(h)' :
                /\ \/ p \in Len(mem.heap) + 1 .. Len(mem'.heap)
                   \/ \E g \in Holders(ints) \ K : p \in TextsOf(g)
                /\ h \notin {AVar(v) : v \in Spent(ints)'} =>
                     p \notin {} /\ (p \in Len(mem.heap) + 1 .. Len(mem'.heap) \/ Live(p))
    <2> SUFFICES ASSUME NEW h \in Holders(ints)' \ K
                 PROVE  /\ OnceEach(ListOf(h)')
                        /\ \A p \in TextsOf(h)' :
                             /\ \/ p \in Len(mem.heap) + 1 .. Len(mem'.heap)
                                \/ \E g \in Holders(ints) \ K : p \in TextsOf(g)
                             /\ p \in Len(mem.heap) + 1 .. Len(mem'.heap) \/ Live(p)
      OBVIOUS
    <2>1. CASE h = Flight
      BY <1>12, <1>13, <2>1
    <2>2. CASE h # Flight
      <3>1. PICK i \in n + 1 .. Len(kont') : h = AFrame(i)
        BY <1>8, <2>2
      <3> QED
        BY <1>11, <3>1
    <2> QED
      BY <2>1, <2>2
  <1>15. \A h, g \in Holders(ints)' \ K : h # g => TextsOf(h)' \cap TextsOf(g)' = {}
    <2> SUFFICES ASSUME NEW h \in Holders(ints)' \ K, NEW g \in Holders(ints)' \ K, h # g
                 PROVE  TextsOf(h)' \cap TextsOf(g)' = {}
      OBVIOUS
    <2>1. CASE h # Flight
      BY <1>8, <1>11, <2>1
    <2>2. CASE g # Flight
      BY <1>8, <1>11, <2>2
    <2> QED
      BY <2>1, <2>2
  <1>16. /\ \A v \in Spent(ints) : AVar(v) \in K => v \in Spent(ints)'
         /\ Loans(ints)'
    BY DEF MayDrop, Loans
  <1>17. \A p \in {} : \/ p \in {Null, Undefined} \/ p > Len(mem.heap)
                       \/ \E g \in Holders(ints) \ K : p \in TextsOf(g)
    OBVIOUS
  <1>18. /\ script' = script /\ focus'.at # "atom" /\ Frees(mem, mem', {}) /\ NotStale(mem, mem')
         /\ Keeps(n) /\ \A i \in n + 1 .. Len(kont') : "env" \notin DOMAIN kont'[i]
    BY <1>1 DEF MayDrop
  <1> QED
    BY <1>6, <1>7, <1>10, <1>14, <1>15, <1>16, <1>17, <1>18, PassOn

\* The function of a block returns p.
LEMMA BlockLeaves ==
  ASSUME NEW ints, Owned(ints), TypeInv', Running, kont # <<>>, Frame.kind = "code",
         focus.at = "next", Here(ints).spent = {}, Lenders(Here(ints).stack) = {},
         NEW m, NEW p, Leave(m, p), NEW base, base = Frame.base, m.vars = mem.vars,
         DOMAIN m.stack = 1 .. base, 1 .. base \subseteq DOMAIN mem.stack,
         \A j \in 1 .. base : m.stack[j] = mem.stack[j], Frees(mem, m, {}), NotStale(mem, m),
         \/ p \in {Null, Undefined} \/ p \in Len(mem.heap) + 1 .. Len(m.heap)
         \/ \E j \in DOMAIN mem.stack :
              j \notin 1 .. base /\ mem.stack[j].type = "string_t" /\ p = mem.stack[j].v
  PROVE  OwnerInv(ints)'
  <1>0. TypeInv /\ WaitInv /\ StackInv(ints)
    BY DEF Owned
  <1>1. mem' = m /\ script' = script /\ kont' = Below /\ focus' = Return(p)
    BY DEF Leave, Same
  <1>2. focus'.at = "return" /\ focus'.text = p /\ InFlight' = <<p>>
    BY <1>1 DEF Return, InFlight
  <1>3. Lent(ints) = {} /\ Spent(ints) = {}
    BY LoansHere DEF LentHere, Lenders
  <1>4. Lent(ints)' = {} /\ Spent(ints)' = {}
    <2>1. ~BlockRuns'
      BY <1>2 DEF BlockRuns
    <2> QED
      BY <2>1 DEF Lent, Spent
  <1>5. /\ Len(kont) - 1 \in Nat /\ Len(kont') = Len(kont) - 1
        /\ \A i \in 1 .. Len(kont) - 1 : kont'[i] = kont[i]
    BY <1>0, <1>1, Given, TopAndBelow
  <1>6. Keeps(Len(kont) - 1) /\ \A i : i \notin Len(kont) - 1 + 1 .. Len(kont')
    BY <1>5 DEF Keeps
  <1>7. base \in Nat
    BY <1>0, BlockFacts
  <1>8. OnceEach(<<p>>) /\ Texts(<<p>>) = {p} \ {Null, Undefined}
    BY SmallLists
  <1>9. MayDrop(ints, base, <<p>>)
    BY <1>1, <1>2, <1>3, <1>4, <1>5, <1>6, <1>7, <1>8 DEF MayDrop
  <1> QED
    BY <1>9, DropOwned

\* The end of a block: nothing is left on the stack.
LEMMA EndCodeOwned ==
  ASSUME NEW ints, Owned(ints), TypeInv', Running, EndCode
  PROVE  OwnerInv(ints)'
  <1>0. TypeInv /\ WaitInv /\ StackInv(ints) /\ CarefulWith(script, ints)
    BY OwnerFacts DEF Owned
  <1>1. /\ kont # <<>> /\ Frame.kind = "code" /\ Frame.done = Len(CodeOf(Frame))
        /\ Leave(mem, Null) /\ focus.at = "next"
    BY DEF EndCode, Turn
  <1>2. /\ Frame \in CodeFramesOf(script) /\ Frame.base \in Nat
        /\ IsTyping(Typing(CodeOf(Frame), ints), CodeOf(Frame), ints)
        /\ Len(mem.stack) = Frame.base + Len(Here(ints).stack)
    BY <1>0, <1>1, BlockFacts
  <1>3. Here(ints).stack = <<>>
    BY <1>1, <1>2 DEF IsTyping, Here
  <1>4. Here(ints).spent = {} /\ Lenders(Here(ints).stack) = {}
    <2>1. Frame.node \in Blocks(script)
      BY <1>2 DEF CodeFramesOf, Blocks
    <2>2. IsCareful(Typing(CodeOf(Frame), ints), CodeOf(Frame), ints)
      BY <1>0, <2>1 DEF CarefulWith, CodeOf
    <2>3. Here(ints).spent = {}
      BY <1>1, <2>2 DEF IsCareful, Here
    <2> QED
      BY <1>3, <2>3 DEF Lenders
  <1>5. Len(mem.stack) = Frame.base
    BY <1>2, <1>3
  <1>6. IsMemory(mem) /\ mem.stack \in Seq(Cells(Len(mem.heap)))
    BY <1>0, Given DEF IsMemory
  <1>7. DOMAIN mem.stack = 1 .. Frame.base /\ 1 .. Frame.base \subseteq DOMAIN mem.stack
    BY <1>5, <1>6
  <1>8. Frees(mem, mem, {}) /\ NotStale(mem, mem)
    BY <1>6, SameHeap DEF NotStale
  <1> QED
    BY <1>1, <1>4, <1>7, <1>8, BlockLeaves

\* EMIT: a text that is on the stack is the cell's own, and goes to the caller.
LEMMA EmitResultOwned ==
  ASSUME NEW ints, Owned(ints), TypeInv', Running, EmitResult
  PROVE  OwnerInv(ints)'
  <1> DEFINE m == Emit(mem)
             p == Emitted(mem)
             c == Cell(mem, 1)
  <1>0. TypeInv /\ WaitInv /\ StackInv(ints) /\ CarefulWith(script, ints)
    BY OwnerFacts DEF Owned
  <1>1. /\ kont # <<>> /\ Frame.kind = "code" /\ focus.at = "next"
        /\ Frame.done < Len(CodeOf(Frame)) /\ InstrDue.op = "EMIT" /\ IsMemory(mem)
    BY <1>0, Given DEF EmitResult, Due, Turn
  <1>2. (p = Null /\ Continue(m, InstrDone, GoOn)) \/ Leave(m, p)
    BY DEF EmitResult
  <1>3. Here(ints).spent = {} /\ Lenders(Here(ints).stack) = {}
    BY <1>0, <1>1, CarefulHere DEF Careful
  <1>4. /\ There(ints) = After(InstrDue, Here(ints), ints) /\ Fits(InstrDue, Here(ints), ints)
        /\ Here(ints) \in Points
    BY <1>0, <1>1, DueFacts, BlockFacts
  <1>5. Frame.base \in Nat /\ Len(mem.stack) = Frame.base + Len(Here(ints).stack)
    BY <1>0, <1>1, BlockFacts
  <1>6. Len(Here(ints).stack) = 1 /\ There(ints).spent = {}
    BY <1>1, <1>3, <1>4 DEF After, Fits, Points
  <1>7. There(ints).stack = <<>>
    <2>1. There(ints).stack = SubSeq(Here(ints).stack, 1, Len(Here(ints).stack) - 1)
      BY <1>1, <1>4 DEF After, Rest, Pops, Operators, Points
    <2> QED
      BY <1>4, <1>6, <2>1 DEF Points
  <1>8. PICK base \in Nat : base = Frame.base
    BY <1>5
  <1>9. Len(mem.stack) = base + 1 /\ mem.stack \in Seq(Cells(Len(mem.heap)))
    BY <1>1, <1>5, <1>6, <1>8 DEF IsMemory
  <1>10. /\ DOMAIN mem.stack = 1 .. base + 1 /\ 1 .. base \subseteq DOMAIN mem.stack
         /\ base + 1 \in DOMAIN mem.stack /\ base + 1 \notin 1 .. base
    BY <1>9
  <1>11. c = mem.stack[base + 1] /\ c \in Cells(Len(mem.heap)) /\ mem.stack # <<>>
    BY <1>9, <1>10 DEF Cell
  <1>12. /\ m.vars = mem.vars /\ DOMAIN m.stack = 1 .. base
         /\ \A j \in 1 .. base : m.stack[j] = mem.stack[j]
    <2>1. m.vars = mem.vars /\ m.stack = Top(mem, 1)
      BY <1>1, <1>9, EmitEffect
    <2>2. Top(mem, 1) = SubSeq(mem.stack, 1, base)
      BY <1>9 DEF Top
    <2> QED
      BY <1>9, <2>1, <2>2
  <1> DEFINE popped == Pop(mem, 1)
  <1>13. m = AsText(popped, c) /\ p = TextOf(m, c)
    BY <1>11 DEF Emit, Emitted
  <1>14. IsMemory(popped) /\ popped.heap = mem.heap /\ popped.fault = mem.fault
    BY <1>1, <1>9, PopMemory
  <1> HIDE DEF popped, c, m, p
  <1>15. /\ Frees(mem, m, {}) /\ NotStale(mem, m)
         /\ \/ c.type = "string_t" /\ p = c.v
            \/ p > Len(mem.heap)
    <2>1. /\ Frees(popped, m, {}) /\ NotStale(popped, m)
          /\ \/ c.type = "string_t" /\ p = c.v
             \/ p > Len(popped.heap)
      BY <1>11, <1>13, <1>14, AsTextFrees
    <2> QED
      BY <1>14, <2>1 DEF Frees, NotStale
  <1>16. mem' = m
    BY <1>2 DEF Continue, Leave
  <1>17. CASE p = Null /\ Continue(m, InstrDone, GoOn)
    <2>1. /\ script' = script /\ focus'.at # "atom" /\ InFlight' = <<>>
          /\ Len(kont) - 1 \in Nat /\ Keeps(Len(kont) - 1)
          /\ \A i \in Len(kont) - 1 + 1 .. Len(kont') : "env" \notin DOMAIN kont'[i]
          /\ DOMAIN kont' = DOMAIN kont
          /\ \A i \in DOMAIN kont : OwnedBy(kont'[i]) = OwnedBy(kont[i])
          /\ Lent(ints)' = {k \in DOMAIN There(ints).stack : There(ints).stack[k].of # NoVar}
          /\ Spent(ints)' = There(ints).spent
      BY <1>1, <1>17, BlockGoesOn
    <2>2. Lent(ints) = {} /\ Spent(ints) = {}
      BY <1>1, <1>3, LoansHere DEF LentHere, Lenders
    <2>3. Lent(ints)' = {} /\ Spent(ints)' = {}
      BY <1>6, <1>7, <2>1
    <2>4. \A i \in Len(kont) - 1 + 1 .. Len(kont') : OwnedBy(kont'[i]) = <<>>
      <3> SUFFICES ASSUME NEW i \in Len(kont) - 1 + 1 .. Len(kont') PROVE OwnedBy(kont'[i]) = <<>>
        OBVIOUS
      <3>1. i = Len(kont) /\ i \in DOMAIN kont
        <4>1. DOMAIN kont = 1 .. Len(kont) /\ DOMAIN kont' = 1 .. Len(kont') /\ Len(kont') \in Nat
          BY <1>0, Given DEF TypeInv
        <4>2. Len(kont') = Len(kont)
          BY <2>1, <4>1
        <4> QED
          BY <2>1, <4>1, <4>2
      <3>2. OwnedBy(Frame) = <<>>
        BY <1>1 DEF OwnedBy
      <3> QED
        BY <2>1, <3>1, <3>2 DEF Frame
    <2>5. OnceEach(<<>>) /\ Texts(<<>>) = {}
      BY SmallLists
    <2>6. MayDrop(ints, base, <<>>)
      BY <1>10, <1>12, <1>15, <1>16, <2>1, <2>2, <2>3, <2>4, <2>5 DEF MayDrop
    <2> QED
      BY <2>6, DropOwned
  <1>18. CASE Leave(m, p)
    <2>1. \/ p \in Len(mem.heap) + 1 .. Len(m.heap)
          \/ \E j \in DOMAIN mem.stack :
               j \notin 1 .. base /\ mem.stack[j].type = "string_t" /\ p = mem.stack[j].v
      <3>1. CASE p > Len(mem.heap)
        <4>1. p \in 0 .. Len(m.heap) /\ Len(mem.heap) \in Nat
          <5>1. focus'.text = p /\ focus' \in Focuses(script', Len(mem'.heap))
                    /\ focus'.at = "return"
            BY <1>18, Given DEF Leave, Return, TypeInv
          <5> QED
            BY <1>1, <1>16, <5>1 DEF Focuses, IsMemory, IsHeap
        <4> QED
          BY <3>1, <4>1
      <3>2. CASE c.type = "string_t" /\ p = c.v
        BY <1>10, <1>11, <3>2
      <3> QED
        BY <1>15, <3>1, <3>2
    <2> QED
      BY <1>1, <1>3, <1>8, <1>10, <1>12, <1>15, <1>18, <2>1, BlockLeaves
  <1> QED
    BY <1>2, <1>17, <1>18

\* The instructions that neither call nor return.
LEMMA ExecOwned ==
  ASSUME NEW ints, Owned(ints), TypeInv', Running, Exec
  PROVE  OwnerInv(ints)'
  <1>0. TypeInv
    BY DEF Owned
  <1>1. /\ kont # <<>> /\ Frame.kind = "code" /\ Frame.done < Len(CodeOf(Frame))
        /\ InstrDue.op \in {"SET", "PUSHV", "PUSH"} \cup Operators
    BY DEF Exec, Due, Turn
  <1>2. PICK m \in ExecInstr(mem, InstrDue) : Continue(m, InstrDone, GoOn)
    BY DEF Exec
  <1>3. IsInstruction(InstrDue)
    BY <1>0, GivenDue DEF Exec
  <1>4. CASE InstrDue.op = "SET"
    <2>1. m = Set(mem, InstrDue.name)
      BY <1>2, <1>4 DEF ExecInstr, Operators
    <2> QED
      BY <1>1, <1>2, <1>4, <2>1, SetOwned
  <1>5. CASE InstrDue.op = "PUSHV"
    <2>1. m = PushVar(mem, InstrDue.name)
      BY <1>2, <1>5 DEF ExecInstr, Operators
    <2> QED
      BY <1>1, <1>2, <1>5, <2>1, PushVarOwned
  <1>6. CASE InstrDue.op = "PUSH"
    <2>1. m = PushLiteral(mem, InstrDue)
      BY <1>2, <1>6 DEF ExecInstr, Operators
    <2> QED
      BY <1>1, <1>2, <1>3, <1>6, <2>1, PushLiteralOwned
  <1>7. CASE InstrDue.op \in Operators
    <2>1. m \in Operate(mem, InstrDue.op)
      BY <1>2, <1>7 DEF ExecInstr, Operators
    <2> QED
      BY <1>1, <1>2, <1>7, <2>1, OperateOwned
  <1> QED
    BY <1>1, <1>4, <1>5, <1>6, <1>7

\* Nothing changes.
LEMMA SameOwned ==
  ASSUME NEW ints, OwnerInv(ints), UNCHANGED vars
  PROVE  OwnerInv(ints)'
  <1>1. /\ script' = script /\ mem' = mem /\ focus' = focus /\ kont' = kont
    BY DEF vars
  <1>2. BlockRuns' = BlockRuns /\ Here(ints)' = Here(ints) /\ Frame' = Frame
    BY <1>1 DEF BlockRuns, Here, CodeOf, Frame
  <1>3. Lent(ints)' = Lent(ints) /\ Spent(ints)' = Spent(ints)
    BY <1>2 DEF Lent, Spent
  <1>4. TextVars' = TextVars /\ OwnCells(ints)' = OwnCells(ints) /\ InFlight' = InFlight
    BY <1>1, <1>2, <1>3 DEF TextVars, OwnCells, LentCells, InFlight
  <1>5. Holders(ints)' = Holders(ints)
    BY <1>1, <1>4 DEF Holders
  <1>6. \A h : ListOf(h)' = ListOf(h) /\ TextsOf(h)' = TextsOf(h)
    BY <1>1, <1>4 DEF ListOf, TextsOf
  <1>7. Apart(ints) => Apart(ints)'
    BY <1>5, <1>6 DEF Apart
  <1>8. HeldLive(ints) => HeldLive(ints)'
    BY <1>1, <1>3, <1>5, <1>6 DEF HeldLive, Live
  <1>9. Loans(ints) => Loans(ints)'
    BY <1>1, <1>2, <1>3 DEF Loans
  <1>10. \A ps, level : Safe(ps, level, ints) => SafeNext(ps, level, ints)
    BY <1>1, <1>5, <1>6 DEF Safe, SafeNext, Live
  <1>11. ActualsSafe(ints) => ActualsSafe(ints)'
    <2> SUFFICES ASSUME ActualsSafe(ints) PROVE ActualsSafe(ints)'
      OBVIOUS
    <2>1. \A i \in DOMAIN kont : "env" \in DOMAIN kont[i] => SafeNext(kont[i].env.cooked, i, ints)
      BY <1>10 DEF ActualsSafe
    <2>2. focus.at = "atom" => SafeNext(focus.env.cooked, Len(kont) + 1, ints)
      BY <1>10 DEF ActualsSafe
    <2> QED
      BY <1>1, <2>1, <2>2 DEF ActualsSafe, SafeNext, Safe
  <1> QED
    BY <1>1, <1>7, <1>8, <1>9, <1>11 DEF OwnerInv, NoFault

\* Every step keeps the owners of the texts in order.
LEMMA NextOwned ==
  ASSUME NEW ints, Owned(ints), TypeInv', [Next]_vars
  PROVE  OwnerInv(ints)'
  <1>1. CASE UNCHANGED vars
    BY <1>1, SameOwned DEF Owned
  <1>2. CASE ResolveAtom
    <2>1. Running
      BY <1>2 DEF ResolveAtom, Literal, Parameter, Symbol, Enter, Map, Dereference, Define,
         CondDef, VarRef, Silence, Star, Plus, RepeatConst, RepeatVar, Round, EndLoop,
         Accumulate, Choice, IsAtom, Turn
    <2> QED
      BY <1>2, <2>1, LiteralOwned, ParameterOwned, SymbolOwned, CallsOwned, MapOwned,
         DereferenceOwned, DefineOwned, CondDefOwned, VarRefOwned, SilenceOwned,
         RepeatVarOwned, RoundOwned, EndsOwned, AccumulateOwned, ChoiceOwned
         DEF ResolveAtom
  <1>3. CASE ResolveRule
    <2>1. Running
      BY <1>3 DEF ResolveRule, NextAtom, AddText, EndOption, CascadeArg, NestedArg,
         ResolveArg, TakeArg, EndArgs, SelectOption, EndRule, Turn
    <2> QED
      BY <1>3, <2>1, NextAtomOwned, AddTextOwned, EndsOwned, CascadeArgOwned, NestedArgOwned,
         ResolveArgOwned, TakeArgOwned, EndArgsOwned, SelectOptionOwned, EndRuleOwned
         DEF ResolveRule
  <1>4. CASE RunCode
    <2>1. Running
      BY <1>4 DEF RunCode, Code, Exec, Invoke, Invoked, EmitResult, EndCode, Due, Turn, IsAtom
    <2> QED
      BY <1>4, <2>1, CodeOwned, ExecOwned, InvokeOwned, InvokedOwned, EmitResultOwned,
         EndCodeOwned DEF RunCode
  <1>5. CASE Output
    BY <1>5, OutputOwned DEF Output
  <1>6. CASE Finished
    BY <1>1, <1>6 DEF Finished
  <1> QED
    BY <1>1, <1>2, <1>3, <1>4, <1>5, <1>6 DEF Next

\* At the start nobody has a text.
LEMMA InitOwned ==
  ASSUME Init, NEW ints, CarefulWith(script, ints)
  PROVE  OwnerInv(ints)
  <1> DEFINE r == [kind |-> "rule", name |-> script.start, cooked |-> <<>>]
             a == ArgsFrame(<<>>, NoEnv)
  <1>1. kont = <<r, a>> /\ focus = GoOn /\ mem = NewMemory
    BY DEF Init
  <1>2. /\ OwnedBy(r) = <<>> /\ "env" \notin DOMAIN r /\ r.kind = "rule"
        /\ Texts(OwnedBy(a)) = {} /\ OnceEach(OwnedBy(a)) /\ a.kind = "args" /\ a.env = NoEnv
    BY ArgsHaveNone, NoTextsOnce DEF OwnedBy, ArgsFrame
  <1> HIDE DEF r, a
  <1>3. DOMAIN kont = {1, 2} /\ kont[1] = r /\ kont[2] = a /\ Len(kont) = 2
    BY <1>1
  <1>4. /\ mem.fault = "none" /\ DOMAIN mem.vars = {} /\ DOMAIN mem.stack = {}
        /\ mem.heap[Undefined].state = "constant"
    BY <1>1 DEF NewMemory, Undefined
  <1>5. ~BlockRuns
    BY <1>2, <1>3 DEF BlockRuns, Frame
  <1>6. InFlight = <<>> /\ focus.at # "atom"
    BY <1>1 DEF GoOn, InFlight
  <1>7. Holders(ints) \subseteq {AFrame(1), AFrame(2), Flight}
    BY <1>3, <1>4 DEF Holders, TextVars, OwnCells
  <1>8. \A h \in Holders(ints) : OnceEach(ListOf(h)) /\ TextsOf(h) = {}
    <2>1. OnceEach(<<>>) /\ Texts(<<>>) = {}
      BY SmallLists
    <2>2. ListOf(AFrame(1)) = <<>> /\ ListOf(AFrame(2)) = OwnedBy(a) /\ ListOf(Flight) = <<>>
      BY <1>2, <1>3, <1>6, HolderLists
    <2> QED
      BY <1>2, <1>7, <2>1, <2>2 DEF TextsOf
  <1>9. Apart(ints) /\ HeldLive(ints)
    BY <1>4, <1>8 DEF Apart, HeldLive
  <1>10. Loans(ints)
    BY <1>5 DEF Loans, Lent
  <1>11. ActualsSafe(ints)
    <2>1. Texts(NoEnv.cooked) = {}
      BY SmallLists DEF NoEnv
    <2>2. \A i \in DOMAIN kont : "env" \in DOMAIN kont[i] => Texts(kont[i].env.cooked) = {}
      BY <1>2, <1>3, <2>1
    <2> QED
      BY <1>6, <2>2 DEF ActualsSafe, Safe
  <1> QED
    BY <1>4, <1>9, <1>10, <1>11 DEF OwnerInv

\* In every run of a careful script the texts have one owner each.
THEOREM OwnersHold == Spec /\ CarefulScript(script) => []TextInv
  <1>1. Init /\ CarefulScript(script) => TextInv
    <2> SUFFICES ASSUME Init, CarefulScript(script) PROVE TextInv
      OBVIOUS
    <2>1. PICK ints \in SUBSET VarNames(script) : CarefulWith(script, ints)
      BY DEF CarefulScript
    <2>2. TypedWith(script, ints)
      BY <2>1 DEF CarefulWith
    <2> QED
      BY <2>1, <2>2, InitType, InitStack, InitOwned DEF TextInv
  <1>2. TextInv /\ [Next]_vars => TextInv'
    <2> SUFFICES ASSUME TextInv, [Next]_vars PROVE TextInv'
      OBVIOUS
    <2>1. PICK ints \in SUBSET VarNames(script) : StackInv(ints) /\ OwnerInv(ints)
      BY DEF TextInv
    <2>2. TypeInv /\ WaitInv /\ TypeInv' /\ Owned(ints)
      BY <2>1, NextType DEF TextInv, Owned
    <2>3. WaitInv' /\ StackInv(ints)'
      BY <2>1, <2>2, NextStack
    <2>4. OwnerInv(ints)'
      BY <2>2, NextOwned
    <2>5. script' = script
      BY ScriptStays
    <2>6. ints \in SUBSET VarNames(script')
      BY <2>5
    <2>7. (\E s \in SUBSET VarNames(script) : StackInv(s) /\ OwnerInv(s))'
      BY <2>3, <2>4, <2>6
    <2> QED
      BY <2>2, <2>3, <2>7 DEF TextInv
  <1> QED
    BY <1>1, <1>2, PTL DEF Spec

\* What the owners have, as the properties of the resolver speak of it.
LEMMA OwnersAre ==
  ASSUME NEW ints
  PROVE  /\ \A i \in DOMAIN kont : /\ AFrame(i) \in Holders(ints)
                                   /\ ListOf(AFrame(i)) = OwnedBy(kont[i])
                                   /\ TextsOf(AFrame(i)) = FrameTexts(i)
         /\ \A n \in TextVars : AVar(n) \in Holders(ints) /\ TextsOf(AVar(n)) = VarText(n)
         /\ Flight \in Holders(ints) /\ ListOf(Flight) = InFlight
         /\ TextsOf(Flight) = Texts(InFlight)
  BY HolderLists DEF Holders, TextsOf, FrameTexts, VarText

\* It says more than NoSharedText.
LEMMA TextInvShares == TextInv => NoSharedText
  <1> SUFFICES ASSUME TextInv, NoFault PROVE NoSharedText
    BY DEF NoSharedText
  <1>1. PICK ints : Apart(ints)
    BY DEF TextInv, OwnerInv
  <1>2. \A h \in Holders(ints) : OnceEach(ListOf(h))
    BY <1>1 DEF Apart
  <1>3. \A h, g \in Holders(ints) : h # g => TextsOf(h) \cap TextsOf(g) = {}
    BY <1>1 DEF Apart
  <1>4. (\A i \in DOMAIN kont : OnceEach(OwnedBy(kont[i]))) /\ OnceEach(InFlight)
    BY <1>2, OwnersAre
  <1>5. \A i, j \in DOMAIN kont : i # j => FrameTexts(i) \cap FrameTexts(j) = {}
    BY <1>3, OwnersAre, HoldersDiffer
  <1>6. \A n, k \in TextVars : n # k => VarText(n) \cap VarText(k) = {}
    BY <1>3, OwnersAre, HoldersDiffer
  <1>7. \A i \in DOMAIN kont, n \in TextVars : FrameTexts(i) \cap VarText(n) = {}
    BY <1>3, OwnersAre, HoldersDiffer
  <1>8. \A i \in DOMAIN kont : FrameTexts(i) \cap Texts(InFlight) = {}
    BY <1>3, OwnersAre, HoldersDiffer
  <1>9. \A n \in TextVars : VarText(n) \cap Texts(InFlight) = {}
    BY <1>3, OwnersAre, HoldersDiffer
  <1> QED
    BY <1>4, <1>5, <1>6, <1>7, <1>8, <1>9 DEF NoSharedText

\* A pointer is stale unless its text is live or the constant.
LEMMA LiveNotStale ==
  ASSUME NEW ps, mem.heap[Undefined].state = "constant", \A p \in Texts(ps) : Live(p)
  PROVE  \A p \in ToSet(ps) : ~Stale(p)
  BY DEF Texts, Live, Stale

\* While there is no fault it says more than HeldTextsLive and VariablesReadable.
LEMMA TextInvLive == TextInv /\ NoFault => HeldTextsLive /\ VariablesReadable
  <1> SUFFICES ASSUME TextInv, NoFault PROVE HeldTextsLive /\ VariablesReadable
    OBVIOUS
  <1>1. PICK ints : HeldLive(ints) /\ ActualsSafe(ints)
    BY DEF TextInv, OwnerInv
  <1>2. TypeInv /\ mem.heap[Undefined].state = "constant"
    BY <1>1 DEF TextInv, HeldLive
  <1>3. ASSUME CodeFrames = {}
        PROVE  \A h \in Holders(ints) : \A p \in TextsOf(h) : Live(p)
    <2>1. ~BlockRuns
      <3>1. kont # <<>> => Len(kont) \in DOMAIN kont /\ Frame = kont[Len(kont)]
        BY <1>2, Given, TopAndBelow
      <3> QED
        BY <1>3, <3>1 DEF BlockRuns, CodeFrames
    <2>2. Spent(ints) = {}
      BY <2>1 DEF Spent
    <2> QED
      BY <1>1, <2>2 DEF HeldLive
  <1>4. CodeFrames = {} => \A p \in Held : ~Stale(p)
    <2> SUFFICES ASSUME CodeFrames = {}, NEW p \in Held PROVE ~Stale(p)
      OBVIOUS
    <2>1. \E h \in Holders(ints) : p \in TextsOf(h)
      BY OwnersAre DEF Held
    <2> QED
      BY <1>3, <2>1 DEF Live, Stale
  <1>5. CodeFrames = {} => \A n \in TextVars : ~Stale(mem.vars[n].v)
    <2> SUFFICES ASSUME CodeFrames = {}, NEW n \in TextVars PROVE ~Stale(mem.vars[n].v)
      OBVIOUS
    <2>1. \A p \in VarText(n) : Live(p)
      BY <1>3, OwnersAre
    <2>2. VarText(n) = {mem.vars[n].v} \ {Null, Undefined}
      BY SmallLists DEF VarText
    <2> QED
      BY <1>2, <2>1, <2>2 DEF Live, Stale
  <1>6. \A f \in ToSet(kont) : "env" \in DOMAIN f => \A p \in ToSet(f.env.cooked) : ~Stale(p)
    <2> SUFFICES ASSUME NEW i \in DOMAIN kont, "env" \in DOMAIN kont[i]
                 PROVE  \A p \in ToSet(kont[i].env.cooked) : ~Stale(p)
      BY DEF ToSet
    <2>1. \A p \in Texts(kont[i].env.cooked) : Live(p)
      BY <1>1 DEF ActualsSafe, Safe
    <2> QED
      BY <1>2, <2>1, LiveNotStale
  <1>7. focus.at = "atom" => \A p \in ToSet(focus.env.cooked) : ~Stale(p)
    <2> SUFFICES ASSUME focus.at = "atom" PROVE \A p \in ToSet(focus.env.cooked) : ~Stale(p)
      OBVIOUS
    <2>1. \A p \in Texts(focus.env.cooked) : Live(p)
      BY <1>1 DEF ActualsSafe, Safe
    <2> QED
      BY <1>2, <2>1, LiveNotStale
  <1> QED
    BY <1>4, <1>5, <1>6, <1>7 DEF HeldTextsLive, VariablesReadable

\* No text is handed out to two.
THEOREM TextsHaveOneOwner == Spec /\ CarefulScript(script) => []NoSharedText
  BY OwnersHold, TextInvShares, PTL

\* What is held can be read.
THEOREM HeldTextsStay == Spec /\ CarefulScript(script) => [](NoFault => HeldTextsLive)
  <1>1. TextInv => (NoFault => HeldTextsLive)
    BY TextInvLive
  <1> QED
    BY <1>1, OwnersHold, PTL

\* A variable can be read.
THEOREM VariablesStayReadable == Spec /\ CarefulScript(script) => [](NoFault => VariablesReadable)
  <1>1. TextInv => (NoFault => VariablesReadable)
    BY TextInvLive
  <1> QED
    BY <1>1, OwnersHold, PTL

\* No step reads a text that was freed, or frees it again.
THEOREM NeverUsesFreed == Spec /\ CarefulScript(script) => [](mem.fault # "stale")
  <1>1. TextInv => mem.fault # "stale"
    BY DEF TextInv, OwnerInv
  <1> QED
    BY <1>1, OwnersHold, PTL
=============================================================================
