--------------------------- MODULE PipelineProofs ---------------------------
(***************************************************************************)
(* What holds of both launchers, for every script and every size of pipe.  *)
(*                                                                         *)
(* pb takes an empty pipe that nobody can write to for the end of the      *)
(* script.  The invariant says who can still write: the launcher until it  *)
(* has started the preprocessor, and the preprocessor as long as it runs.  *)
(***************************************************************************)
EXTENDS Pipeline, TLAPS

\* What was written is in the pipe or was read.
Conserved == sent = pipe + got

\* The children are started in order, and waited for once each.
Unborn(p) == pc[p] = "none"
Reaped(p) == pc[p] = "reaped"
Order ==
  /\ pc["parent"] \in {"pipe", "fork pb"} => Unborn("pb")
  /\ pc["parent"] \in {"pipe", "fork pb", "fork cpp"} => Unborn("cpp")
  /\ pc["parent"] \in {"pipe", "fork pb", "fork cpp", "close", "wait"} => ~Reaped("pb") /\ ~Reaped("cpp")
  /\ pc["parent"] = "wait again" => Reaped("pb") \/ Reaped("cpp")
  /\ pc["parent"] = "exited" => Reaped("pb") /\ Reaped("cpp")

\* Who can still write to the pipe holds its end; the launcher gives up both ends
\* before it waits.
HoldsEnd ==
  /\ pc["parent"] \in {"fork pb", "fork cpp"} => "parent" \in writers
  /\ Alive("cpp") => "cpp" \in writers
  /\ pc["parent"] \in {"wait", "wait again"} => "parent" \notin readers \cup writers

\* pb has seen the end of the script: no preprocessor runs or is to be started.
SeenEnd ==
  pc["pb"] = "resolve" => /\ ~Alive("cpp") /\ pc["parent"] # "fork cpp"
                          /\ pipe = 0

Places == {"pipe", "fork pb", "fork cpp", "close", "wait", "wait again", "exited", "died",
           "none", "setup", "exec", "run", "kill", "resolve", "zombie", "reaped"}
Typed == pc \in [Processes -> Places] /\ TypeOK
IInv == Typed /\ Conserved /\ Order /\ HoldsEnd /\ SeenEnd
-----------------------------------------------------------------------------
\* What is known of the three counters.
LEMMA CountsOK ==
  ASSUME IInv
  PROVE  /\ pipe \in Nat /\ pipe <= Capacity /\ sent \in Nat /\ sent <= Chunks
         /\ got \in Nat /\ got <= Chunks /\ sent = pipe + got
  <1>1. pipe \in 0 .. Capacity /\ sent \in 0 .. Chunks /\ got \in 0 .. Chunks
    BY DEF IInv, Typed, TypeOK
  <1>2. sent = pipe + got
    BY DEF IInv, Conserved
  <1> QED
    BY <1>1, <1>2, CapacityAssumption, ChunksAssumption

\* Before the launcher has made the pipe nobody holds it, and no child exists.
LEMMA InitIInv == Init => IInv
  <1> SUFFICES ASSUME Init PROVE IInv
    OBVIOUS
  <1>1. pc = [p \in Processes |-> IF p = "parent" THEN "pipe" ELSE "none"]
    BY DEF Init
  <1>2. /\ pc \in [Processes -> Places]
        /\ pc["parent"] = "pipe" /\ pc["pb"] = "none" /\ pc["cpp"] = "none"
    <2>1. pc \in [Processes -> Places]
      BY <1>1 DEF Places
    <2>2. pc["parent"] = "pipe" /\ pc["pb"] = "none" /\ pc["cpp"] = "none"
      BY <1>1 DEF Processes
    <2> QED
      BY <2>1, <2>2
  <1>3. Typed
    <2>1. readers \cup writers \subseteq {p \in Processes : Alive(p)}
      BY DEF Init
    <2>2. pipe \in 0 .. Capacity /\ sent \in 0 .. Chunks /\ got \in 0 .. Chunks
      BY CapacityAssumption, ChunksAssumption DEF Init
    <2>3. launcher \in Launchers
      BY DEF Init
    <2> QED
      BY <1>2, <2>1, <2>2, <2>3 DEF Typed, TypeOK
  <1>4. Conserved
    BY DEF Init, Conserved
  <1>5. Order
    BY <1>2 DEF Order, Unborn, Reaped
  <1>6. HoldsEnd
    BY <1>2 DEF HoldsEnd, Alive
  <1>7. SeenEnd
    BY <1>2 DEF SeenEnd
  <1> QED
    BY <1>3, <1>4, <1>5, <1>6, <1>7 DEF IInv

\* The launcher holds both ends of a new pipe.
LEMMA MakePipeIInv ==
  ASSUME IInv, MakePipe
  PROVE  IInv'
  <1> USE DEF IInv, Typed, MakePipe, End, Goto, Processes, Alive
  <1>1. pc' \in [Processes -> Places]
    BY DEF Places, Children
  <1>2. TypeOK' /\ Conserved'
    BY CapacityAssumption, ChunksAssumption DEF TypeOK, Conserved, Children
  <1>3. Order' /\ HoldsEnd' /\ SeenEnd'
    BY DEF TypeOK, Order, Unborn, Reaped, HoldsEnd, SeenEnd, Children
  <1> QED
    BY <1>1, <1>2, <1>3

\* The launcher still has the preprocessor to start.
LEMMA ForkPbIInv ==
  ASSUME IInv, ForkPb
  PROVE  IInv'
  <1> USE DEF IInv, Typed, ForkPb, Fork, End, Goto, Processes, Alive
  <1>1. pc' \in [Processes -> Places]
    BY DEF Places, Children
  <1>2. TypeOK' /\ Conserved'
    BY CapacityAssumption, ChunksAssumption DEF TypeOK, Conserved, Children
  <1>3. Order' /\ HoldsEnd' /\ SeenEnd'
    BY DEF TypeOK, Order, Unborn, Reaped, HoldsEnd, SeenEnd, Children
  <1> QED
    BY <1>1, <1>2, <1>3

\* The preprocessor holds the end that the launcher may now give up.
LEMMA ForkCppIInv ==
  ASSUME IInv, ForkCpp
  PROVE  IInv'
  <1> USE DEF IInv, Typed, ForkCpp, Fork, End, Goto, PbHungUp, Processes, Alive
  <1>1. pc' \in [Processes -> Places]
    BY DEF Places, Children
  <1>2. TypeOK' /\ Conserved'
    BY CapacityAssumption, ChunksAssumption, ZenonT(60) DEF TypeOK, Conserved, Children
  <1>3. Order' /\ HoldsEnd' /\ SeenEnd'
    BY DEF TypeOK, Order, Unborn, Reaped, HoldsEnd, SeenEnd, Children
  <1> QED
    BY <1>1, <1>2, <1>3

\* The launcher has no child left to start.
LEMMA CloseEndsIInv ==
  ASSUME IInv, CloseEnds
  PROVE  IInv'
  <1> USE DEF IInv, Typed, CloseEnds, Goto, Processes, Alive
  <1>1. pc' \in [Processes -> Places]
    BY DEF Places, Children
  <1>2. TypeOK' /\ Conserved'
    BY CapacityAssumption, ChunksAssumption DEF TypeOK, Conserved, Children
  <1>3. Order' /\ HoldsEnd' /\ SeenEnd'
    BY DEF TypeOK, Order, Unborn, Reaped, HoldsEnd, SeenEnd, Children
  <1> QED
    BY <1>1, <1>2, <1>3

\* The child that is waited for has ended; with the second one both are reaped.
LEMMA WaitIInv ==
  ASSUME NEW child \in Children, IInv, Wait(child)
  PROVE  IInv'
  <1> USE DEF IInv, Typed, Wait, Processes, Alive
  <1>1. pc' \in [Processes -> Places]
    BY DEF Places, Children
  <1>2. /\ pc["parent"] \in {"wait", "wait again"} /\ pc'["parent"] \in {"wait again", "exited"}
        /\ pc'[child] = "reaped" /\ ~Alive(child) /\ ~Alive(child)'
        /\ \A q \in Children \ {child} : pc'[q] = pc[q]
    BY DEF Places, Children
  <1>3. TypeOK'
    <2>1. \A q \in readers \cup writers : q \in Processes /\ q # child /\ Alive(q)'
      <3> SUFFICES ASSUME NEW q \in readers \cup writers
                   PROVE  q \in Processes /\ q # child /\ Alive(q)'
        OBVIOUS
      <3>1. q \in Processes /\ Alive(q) /\ q # child
        BY <1>2 DEF TypeOK
      <3>2. q # "parent"
        BY <1>2 DEF HoldsEnd
      <3>3. CASE q \in Children
        BY <1>2, <3>1, <3>3
      <3> QED
        BY <3>1, <3>2, <3>3 DEF Children
    <2>2. pc'["pb"] \in {"none", "setup", "exec", "run", "resolve", "zombie", "reaped"}
          /\ pc'["cpp"] \in {"none", "setup", "exec", "run", "kill", "zombie", "reaped"}
      BY <1>2 DEF TypeOK, Children
    <2> QED
      BY <1>2, <2>1, <2>2, ZenonT(60) DEF TypeOK
  <1>4. Conserved'
    BY DEF Conserved
  <1>5. Order' /\ HoldsEnd' /\ SeenEnd'
    BY DEF TypeOK, Order, Unborn, Reaped, HoldsEnd, SeenEnd, Children
  <1> QED
    BY <1>1, <1>3, <1>4, <1>5

\* The preprocessor closes no end that it writes to.
LEMMA SetUpIInv ==
  ASSUME NEW p \in Children, IInv, SetUp(p)
  PROVE  IInv'
  <1> USE DEF IInv, Typed, SetUp, Goto, Processes, Alive
  <1>1. pc' \in [Processes -> Places]
    BY DEF Places, Children
  <1>2. TypeOK' /\ Conserved'
    BY CapacityAssumption, ChunksAssumption DEF TypeOK, Conserved, Children
  <1>3. Order' /\ HoldsEnd' /\ SeenEnd'
    BY DEF TypeOK, Order, Unborn, Reaped, HoldsEnd, SeenEnd, Children
  <1> QED
    BY <1>1, <1>2, <1>3

\* A child whose program is not there can write no more.
LEMMA ExecIInv ==
  ASSUME NEW p \in Children, IInv, Exec(p)
  PROVE  IInv'
  <1> USE DEF IInv, Typed, Exec, Goto, End, Processes, Alive
  <1>1. pc' \in [Processes -> Places]
    BY DEF Places, Children
  <1>2. TypeOK' /\ Conserved'
    BY CapacityAssumption, ChunksAssumption DEF TypeOK, Conserved, Children
  <1>3. Order' /\ HoldsEnd' /\ SeenEnd'
    BY DEF TypeOK, Order, Unborn, Reaped, HoldsEnd, SeenEnd, Children
  <1> QED
    BY <1>1, <1>2, <1>3

\* pb reads what was written and not read yet.
LEMMA PbReadIInv ==
  ASSUME IInv, PbRead
  PROVE  IInv'
  <1> USE DEF IInv, Typed, PbRead, End, Goto, Processes, Alive
  <1>1. pc' \in [Processes -> Places]
    BY DEF Places
  <1>2. /\ pipe' \in 0 .. Capacity /\ sent' \in 0 .. Chunks /\ got' \in 0 .. Chunks
        /\ Conserved'
    <2>1. /\ pipe \in Nat /\ pipe <= Capacity /\ sent \in Nat /\ sent <= Chunks
          /\ got \in Nat /\ sent = pipe + got
      BY CountsOK
    <2>2. pipe > 0 /\ pipe' = pipe - 1 /\ got' = got + 1 /\ sent' = sent
      OBVIOUS
    <2> QED
      BY <2>1, <2>2, CapacityAssumption, ChunksAssumption DEF Conserved
  <1>3. TypeOK'
    BY <1>2 DEF TypeOK
  <1>4. Order' /\ HoldsEnd' /\ SeenEnd'
    BY DEF TypeOK, Order, Unborn, Reaped, HoldsEnd, SeenEnd
  <1> QED
    BY <1>1, <1>2, <1>3, <1>4

\* An empty pipe without writers: no preprocessor runs, and the launcher starts none.
LEMMA PbEofIInv ==
  ASSUME IInv, PbEof
  PROVE  IInv'
  <1> USE DEF IInv, Typed, PbEof, Goto, Processes, Alive
  <1>1. pc' \in [Processes -> Places]
    BY DEF Places, Children
  <1>2. TypeOK' /\ Conserved'
    BY CapacityAssumption, ChunksAssumption DEF TypeOK, Conserved, Children
  <1>3. Order' /\ HoldsEnd' /\ SeenEnd'
    BY DEF TypeOK, Order, Unborn, Reaped, HoldsEnd, SeenEnd, Children
  <1> QED
    BY <1>1, <1>2, <1>3

\* pb has ended.
LEMMA PbPrintIInv ==
  ASSUME IInv, PbPrint
  PROVE  IInv'
  <1> USE DEF IInv, Typed, PbPrint, End, Goto, Processes, Alive
  <1>1. pc' \in [Processes -> Places]
    BY DEF Places, Children
  <1>2. TypeOK' /\ Conserved'
    BY CapacityAssumption, ChunksAssumption DEF TypeOK, Conserved, Children
  <1>3. Order' /\ HoldsEnd' /\ SeenEnd'
    BY DEF TypeOK, Order, Unborn, Reaped, HoldsEnd, SeenEnd, Children
  <1> QED
    BY <1>1, <1>2, <1>3

\* Neither child runs any more.
LEMMA KillPbIInv ==
  ASSUME IInv, KillPb
  PROVE  IInv'
  <1> USE DEF IInv, Typed, KillPb, PbHungUp, Processes, Alive
  <1>1. pc' \in [Processes -> Places]
    BY DEF Places, Children
  <1>2. TypeOK' /\ Conserved'
    BY CapacityAssumption, ChunksAssumption DEF TypeOK, Conserved, Children
  <1>3. Order' /\ HoldsEnd' /\ SeenEnd'
    BY DEF TypeOK, Order, Unborn, Reaped, HoldsEnd, SeenEnd, Children
  <1> QED
    BY <1>1, <1>2, <1>3

\* A chunk that is written is in the pipe; pb has not seen the end of the script.
LEMMA CppWriteIInv ==
  ASSUME IInv, CppWrite
  PROVE  IInv'
  <1> USE DEF IInv, Typed, CppWrite, Alive
  <1>1. /\ pipe' \in 0 .. Capacity /\ sent' \in 0 .. Chunks /\ got' \in 0 .. Chunks
        /\ Conserved'
    <2>1. /\ pipe \in Nat /\ sent \in Nat /\ got \in Nat /\ got <= Chunks
          /\ sent = pipe + got
      BY CountsOK
    <2>2. /\ sent < Chunks /\ pipe < Capacity
          /\ pipe' = pipe + 1 /\ sent' = sent + 1 /\ got' = got
      OBVIOUS
    <2> QED
      BY <2>1, <2>2, CapacityAssumption, ChunksAssumption DEF Conserved
  <1>2. TypeOK'
    BY <1>1 DEF TypeOK
  <1>3. Order' /\ HoldsEnd' /\ SeenEnd'
    BY DEF Order, Unborn, Reaped, HoldsEnd, SeenEnd
  <1> QED
    BY <1>1, <1>2, <1>3

\* The preprocessor has ended.
LEMMA CppEndIInv ==
  ASSUME IInv, CppEnd
  PROVE  IInv'
  <1> USE DEF IInv, Typed, CppEnd, End, Goto, Processes, Alive
  <1>1. pc' \in [Processes -> Places]
    BY DEF Places, Children
  <1>2. TypeOK' /\ Conserved'
    BY CapacityAssumption, ChunksAssumption DEF TypeOK, Conserved, Children
  <1>3. Order' /\ HoldsEnd' /\ SeenEnd'
    BY DEF TypeOK, Order, Unborn, Reaped, HoldsEnd, SeenEnd, Children
  <1> QED
    BY <1>1, <1>2, <1>3

\* Whatever the three processes do, and in which order, the invariant is kept.
THEOREM Invariance == Spec => []IInv
  <1>1. IInv /\ [Next]_vars => IInv'
    <2> SUFFICES ASSUME IInv, [Next]_vars PROVE IInv'
      OBVIOUS
    <2>1. CASE Parent
      BY <2>1, MakePipeIInv, ForkPbIInv, ForkCppIInv, CloseEndsIInv, WaitIInv DEF Parent
    <2>2. CASE Pb
      BY <2>2, SetUpIInv, ExecIInv, PbReadIInv, PbEofIInv, PbPrintIInv DEF Pb, Children
    <2>3. CASE Cpp
      BY <2>3, SetUpIInv, ExecIInv, KillPbIInv, CppWriteIInv, CppEndIInv DEF Cpp, Children
    <2>4. CASE UNCHANGED vars
      BY <2>4 DEF vars, IInv, Typed, TypeOK, Conserved, Order, Unborn, Reaped, HoldsEnd, SeenEnd, Alive
    <2> QED
      BY <2>1, <2>2, <2>3, <2>4 DEF Next
  <1> QED
    BY InitIInv, <1>1, PTL DEF Spec
-----------------------------------------------------------------------------
\* The pipe never holds more than it can, and only a process that runs holds an
\* end of it, however many chunks the script has.
THEOREM TypeCorrect == Spec => []TypeOK
  BY Invariance, PTL DEF IInv, Typed

\* With either launcher pb resolves only a script that it has read to the end,
\* whoever fails, and whenever.
THEOREM WholeScriptAlways == Spec => []WholeScript
  <1>1. IInv => WholeScript
    <2>1. IInv => got \in Int
      BY CountsOK
    <2>2. IInv /\ pc["pb"] = "resolve" => ~Alive("cpp") /\ sent = 0 + got
      BY DEF IInv, Conserved, SeenEnd
    <2> QED
      BY <2>1, <2>2 DEF WholeScript
  <1> QED
    BY Invariance, <1>1, PTL

\* The two waits of the launcher are for its two children.
THEOREM AllReapedAlways == Spec => []AllReaped
  <1>1. IInv => AllReaped
    BY DEF IInv, Order, Reaped, AllReaped, Children
  <1> QED
    BY Invariance, <1>1, PTL
=============================================================================
