--------------------------- MODULE ResolverProofs ---------------------------
(***************************************************************************)
(* The resolver's types, for every script that the parser can build and    *)
(* for all bounds: TypeInv is inductive.  Then, that it implements         *)
(* Derivation.                                                             *)
(*                                                                         *)
(* First, what the operations on texts, variables and the operand stack do *)
(* to a memory: they keep it one (IsMemory), and how its parts change.     *)
(* Then the steps.  A step does one of a few things to the waiting calls   *)
(* (Answer, Leave, Continue, Call, InvokeOn); a lemma for each says that   *)
(* the types survive it, and the lemma of an action says that the action   *)
(* gives it what it asks for.                                              *)
(***************************************************************************)
EXTENDS ResolverInv, ResolverRefinement, Recursion, SequenceTheorems, TLAPS

\* Recording a fault leaves the memory well-formed and its parts as they are.
LEMMA FailMemory ==
  ASSUME NEW m, IsMemory(m), NEW what \in Faults
  PROVE  /\ IsMemory(Fail(m, what))
         /\ Fail(m, what).heap = m.heap /\ Fail(m, what).vars = m.vars
         /\ Fail(m, what).stack = m.stack
  BY DEF IsMemory, Fail, Faults

\* Reading a text changes no part of the memory.
LEMMA ReadMemory ==
  ASSUME NEW m, IsMemory(m), NEW p
  PROVE  /\ IsMemory(Read(m, p))
         /\ Read(m, p).heap = m.heap /\ Read(m, p).vars = m.vars
         /\ Read(m, p).stack = m.stack
  BY FailMemory DEF Read, Faults

\* A cell stays one when the heap grows.
LEMMA MonoCells ==
  ASSUME NEW h \in Nat, NEW k \in Nat, h <= k
  PROVE  Cells(h) \subseteq Cells(k)
  BY DEF Cells, StrCells

\* malloc(): the heap has one more cell, the last one, and nothing else changes.
LEMMA AllocMemory ==
  ASSUME NEW m, IsMemory(m), NEW text
  PROVE  /\ IsMemory(Alloc(m, text))
         /\ Newest(Alloc(m, text)) = Len(m.heap) + 1
         /\ Alloc(m, text).heap = Append(m.heap, [text |-> text, state |-> "live"])
         /\ Alloc(m, text).vars = m.vars /\ Alloc(m, text).stack = m.stack
         /\ Alloc(m, text).fault = m.fault
  <1> DEFINE a == Alloc(m, text)
  <1>1. /\ DOMAIN a = {"heap", "vars", "stack", "fault"}
        /\ a.heap = Append(m.heap, [text |-> text, state |-> "live"])
        /\ a.vars = m.vars /\ a.stack = m.stack /\ a.fault = m.fault
    BY DEF Alloc, IsMemory
  <1>2. IsHeap(m.heap)
    BY DEF IsMemory
  <1>3. Len(a.heap) = Len(m.heap) + 1 /\ IsHeap(a.heap)
    BY <1>1, <1>2 DEF IsHeap, States
  <1>4. Cells(Len(m.heap)) \subseteq Cells(Len(a.heap))
    BY <1>2, <1>3, MonoCells DEF IsHeap
  <1>5. IsMemory(a)
    BY <1>1, <1>3, <1>4 DEF IsMemory
  <1> QED
    BY <1>1, <1>3, <1>5 DEF Newest

\* free() of a pointer keeps the size of the heap, the variables and the stack.
LEMMA FreeMemory ==
  ASSUME NEW m, IsMemory(m), NEW p \in 0 .. Len(m.heap)
  PROVE  /\ IsMemory(Free(m, p))
         /\ Len(Free(m, p).heap) = Len(m.heap)
         /\ Free(m, p).vars = m.vars /\ Free(m, p).stack = m.stack
  <1>1. CASE p = Null
    BY <1>1 DEF Free
  <1>2. CASE p # Null /\ m.heap[p].state # "live"
    <2>1. Free(m, p) = Fail(m, "bad free") \/ Free(m, p) = Fail(m, "stale")
      BY <1>2 DEF Free
    <2> QED
      BY <2>1, FailMemory DEF Faults
  <1>3. CASE p # Null /\ m.heap[p].state = "live"
    <2> DEFINE f == [m EXCEPT !.heap[p].state = "freed"]
    <2>1. Free(m, p) = f
      BY <1>3 DEF Free
    <2>2. /\ DOMAIN f = {"heap", "vars", "stack", "fault"}
          /\ f.heap = [m.heap EXCEPT ![p].state = "freed"]
          /\ f.vars = m.vars /\ f.stack = m.stack /\ f.fault = m.fault
      BY DEF IsMemory
    <2>3. IsHeap(m.heap) /\ p \in 1 .. Len(m.heap)
      BY <1>3 DEF IsMemory, Null
    <2>4. Len(f.heap) = Len(m.heap) /\ IsHeap(f.heap)
      BY <2>2, <2>3 DEF IsHeap, States
    <2> QED
      BY <2>1, <2>2, <2>4 DEF IsMemory
  <1> QED
    BY <1>1, <1>2, <1>3

\* So does free() of a list of pointers.
LEMMA FreeAllMemory ==
  ASSUME NEW m, IsMemory(m), NEW ps \in Seq(0 .. Len(m.heap))
  PROVE  /\ IsMemory(FreeAll(m, ps))
         /\ Len(FreeAll(m, ps).heap) = Len(m.heap)
         /\ FreeAll(m, ps).vars = m.vars /\ FreeAll(m, ps).stack = m.stack
  <1> DEFINE heap == [p \in DOMAIN m.heap |->
                        IF p \in ToSet(ps) /\ m.heap[p].state = "live"
                        THEN [m.heap[p] EXCEPT !.state = "freed"] ELSE m.heap[p]]
             f == [m EXCEPT !.heap = heap]
  <1>1. FreeAll(m, ps) = f \/ \E what \in {"bad free", "stale"} : FreeAll(m, ps) = Fail(f, what)
    BY DEF FreeAll
  <1>2. /\ DOMAIN f = {"heap", "vars", "stack", "fault"}
        /\ f.heap = heap
        /\ f.vars = m.vars /\ f.stack = m.stack /\ f.fault = m.fault
    BY DEF IsMemory
  <1>3. IsHeap(m.heap)
    BY DEF IsMemory
  <1>4. Len(heap) = Len(m.heap) /\ IsHeap(heap)
    BY <1>3 DEF IsHeap, States
  <1>5. IsMemory(f)
    BY <1>2, <1>4 DEF IsMemory
  <1>6. Len(f.heap) = Len(m.heap)
    BY <1>2, <1>4
  <1> HIDE DEF f
  <1>7. ASSUME NEW what \in {"bad free", "stale"}
        PROVE  /\ IsMemory(Fail(f, what)) /\ Fail(f, what).heap = f.heap
               /\ Fail(f, what).vars = m.vars /\ Fail(f, what).stack = m.stack
    <2>1. what \in Faults
      BY DEF Faults
    <2> QED
      BY <1>2, <1>5, <2>1, FailMemory
  <1> QED
    BY <1>1, <1>2, <1>5, <1>6, <1>7

\* strdup() adds one cell to the heap.
LEMMA StrdupMemory ==
  ASSUME NEW m, IsMemory(m), NEW p
  PROVE  /\ IsMemory(Strdup(m, p))
         /\ Newest(Strdup(m, p)) = Len(m.heap) + 1
         /\ Len(Strdup(m, p).heap) = Len(m.heap) + 1
         /\ Strdup(m, p).vars = m.vars /\ Strdup(m, p).stack = m.stack
  <1>1. IsMemory(Read(m, p)) /\ Read(m, p).heap = m.heap
        /\ Read(m, p).vars = m.vars /\ Read(m, p).stack = m.stack
    BY ReadMemory
  <1> QED
    BY <1>1, AllocMemory DEF Strdup, Newest

\* dstrcat() adds one cell to the heap, whatever it frees.
LEMMA DstrcatMemory ==
  ASSUME NEW m, IsMemory(m), NEW a \in 0 .. Len(m.heap), NEW b \in 0 .. Len(m.heap)
  PROVE  /\ IsMemory(Dstrcat(m, a, b))
         /\ Newest(Dstrcat(m, a, b)) = Len(m.heap) + 1
         /\ Len(Dstrcat(m, a, b).heap) = Len(m.heap) + 1
         /\ Dstrcat(m, a, b).vars = m.vars /\ Dstrcat(m, a, b).stack = m.stack
  <1> DEFINE readA == IF a = Null THEN m ELSE Read(m, a)
             readB == IF b = Null THEN readA ELSE Read(readA, b)
             joined == Alloc(readB, TextAt(m, a) \o TextAt(m, b))
             once == Free(joined, a)
  <1>1. IsMemory(readA) /\ readA.heap = m.heap /\ readA.vars = m.vars /\ readA.stack = m.stack
    BY ReadMemory
  <1>2. IsMemory(readB) /\ readB.heap = m.heap /\ readB.vars = m.vars /\ readB.stack = m.stack
    <2> HIDE DEF readA
    <2> QED BY <1>1, ReadMemory
  <1> HIDE DEF readB
  <1>3. /\ IsMemory(joined) /\ Len(joined.heap) = Len(m.heap) + 1
        /\ joined.vars = m.vars /\ joined.stack = m.stack
    BY <1>2, AllocMemory DEF Newest
  <1>4. Dstrcat(m, a, b) = Free(once, b)
    BY DEF Dstrcat, readB
  <1>5. Len(m.heap) \in Nat
    BY DEF IsMemory, IsHeap
  <1> HIDE DEF joined
  <1>6. /\ IsMemory(once) /\ Len(once.heap) = Len(m.heap) + 1
        /\ once.vars = m.vars /\ once.stack = m.stack
    BY <1>3, <1>5, FreeMemory
  <1> HIDE DEF once
  <1> QED
    BY <1>4, <1>5, <1>6, FreeMemory DEF Newest

\* var_put() puts a cell in a variable and touches nothing else.
LEMMA VarPutMemory ==
  ASSUME NEW m, IsMemory(m), NEW name, NEW cell \in Cells(Len(m.heap))
  PROVE  /\ IsMemory(VarPut(m, name, cell))
         /\ VarPut(m, name, cell).heap = m.heap /\ VarPut(m, name, cell).stack = m.stack
         /\ VarPut(m, name, cell).vars =
              [n \in DOMAIN m.vars \cup {name} |-> IF n = name THEN cell ELSE m.vars[n]]
  BY DEF IsMemory, VarPut

\* var_fetch() returns a pointer, and may have made a text for it.
LEMMA VarFetchMemory ==
  ASSUME NEW m, IsMemory(m), NEW name
  PROVE  /\ IsMemory(VarFetch(m, name))
         /\ VarFetched(m, name) \in 0 .. Len(VarFetch(m, name).heap)
         /\ Len(VarFetch(m, name).heap) \in {Len(m.heap), Len(m.heap) + 1}
         /\ VarFetch(m, name).vars = m.vars /\ VarFetch(m, name).stack = m.stack
  <1>0. Len(m.heap) \in Nat
    BY DEF IsMemory, IsHeap
  <1>1. CASE Holds(m, name, "int_t")
    <2> DEFINE a == Alloc(m, Numeral(m.vars[name].v))
    <2>1. VarFetch(m, name) = a /\ VarFetched(m, name) = Newest(a)
      BY <1>1 DEF VarFetch, VarFetched
    <2>2. /\ IsMemory(a) /\ Newest(a) = Len(m.heap) + 1 /\ Len(a.heap) = Len(m.heap) + 1
          /\ a.vars = m.vars /\ a.stack = m.stack
      BY AllocMemory DEF Newest
    <2> HIDE DEF a
    <2> QED
      BY <1>0, <2>1, <2>2
  <1>2. CASE ~Holds(m, name, "int_t")
    <2>1. VarFetch(m, name) = m
      BY <1>2 DEF VarFetch
    <2>2. VarFetched(m, name) \in 0 .. Len(m.heap)
      BY <1>0, <1>2 DEF VarFetched, Holds, Null, IsMemory, Cells, IntCells, StrCells
    <2> QED
      BY <2>1, <2>2
  <1> QED
    BY <1>1, <1>2

\* A copy of an actual parameter is a new cell.
LEMMA CopyActualMemory ==
  ASSUME NEW m, IsMemory(m), NEW env, NEW i
  PROVE  /\ IsMemory(CopyActual(m, env, i))
         /\ Newest(CopyActual(m, env, i)) = Len(m.heap) + 1
         /\ Len(CopyActual(m, env, i).heap) = Len(m.heap) + 1
         /\ CopyActual(m, env, i).vars = m.vars /\ CopyActual(m, env, i).stack = m.stack
  BY AllocMemory, StrdupMemory DEF CopyActual, Newest

\* What a sequence is without its last n elements.
LEMMA PrefixOf ==
  ASSUME NEW S, NEW s \in Seq(S), NEW n \in 0 .. Len(s)
  PROVE  /\ SubSeq(s, 1, n) \in Seq(S) /\ Len(SubSeq(s, 1, n)) = n
         /\ \A i \in 1 .. n : SubSeq(s, 1, n)[i] = s[i]
  OBVIOUS

\* A push adds its cell to a stack that has room, and fails on a full one.
LEMMA PushMemory ==
  ASSUME NEW m, IsMemory(m), NEW cell \in Cells(Len(m.heap))
  PROVE  /\ IsMemory(Push(m, cell))
         /\ Push(m, cell).heap = m.heap /\ Push(m, cell).vars = m.vars
         /\ Len(m.stack) < StackSize => Push(m, cell).stack = Append(m.stack, cell)
         /\ Len(m.stack) = StackSize => Push(m, cell) = Fail(m, "overflow")
  <1>1. CASE Len(m.stack) = StackSize
    <2>1. Push(m, cell) = Fail(m, "overflow")
      BY <1>1 DEF Push
    <2>2. /\ IsMemory(Fail(m, "overflow")) /\ Fail(m, "overflow").heap = m.heap
          /\ Fail(m, "overflow").vars = m.vars
      BY FailMemory DEF Faults
    <2> QED
      BY <1>1, <2>1, <2>2, StackAssumption
  <1>2. CASE Len(m.stack) # StackSize
    <2> DEFINE f == [m EXCEPT !.stack = Append(m.stack, cell)]
    <2>1. Push(m, cell) = f
      BY <1>2 DEF Push
    <2>2. /\ DOMAIN f = {"heap", "vars", "stack", "fault"} /\ f.heap = m.heap
          /\ f.vars = m.vars /\ f.stack = Append(m.stack, cell) /\ f.fault = m.fault
      BY DEF IsMemory
    <2> HIDE DEF f
    <2>3. f.stack \in Seq(Cells(Len(m.heap))) /\ Len(f.stack) <= StackSize
      BY <1>2, <2>2, StackAssumption DEF IsMemory
    <2> QED
      BY <1>2, <2>1, <2>2, <2>3 DEF IsMemory
  <1> QED
    BY <1>1, <1>2

\* A pop takes n cells off a stack that has them, and fails on a shorter one.
LEMMA PopMemory ==
  ASSUME NEW m, IsMemory(m), NEW n \in Nat
  PROVE  /\ IsMemory(Pop(m, n))
         /\ Pop(m, n).heap = m.heap /\ Pop(m, n).vars = m.vars
         /\ n <= Len(m.stack) => /\ Pop(m, n).stack = SubSeq(m.stack, 1, Len(m.stack) - n)
                                 /\ Pop(m, n).fault = m.fault
         /\ n > Len(m.stack) => Pop(m, n) = Fail(m, "underflow")
  <1>0. Len(m.stack) \in Nat /\ m.stack \in Seq(Cells(Len(m.heap)))
    BY DEF IsMemory
  <1>1. CASE Len(m.stack) < n
    <2>1. Pop(m, n) = Fail(m, "underflow")
      BY <1>1 DEF Pop
    <2>2. /\ IsMemory(Fail(m, "underflow")) /\ Fail(m, "underflow").heap = m.heap
          /\ Fail(m, "underflow").vars = m.vars
      BY FailMemory DEF Faults
    <2> QED
      BY <1>0, <1>1, <2>1, <2>2
  <1>2. CASE ~(Len(m.stack) < n)
    <2> DEFINE st == SubSeq(m.stack, 1, Len(m.stack) - n)
               f == [m EXCEPT !.stack = st]
    <2>1. Pop(m, n) = f
      BY <1>2 DEF Pop
    <2>2. st \in Seq(Cells(Len(m.heap))) /\ Len(st) = Len(m.stack) - n
      BY <1>0, <1>2, PrefixOf
    <2> HIDE DEF st
    <2>3. /\ DOMAIN f = {"heap", "vars", "stack", "fault"} /\ f.heap = m.heap
          /\ f.vars = m.vars /\ f.stack = st /\ f.fault = m.fault
      BY DEF IsMemory
    <2> HIDE DEF f
    <2>4. Len(f.stack) <= StackSize
      BY <1>0, <2>2, <2>3, StackAssumption DEF IsMemory
    <2>5. IsMemory(f)
      BY <2>2, <2>3, <2>4 DEF IsMemory
    <2> QED
      BY <1>0, <1>2, <2>1, <2>3, <2>5 DEF st
  <1> QED
    BY <1>1, <1>2

\* The cells that an operation looks at are cells of the stack.
LEMMA CellOnStack ==
  ASSUME NEW m, IsMemory(m), NEW n \in 1 .. Len(m.stack)
  PROVE  Cell(m, n) \in Cells(Len(m.heap))
  BY DEF IsMemory, Cell

\* What an operator leaves for two integers is an integer.
LEMMA ResultsAreInts ==
  ASSUME NEW op \in Operators, NEW a \in Int, NEW b \in Int
  PROVE  Results(op, a, b) \subseteq Int
  <1>1. Magnitude(b) \in Nat /\ (b # 0 => Magnitude(b) > 0) /\ Magnitude(a) \in Nat
    BY DEF Magnitude
  <1>2. b # 0 => Quotient(a, b) \in Int
    <2> SUFFICES ASSUME b # 0 PROVE Quotient(a, b) \in Int
      OBVIOUS
    <2>1. Magnitude(a) \div Magnitude(b) \in Int
      BY <1>1
    <2> QED
      BY <2>1 DEF Quotient
  <1>3. b # 0 => Remainder(a, b) \in Int
    BY <1>2 DEF Remainder
  <1>4. Magnitude(b - a + 1) \in Nat
    BY DEF Magnitude
  <1>5. CASE op = "DIV"
    BY <1>2, <1>5 DEF Results
  <1>6. CASE op = "MOD"
    BY <1>3, <1>6 DEF Results
  <1>7. CASE op = "RANDOM"
    BY <1>4, <1>7 DEF Results
  <1>8. CASE op \in {"ADD", "SUB", "MUL", "LESSER", "GREATER"}
    BY <1>8 DEF Results
  <1> QED
    BY <1>5, <1>6, <1>7, <1>8 DEF Operators

\* An operand as a text.
LEMMA AsTextMemory ==
  ASSUME NEW m, IsMemory(m), NEW cell \in Cells(Len(m.heap))
  PROVE  /\ IsMemory(AsText(m, cell))
         /\ TextOf(AsText(m, cell), cell) \in 0 .. Len(AsText(m, cell).heap)
         /\ Len(AsText(m, cell).heap) \in {Len(m.heap), Len(m.heap) + 1}
         /\ AsText(m, cell).vars = m.vars /\ AsText(m, cell).stack = m.stack
         /\ AsText(m, cell).fault = m.fault
  <1>0. Len(m.heap) \in Nat
    BY DEF IsMemory, IsHeap
  <1>1. CASE cell.type = "int_t"
    <2> DEFINE a == Alloc(m, Numeral(cell.v))
    <2>1. AsText(m, cell) = a /\ TextOf(a, cell) = Newest(a)
      BY <1>1 DEF AsText, TextOf
    <2>2. /\ IsMemory(a) /\ Newest(a) = Len(m.heap) + 1 /\ Len(a.heap) = Len(m.heap) + 1
          /\ a.vars = m.vars /\ a.stack = m.stack /\ a.fault = m.fault
      BY AllocMemory DEF Newest
    <2> HIDE DEF a
    <2> QED
      BY <1>0, <2>1, <2>2
  <1>2. CASE cell.type # "int_t"
    <2>1. AsText(m, cell) = m /\ TextOf(m, cell) = cell.v
      BY <1>2 DEF AsText, TextOf
    <2>2. cell.v \in 0 .. Len(m.heap)
      BY <1>2 DEF Cells, IntCells, StrCells
    <2> QED
      BY <2>1, <2>2
  <1> QED
    BY <1>1, <1>2

\* concat() makes one new text, and none for two null pointers.
LEMMA ConcatMemory ==
  ASSUME NEW m, IsMemory(m), NEW a \in 0 .. Len(m.heap), NEW b \in 0 .. Len(m.heap)
  PROVE  /\ IsMemory(Concat(m, a, b))
         /\ Concat(m, a, b).vars = m.vars /\ Concat(m, a, b).stack = m.stack
         /\ IF a = Null /\ b = Null THEN Len(Concat(m, a, b).heap) = Len(m.heap)
            ELSE Len(Concat(m, a, b).heap) = Len(m.heap) + 1
  <1> DEFINE readA == IF a = Null THEN m ELSE Read(m, a)
             readB == IF b = Null THEN readA ELSE Read(readA, b)
             joined == Alloc(readB, TextAt(m, a) \o TextAt(m, b))
  <1>1. IsMemory(readA) /\ readA.heap = m.heap /\ readA.vars = m.vars /\ readA.stack = m.stack
    BY ReadMemory
  <1>2. IsMemory(readB) /\ readB.heap = m.heap /\ readB.vars = m.vars /\ readB.stack = m.stack
    <2> HIDE DEF readA
    <2> QED BY <1>1, ReadMemory
  <1> HIDE DEF readB
  <1>3. /\ IsMemory(joined) /\ Len(joined.heap) = Len(m.heap) + 1
        /\ joined.vars = m.vars /\ joined.stack = m.stack
    BY <1>2, AllocMemory DEF Newest
  <1>4. Concat(m, a, b) = IF a = Null /\ b = Null THEN m ELSE joined
    BY DEF Concat, readB
  <1> QED
    BY <1>3, <1>4

\* A pointer that is in the heap stays in the heap.
LEMMA MorePointers ==
  ASSUME NEW h \in Nat, NEW k \in Nat, h <= k
  PROVE  /\ 0 .. h \subseteq 0 .. k
         /\ Cells(h) \subseteq Cells(k)
  BY MonoCells

\* ADD with a text operand pushes one text.
LEMMA JoinMemory ==
  ASSUME NEW m, IsMemory(m), Len(m.stack) < StackSize,
         NEW left \in Cells(Len(m.heap)), NEW right \in Cells(Len(m.heap))
  PROVE  /\ IsMemory(Join(m, left, right))
         /\ Len(m.heap) <= Len(Join(m, left, right).heap)
         /\ Join(m, left, right).vars = m.vars
         /\ \E p \in 0 .. Len(Join(m, left, right).heap) :
              Join(m, left, right).stack = Append(m.stack, StrCell(p))
  <1> DEFINE m0 == AsText(m, right)
             m1 == AsText(m0, left)
             s0 == TextOf(m0, right)
             s1 == TextOf(m1, left)
             m2 == Concat(m1, s1, s0)
             s  == IF s0 = Null /\ s1 = Null THEN Null ELSE Newest(m2)
             m3 == Push(m2, StrCell(s))
             m4 == Free(m3, s0)
  <1>0. Join(m, left, right) = Free(m4, s1)
    BY DEF Join
  <1>1. Len(m.heap) \in Nat
    BY DEF IsMemory, IsHeap
  <1>2. /\ IsMemory(m0) /\ s0 \in 0 .. Len(m0.heap)
        /\ m0.vars = m.vars /\ m0.stack = m.stack
        /\ Len(m0.heap) \in Nat /\ Len(m.heap) <= Len(m0.heap)
    BY <1>1, AsTextMemory
  <1>3. left \in Cells(Len(m0.heap))
    <2> HIDE DEF m0
    <2> QED BY <1>1, <1>2, MorePointers
  <1> HIDE DEF m0, s0
  <1>4. /\ IsMemory(m1) /\ s1 \in 0 .. Len(m1.heap)
        /\ m1.vars = m.vars /\ m1.stack = m.stack
        /\ Len(m1.heap) \in Nat /\ Len(m0.heap) <= Len(m1.heap)
    BY <1>2, <1>3, AsTextMemory
  <1> HIDE DEF m1, s1
  <1>5. s0 \in 0 .. Len(m1.heap)
    BY <1>2, <1>4
  <1>6. /\ IsMemory(m2) /\ m2.vars = m.vars /\ m2.stack = m.stack
        /\ IF s0 = Null /\ s1 = Null THEN Len(m2.heap) = Len(m1.heap)
           ELSE Len(m2.heap) = Len(m1.heap) + 1
    BY <1>4, <1>5, ConcatMemory
  <1> HIDE DEF m2
  <1>7. /\ s \in 0 .. Len(m2.heap) /\ s0 \in 0 .. Len(m2.heap) /\ s1 \in 0 .. Len(m2.heap)
        /\ Len(m2.heap) \in Nat /\ Len(m.heap) <= Len(m2.heap)
    BY <1>1, <1>2, <1>4, <1>5, <1>6 DEF Newest, Null
  <1> HIDE DEF s
  <1>8. StrCell(s) \in Cells(Len(m2.heap))
    BY <1>7 DEF StrCell, Cells, StrCells
  <1>9. /\ IsMemory(m3) /\ m3.heap = m2.heap /\ m3.vars = m.vars
        /\ m3.stack = Append(m.stack, StrCell(s))
    BY <1>6, <1>8, PushMemory
  <1> HIDE DEF m3
  <1>10. /\ IsMemory(m4) /\ Len(m4.heap) = Len(m2.heap) /\ m4.vars = m.vars
         /\ m4.stack = Append(m.stack, StrCell(s))
    BY <1>7, <1>9, FreeMemory
  <1> HIDE DEF m4
  <1>11. /\ IsMemory(Free(m4, s1)) /\ Len(Free(m4, s1).heap) = Len(m2.heap)
         /\ Free(m4, s1).vars = m.vars /\ Free(m4, s1).stack = Append(m.stack, StrCell(s))
    BY <1>7, <1>10, FreeMemory
  <1> QED
    BY <1>0, <1>7, <1>11

\* What an instruction does to the memory as far as the types of its parts go.
Moves(m, m2) ==
  /\ IsMemory(m2)
  /\ Len(m.heap) <= Len(m2.heap)

Top(m, n) == SubSeq(m.stack, 1, Len(m.stack) - n)

\* What an operator does to the stack.
OperateLeaves(m, op, m2) ==
  \/ m2.fault # "none"
  \/ /\ Len(m.stack) >= 2
     /\ \/ /\ Cell(m, 2).type = "int_t" /\ Cell(m, 1).type = "int_t"
           /\ \E c \in IntCells : m2.stack = Append(Top(m, 2), c)
        \/ /\ ~(Cell(m, 2).type = "int_t" /\ Cell(m, 1).type = "int_t")
           /\ op = "ADD"
           /\ \E c \in StrCells(Len(m2.heap)) : m2.stack = Append(Top(m, 2), c)
        \/ /\ ~(Cell(m, 2).type = "int_t" /\ Cell(m, 1).type = "int_t")
           /\ op # "ADD"
           /\ m2.stack = Top(m, 2)

\* A recorded fault is one.
LEMMA FailIsFault ==
  ASSUME NEW m, IsMemory(m), NEW what \in Faults \ {"none"}
  PROVE  Fail(m, what).fault # "none"
  BY DEF Fail, IsMemory

\* An operator keeps the memory well-formed, and leaves the stack as OperateLeaves says.
LEMMA OperateMemory ==
  ASSUME NEW m, IsMemory(m), NEW op \in Operators, NEW m2 \in Operate(m, op)
  PROVE  /\ Moves(m, m2) /\ m2.vars = m.vars
         /\ OperateLeaves(m, op, m2)
  <1> DEFINE left == Cell(m, 2)
             right == Cell(m, 1)
             popped == Pop(m, 2)
  <1>0. Len(m.heap) \in Nat /\ Len(m.stack) \in Nat /\ Len(m.stack) <= StackSize
        /\ m.stack \in Seq(Cells(Len(m.heap)))
    BY DEF IsMemory, IsHeap
  <1>1. /\ IsMemory(popped) /\ popped.heap = m.heap /\ popped.vars = m.vars
    BY PopMemory
  <1>2. CASE Len(m.stack) < 2
    <2>1. m2 = Fail(m, "underflow")
      BY <1>0, <1>2, PopMemory DEF Operate
    <2>2. /\ IsMemory(Fail(m, "underflow")) /\ Fail(m, "underflow").heap = m.heap
          /\ Fail(m, "underflow").vars = m.vars /\ Fail(m, "underflow").fault # "none"
      BY FailMemory, FailIsFault DEF Faults
    <2> QED
      BY <1>0, <2>1, <2>2 DEF Moves, OperateLeaves
  <1>3. CASE Len(m.stack) >= 2
    <2>1. /\ left \in Cells(Len(m.heap)) /\ right \in Cells(Len(m.heap))
          /\ popped.stack = Top(m, 2) /\ Len(popped.stack) = Len(m.stack) - 2
          /\ popped.fault = m.fault
      <3>1. left \in Cells(Len(m.heap)) /\ right \in Cells(Len(m.heap))
        BY <1>0, <1>3, CellOnStack
      <3>2. popped.stack = Top(m, 2) /\ popped.fault = m.fault
        BY <1>3, PopMemory DEF Top
      <3>3. Len(Top(m, 2)) = Len(m.stack) - 2
        BY <1>0, <1>3, PrefixOf DEF Top
      <3> QED
        BY <3>1, <3>2, <3>3
    <2>2. CASE left.type = "int_t" /\ right.type = "int_t"
      <3>1. left.v \in Int /\ right.v \in Int
        BY <2>1, <2>2 DEF Cells, IntCells, StrCells
      <3>2. CASE m2 = Fail(popped, "trap")
        <4> HIDE DEF popped
        <4>1. IsMemory(m2) /\ m2.heap = popped.heap /\ m2.vars = popped.vars
          BY <1>1, <3>2, FailMemory DEF Faults
        <4>2. m2.fault # "none"
          BY <1>1, <3>2, FailIsFault DEF Faults
        <4> QED
          BY <1>0, <1>1, <4>1, <4>2 DEF Moves, OperateLeaves
      <3>3. CASE \E r \in Results(op, left.v, right.v) : m2 = Push(popped, IntCell(r))
        <4>1. PICK r \in Int : m2 = Push(popped, IntCell(r))
          BY <3>1, <3>3, ResultsAreInts
        <4>2. IntCell(r) \in IntCells /\ IntCell(r) \in Cells(Len(m.heap))
          BY DEF IntCell, Cells, IntCells
        <4> HIDE DEF popped
        <4>3. /\ IsMemory(m2) /\ m2.heap = popped.heap /\ m2.vars = popped.vars
              /\ m2.stack = Append(popped.stack, IntCell(r))
          <5>1. Len(popped.stack) < StackSize
            BY <1>0, <2>1, StackAssumption
          <5> QED BY <1>1, <4>1, <4>2, <5>1, PushMemory
        <4> HIDE DEF left, right
        <4>4. \E c \in IntCells : m2.stack = Append(Top(m, 2), c)
          BY <2>1, <4>2, <4>3
        <4> QED
          BY <1>0, <1>1, <1>3, <2>2, <4>3, <4>4 DEF Moves, OperateLeaves, left, right
      <3> QED
        BY <1>0, <1>3, <2>2, <3>2, <3>3 DEF Operate
    <2>3. CASE ~(left.type = "int_t" /\ right.type = "int_t") /\ op = "ADD"
      <3>1. m2 = Join(popped, left, right)
        BY <1>0, <1>3, <2>3 DEF Operate
      <3>2. Len(popped.stack) < StackSize
        BY <1>0, <2>1, StackAssumption
      <3>5. left \in Cells(Len(popped.heap)) /\ right \in Cells(Len(popped.heap))
        BY <1>1, <2>1
      <3> HIDE DEF popped, left, right
      <3>3. /\ IsMemory(m2) /\ Len(popped.heap) <= Len(m2.heap) /\ m2.vars = popped.vars
            /\ \E p \in 0 .. Len(m2.heap) : m2.stack = Append(popped.stack, StrCell(p))
        BY <1>1, <3>1, <3>2, <3>5, JoinMemory
      <3>4. \E c \in StrCells(Len(m2.heap)) : m2.stack = Append(Top(m, 2), c)
        BY <2>1, <3>3 DEF StrCell, StrCells
      <3> QED
        BY <1>1, <1>3, <2>3, <3>3, <3>4 DEF Moves, OperateLeaves, left, right
    <2>4. CASE ~(left.type = "int_t" /\ right.type = "int_t") /\ op # "ADD"
      <3>1. m2 = popped
        BY <1>0, <1>3, <2>4 DEF Operate
      <3> HIDE DEF popped
      <3> QED
        BY <1>0, <1>1, <1>3, <2>1, <2>4, <3>1 DEF Moves, OperateLeaves
    <2> QED
      BY <2>2, <2>3, <2>4
  <1> QED
    BY <1>0, <1>2, <1>3

\* SET moves the top cell of the stack into a variable.
LEMMA SetMemory ==
  ASSUME NEW m, IsMemory(m), NEW name
  PROVE  /\ IsMemory(Set(m, name)) /\ Set(m, name).heap = m.heap
         /\ \/ Set(m, name).fault # "none" /\ Set(m, name).vars = m.vars
            \/ /\ Len(m.stack) >= 1 /\ Set(m, name).stack = Top(m, 1)
               /\ Cell(m, 1) \in Cells(Len(m.heap))
               /\ Set(m, name).vars = [n \in DOMAIN m.vars \cup {name} |->
                                         IF n = name THEN Cell(m, 1) ELSE m.vars[n]]
  <1>0. m.stack \in Seq(Cells(Len(m.heap))) /\ Len(m.stack) \in Nat
    BY DEF IsMemory
  <1>1. CASE m.stack = <<>>
    <2>1. Set(m, name) = Fail(m, "underflow")
      BY <1>0, <1>1, PopMemory DEF Set
    <2>2. /\ IsMemory(Fail(m, "underflow")) /\ Fail(m, "underflow").heap = m.heap
          /\ Fail(m, "underflow").vars = m.vars /\ Fail(m, "underflow").fault # "none"
      BY FailMemory, FailIsFault DEF Faults
    <2> QED
      BY <2>1, <2>2
  <1>2. CASE m.stack # <<>>
    <2> DEFINE popped == Pop(m, 1)
    <2>1. Len(m.stack) >= 1 /\ Cell(m, 1) \in Cells(Len(m.heap))
      BY <1>0, <1>2, CellOnStack
    <2>2. /\ IsMemory(popped) /\ popped.heap = m.heap /\ popped.vars = m.vars
          /\ popped.stack = Top(m, 1)
      BY <2>1, PopMemory DEF Top
    <2>3. Set(m, name) = VarPut(popped, name, Cell(m, 1))
      BY <1>2 DEF Set
    <2> HIDE DEF popped
    <2>4. Cell(m, 1) \in Cells(Len(popped.heap))
      BY <2>1, <2>2
    <2>5. /\ IsMemory(Set(m, name)) /\ Set(m, name).heap = popped.heap
          /\ Set(m, name).stack = popped.stack
          /\ Set(m, name).vars = [n \in DOMAIN popped.vars \cup {name} |->
                                    IF n = name THEN Cell(m, 1) ELSE popped.vars[n]]
      BY <2>2, <2>3, <2>4, VarPutMemory
    <2> QED
      BY <2>1, <2>2, <2>5
  <1> QED
    BY <1>1, <1>2

\* PUSHV pushes what the variable holds.
LEMMA PushVarMemory ==
  ASSUME NEW m, IsMemory(m), NEW name
  PROVE  /\ IsMemory(PushVar(m, name)) /\ PushVar(m, name).heap = m.heap
         /\ PushVar(m, name).vars = m.vars
         /\ \/ PushVar(m, name).fault # "none"
            \/ name \in DOMAIN m.vars /\ PushVar(m, name).stack = Append(m.stack, m.vars[name])
  <1>1. CASE name \in DOMAIN m.vars
    <2>1. m.vars[name] \in Cells(Len(m.heap)) /\ PushVar(m, name) = Push(m, m.vars[name])
      BY <1>1 DEF IsMemory, PushVar
    <2>2. Len(m.stack) < StackSize \/ Len(m.stack) = StackSize
      BY StackAssumption DEF IsMemory
    <2>3. Fail(m, "overflow").fault # "none"
      BY FailIsFault DEF Faults
    <2> QED
      BY <1>1, <2>1, <2>2, <2>3, PushMemory
  <1>2. CASE name \notin DOMAIN m.vars
    <2>1. PushVar(m, name) = Fail(m, "null")
      BY <1>2 DEF PushVar
    <2>2. /\ IsMemory(Fail(m, "null")) /\ Fail(m, "null").heap = m.heap
          /\ Fail(m, "null").vars = m.vars /\ Fail(m, "null").fault # "none"
      BY FailMemory, FailIsFault DEF Faults
    <2> QED
      BY <2>1, <2>2
  <1> QED
    BY <1>1, <1>2

\* PUSH pushes a cell of the type of its literal.
LEMMA PushLiteralMemory ==
  ASSUME NEW m, IsMemory(m), NEW instr, instr.type \in {"int_t", "string_t"},
         instr.type = "int_t" => instr.i \in Int
  PROVE  /\ Moves(m, PushLiteral(m, instr)) /\ PushLiteral(m, instr).vars = m.vars
         /\ \/ PushLiteral(m, instr).fault # "none"
            \/ \E c \in Cells(Len(PushLiteral(m, instr).heap)) :
                 c.type = instr.type /\ PushLiteral(m, instr).stack = Append(m.stack, c)
  <1>0. Len(m.heap) \in Nat /\ (Len(m.stack) < StackSize \/ Len(m.stack) = StackSize)
    BY StackAssumption DEF IsMemory, IsHeap
  <1>1. CASE instr.type = "int_t"
    <2> DEFINE c == IntCell(instr.i)
    <2>1. PushLiteral(m, instr) = Push(m, c)
      BY <1>1 DEF PushLiteral
    <2>2. c \in Cells(Len(m.heap)) /\ c.type = "int_t"
      BY <1>1 DEF IntCell, Cells, IntCells
    <2> HIDE DEF c
    <2>3. Fail(m, "overflow").fault # "none"
      BY FailIsFault DEF Faults
    <2> QED
      BY <1>0, <1>1, <2>1, <2>2, <2>3, PushMemory DEF Moves
  <1>2. CASE instr.type = "string_t"
    <2> DEFINE a == Alloc(m, Text(instr.word))
               c == StrCell(Newest(a))
    <2>1. PushLiteral(m, instr) = Push(a, c)
      BY <1>2 DEF PushLiteral
    <2>2. /\ IsMemory(a) /\ Len(a.heap) = Len(m.heap) + 1 /\ Newest(a) = Len(m.heap) + 1
          /\ a.vars = m.vars /\ a.stack = m.stack
      BY AllocMemory DEF Newest
    <2> HIDE DEF a
    <2>3. c \in Cells(Len(a.heap)) /\ c.type = "string_t"
      BY <1>0, <2>2 DEF StrCell, Cells, StrCells
    <2> HIDE DEF c
    <2>4. Fail(a, "overflow").fault # "none"
      BY <2>2, FailIsFault DEF Faults
    <2> QED
      BY <1>0, <1>2, <2>1, <2>2, <2>3, <2>4, PushMemory DEF Moves
  <1> QED
    BY <1>1, <1>2

\* An instruction that neither calls nor returns keeps the memory well-formed.
LEMMA ExecInstrMemory ==
  ASSUME NEW m, IsMemory(m), NEW instr, IsInstruction(instr),
         instr.op \notin {"INVOKE", "EMIT"}, NEW m2 \in ExecInstr(m, instr)
  PROVE  Moves(m, m2)
  <1>0. Len(m.heap) \in Nat
    BY DEF IsMemory, IsHeap
  <1>1. CASE instr.op = "SET"
    <2>1. m2 = Set(m, instr.name)
      BY <1>1 DEF ExecInstr, Operators
    <2>2. IsMemory(Set(m, instr.name)) /\ Set(m, instr.name).heap = m.heap
      BY SetMemory
    <2> QED
      BY <1>0, <2>1, <2>2 DEF Moves
  <1>2. CASE instr.op = "PUSHV"
    <2>1. m2 = PushVar(m, instr.name)
      BY <1>2 DEF ExecInstr, Operators
    <2>2. IsMemory(PushVar(m, instr.name)) /\ PushVar(m, instr.name).heap = m.heap
      BY PushVarMemory
    <2> QED
      BY <1>0, <2>1, <2>2 DEF Moves
  <1>3. CASE instr.op = "PUSH"
    <2>1. m2 = PushLiteral(m, instr)
      BY <1>3 DEF ExecInstr, Operators
    <2> QED
      BY <1>3, <2>1, PushLiteralMemory DEF IsInstruction
  <1>4. CASE instr.op \in Operators
    <2>1. m2 \in Operate(m, instr.op)
      BY <1>4 DEF ExecInstr, Operators
    <2> QED
      BY <1>4, <2>1, OperateMemory
  <1> QED
    BY <1>1, <1>2, <1>3, <1>4 DEF IsInstruction

\* EMIT takes the top cell of the stack for the text it returns.
LEMMA EmitMemory ==
  ASSUME NEW m, IsMemory(m)
  PROVE  /\ Moves(m, Emit(m)) /\ Emit(m).vars = m.vars
         /\ Emitted(m) \in 0 .. Len(Emit(m).heap)
         /\ \/ Emit(m).fault # "none"
            \/ Len(m.stack) >= 1 /\ Emit(m).stack = Top(m, 1)
  <1>0. Len(m.heap) \in Nat /\ m.stack \in Seq(Cells(Len(m.heap))) /\ Len(m.stack) \in Nat
    BY DEF IsMemory, IsHeap
  <1>1. CASE m.stack = <<>>
    <2>1. Emit(m) = Fail(m, "underflow") /\ Emitted(m) = Null
      BY <1>0, <1>1, PopMemory DEF Emit, Emitted
    <2>2. /\ IsMemory(Fail(m, "underflow")) /\ Fail(m, "underflow").heap = m.heap
          /\ Fail(m, "underflow").vars = m.vars /\ Fail(m, "underflow").fault # "none"
      BY FailMemory, FailIsFault DEF Faults
    <2> QED
      BY <1>0, <2>1, <2>2 DEF Moves, Null
  <1>2. CASE m.stack # <<>>
    <2> DEFINE popped == Pop(m, 1)
               c == Cell(m, 1)
               a == AsText(popped, c)
    <2>1. Len(m.stack) >= 1 /\ c \in Cells(Len(m.heap))
      BY <1>0, <1>2, CellOnStack
    <2>2. /\ IsMemory(popped) /\ popped.heap = m.heap /\ popped.vars = m.vars
          /\ popped.stack = Top(m, 1)
      BY <2>1, PopMemory DEF Top
    <2>3. Emit(m) = a /\ Emitted(m) = TextOf(a, c)
      BY <1>2 DEF Emit, Emitted
    <2> HIDE DEF popped, c
    <2>4. /\ IsMemory(a) /\ TextOf(a, c) \in 0 .. Len(a.heap) /\ Len(m.heap) <= Len(a.heap)
          /\ a.vars = m.vars /\ a.stack = Top(m, 1)
      BY <1>0, <2>1, <2>2, AsTextMemory
    <2> QED
      BY <2>1, <2>3, <2>4 DEF Moves
  <1> QED
    BY <1>1, <1>2
-----------------------------------------------------------------------------
\* What a frame or the focus can hold stays possible when the heap grows.
LEMMA MonoFrames ==
  ASSUME NEW s, NEW h \in Nat, NEW k \in Nat, h <= k
  PROVE  /\ Envs(h) \subseteq Envs(k)
         /\ Frames(s, h) \subseteq Frames(s, k)
         /\ Focuses(s, h) \subseteq Focuses(s, k)
  <1>1. 0 .. h \subseteq 0 .. k
    OBVIOUS
  <1>2. Seq(0 .. h) \subseteq Seq(0 .. k)
    BY <1>1
  <1>3. Envs(h) \subseteq Envs(k)
    BY <1>2 DEF Envs
  <1>4. OptionFrames(s, h) \subseteq OptionFrames(s, k)
    BY <1>1, <1>3 DEF OptionFrames
  <1>5. WaitFrames(s, h) \subseteq WaitFrames(s, k)
    BY <1>3 DEF WaitFrames
  <1>6. LoopFrames(s, h) \subseteq LoopFrames(s, k)
    BY <1>1, <1>3 DEF LoopFrames
  <1>7. RuleFrames(s, h) \subseteq RuleFrames(s, k)
    BY <1>2 DEF RuleFrames
  <1>8. ArgsFrames(s, h) \subseteq ArgsFrames(s, k)
    BY <1>2, <1>3 DEF ArgsFrames
  <1>9. Focuses(s, h) \subseteq Focuses(s, k)
    BY <1>1, <1>2, <1>3 DEF Focuses
  <1> QED
    BY <1>3, <1>4, <1>5, <1>6, <1>7, <1>8, <1>9 DEF Frames

\* A frame's kind says which frame it is.
LEMMA FrameOfKind ==
  ASSUME NEW s, NEW h, NEW f \in Frames(s, h)
  PROVE  /\ f.kind = "option" => f \in OptionFrames(s, h)
         /\ f.kind \in Wrapping \cup {"var_conddef"} => f \in WaitFrames(s, h)
         /\ f.kind = "loop" => f \in LoopFrames(s, h)
         /\ f.kind = "rule" => f \in RuleFrames(s, h)
         /\ f.kind = "args" => f \in ArgsFrames(s, h)
         /\ f.kind = "nested" => f \in NestedFrames(s)
         /\ f.kind = "code" => f \in CodeFramesOf(s)
  BY DEF Frames, OptionFrames, WaitFrames, LoopFrames, RuleFrames, ArgsFrames, NestedFrames,
         CodeFramesOf, Wrapping

\* What is under the top frame.
LEMMA TopAndBelow ==
  ASSUME NEW S, kont \in Seq(S), kont # <<>>
  PROVE  /\ Frame \in S /\ Below \in Seq(S)
         /\ Len(kont) \in Nat \ {0} /\ Len(Below) = Len(kont) - 1
         /\ \A i \in 1 .. Len(kont) - 1 : Below[i] = kont[i]
         /\ Frame = kont[Len(kont)]
  <1>1. Len(kont) \in Nat \ {0}
    OBVIOUS
  <1>2. Len(kont) - 1 \in 0 .. Len(kont)
    BY <1>1
  <1>3. /\ Below \in Seq(S) /\ Len(Below) = Len(kont) - 1
        /\ \A i \in 1 .. Len(kont) - 1 : Below[i] = kont[i]
    BY <1>2, PrefixOf DEF Below
  <1> QED
    BY <1>1, <1>3 DEF Frame

\* What the type invariant says of everything but the memory and the stack of
\* calls, after a step that changes neither script nor last.
LEMMA RestKept ==
  ASSUME TypeInv, Same
  PROVE  /\ (script \in Scripts)' /\ (cdrFirst \in BOOLEAN)'
         /\ (last \in [NodeNumbers(script) -> Int])'
         /\ (\A n \in DOMAIN last : last[n] = -1 \/ last[n] \in DOMAIN script.nodes[n].options)'
         /\ script' = script
  BY DEF TypeInv, Same

\* The types hold after a function returned that had not called yet.
LEMMA AnswerType ==
  ASSUME TypeInv, focus.at = "atom",
         NEW m, Moves(mem, m), NEW p \in 0 .. Len(m.heap), Answer(m, p)
  PROVE  TypeInv'
  <1> USE DEF Answer
  <1>0. /\ Len(mem.heap) \in Nat /\ Len(m.heap) \in Nat /\ Len(mem.heap) <= Len(m.heap)
        /\ IsMemory(m)
    BY DEF TypeInv, IsMemory, IsHeap, Moves
  <1>1. IsMemory(mem)' /\ focus' \in Focuses(script, Len(m.heap))
    BY <1>0 DEF Focuses, Return
  <1>2. (kont \in Seq(Frames(script, Len(mem.heap))) /\ Len(kont) <= MaxDepth)'
    BY <1>0, RestKept, MonoFrames DEF TypeInv
  <1>3. \A i \in 1 .. Len(kont') : ChainAt(i)'
    BY DEF TypeInv, ChainAt, Return
  <1> QED
    BY <1>1, <1>2, <1>3, RestKept DEF TypeInv

\* The types hold after the top frame's function returned.
LEMMA LeaveType ==
  ASSUME TypeInv, kont # <<>>,
         NEW m, Moves(mem, m), NEW p \in 0 .. Len(m.heap), Leave(m, p)
  PROVE  TypeInv'
  <1> USE DEF Leave
  <1>0. /\ Len(mem.heap) \in Nat /\ Len(m.heap) \in Nat /\ Len(mem.heap) <= Len(m.heap)
        /\ IsMemory(m)
    BY DEF TypeInv, IsMemory, IsHeap, Moves
  <1>1. IsMemory(mem)' /\ focus' \in Focuses(script, Len(m.heap))
    BY <1>0 DEF Focuses, Return
  <1>2. /\ kont' \in Seq(Frames(script, Len(mem.heap))) /\ Len(kont') = Len(kont) - 1
        /\ Len(kont) \in Nat \ {0}
        /\ \A i \in 1 .. Len(kont) - 1 : kont'[i] = kont[i]
    BY TopAndBelow DEF TypeInv
  <1>3. (kont \in Seq(Frames(script, Len(mem.heap))) /\ Len(kont) <= MaxDepth)'
    <2>1. Frames(script, Len(mem.heap)) \subseteq Frames(script, Len(m.heap))
      BY <1>0, MonoFrames
    <2> QED
      BY <1>0, <1>2, <2>1, RestKept, DepthAssumption DEF TypeInv
  <1>4. \A i \in 1 .. Len(kont') : ChainAt(i)'
    BY <1>2 DEF TypeInv, ChainAt, Return
  <1> QED
    BY <1>1, <1>3, <1>4, RestKept DEF TypeInv

\* The types hold after the top frame went on, changed.
LEMMA ContinueType ==
  ASSUME TypeInv, kont # <<>>, NEW m, Moves(mem, m),
         NEW f \in Frames(script, Len(m.heap)), NEW next \in Focuses(script, Len(m.heap)),
         f.kind = Frame.kind, f.kind = "args" /\ next.at # "next" => f.left > 0,
         Continue(m, f, next)
  PROVE  TypeInv'
  <1> USE DEF Continue
  <1>0. /\ Len(mem.heap) \in Nat /\ Len(m.heap) \in Nat /\ Len(mem.heap) <= Len(m.heap)
        /\ IsMemory(m)
    BY DEF TypeInv, IsMemory, IsHeap, Moves
  <1>1. IsMemory(mem)' /\ focus' \in Focuses(script, Len(m.heap))
    BY <1>0
  <1>2. /\ Below \in Seq(Frames(script, Len(mem.heap))) /\ Len(Below) = Len(kont) - 1
        /\ Len(kont) \in Nat \ {0}
        /\ \A i \in 1 .. Len(kont) - 1 : Below[i] = kont[i]
        /\ Frame = kont[Len(kont)]
    BY TopAndBelow DEF TypeInv
  <1>3. Frames(script, Len(mem.heap)) \subseteq Frames(script, Len(m.heap))
    BY <1>0, MonoFrames
  <1>4. /\ kont' \in Seq(Frames(script, Len(m.heap))) /\ Len(kont') = Len(kont)
        /\ \A i \in 1 .. Len(kont) - 1 : kont'[i] = kont[i]
        /\ kont'[Len(kont)] = f
    BY <1>2, <1>3
  <1>5. \A i \in 1 .. Len(kont') : ChainAt(i)'
    BY <1>2, <1>4, SMTT(30) DEF TypeInv, ChainAt
  <1> QED
    BY <1>1, <1>4, <1>5, RestKept DEF TypeInv

\* A call from an atom: the function under it waits for more than this.
LEMMA CallType ==
  ASSUME TypeInv, focus.at = "atom", NEW m, Moves(mem, m),
         NEW f \in Frames(script, Len(m.heap)), NEW next \in Focuses(script, Len(m.heap)),
         f.kind \notin {"args", "nested"}, Call(m, f, next)
  PROVE  TypeInv'
  <1> USE DEF Call
  <1>0. /\ Len(mem.heap) \in Nat /\ Len(m.heap) \in Nat /\ Len(mem.heap) <= Len(m.heap)
        /\ IsMemory(m) /\ kont \in Seq(Frames(script, Len(mem.heap))) /\ Len(kont) \in Nat
    BY DEF TypeInv, IsMemory, IsHeap, Moves
  <1>1. IsMemory(mem)' /\ focus' \in Focuses(script, Len(m.heap))
    BY <1>0
  <1>3. Frames(script, Len(mem.heap)) \subseteq Frames(script, Len(m.heap))
    BY <1>0, MonoFrames
  <1>4. /\ kont' \in Seq(Frames(script, Len(m.heap))) /\ Len(kont') = Len(kont) + 1
        /\ \A i \in 1 .. Len(kont) : kont'[i] = kont[i]
        /\ kont'[Len(kont) + 1] = f
    BY <1>0, <1>3
  <1>5. \A i \in 1 .. Len(kont') : ChainAt(i)'
    BY <1>0, <1>4 DEF TypeInv, ChainAt
  <1>6. Len(kont') <= MaxDepth
    BY <1>0, <1>4, DepthAssumption
  <1> QED
    BY <1>1, <1>4, <1>5, <1>6, RestKept DEF TypeInv

\* The frame that collects the parameters, before there is one.
LEMMA ArgsIsFrame ==
  ASSUME NEW s, NEW h \in Nat, NEW params \in Seq(NodeNumbers(s)), NEW env \in Envs(h)
  PROVE  /\ ArgsFrame(params, env) \in ArgsFrames(s, h)
         /\ ArgsFrame(params, env) \in Frames(s, h) /\ ArgsFrame(params, env).kind = "args"
  <1> DEFINE a == ArgsFrame(params, env)
             texts == [i \in DOMAIN params |-> Null]
  <1>1. Len(params) \in Nat /\ DOMAIN params = 1 .. Len(params)
    OBVIOUS
  <1>2. texts \in Seq(0 .. h) /\ Len(texts) = Len(params)
    BY <1>1 DEF Null
  <1>3. a = [kind |-> "args", params |-> params, env |-> env, texts |-> texts,
             left |-> Len(params)]
    BY DEF ArgsFrame
  <1> HIDE DEF a, texts
  <1>4. a \in ArgsFrames(s, h) /\ a.kind = "args"
    BY <1>1, <1>2, <1>3 DEF ArgsFrames
  <1> QED
    BY <1>4 DEF Frames, a

\* A rule is invoked by the function that is on top, or by the one under it.
LEMMA InvokeOnType ==
  ASSUME TypeInv, NEW m, Moves(mem, m), NEW n \in 0 .. Len(kont),
         n = Len(kont) => focus.at = "atom" \/ Frame.kind # "args",
         NEW name, NEW params \in Seq(NodeNumbers(script)),
         NEW env \in Envs(Len(m.heap)),
         NEW below, below = SubSeq(kont, 1, n), InvokeOn(m, below, name, params, env)
  PROVE  TypeInv'
  <1> DEFINE h == Len(m.heap)
             r == [kind |-> "rule", name |-> name, cooked |-> <<>>]
             a == ArgsFrame(params, env)
  <1>0. /\ Len(mem.heap) \in Nat /\ h \in Nat /\ Len(mem.heap) <= h
        /\ IsMemory(m) /\ kont \in Seq(Frames(script, Len(mem.heap))) /\ Len(kont) \in Nat
    BY DEF TypeInv, IsMemory, IsHeap, Moves
  <1>1. Frames(script, Len(mem.heap)) \subseteq Frames(script, h)
    BY <1>0, MonoFrames
  <1>2. /\ below \in Seq(Frames(script, h)) /\ Len(below) = n
        /\ \A i \in 1 .. n : below[i] = kont[i]
    <2>1. kont \in Seq(Frames(script, h))
      BY <1>0, <1>1
    <2> HIDE DEF h
    <2> QED
      BY <2>1, PrefixOf
  <1>3. \A i \in 1 .. n :
          /\ below[i].kind = "args" => /\ i > 1 /\ below[i - 1].kind \in {"rule", "nested"}
                                       /\ below[i].left > 0
          /\ below[i].kind = "nested" => i > 1 /\ below[i - 1].kind = "args"
    BY <1>0, <1>2 DEF TypeInv, ChainAt, Frame
  <1>4. Same /\ mem' = m
    BY DEF InvokeOn
  <1>5. CASE IsRule(name)
    <2>1. /\ kont' = below \o <<r, a>> /\ focus' = GoOn /\ n + 2 <= MaxDepth
      BY <1>2, <1>5 DEF InvokeOn
    <2>2. r \in Frames(script, h)
      BY <1>5 DEF IsRule, Frames, RuleFrames
    <2>3. a \in Frames(script, h) /\ a.kind = "args"
      BY <1>0, ArgsIsFrame
    <2> HIDE DEF a, h
    <2>4. /\ kont' \in Seq(Frames(script, h)) /\ Len(kont') = n + 2
          /\ \A i \in 1 .. n : kont'[i] = below[i]
          /\ kont'[n + 1] = r /\ kont'[n + 2] = a
      BY <1>2, <2>1, <2>2, <2>3
    <2>5. \A i \in 1 .. Len(kont') : ChainAt(i)'
      <3>1. TAKE i \in 1 .. Len(kont')
      <3>2. focus'.at = "next" /\ r.kind = "rule" /\ i \in Int
        BY <2>1, <2>4 DEF GoOn
      <3>3. CASE i \in 1 .. n
        <4>1. kont'[i] = below[i]
          BY <2>4, <3>3
        <4>2. i > 1 => kont'[i - 1] = below[i - 1]
          <5>1. i > 1 => i - 1 \in 1 .. n
            BY <3>3
          <5> QED
            BY <2>4, <5>1
        <4>3. /\ below[i].kind = "args" => /\ i > 1 /\ below[i - 1].kind \in {"rule", "nested"}
                                           /\ below[i].left > 0
              /\ below[i].kind = "nested" => i > 1 /\ below[i - 1].kind = "args"
          BY <1>3, <3>3
        <4> HIDE DEF r
        <4> QED
          BY <4>1, <4>2, <4>3 DEF ChainAt
      <3>4. CASE i = n + 1
        BY <2>4, <3>2, <3>4 DEF ChainAt
      <3>5. CASE i = n + 2
        <4>1. kont'[i].kind = "args" /\ kont'[i - 1].kind = "rule" /\ i > 1 /\ i = Len(kont')
          BY <2>3, <2>4, <3>2, <3>5
        <4> HIDE DEF r
        <4> QED
          BY <3>2, <4>1 DEF ChainAt
      <3> QED
        BY <2>4, <3>3, <3>4, <3>5
    <2>6. focus' \in Focuses(script, h)
      BY <2>1 DEF Focuses, GoOn
    <2> QED
      BY <1>0, <1>4, <2>1, <2>4, <2>5, <2>6, RestKept DEF TypeInv, h
  <1>6. CASE ~IsRule(name)
    <2>1. kont' = below /\ focus' = Return(Null)
      BY <1>6 DEF InvokeOn
    <2>2. \A i \in 1 .. Len(kont') : ChainAt(i)'
      BY <1>2, <1>3, <2>1 DEF ChainAt
    <2>3. focus' \in Focuses(script, h)
      BY <1>0, <2>1 DEF Focuses, Return, Null
    <2>4. Len(kont') <= MaxDepth
      BY <1>0, <1>2, <2>1, DepthAssumption DEF TypeInv
    <2> QED
      BY <1>0, <1>2, <1>4, <2>1, <2>2, <2>3, <2>4, RestKept DEF TypeInv
  <1> QED
    BY <1>5, <1>6

\* What the type invariant says of the memory, the script and the waiting calls.
LEMMA Given ==
  ASSUME TypeInv
  PROVE  /\ IsMemory(mem) /\ Len(mem.heap) \in Nat /\ Moves(mem, mem)
         /\ IsScript(script)
         /\ kont \in Seq(Frames(script, Len(mem.heap))) /\ Len(kont) \in Nat
         /\ Len(kont) <= MaxDepth
  BY ScriptsAssumption DEF TypeInv, IsMemory, IsHeap, Moves

\* The atom in focus is a node of the script.
LEMMA GivenAtom ==
  ASSUME TypeInv, focus.at = "atom"
  PROVE  /\ focus.node \in NodeNumbers(script) /\ focus.env \in Envs(Len(mem.heap))
         /\ Node = script.nodes[focus.node] /\ IsNode(Node, NodeNumbers(script))
         /\ focus.env.cooked \in Seq(0 .. Len(mem.heap))
  <1>1. focus.node \in NodeNumbers(script) /\ focus.env \in Envs(Len(mem.heap))
    BY DEF TypeInv, Focuses
  <1> QED
    BY <1>1, Given DEF Node, IsScript, Envs

\* The top frame is one of its kind, and what it is handed are pointers.
LEMMA GivenTurn ==
  ASSUME TypeInv, NEW at, NEW kind, Turn(at, kind)
  PROVE  /\ kont # <<>> /\ Frame \in Frames(script, Len(mem.heap)) /\ Frame.kind = kind
         /\ focus.at = at
         /\ at = "return" => focus.text \in 0 .. Len(mem.heap)
         /\ at = "cooked" => focus.texts \in Seq(0 .. Len(mem.heap))
  <1>1. kont # <<>> /\ Frame.kind = kind /\ focus.at = at
    BY DEF Turn
  <1>2. Frame \in Frames(script, Len(mem.heap))
    BY <1>1, Given, TopAndBelow
  <1>3. focus \in Focuses(script, Len(mem.heap))
    BY DEF TypeInv
  <1> QED
    BY <1>1, <1>2, <1>3 DEF Focuses

\* A new text is a pointer, and so is Null.
LEMMA NewPointer ==
  ASSUME NEW m, IsMemory(m)
  PROVE  Newest(m) \in 0 .. Len(m.heap) /\ Null \in 0 .. Len(m.heap)
  BY DEF IsMemory, IsHeap, Newest, Null

\* A literal keeps the types.
LEMMA LiteralType == ASSUME TypeInv, Literal PROVE TypeInv'
  <1> DEFINE m == Alloc(mem, Text(Node.data))
  <1>1. focus.at = "atom" /\ Answer(m, Newest(m))
    BY DEF Literal, IsAtom
  <1>2. IsMemory(m) /\ Len(m.heap) = Len(mem.heap) + 1
    BY Given, AllocMemory DEF Newest
  <1> HIDE DEF m
  <1>3. Moves(mem, m) /\ Newest(m) \in 0 .. Len(m.heap)
    BY <1>2, Given, NewPointer DEF Moves
  <1> QED
    BY <1>1, <1>3, AnswerType

\* So does a symbol that stands for an actual parameter.
LEMMA ParameterType == ASSUME TypeInv, Parameter PROVE TypeInv'
  <1> DEFINE m == CopyActual(mem, focus.env, Position(focus.env.formal, Node.data))
  <1>1. focus.at = "atom" /\ Answer(m, Newest(m))
    BY DEF Parameter, IsAtom
  <1>2. IsMemory(m) /\ Len(m.heap) = Len(mem.heap) + 1
    BY Given, CopyActualMemory
  <1> HIDE DEF m
  <1>3. Moves(mem, m) /\ Newest(m) \in 0 .. Len(m.heap)
    BY <1>2, Given, NewPointer DEF Moves
  <1> QED
    BY <1>1, <1>3, AnswerType

\* A sequence is the whole of itself.
LEMMA SubSeqWhole ==
  ASSUME NEW S, NEW s \in Seq(S)
  PROVE  s = SubSeq(s, 1, Len(s))
  OBVIOUS

\* A symbol that is a rule keeps the types.
LEMMA SymbolType == ASSUME TypeInv, Symbol PROVE TypeInv'
  <1>1. focus.at = "atom" /\ InvokeOn(mem, kont, Node.data, Node.params, focus.env)
    BY DEF Symbol, IsAtom
  <1>2. Node.params \in Seq(NodeNumbers(script)) /\ focus.env \in Envs(Len(mem.heap))
    BY <1>1, GivenAtom DEF IsNode
  <1>3. Len(kont) \in 0 .. Len(kont) /\ kont = SubSeq(kont, 1, Len(kont))
    BY Given, SubSeqWhole
  <1> QED
    BY <1>1, <1>2, <1>3, Given, InvokeOnType

\* The first element of a sequence that has one.
LEMMA FirstElement ==
  ASSUME NEW S, NEW s \in Seq(S), s # <<>>
  PROVE  s[1] \in S
  OBVIOUS

\* The first part of a node that has one.
LEMMA FirstPart ==
  ASSUME TypeInv, NEW n \in NodeNumbers(script), script.nodes[n].params # <<>>
  PROVE  script.nodes[n].params[1] \in NodeNumbers(script)
  <1>1. script.nodes[n].params \in Seq(NodeNumbers(script))
    BY Given DEF IsScript, IsNode
  <1> QED
    BY <1>1, FirstElement

\* A node that resolves its subnode first keeps the types.
LEMMA EnterType == ASSUME TypeInv, NEW type \in Wrapping \cup {"var_conddef"}, IsAtom(type),
                          Call(mem, [kind |-> type, node |-> focus.node, env |-> focus.env],
                               Atom(Node.params[1], focus.env))
                   PROVE TypeInv'
  <1> DEFINE f == [kind |-> type, node |-> focus.node, env |-> focus.env]
             next == Atom(Node.params[1], focus.env)
  <1>1. focus.at = "atom" /\ Node.type = type /\ Call(mem, f, next)
    BY DEF IsAtom
  <1>2. Node.params # <<>>
    BY <1>1, GivenAtom DEF IsNode
  <1>3. Node.params[1] \in NodeNumbers(script)
    BY <1>1, <1>2, GivenAtom, FirstPart
  <1>4. next \in Focuses(script, Len(mem.heap))
    BY <1>1, <1>3, GivenAtom DEF Atom, Focuses
  <1>5. f \in Frames(script, Len(mem.heap)) /\ f.kind \notin {"args", "nested"}
    BY <1>1, GivenAtom DEF Frames, WaitFrames, Wrapping
  <1> QED
    BY <1>1, <1>4, <1>5, Given, CallType

\* apply_mapping() and apply_xform() keep the types.
LEMMA MapType == ASSUME TypeInv, Map PROVE TypeInv'
  <1> DEFINE name == script.nodes[Frame.node].data
             p == focus.text
             m == Read(mem, p)
             text == TextAt(m, p)
             mapped == Alloc(m, script.maps[name][text])
             freed == Free(mapped, p)
  <1>1. /\ kont # <<>> /\ p \in 0 .. Len(mem.heap)
    BY GivenTurn DEF Map
  <1>2. IsMemory(m) /\ m.heap = mem.heap
    BY Given, ReadMemory
  <1>3. Leave(mem, p) \/ Leave(m, p) \/ Leave(freed, Newest(mapped))
    BY DEF Map
  <1> HIDE DEF m
  <1>4. /\ IsMemory(mapped) /\ Len(mapped.heap) = Len(mem.heap) + 1
        /\ Newest(mapped) = Len(mapped.heap)
    BY <1>2, AllocMemory DEF Newest
  <1> HIDE DEF mapped
  <1>5. IsMemory(freed) /\ Len(freed.heap) = Len(mapped.heap)
    BY <1>1, <1>4, Given, FreeMemory
  <1> HIDE DEF freed
  <1>6. Moves(mem, m) /\ Moves(mem, freed) /\ p \in 0 .. Len(m.heap)
        /\ Newest(mapped) \in 0 .. Len(freed.heap)
    BY <1>1, <1>2, <1>4, <1>5, Given DEF Moves
  <1> QED
    BY <1>1, <1>3, <1>6, Given, LeaveType

\* An indirection keeps the types.
LEMMA DereferenceType == ASSUME TypeInv, Dereference PROVE TypeInv'
  <1> DEFINE m == Read(mem, focus.text)
             name == NameIn(TextAt(m, focus.text))
  <1>1. kont # <<>> /\ InvokeOn(m, Below, name, <<>>, Frame.env)
    BY GivenTurn DEF Dereference
  <1>2. IsMemory(m) /\ m.heap = mem.heap
    BY Given, ReadMemory
  <1>3. Frame.env \in Envs(Len(mem.heap))
    BY GivenTurn, FrameOfKind DEF Dereference, WaitFrames, Wrapping
  <1>4. Len(kont) - 1 \in 0 .. Len(kont) /\ Len(kont) - 1 # Len(kont)
        /\ Below = SubSeq(kont, 1, Len(kont) - 1) /\ <<>> \in Seq(NodeNumbers(script))
    BY <1>1, Given DEF Below
  <1> HIDE DEF m, name
  <1>5. Moves(mem, m) /\ Frame.env \in Envs(Len(m.heap))
    BY <1>2, <1>3, Given DEF Moves
  <1> QED
    BY <1>1, <1>4, <1>5, InvokeOnType

\* The part of VarPutMemory that is not about the variable itself.
LEMMA VarPutKeeps ==
  ASSUME NEW m, IsMemory(m), NEW name, NEW cell \in Cells(Len(m.heap))
  PROVE  IsMemory(VarPut(m, name, cell)) /\ VarPut(m, name, cell).heap = m.heap
  BY DEF IsMemory, VarPut

\* A variable's definition keeps the types.
LEMMA DefineType == ASSUME TypeInv, Define PROVE TypeInv'
  <1> DEFINE p == IF Frame.kind = "var_def" /\ focus.text = Null THEN Undefined ELSE focus.text
             put == VarPut(mem, script.nodes[Frame.node].data, StrCell(p))
             m == Strdup(put, p)
  <1>1. /\ kont # <<>> /\ focus.text \in 0 .. Len(mem.heap)
    BY GivenTurn DEF Define
  <1>2. p \in 0 .. Len(mem.heap)
    BY <1>1, Given DEF Undefined, IsMemory, IsHeap
  <1>3. Leave(m, Newest(m))
    BY DEF Define
  <1> HIDE DEF p
  <1>4. StrCell(p) \in Cells(Len(mem.heap))
    BY <1>2 DEF StrCell, Cells, StrCells
  <1>5. IsMemory(put) /\ put.heap = mem.heap
    BY <1>4, Given, VarPutKeeps
  <1> HIDE DEF put
  <1>6. IsMemory(m) /\ Len(m.heap) = Len(mem.heap) + 1
    BY <1>5, StrdupMemory
  <1> HIDE DEF m
  <1>7. Moves(mem, m) /\ Newest(m) \in 0 .. Len(m.heap)
    BY <1>6, Given, NewPointer DEF Moves
  <1> QED
    BY <1>1, <1>3, <1>7, LeaveType

\* A conditional definition keeps the types.
LEMMA CondDefType == ASSUME TypeInv, CondDef PROVE TypeInv'
  <1> DEFINE p == VarFetched(mem, Node.data)
             fetched == VarFetch(mem, Node.data)
             m == Strdup(fetched, p)
  <1>1. IsAtom("var_conddef") /\ focus.at = "atom"
    BY DEF CondDef, IsAtom
  <1>2. CASE p # Null
    <2>1. Answer(m, Newest(m))
      BY <1>2 DEF CondDef
    <2>2. IsMemory(fetched) /\ Len(fetched.heap) \in {Len(mem.heap), Len(mem.heap) + 1}
      BY Given, VarFetchMemory
    <2> HIDE DEF fetched, p
    <2>3. IsMemory(m) /\ Len(m.heap) = Len(fetched.heap) + 1
      BY <2>2, StrdupMemory
    <2> HIDE DEF m
    <2>4. Moves(mem, m) /\ Newest(m) \in 0 .. Len(m.heap)
      BY <2>2, <2>3, Given, NewPointer DEF Moves
    <2> QED
      BY <1>1, <2>1, <2>4, AnswerType
  <1>3. CASE p = Null
    BY <1>1, <1>3, EnterType DEF CondDef
  <1> QED
    BY <1>2, <1>3

\* A reference to a variable keeps the types.
LEMMA VarRefType == ASSUME TypeInv, VarRef PROVE TypeInv'
  <1> DEFINE p == VarFetched(mem, Node.data)
             fetched == VarFetch(mem, Node.data)
             m == IF p = Null THEN Fail(mem, "exit") ELSE Strdup(fetched, p)
  <1>1. focus.at = "atom" /\ Answer(m, Newest(m))
    BY DEF VarRef, IsAtom
  <1>2. IsMemory(fetched) /\ Len(fetched.heap) \in {Len(mem.heap), Len(mem.heap) + 1}
    BY Given, VarFetchMemory
  <1> HIDE DEF p, fetched
  <1>3. IsMemory(Strdup(fetched, p)) /\ Len(Strdup(fetched, p).heap) = Len(fetched.heap) + 1
    BY <1>2, StrdupMemory
  <1>4. IsMemory(Fail(mem, "exit")) /\ Fail(mem, "exit").heap = mem.heap
    BY Given, FailMemory DEF Faults
  <1>5. IsMemory(m) /\ Len(m.heap) >= Len(mem.heap)
    BY <1>2, <1>3, <1>4, Given
  <1> HIDE DEF m
  <1>6. Moves(mem, m) /\ Newest(m) \in 0 .. Len(m.heap)
    BY <1>5, Given, NewPointer DEF Moves
  <1> QED
    BY <1>1, <1>6, AnswerType

\* A silenced atom keeps the types.
LEMMA SilenceType == ASSUME TypeInv, Silence PROVE TypeInv'
  <1> DEFINE m == Free(mem, focus.text)
  <1>1. kont # <<>> /\ focus.text \in 0 .. Len(mem.heap) /\ Leave(m, Null)
    BY GivenTurn DEF Silence
  <1>2. IsMemory(m) /\ Len(m.heap) = Len(mem.heap)
    BY <1>1, Given, FreeMemory
  <1> HIDE DEF m
  <1>3. Moves(mem, m) /\ Null \in 0 .. Len(m.heap)
    BY <1>2, Given, NewPointer DEF Moves
  <1> QED
    BY <1>1, <1>3, LeaveType
-----------------------------------------------------------------------------
\* The types hold after a repetition began.
LEMMA StartLoop ==
  ASSUME TypeInv, focus.at = "atom", Node.type \in Rounds, NEW m, Moves(mem, m),
         NEW left \in Int, NEW random \in BOOLEAN, NEW first \in BOOLEAN,
         NEW next, next = GoOn \/ next = Atom(Node.params[1], focus.env),
         Call(m, Loop(left, random, first), next)
  PROVE  TypeInv'
  <1> DEFINE f == Loop(left, random, first)
  <1>0. Len(m.heap) \in Nat
    BY DEF Moves, IsMemory, IsHeap
  <1>1. focus.env \in Envs(Len(m.heap))
    BY <1>0, Given, GivenAtom, MonoFrames DEF Moves
  <1>2. Node.params # <<>>
    BY GivenAtom DEF IsNode
  <1>3. Node.params[1] \in NodeNumbers(script)
    BY <1>2, GivenAtom, FirstPart
  <1>4. next \in Focuses(script, Len(m.heap))
    BY <1>1, <1>3 DEF Atom, GoOn, Focuses
  <1>5. f \in LoopFrames(script, Len(m.heap)) /\ f.kind = "loop"
    BY <1>0, <1>1, <1>2, GivenAtom DEF Loop, LoopFrames, Null
  <1>6. f \in Frames(script, Len(m.heap)) /\ f.kind \notin {"args", "nested"}
    BY <1>5 DEF Frames
  <1> HIDE DEF f
  <1> QED
    BY <1>4, <1>6, CallType DEF f

\* The three repetitions that are not counted by a variable keep the types.
LEMMA LoopsType == ASSUME TypeInv, Star \/ Plus \/ RepeatConst PROVE TypeInv'
  <1>1. focus.at = "atom" /\ Node.type \in Rounds
    BY DEF Star, Plus, RepeatConst, IsAtom, Rounds
  <1>2. Node.count \in Int
    BY <1>1, GivenAtom DEF IsNode
  <1>3. MaxReps \in Int
    BY RepsAssumption
  <1>4. CASE Star
    BY <1>1, <1>3, <1>4, Given, StartLoop DEF Star
  <1>5. CASE Plus
    BY <1>1, <1>3, <1>5, Given, StartLoop DEF Plus
  <1>6. CASE RepeatConst
    BY <1>1, <1>2, <1>6, Given, StartLoop DEF RepeatConst
  <1> QED
    BY <1>4, <1>5, <1>6

\* atoi() returns an integer.
LEMMA NumberIsInt == ASSUME NEW text PROVE NumberIn(text) \in Int
  BY DEF NumberIn

\* The repetition that a variable counts keeps the types.
LEMMA RepeatVarType == ASSUME TypeInv, RepeatVar PROVE TypeInv'
  <1> DEFINE p == VarFetched(mem, Node.data)
             fetched == VarFetch(mem, Node.data)
             m == IF p = Null THEN Fail(mem, "exit") ELSE Read(fetched, p)
  <1>1. focus.at = "atom" /\ Node.type \in Rounds
        /\ Call(m, Loop(NumberIn(TextAt(m, p)), FALSE, FALSE), GoOn)
    BY DEF RepeatVar, IsAtom, Rounds
  <1>2. IsMemory(fetched) /\ Len(fetched.heap) \in {Len(mem.heap), Len(mem.heap) + 1}
    BY Given, VarFetchMemory
  <1> HIDE DEF p, fetched
  <1>3. IsMemory(Read(fetched, p)) /\ Read(fetched, p).heap = fetched.heap
    BY <1>2, ReadMemory
  <1>4. IsMemory(Fail(mem, "exit")) /\ Fail(mem, "exit").heap = mem.heap
    BY Given, FailMemory DEF Faults
  <1>5. Moves(mem, m)
    BY <1>2, <1>3, <1>4, Given DEF Moves
  <1> HIDE DEF m
  <1>6. NumberIn(TextAt(m, p)) \in Int
    BY NumberIsInt
  <1> QED
    BY <1>1, <1>5, <1>6, StartLoop

\* A round of a repetition keeps the types.
LEMMA RoundType == ASSUME TypeInv, Round PROVE TypeInv'
  <1> DEFINE f == [Frame EXCEPT !.left = @ - 1]
             next == Atom(script.nodes[Frame.node].params[1], Frame.env)
  <1>1. kont # <<>> /\ Frame.kind = "loop" /\ Frame \in LoopFrames(script, Len(mem.heap))
        /\ Continue(mem, f, next)
    BY GivenTurn, FrameOfKind DEF Round
  <1>2. f \in LoopFrames(script, Len(mem.heap)) /\ f.kind = "loop"
    BY <1>1 DEF LoopFrames
  <1>3. next \in Focuses(script, Len(mem.heap))
    <2>1. script.nodes[Frame.node].params[1] \in NodeNumbers(script)
      BY <1>1, FirstPart DEF LoopFrames
    <2> QED
      BY <1>1, <2>1 DEF Atom, Focuses, LoopFrames
  <1>4. f \in Frames(script, Len(mem.heap))
    BY <1>2 DEF Frames
  <1> HIDE DEF f, next
  <1> QED
    BY <1>1, <1>2, <1>3, <1>4, Given, ContinueType

\* The end of a repetition keeps the types.
LEMMA EndLoopType == ASSUME TypeInv, EndLoop PROVE TypeInv'
  <1>1. kont # <<>> /\ Frame.acc \in 0 .. Len(mem.heap) /\ Leave(mem, Frame.acc)
    BY GivenTurn, FrameOfKind DEF EndLoop, LoopFrames
  <1> QED
    BY <1>1, Given, LeaveType

\* To go on with the top frame is always something that can happen next.
LEMMA GoOnIsFocus == ASSUME NEW s, NEW h PROVE GoOn \in Focuses(s, h) /\ GoOn.at = "next"
  BY DEF GoOn, Focuses

\* Joining a round's text to those before it keeps the types.
LEMMA AccumulateType == ASSUME TypeInv, Accumulate PROVE TypeInv'
  <1> DEFINE m == Dstrcat(mem, Frame.acc, focus.text)
  <1>1. /\ kont # <<>> /\ Frame.kind = "loop" /\ Frame \in LoopFrames(script, Len(mem.heap))
        /\ focus.text \in 0 .. Len(mem.heap)
    BY GivenTurn, FrameOfKind DEF Accumulate
  <1>2. Frame.acc \in 0 .. Len(mem.heap)
    BY <1>1 DEF LoopFrames
  <1>3. IsMemory(m) /\ Len(m.heap) = Len(mem.heap) + 1
    BY <1>1, <1>2, Given, DstrcatMemory
  <1>4. CASE Frame.first
    <2> DEFINE f == [Frame EXCEPT !.acc = focus.text, !.first = FALSE]
    <2>1. Continue(mem, f, GoOn)
      BY <1>4 DEF Accumulate
    <2>2. f \in LoopFrames(script, Len(mem.heap)) /\ f.kind = "loop"
      BY <1>1 DEF LoopFrames
    <2>3. f \in Frames(script, Len(mem.heap))
      BY <2>2 DEF Frames
    <2> HIDE DEF f
    <2> QED
      BY <1>1, <2>1, <2>2, <2>3, Given, GoOnIsFocus, ContinueType
  <1>5. CASE ~Frame.first
    <2> DEFINE f == [Frame EXCEPT !.acc = Newest(m)]
    <2>1. Continue(m, f, GoOn)
      BY <1>5 DEF Accumulate
    <2> HIDE DEF m
    <2>2. Moves(mem, m) /\ Newest(m) \in 0 .. Len(m.heap) /\ Len(m.heap) \in Nat
      BY <1>3, Given, NewPointer DEF Moves
    <2>3. Frame \in LoopFrames(script, Len(m.heap))
      <3>1. Frame \in Frames(script, Len(m.heap))
        BY <1>1, <1>3, <2>2, Given, MonoFrames DEF Frames
      <3> QED
        BY <1>1, <3>1, FrameOfKind
    <2>4. f \in LoopFrames(script, Len(m.heap)) /\ f.kind = "loop"
      BY <2>2, <2>3 DEF LoopFrames
    <2>5. f \in Frames(script, Len(m.heap))
      BY <2>4 DEF Frames
    <2> HIDE DEF f
    <2> QED
      BY <1>1, <2>1, <2>2, <2>4, <2>5, GoOnIsFocus, ContinueType
  <1> QED
    BY <1>4, <1>5

\* A call that leaves the memory alone but may change last.
LEMMA PushType ==
  ASSUME TypeInv, Len(kont) < MaxDepth, focus.at \in {"atom", "next", "cooked"},
         kont # <<>> => Frame.kind # "args" \/ focus.at = "atom",
         NEW f \in OptionFrames(script, Len(mem.heap)),
         kont' = Append(kont, f), focus' = GoOn, UNCHANGED <<script, cdrFirst, mem>>,
         (last \in [NodeNumbers(script) -> Int])',
         (\A n \in DOMAIN last : last[n] = -1 \/ last[n] \in DOMAIN script.nodes[n].options)'
  PROVE  TypeInv'
  <1>1. f \in Frames(script, Len(mem.heap)) /\ f.kind = "option"
    BY DEF Frames, OptionFrames
  <1>2. /\ kont' \in Seq(Frames(script, Len(mem.heap))) /\ Len(kont') = Len(kont) + 1
        /\ \A i \in 1 .. Len(kont) : kont'[i] = kont[i]
        /\ kont'[Len(kont) + 1] = f
    BY <1>1, Given
  <1>3. \A i \in 1 .. Len(kont') : ChainAt(i)'
    BY <1>1, <1>2, Given DEF TypeInv, ChainAt, Frame
  <1>4. focus' \in Focuses(script, Len(mem.heap))
    BY GoOnIsFocus
  <1>5. Len(kont') <= MaxDepth
    BY <1>2, Given, DepthAssumption
  <1> QED
    BY <1>2, <1>3, <1>4, <1>5 DEF TypeInv

\* An option of nodes makes a frame.
LEMMA OptionIsFrame ==
  ASSUME NEW s, NEW h \in Nat, NEW atoms \in Seq(NodeNumbers(s)), NEW env \in Envs(h)
  PROVE  OptionFrame(atoms, env) \in OptionFrames(s, h)
  BY DEF OptionFrame, OptionFrames, Null

\* An inline choice keeps the types.
LEMMA ChoiceType == ASSUME TypeInv, Choice PROVE TypeInv'
  <1>1. /\ focus.at = "atom" /\ Len(kont) < MaxDepth /\ focus' = GoOn
        /\ UNCHANGED <<script, cdrFirst, mem>>
    BY DEF Choice, IsAtom
  <1>2. PICK c \in DOMAIN Node.options :
          /\ last' = [last EXCEPT ![focus.node] = c]
          /\ kont' = Append(kont, OptionFrame(Node.options[c], focus.env))
    BY DEF Choice
  <1>3. Node.options \in Seq(Seq(NodeNumbers(script))) /\ Node = script.nodes[focus.node]
    BY <1>1, GivenAtom DEF IsNode
  <1>4. c \in Int /\ Node.options[c] \in Seq(NodeNumbers(script))
    BY <1>2, <1>3
  <1>5. OptionFrame(Node.options[c], focus.env) \in OptionFrames(script, Len(mem.heap))
    BY <1>1, <1>4, Given, GivenAtom, OptionIsFrame
  <1>6. (last \in [NodeNumbers(script) -> Int])'
    BY <1>1, <1>2, <1>4 DEF TypeInv, NodeNumbers
  <1>7. (\A n \in DOMAIN last : last[n] = -1 \/ last[n] \in DOMAIN script.nodes[n].options)'
    BY <1>1, <1>2, <1>3 DEF TypeInv
  <1> QED
    BY <1>1, <1>2, <1>5, <1>6, <1>7, PushType

\* Taking up the next atom of an option keeps the types.
LEMMA NextAtomType == ASSUME TypeInv, NextAtom PROVE TypeInv'
  <1> DEFINE f == [Frame EXCEPT !.todo = Tail(@)]
             next == Atom(Head(Frame.todo), Frame.env)
  <1>1. kont # <<>> /\ Frame.kind = "option" /\ Frame \in OptionFrames(script, Len(mem.heap))
        /\ Continue(mem, f, next) /\ Frame.todo # <<>>
    BY GivenTurn, FrameOfKind DEF NextAtom
  <1>2. Frame.todo \in Seq(NodeNumbers(script)) /\ Frame.env \in Envs(Len(mem.heap))
    BY <1>1 DEF OptionFrames
  <1>3. Head(Frame.todo) \in NodeNumbers(script) /\ Tail(Frame.todo) \in Seq(NodeNumbers(script))
    BY <1>1, <1>2
  <1>4. f \in OptionFrames(script, Len(mem.heap)) /\ f.kind = "option"
    BY <1>1, <1>3 DEF OptionFrames
  <1>5. next \in Focuses(script, Len(mem.heap))
    BY <1>2, <1>3 DEF Atom, Focuses
  <1>6. f \in Frames(script, Len(mem.heap))
    BY <1>4 DEF Frames
  <1> HIDE DEF f, next
  <1> QED
    BY <1>1, <1>4, <1>5, <1>6, Given, ContinueType

\* The top frame as it is in a memory with more cells.
LEMMA FrameStays ==
  ASSUME TypeInv, NEW m, Moves(mem, m), kont # <<>>
  PROVE  Frame \in Frames(script, Len(m.heap)) /\ Len(m.heap) \in Nat
  <1>1. Frame \in Frames(script, Len(mem.heap))
    BY Given, TopAndBelow
  <1>2. Len(m.heap) \in Nat /\ Len(mem.heap) <= Len(m.heap)
    BY DEF Moves, IsMemory, IsHeap
  <1> QED
    BY <1>1, <1>2, Given, MonoFrames

\* Adding an atom's text to the option's keeps the types.
LEMMA AddTextType == ASSUME TypeInv, AddText PROVE TypeInv'
  <1> DEFINE m == Dstrcat(mem, Frame.acc, focus.text)
             f == [Frame EXCEPT !.acc = Newest(m)]
  <1>1. /\ kont # <<>> /\ Frame.kind = "option" /\ Frame \in OptionFrames(script, Len(mem.heap))
        /\ focus.text \in 0 .. Len(mem.heap) /\ Continue(m, f, GoOn)
    BY GivenTurn, FrameOfKind DEF AddText
  <1>2. Frame.acc \in 0 .. Len(mem.heap)
    BY <1>1 DEF OptionFrames
  <1>3. IsMemory(m) /\ Len(m.heap) = Len(mem.heap) + 1
    BY <1>1, <1>2, Given, DstrcatMemory
  <1> HIDE DEF m
  <1>4. Moves(mem, m) /\ Newest(m) \in 0 .. Len(m.heap)
    BY <1>3, Given, NewPointer DEF Moves
  <1>5. Frame \in OptionFrames(script, Len(m.heap))
    BY <1>1, <1>4, FrameStays, FrameOfKind
  <1>6. f \in OptionFrames(script, Len(m.heap)) /\ f.kind = "option"
    BY <1>4, <1>5 DEF OptionFrames
  <1>7. f \in Frames(script, Len(m.heap))
    BY <1>6 DEF Frames
  <1> HIDE DEF f
  <1> QED
    BY <1>1, <1>4, <1>6, <1>7, GoOnIsFocus, ContinueType

\* The end of an option keeps the types.
LEMMA EndOptionType == ASSUME TypeInv, EndOption PROVE TypeInv'
  <1>1. kont # <<>> /\ Frame.acc \in 0 .. Len(mem.heap) /\ Leave(mem, Frame.acc)
    BY GivenTurn, FrameOfKind DEF EndOption, OptionFrames
  <1> QED
    BY <1>1, Given, LeaveType
-----------------------------------------------------------------------------
\* The parameter that comes next is one of them.
LEMMA NextIsArg ==
  ASSUME TypeInv, NEW h, Frame \in ArgsFrames(script, h), Frame.left > 0
  PROVE  /\ NextArg \in 1 .. Len(Frame.params) /\ NextArg \in DOMAIN Frame.texts
         /\ Frame.params[NextArg] \in NodeNumbers(script)
  <1>1. /\ Frame.params \in Seq(NodeNumbers(script)) /\ Frame.left \in Nat
        /\ Frame.left <= Len(Frame.params) /\ Len(Frame.texts) = Len(Frame.params)
        /\ Frame.texts \in Seq(0 .. h)
    BY DEF ArgsFrames
  <1>2. NextArg \in 1 .. Len(Frame.params)
    BY <1>1 DEF NextArg
  <1> QED
    BY <1>1, <1>2

\* The frame that collects parameters stays one when a parameter is there.
LEMMA WithArgIsFrame ==
  ASSUME TypeInv, NEW h \in Nat, Frame \in ArgsFrames(script, h), Frame.left > 0, NEW p \in 0 .. h
  PROVE  WithArg(p) \in ArgsFrames(script, h) /\ WithArg(p).kind = "args"
  <1>1. NextArg \in DOMAIN Frame.texts
    BY NextIsArg
  <1>2. /\ Frame.params \in Seq(NodeNumbers(script)) /\ Frame.left \in Nat
        /\ Frame.left <= Len(Frame.params) /\ Len(Frame.texts) = Len(Frame.params)
        /\ Frame.texts \in Seq(0 .. h) /\ Frame.env \in Envs(h) /\ Frame.kind = "args"
        /\ Frame = [kind |-> "args", params |-> Frame.params, env |-> Frame.env,
                    texts |-> Frame.texts, left |-> Frame.left]
    BY DEF ArgsFrames
  <1> DEFINE texts == [Frame.texts EXCEPT ![NextArg] = p]
  <1>3. texts \in Seq(0 .. h) /\ Len(texts) = Len(Frame.params)
    BY <1>1, <1>2
  <1>4. WithArg(p) = [kind |-> "args", params |-> Frame.params, env |-> Frame.env,
                      texts |-> texts, left |-> Frame.left - 1]
    <2>1. WithArg(p) = [[Frame EXCEPT !.texts = texts] EXCEPT !.left = Frame.left - 1]
      BY <1>2 DEF WithArg
    <2> HIDE DEF texts
    <2> QED
      BY <1>2, <2>1
  <1> HIDE DEF texts
  <1> QED
    BY <1>2, <1>3, <1>4 DEF ArgsFrames

\* One more of the parameters is there.
LEMMA ArgDone ==
  ASSUME TypeInv, kont # <<>>, Frame.kind = "args", Frame.left > 0,
         NEW m, Moves(mem, m), NEW p \in 0 .. Len(m.heap), Continue(m, WithArg(p), GoOn)
  PROVE  TypeInv'
  <1>1. Frame \in ArgsFrames(script, Len(m.heap)) /\ Len(m.heap) \in Nat
    BY FrameStays, FrameOfKind
  <1>2. WithArg(p) \in ArgsFrames(script, Len(m.heap)) /\ WithArg(p).kind = "args"
    BY <1>1, WithArgIsFrame
  <1>3. WithArg(p) \in Frames(script, Len(m.heap))
    BY <1>2 DEF Frames
  <1> QED
    BY <1>2, <1>3, GoOnIsFocus, ContinueType

\* A cascaded parameter keeps the types.
LEMMA CascadeArgType == ASSUME TypeInv, CascadeArg PROVE TypeInv'
  <1> DEFINE n == Frame.params[NextArg]
             i == Position(Frame.env.formal, script.nodes[n].data)
             copied == CopyActual(mem, Frame.env, i)
             m == IF script.nodes[n].type \in Dataless THEN Fail(mem, "null") ELSE copied
  <1>1. /\ kont # <<>> /\ Frame.kind = "args" /\ Frame.left > 0
        /\ Continue(m, WithArg(Newest(m)), GoOn)
    BY GivenTurn DEF CascadeArg
  <1>2. IsMemory(copied) /\ Len(copied.heap) = Len(mem.heap) + 1
    BY Given, CopyActualMemory
  <1>3. IsMemory(Fail(mem, "null")) /\ Fail(mem, "null").heap = mem.heap
    BY Given, FailMemory DEF Faults
  <1> HIDE DEF copied
  <1>4. Moves(mem, m)
    BY <1>2, <1>3, Given DEF Moves
  <1> HIDE DEF m
  <1>5. Newest(m) \in 0 .. Len(m.heap)
    BY <1>4, NewPointer DEF Moves
  <1> QED
    BY <1>1, <1>4, <1>5, ArgDone

\* Taking a resolved parameter keeps the types: one was still missing.
LEMMA TakeArgType == ASSUME TypeInv, TakeArg PROVE TypeInv'
  <1>1. /\ kont # <<>> /\ Frame.kind = "args" /\ focus.at = "return"
        /\ focus.text \in 0 .. Len(mem.heap) /\ Continue(mem, WithArg(focus.text), GoOn)
    BY GivenTurn DEF TakeArg
  <1>2. Frame.left > 0
    <2>1. Len(kont) \in 1 .. Len(kont) /\ Frame = kont[Len(kont)]
      BY <1>1, Given DEF Frame
    <2> QED
      BY <1>1, <2>1 DEF TypeInv, ChainAt
  <1> QED
    BY <1>1, <1>2, Given, ArgDone

\* A parameter with parameters of its own keeps the types.
LEMMA NestedArgType == ASSUME TypeInv, NestedArg PROVE TypeInv'
  <1> DEFINE n == Frame.params[NextArg]
             h == Len(mem.heap)
             f == [kind |-> "nested", node |-> n]
             a == ArgsFrame(script.nodes[n].params, Frame.env)
  <1>1. /\ kont # <<>> /\ Frame.kind = "args" /\ Frame.left > 0
        /\ Frame \in ArgsFrames(script, h)
    BY GivenTurn, FrameOfKind DEF NestedArg
  <1>2. /\ Len(kont) + 2 <= MaxDepth /\ kont' = kont \o <<f, a>>
        /\ focus' = GoOn /\ UNCHANGED mem /\ Same
    BY DEF NestedArg
  <1>3. n \in NodeNumbers(script)
    BY <1>1, NextIsArg
  <1>4. f \in Frames(script, h) /\ f.kind = "nested"
    BY <1>3 DEF Frames, NestedFrames
  <1>5. a \in Frames(script, h) /\ a.kind = "args"
    <2>1. script.nodes[n].params \in Seq(NodeNumbers(script)) /\ Frame.env \in Envs(h)
      BY <1>1, <1>3, Given DEF IsScript, IsNode, ArgsFrames
    <2> QED
      BY <2>1, Given, ArgsIsFrame
  <1> HIDE DEF f, a, h, n
  <1>7. /\ kont' \in Seq(Frames(script, h)) /\ Len(kont') = Len(kont) + 2
        /\ \A i \in 1 .. Len(kont) : kont'[i] = kont[i]
        /\ kont'[Len(kont) + 1] = f /\ kont'[Len(kont) + 2] = a
    <2>1. kont \in Seq(Frames(script, h)) /\ Len(kont) \in Nat
      BY Given DEF h
    <2> QED
      BY <1>2, <1>4, <1>5, <2>1
  <1>8. \A i \in 1 .. Len(kont') : ChainAt(i)'
    <2>1. TAKE i \in 1 .. Len(kont')
    <2>2. focus'.at = "next" /\ Len(kont) \in Nat /\ i \in Int
      BY <1>2, <1>7, Given DEF GoOn
    <2>3. Frame = kont[Len(kont)] /\ Len(kont) >= 1
      BY <1>1, <2>2, Given DEF Frame
    <2>4. CASE i \in 1 .. Len(kont)
      <3>1. i > 1 => i - 1 \in 1 .. Len(kont)
        BY <2>2, <2>4
      <3>2. kont'[i] = kont[i] /\ (i > 1 => kont'[i - 1] = kont[i - 1])
        BY <1>7, <2>4, <3>1
      <3>3. ChainAt(i)
        BY <2>4 DEF TypeInv
      <3>4. kont[i].kind = "args" => kont[i].left > 0
        BY <1>1, <2>2, <2>3, <2>4, <3>3 DEF ChainAt
      <3> QED
        BY <3>2, <3>3, <3>4 DEF ChainAt
    <2>5. CASE i = Len(kont) + 1
      <3>1. kont'[i] = f /\ kont'[i - 1] = Frame /\ i > 1
        BY <1>7, <2>2, <2>3, <2>5
      <3> QED
        BY <1>1, <1>4, <3>1 DEF ChainAt
    <2>6. CASE i = Len(kont) + 2
      <3>1. kont'[i] = a /\ kont'[i - 1] = f /\ i > 1 /\ i = Len(kont')
        BY <1>7, <2>2, <2>6
      <3> QED
        BY <1>4, <1>5, <2>2, <3>1 DEF ChainAt
    <2> QED
      BY <1>7, <2>2, <2>4, <2>5, <2>6
  <1>9. focus' \in Focuses(script, h)
    BY <1>2, GoOnIsFocus
  <1>10. Len(kont') <= MaxDepth
    BY <1>2, <1>7
  <1> QED
    BY <1>2, <1>7, <1>8, <1>9, <1>10, RestKept, Given DEF TypeInv, h

\* The top frame is left for something other than a result.
LEMMA PopType ==
  ASSUME TypeInv, kont # <<>>, mem' = mem, kont' = Below, Same,
         NEW next \in Focuses(script, Len(mem.heap)), focus' = next,
         Frame.kind \in {"args", "nested"}, next.at # "next"
  PROVE  TypeInv'
  <1>1. /\ Below \in Seq(Frames(script, Len(mem.heap))) /\ Len(Below) = Len(kont) - 1
        /\ Len(kont) \in Nat \ {0}
        /\ \A i \in 1 .. Len(kont) - 1 : Below[i] = kont[i]
    BY Given, TopAndBelow
  <1>2. Len(kont') <= MaxDepth
    BY <1>1, Given, DepthAssumption
  <1>3. \A i \in 1 .. Len(kont') : ChainAt(i)'
    BY <1>1 DEF TypeInv, ChainAt
  <1> QED
    BY <1>1, <1>2, <1>3, RestKept, Given DEF TypeInv

\* The formal parameters of a rule are names.
LEMMA FormalsAreNames ==
  ASSUME TypeInv, NEW name
  PROVE  Formals(name) \in Seq(STRING)
  <1>1. CASE IsRule(name)
    BY <1>1, Given DEF Formals, IsRule, IsScript
  <1>2. CASE ~IsRule(name)
    <2>1. <<>> \in Seq(STRING)
      OBVIOUS
    <2> QED
      BY <1>2, <2>1 DEF Formals
  <1> QED
    BY <1>1, <1>2

\* Resolving a parameter whose own are there keeps the types.
LEMMA ResolveArgType == ASSUME TypeInv, ResolveArg PROVE TypeInv'
  <1> DEFINE env == [formal |-> Formals(script.nodes[Frame.node].data), cooked |-> focus.texts]
             next == Atom(Frame.node, env)
  <1>1. /\ kont # <<>> /\ Frame.kind = "nested" /\ Frame \in NestedFrames(script)
        /\ focus.texts \in Seq(0 .. Len(mem.heap))
        /\ mem' = mem /\ kont' = Below /\ focus' = next /\ Same
    BY GivenTurn, FrameOfKind DEF ResolveArg
  <1>2. env \in Envs(Len(mem.heap))
    BY <1>1, FormalsAreNames DEF Envs
  <1>3. next \in Focuses(script, Len(mem.heap)) /\ next.at = "atom"
    BY <1>1, <1>2 DEF Atom, Focuses, NestedFrames
  <1> HIDE DEF next
  <1> QED
    BY <1>1, <1>3, PopType

\* Handing over the parameters keeps the types.
LEMMA EndArgsType == ASSUME TypeInv, EndArgs PROVE TypeInv'
  <1>1. /\ kont # <<>> /\ Frame.kind = "args" /\ Frame \in ArgsFrames(script, Len(mem.heap))
        /\ mem' = mem /\ kont' = Below /\ focus' = Cooked(Frame.texts) /\ Same
    BY GivenTurn, FrameOfKind DEF EndArgs
  <1>2. Cooked(Frame.texts) \in Focuses(script, Len(mem.heap)) /\ Cooked(Frame.texts).at = "cooked"
    BY <1>1 DEF Cooked, Focuses, ArgsFrames
  <1> QED
    BY <1>1, <1>2, PopType

\* Selecting an option keeps the types.
LEMMA SelectOptionType == ASSUME TypeInv, SelectOption PROVE TypeInv'
  <1> DEFINE h == Len(mem.heap)
             f == [Frame EXCEPT !.cooked = focus.texts]
             env == [formal |-> Formals(Frame.name), cooked |-> focus.texts]
  <1>1. /\ kont # <<>> /\ Frame.kind = "rule" /\ Frame \in RuleFrames(script, h)
        /\ focus.texts \in Seq(0 .. h)
    BY GivenTurn, FrameOfKind DEF SelectOption
  <1>2. PICK c \in DOMAIN script.rules[Frame.name].options :
          kont' = Below \o <<f, OptionFrame(script.rules[Frame.name].options[c], env)>>
    BY DEF SelectOption
  <1> DEFINE o == OptionFrame(script.rules[Frame.name].options[c], env)
  <1>3. Len(kont) < MaxDepth /\ mem' = mem /\ focus' = GoOn /\ Same
    BY DEF SelectOption
  <1>4. script.rules[Frame.name].options[c] \in Seq(NodeNumbers(script))
    BY <1>1, Given DEF RuleFrames, IsScript
  <1>5. env \in Envs(h)
    BY <1>1, FormalsAreNames DEF Envs
  <1>6. o \in OptionFrames(script, h)
    BY <1>4, <1>5, Given, OptionIsFrame
  <1>7. f \in RuleFrames(script, h)
    BY <1>1 DEF RuleFrames
  <1>8. o \in Frames(script, h) /\ f \in Frames(script, h) /\ o.kind = "option" /\ f.kind = "rule"
    BY <1>6, <1>7 DEF Frames, OptionFrames, RuleFrames
  <1>9. /\ Below \in Seq(Frames(script, h)) /\ Len(Below) = Len(kont) - 1
        /\ Len(kont) \in Nat \ {0}
        /\ \A i \in 1 .. Len(kont) - 1 : Below[i] = kont[i]
        /\ Frame = kont[Len(kont)]
    BY <1>1, Given, TopAndBelow
  <1> HIDE DEF f, o, env, h
  <1>10. /\ kont' \in Seq(Frames(script, h)) /\ Len(kont') = Len(kont) + 1
         /\ \A i \in 1 .. Len(kont) - 1 : kont'[i] = kont[i]
         /\ kont'[Len(kont)] = f /\ kont'[Len(kont) + 1] = o
    BY <1>2, <1>8, <1>9 DEF o
  <1>11. \A i \in 1 .. Len(kont') : ChainAt(i)'
    BY <1>8, <1>9, <1>10, SMTT(30) DEF TypeInv, ChainAt
  <1>12. focus' \in Focuses(script, h) /\ Len(kont') <= MaxDepth
    BY <1>3, <1>9, <1>10, GoOnIsFocus, DepthAssumption
  <1> QED
    BY <1>3, <1>10, <1>11, <1>12, RestKept, Given DEF TypeInv, h

\* The end of a rule keeps the types.
LEMMA EndRuleType == ASSUME TypeInv, EndRule PROVE TypeInv'
  <1> DEFINE m == FreeAll(mem, Frame.cooked)
  <1>1. /\ kont # <<>> /\ Frame \in RuleFrames(script, Len(mem.heap))
        /\ focus.text \in 0 .. Len(mem.heap) /\ Leave(m, focus.text)
    BY GivenTurn, FrameOfKind DEF EndRule
  <1>2. Frame.cooked \in Seq(0 .. Len(mem.heap))
    BY <1>1 DEF RuleFrames
  <1>3. IsMemory(m) /\ Len(m.heap) = Len(mem.heap)
    BY <1>2, Given, FreeAllMemory
  <1> HIDE DEF m
  <1>4. Moves(mem, m) /\ focus.text \in 0 .. Len(m.heap)
    BY <1>1, <1>3, Given DEF Moves
  <1> QED
    BY <1>1, <1>4, LeaveType
-----------------------------------------------------------------------------
\* Entering a block of code keeps the types.
LEMMA CodeType == ASSUME TypeInv, Code PROVE TypeInv'
  <1> DEFINE f == [kind |-> "code", node |-> focus.node, done |-> 0, base |-> Len(mem.stack)]
  <1>1. focus.at = "atom" /\ Node.type = "code" /\ Call(mem, f, GoOn)
    BY DEF Code, IsAtom
  <1>2. Len(mem.stack) \in Nat
    BY Given DEF IsMemory
  <1>3. f \in Frames(script, Len(mem.heap)) /\ f.kind \notin {"args", "nested"}
    BY <1>1, <1>2, GivenAtom DEF Frames, CodeFramesOf
  <1> HIDE DEF f
  <1> QED
    BY <1>1, <1>3, Given, GoOnIsFocus, CallType

\* The frame of a block stays one after an instruction.
LEMMA InstrDoneIsFrame ==
  ASSUME NEW s, NEW h, Frame \in CodeFramesOf(s)
  PROVE  InstrDone \in Frames(s, h) /\ InstrDone.kind = "code"
  <1>1. InstrDone \in CodeFramesOf(s) /\ InstrDone.kind = "code"
    BY DEF InstrDone, CodeFramesOf
  <1> QED
    BY <1>1 DEF Frames

\* The instruction that is due is one that the machine knows.
LEMMA GivenDue ==
  ASSUME TypeInv, NEW ops, Due(ops)
  PROVE  /\ kont # <<>> /\ Frame \in CodeFramesOf(script) /\ Frame.kind = "code"
         /\ IsInstruction(InstrDue) /\ InstrDue.op \in ops
  <1>1. kont # <<>> /\ Frame.kind = "code" /\ Frame \in CodeFramesOf(script)
        /\ InstrDue.op \in ops /\ Frame.done < Len(CodeOf(Frame))
    BY GivenTurn, FrameOfKind DEF Due
  <1>2. Frame.node \in NodeNumbers(script) /\ Frame.done \in Nat
    BY <1>1 DEF CodeFramesOf
  <1> DEFINE code == CodeOf(Frame)
             S == {instr \in ToSet(code) : IsInstruction(instr)}
  <1>3. code \in Seq(S)
    BY <1>2, Given DEF CodeOf, IsScript, IsNode
  <1>4. Frame.done + 1 \in 1 .. Len(code)
    BY <1>1, <1>2, <1>3
  <1> HIDE DEF S, code
  <1>5. InstrDue \in S
    BY <1>3, <1>4 DEF InstrDue, code
  <1> QED
    BY <1>1, <1>5 DEF S

\* An instruction keeps the types.
LEMMA ExecType == ASSUME TypeInv, Exec PROVE TypeInv'
  <1>1. PICK m \in ExecInstr(mem, InstrDue) : Continue(m, InstrDone, GoOn)
    BY DEF Exec
  <1>2. /\ kont # <<>> /\ Frame \in CodeFramesOf(script) /\ Frame.kind = "code"
        /\ IsInstruction(InstrDue) /\ InstrDue.op \notin {"INVOKE", "EMIT"}
    BY GivenDue DEF Exec, Operators
  <1>3. Moves(mem, m)
    BY <1>2, Given, ExecInstrMemory
  <1>4. InstrDone \in Frames(script, Len(m.heap)) /\ InstrDone.kind = "code"
    BY <1>2, InstrDoneIsFrame
  <1> QED
    BY <1>1, <1>2, <1>3, <1>4, GoOnIsFocus, ContinueType

\* An INVOKE keeps the types.
LEMMA InvokeType == ASSUME TypeInv, Invoke PROVE TypeInv'
  <1>1. /\ kont # <<>> /\ Frame.kind = "code" /\ InvokeOn(mem, kont, InstrDue.name, <<>>, NoEnv)
    BY GivenDue DEF Invoke
  <1>2. Len(kont) \in 0 .. Len(kont) /\ kont = SubSeq(kont, 1, Len(kont))
    BY Given, SubSeqWhole
  <1>3. NoEnv \in Envs(Len(mem.heap)) /\ <<>> \in Seq(NodeNumbers(script))
    BY DEF NoEnv, Envs
  <1> QED
    BY <1>1, <1>2, <1>3, Given, InvokeOnType

\* Its result keeps the types.
LEMMA InvokedType == ASSUME TypeInv, Invoked PROVE TypeInv'
  <1> DEFINE c == StrCell(focus.text)
             m == Push(mem, c)
  <1>1. /\ kont # <<>> /\ Frame \in CodeFramesOf(script) /\ Frame.kind = "code"
        /\ focus.text \in 0 .. Len(mem.heap) /\ Continue(m, InstrDone, GoOn)
    BY GivenTurn, FrameOfKind DEF Invoked
  <1>2. c \in Cells(Len(mem.heap))
    BY <1>1 DEF StrCell, Cells, StrCells
  <1> HIDE DEF c
  <1>3. IsMemory(m) /\ m.heap = mem.heap
    BY <1>2, Given, PushMemory
  <1> HIDE DEF m
  <1>4. Moves(mem, m)
    BY <1>3, Given DEF Moves
  <1>5. InstrDone \in Frames(script, Len(m.heap)) /\ InstrDone.kind = "code"
    BY <1>1, InstrDoneIsFrame
  <1> QED
    BY <1>1, <1>4, <1>5, GoOnIsFocus, ContinueType

\* An EMIT keeps the types.
LEMMA EmitResultType == ASSUME TypeInv, EmitResult PROVE TypeInv'
  <1>1. /\ kont # <<>> /\ Frame \in CodeFramesOf(script) /\ Frame.kind = "code"
    BY GivenDue DEF EmitResult
  <1>2. Moves(mem, Emit(mem)) /\ Emitted(mem) \in 0 .. Len(Emit(mem).heap)
    BY Given, EmitMemory
  <1>3. InstrDone \in Frames(script, Len(Emit(mem).heap)) /\ InstrDone.kind = "code"
    BY <1>1, InstrDoneIsFrame
  <1>4. Continue(Emit(mem), InstrDone, GoOn) \/ Leave(Emit(mem), Emitted(mem))
    BY DEF EmitResult
  <1> QED
    BY <1>1, <1>2, <1>3, <1>4, GoOnIsFocus, ContinueType, LeaveType

\* The end of a block keeps the types.
LEMMA EndCodeType == ASSUME TypeInv, EndCode PROVE TypeInv'
  <1>1. kont # <<>> /\ Leave(mem, Null)
    BY GivenTurn DEF EndCode
  <1> QED
    BY <1>1, Given, NewPointer, LeaveType

\* Printing keeps the types.
LEMMA OutputType == ASSUME TypeInv, Output PROVE TypeInv'
  <1>1. /\ focus.at = "return" /\ mem' = Read(mem, focus.text) /\ kont' = kont /\ Same
        /\ focus' = [at |-> "done", text |-> focus.text]
    BY DEF Output
  <1>2. IsMemory(mem)' /\ mem'.heap = mem.heap
    BY <1>1, Given, ReadMemory
  <1>3. focus' \in Focuses(script, Len(mem.heap))
    BY <1>1 DEF TypeInv, Focuses
  <1>4. \A i \in 1 .. Len(kont') : ChainAt(i)'
    BY <1>1 DEF TypeInv, ChainAt
  <1> QED
    BY <1>1, <1>2, <1>3, <1>4, RestKept DEF TypeInv

\* The types hold at the start.
LEMMA InitType == ASSUME Init PROVE TypeInv
  <1>1. script \in Scripts /\ IsScript(script) /\ cdrFirst \in BOOLEAN
    BY ScriptsAssumption DEF Init
  <1>2. IsMemory(mem) /\ Len(mem.heap) = 1
    <2>1. mem = NewMemory
      BY DEF Init
    <2>2. /\ mem.heap = <<[text |-> <<"undefined">>, state |-> "constant"]>>
          /\ mem.vars = <<>> /\ mem.stack = <<>> /\ mem.fault = "none"
          /\ DOMAIN mem = {"heap", "vars", "stack", "fault"}
      BY <2>1 DEF NewMemory
    <2>3. IsHeap(mem.heap) /\ Len(mem.heap) = 1
      BY <2>2 DEF IsHeap, States
    <2>4. mem.stack \in Seq(Cells(Len(mem.heap))) /\ Len(mem.stack) = 0
      BY <2>2
    <2>5. \A n \in DOMAIN mem.vars : mem.vars[n] \in Cells(Len(mem.heap))
      BY <2>2
    <2> QED
      BY <2>2, <2>3, <2>4, <2>5, StackAssumption DEF IsMemory, Faults
  <1>3. last \in [NodeNumbers(script) -> Int] /\ \A n \in DOMAIN last : last[n] = -1
    BY DEF Init, NodeNumbers
  <1>4. focus \in Focuses(script, Len(mem.heap)) /\ focus.at = "next"
    BY GoOnIsFocus DEF Init
  <1> DEFINE h == Len(mem.heap)
             r == [kind |-> "rule", name |-> script.start, cooked |-> <<>>]
             a == ArgsFrame(<<>>, NoEnv)
  <1>5. r \in Frames(script, h) /\ r.kind = "rule"
    BY <1>1 DEF IsScript, Frames, RuleFrames
  <1>6. a \in Frames(script, h) /\ a.kind = "args"
    <2>1. NoEnv \in Envs(h) /\ <<>> \in Seq(NodeNumbers(script))
      BY DEF NoEnv, Envs
    <2> QED
      BY <1>2, <2>1, ArgsIsFrame
  <1>7. kont = <<r, a>>
    BY DEF Init
  <1> HIDE DEF h, r, a
  <1>8. /\ kont \in Seq(Frames(script, h)) /\ Len(kont) = 2 /\ kont[1] = r /\ kont[2] = a
    BY <1>5, <1>6, <1>7
  <1>9. \A i \in 1 .. Len(kont) : ChainAt(i)
    BY <1>4, <1>5, <1>6, <1>8 DEF ChainAt
  <1> QED
    BY <1>1, <1>2, <1>3, <1>4, <1>8, <1>9, DepthAssumption DEF TypeInv, h

\* Every step keeps the types.
LEMMA NextType == ASSUME TypeInv, [Next]_vars PROVE TypeInv'
  <1>1. CASE UNCHANGED vars
    BY <1>1 DEF vars, TypeInv, ChainAt
  <1>2. CASE ResolveAtom
    BY <1>2, LiteralType, ParameterType, SymbolType, MapType, DereferenceType, DefineType,
       CondDefType, VarRefType, SilenceType, LoopsType, RepeatVarType, RoundType, EndLoopType,
       AccumulateType, ChoiceType, EnterType DEF ResolveAtom, Enter
  <1>3. CASE ResolveRule
    BY <1>3, NextAtomType, AddTextType, EndOptionType, CascadeArgType, NestedArgType,
       ResolveArgType, TakeArgType, EndArgsType, SelectOptionType, EndRuleType DEF ResolveRule
  <1>4. CASE RunCode
    BY <1>4, CodeType, ExecType, InvokeType, InvokedType, EmitResultType, EndCodeType DEF RunCode
  <1>5. CASE Output
    BY <1>5, OutputType
  <1>6. CASE Finished
    BY <1>1, <1>6 DEF Finished
  <1> QED
    BY <1>1, <1>2, <1>3, <1>4, <1>5, <1>6 DEF Next

\* In every run of every script that the parser can build, whatever the bounds, the
\* variables of the resolver have the values they should: the inductive invariant.
THEOREM TypesHold == Spec => []TypeInv
  <1>1. Init => TypeInv
    BY InitType
  <1>2. TypeInv /\ [Next]_vars => TypeInv'
    BY NextType
  <1> QED
    BY <1>1, <1>2, PTL DEF Spec

\* The invariant says more than TypeOK.
LEMMA TypeInvImplies == TypeInv => TypeOK
  <1> SUFFICES ASSUME TypeInv PROVE TypeOK
    OBVIOUS
  <1>1. /\ script \in Scripts /\ cdrFirst \in BOOLEAN /\ Len(kont) <= MaxDepth
        /\ \A n \in DOMAIN last : last[n] = -1 \/ last[n] \in DOMAIN script.nodes[n].options
    BY DEF TypeInv
  <1>2. \A p \in Pointers(mem) : mem.heap[p].state \in {"live", "freed", "constant"}
    BY Given DEF IsMemory, IsHeap, Pointers, States
  <1>3. mem.fault \in {"none", "null", "stale", "bad free", "overflow", "underflow", "trap", "exit"}
    BY Given DEF IsMemory, Faults
  <1>4. focus.at \in {"atom", "next", "return", "cooked", "done"}
    BY DEF TypeInv, Focuses
  <1>5. \A ps \in Seq(0 .. Len(mem.heap)) : Texts(ps) \subseteq Pointers(mem)
    BY Given DEF Texts, ToSet, Pointers, Null
  <1>6. \A i \in DOMAIN kont : FrameTexts(i) \subseteq Pointers(mem)
    <2>1. TAKE i \in DOMAIN kont
    <2>2. kont[i] \in Frames(script, Len(mem.heap))
      BY Given
    <2>3. OwnedBy(kont[i]) \in Seq(0 .. Len(mem.heap))
      <3> DEFINE f == kont[i]
                 h == Len(mem.heap)
      <3> HIDE DEF f, h
      <3>0. f \in Frames(script, h)
        BY <2>2 DEF f, h
      <3>1. CASE f.kind \in {"option", "loop"}
        <4>1. f.acc \in 0 .. h
          BY <3>0, <3>1, FrameOfKind DEF OptionFrames, LoopFrames
        <4>2. OwnedBy(f) = <<f.acc>>
          BY <3>1 DEF OwnedBy
        <4> QED
          BY <4>1, <4>2 DEF f, h
      <3>2. CASE f.kind = "rule"
        <4>1. f.cooked \in Seq(0 .. h)
          BY <3>0, <3>2, FrameOfKind DEF RuleFrames
        <4> QED
          BY <3>2, <4>1 DEF OwnedBy, f, h
      <3>3. CASE f.kind = "args"
        <4>1. f.texts \in Seq(0 .. h)
          BY <3>0, <3>3, FrameOfKind DEF ArgsFrames
        <4> QED
          BY <3>3, <4>1 DEF OwnedBy, f, h
      <3>4. CASE f.kind \notin {"option", "loop", "rule", "args"}
        <4>1. OwnedBy(f) = <<>>
          BY <3>4 DEF OwnedBy
        <4> QED
          BY <4>1 DEF f
      <3> QED
        BY <3>1, <3>2, <3>3, <3>4
    <2> QED
      BY <1>5, <2>3 DEF FrameTexts
  <1>7. \A n \in TextVars : VarText(n) \subseteq Pointers(mem)
    <2>1. TAKE n \in TextVars
    <2>2. mem.vars[n].v \in 0 .. Len(mem.heap)
      BY Given DEF TextVars, IsMemory, Cells, IntCells, StrCells
    <2>3. <<mem.vars[n].v>> \in Seq(0 .. Len(mem.heap))
      BY <2>2
    <2> QED
      BY <1>5, <2>3 DEF VarText
  <1>8. Texts(InFlight) \subseteq Pointers(mem)
    <2>1. InFlight \in Seq(0 .. Len(mem.heap))
      <3>1. focus \in Focuses(script, Len(mem.heap))
        BY DEF TypeInv
      <3>2. CASE focus.at = "return"
        <4>1. focus.text \in 0 .. Len(mem.heap)
          BY <3>1, <3>2 DEF Focuses
        <4> QED
          BY <3>2, <4>1 DEF InFlight
      <3>3. CASE focus.at = "cooked"
        BY <3>1, <3>3 DEF Focuses, InFlight
      <3>4. CASE focus.at \notin {"return", "cooked"}
        <4>1. InFlight = <<>>
          BY <3>4 DEF InFlight
        <4> QED
          BY <4>1
      <3> QED
        BY <3>2, <3>3, <3>4
    <2> QED
      BY <1>5, <2>1
  <1>9. Held \subseteq Pointers(mem)
    BY <1>6, <1>7, <1>8 DEF Held
  <1> QED
    BY <1>1, <1>2, <1>3, <1>4, <1>9 DEF TypeOK

\* The type invariant of the resolver, checked on instances as TypeOK: no pointer leaves
\* the heap, also those of waiting calls and variables, last_choice names an option.
\* (That the operand stack keeps to its array is not claimed: the push of the model
\* ends in a fault where that of machine.c goes on.)
THEOREM TypeCorrect == Spec => []TypeOK
  BY TypesHold, TypeInvImplies, PTL

----------------------------------------------------------------------------
(* The resolver implements Derivation: every step of it is a step of a     *)
(* leftmost derivation, or none.                                           *)
(*                                                                         *)
(* The words that are settled and the items to be derived are joined from  *)
(* one part for each waiting function, so that a step, which concerns the  *)
(* top of the stack of calls, changes the last of the one and the first of *)
(* the other.                                                              *)


\* Sequences over a set are joined to one over that set.
LEMMA FlattenType ==
  ASSUME NEW S, NEW seqs \in Seq(Seq(S)) PROVE FlattenSeq(seqs) \in Seq(S)
  <1>1. PICK f \in [0 .. Len(seqs) -> Seq(S)] : FlattenSeq(seqs) = f[Len(seqs)]
    BY FlattenUpto DEF IsFlattening
  <1> QED
    BY <1>1

\* No sequences are joined to an empty one.
LEMMA FlattenNone == FlattenSeq(<<>>) = <<>>
  BY DEF FlattenSeq

\* What is first of all is first of what is joined.
LEMMA FlattenCons ==
  ASSUME NEW S, NEW seqs \in Seq(Seq(S)), NEW seq \in Seq(S)
  PROVE  FlattenSeq(<<seq>> \o seqs) = seq \o FlattenSeq(seqs)
  <1> DEFINE N == Len(seqs)
             longer == <<seq>> \o seqs
  <1>1. /\ N \in Nat /\ longer \in Seq(Seq(S)) /\ Len(longer) = N + 1
        /\ longer[1] = seq
    OBVIOUS
  <1>2. \A n \in 1 .. N : longer[n + 1] = seqs[n] /\ seqs[n] \in Seq(S)
    OBVIOUS
  <1> HIDE DEF longer, N
  <1>3. PICK f \in [0 .. N -> Seq(S)] :
          /\ f[0] = <<>>
          /\ \A n \in 1 .. N : f[n] = f[n - 1] \o seqs[n]
          /\ FlattenSeq(seqs) = f[N]
    BY FlattenUpto DEF N, IsFlattening
  <1>4. PICK g \in [0 .. N + 1 -> Seq(S)] :
          /\ g[0] = <<>>
          /\ \A n \in 1 .. N + 1 : g[n] = g[n - 1] \o longer[n]
          /\ FlattenSeq(longer) = g[N + 1]
    <2>1. \E g \in [0 .. Len(longer) -> Seq(S)] : IsFlattening(g, longer)
      BY <1>1, FlattenUpto
    <2> QED
      BY <1>1, <2>1 DEF IsFlattening
  <1> DEFINE T == {n \in Nat : n <= N => g[n + 1] = seq \o f[n]}
  <1>5. Nat \subseteq T
    <2>1. 0 \in T
      <3>1. 1 \in 1 .. N + 1 /\ 1 - 1 = 0
        BY <1>1
      <3>2. g[1] = <<>> \o seq
        BY <1>1, <1>4, <3>1
      <3>3. <<>> \o seq = seq /\ seq \o <<>> = seq
        BY ConcatEmptySeq
      <3> QED
        BY <1>3, <3>2, <3>3
    <2>2. ASSUME NEW n \in Nat, n \in T PROVE n + 1 \in T
      <3> SUFFICES ASSUME n + 1 <= N PROVE g[(n + 1) + 1] = seq \o f[n + 1]
        OBVIOUS
      <3>1. /\ n + 1 \in 1 .. N /\ (n + 1) - 1 = n /\ n \in 0 .. N /\ n <= N
            /\ (n + 1) + 1 \in 1 .. N + 1 /\ ((n + 1) + 1) - 1 = n + 1
        BY <1>1
      <3>2. g[n + 1] = seq \o f[n]
        BY <2>2, <3>1, Zenon
      <3>3. f[n + 1] = f[n] \o seqs[n + 1] /\ f[n] \in Seq(S) /\ seqs[n + 1] \in Seq(S)
        BY <1>2, <1>3, <3>1
      <3>4. g[(n + 1) + 1] = (seq \o f[n]) \o seqs[n + 1]
        <4>1. g[(n + 1) + 1] = g[n + 1] \o longer[(n + 1) + 1]
          BY <1>4, <3>1
        <4>2. longer[(n + 1) + 1] = seqs[n + 1]
          BY <1>2, <3>1
        <4> QED
          BY <3>2, <4>1, <4>2
      <3>5. (seq \o f[n]) \o seqs[n + 1] = seq \o (f[n] \o seqs[n + 1])
        <4>1. \A t, u \in Seq(S) : (seq \o t) \o u = seq \o (t \o u)
          BY ConcatAssociative, SMTT(30)
        <4> QED
          BY <3>3, <4>1
      <3> QED
        BY <3>3, <3>4, <3>5
    <2> HIDE DEF T
    <2> QED
      BY <2>1, <2>2, SetInduction
  <1>6. g[N + 1] = seq \o f[N]
    <2>1. N \in T
      BY <1>1, <1>5
    <2> QED
      BY <1>1, <2>1
  <1> QED
    BY <1>3, <1>4, <1>6 DEF longer

\* What is last of all is last of what is joined.
LEMMA FlattenAppend ==
  ASSUME NEW S, NEW seqs \in Seq(Seq(S)), NEW seq \in Seq(S)
  PROVE  FlattenSeq(Append(seqs, seq)) = FlattenSeq(seqs) \o seq
  <1> DEFINE N == Len(seqs)
             longer == Append(seqs, seq)
  <1>1. /\ N \in Nat /\ longer \in Seq(Seq(S)) /\ Len(longer) = N + 1
        /\ longer[N + 1] = seq
        /\ \A n \in 1 .. N : longer[n] = seqs[n]
    OBVIOUS
  <1> HIDE DEF longer, N
  <1>2. PICK f \in [0 .. N -> Seq(S)] :
          /\ f[0] = <<>>
          /\ \A n \in 1 .. N : f[n] = f[n - 1] \o seqs[n]
          /\ FlattenSeq(seqs) = f[N]
    BY FlattenUpto DEF N, IsFlattening
  <1>3. PICK g \in [0 .. N + 1 -> Seq(S)] :
          /\ g[0] = <<>>
          /\ \A n \in 1 .. N + 1 : g[n] = g[n - 1] \o longer[n]
          /\ FlattenSeq(longer) = g[N + 1]
    <2>1. \E g \in [0 .. Len(longer) -> Seq(S)] : IsFlattening(g, longer)
      BY <1>1, FlattenUpto
    <2> QED
      BY <1>1, <2>1 DEF IsFlattening
  <1> DEFINE T == {n \in Nat : n <= N => g[n] = f[n]}
  <1>4. Nat \subseteq T
    <2>1. 0 \in T
      BY <1>2, <1>3
    <2>2. ASSUME NEW n \in Nat, n \in T PROVE n + 1 \in T
      <3> SUFFICES ASSUME n + 1 <= N PROVE g[n + 1] = f[n + 1]
        OBVIOUS
      <3>1. /\ n + 1 \in 1 .. N /\ n + 1 \in 1 .. N + 1 /\ (n + 1) - 1 = n
            /\ g[n] = f[n]
        BY <1>1, <2>2
      <3> QED
        BY <1>1, <1>2, <1>3, <3>1
    <2> HIDE DEF T
    <2> QED
      BY <2>1, <2>2, SetInduction
  <1>5. g[N] = f[N] /\ N + 1 \in 1 .. N + 1 /\ (N + 1) - 1 = N
    <2>1. N \in T
      BY <1>1, <1>4
    <2> QED
      BY <1>1, <2>1
  <1> QED
    BY <1>1, <1>2, <1>3, <1>5 DEF longer

\* The first k of some sequences joined, the first one first or last.
Flat(t, k) == FlattenSeq([i \in 1 .. k |-> t[i]])
Back(t, k) == FlattenSeq(Reverse([i \in 1 .. k |-> t[i]]))

\* The first none.
LEMMA JoinNone == ASSUME NEW t PROVE Flat(t, 0) = <<>> /\ Back(t, 0) = <<>>
  <1>1. [i \in 1 .. 0 |-> t[i]] = <<>> /\ Reverse(<<>>) = <<>>
    BY DEF Reverse
  <1> QED
    BY <1>1, FlattenNone DEF Flat, Back

\* Only the first k matter.
LEMMA JoinSame ==
  ASSUME NEW k, NEW t, NEW u, \A i \in 1 .. k : t[i] = u[i]
  PROVE  Flat(t, k) = Flat(u, k) /\ Back(t, k) = Back(u, k)
  <1>1. [i \in 1 .. k |-> t[i]] = [i \in 1 .. k |-> u[i]]
    OBVIOUS
  <1> QED
    BY <1>1 DEF Flat, Back

\* Joining sequences over a set yields one over that set.
LEMMA JoinType ==
  ASSUME NEW S, NEW k \in Nat, NEW t, \A i \in 1 .. k : t[i] \in Seq(S)
  PROVE  Flat(t, k) \in Seq(S) /\ Back(t, k) \in Seq(S)
  <1> DEFINE SS == Seq(S)
             some == [i \in 1 .. k |-> t[i]]
  <1>1. some \in Seq(SS) /\ Len(some) = k
    OBVIOUS
  <1>2. Reverse(some) \in Seq(SS)
    <2>1. \A i \in 1 .. k : some[(k - i) + 1] \in SS
      OBVIOUS
    <2> HIDE DEF some, SS
    <2>2. [i \in 1 .. k |-> some[(k - i) + 1]] \in Seq(SS)
      BY <2>1
    <2> QED
      BY <1>1, <2>2 DEF Reverse
  <1> HIDE DEF some
  <1> QED
    BY <1>1, <1>2, FlattenType DEF Flat, Back, some

\* One more is joined at the end, or in front.
LEMMA JoinMore ==
  ASSUME NEW S, NEW k \in Nat, NEW t, \A i \in 1 .. k + 1 : t[i] \in Seq(S)
  PROVE  /\ Flat(t, k + 1) = Flat(t, k) \o t[k + 1]
         /\ Back(t, k + 1) = t[k + 1] \o Back(t, k)
  <1> DEFINE SS == Seq(S)
             some == [i \in 1 .. k |-> t[i]]
             more == [i \in 1 .. k + 1 |-> t[i]]
  <1>1. some \in Seq(SS) /\ Len(some) = k /\ t[k + 1] \in SS
    OBVIOUS
  <1>2. more \in Seq(SS) /\ Len(more) = k + 1
    OBVIOUS
  <1>3. more = Append(some, t[k + 1])
    <2>1. \A i \in 1 .. k + 1 : more[i] = Append(some, t[k + 1])[i]
      BY <1>1
    <2>2. Append(some, t[k + 1]) \in Seq(SS) /\ Len(Append(some, t[k + 1])) = k + 1
      BY <1>1
    <2> HIDE DEF some, more, SS
    <2> QED
      BY <1>2, <2>1, <2>2
  <1>4. Reverse(some) \in Seq(SS) /\ Len(Reverse(some)) = k
        /\ \A i \in 1 .. k : Reverse(some)[i] = t[(k - i) + 1]
    <2>1. \A i \in 1 .. k : some[(k - i) + 1] \in SS /\ some[(k - i) + 1] = t[(k - i) + 1]
      OBVIOUS
    <2> HIDE DEF some, SS
    <2>2. [i \in 1 .. k |-> some[(k - i) + 1]] \in Seq(SS)
      BY <2>1
    <2> QED
      BY <1>1, <2>1, <2>2 DEF Reverse
  <1>5. Reverse(more) = <<t[k + 1]>> \o Reverse(some)
    <2> DEFINE r == Reverse(some)
    <2>1. Reverse(more) = [i \in 1 .. k + 1 |-> more[((k + 1) - i) + 1]]
      BY <1>2 DEF Reverse
    <2>2. ASSUME NEW i \in 1 .. k + 1
          PROVE  more[((k + 1) - i) + 1] = (<<t[k + 1]>> \o r)[i]
      <3>1. CASE i = 1
        <4>1. ((k + 1) - i) + 1 = k + 1
          BY <3>1
        <4>2. (<<t[k + 1]>> \o r)[1] = t[k + 1]
          <5> HIDE DEF r
          <5> QED
            BY <1>4
        <4> QED
          BY <3>1, <4>1, <4>2
      <3>2. CASE i # 1
        <4>1. i - 1 \in 1 .. k /\ ((k + 1) - i) + 1 \in 1 .. k + 1
              /\ ((k + 1) - i) + 1 = (k - (i - 1)) + 1
          BY <3>2
        <4>2. r[i - 1] = t[(k - (i - 1)) + 1]
          BY <1>4, <4>1
        <4>3. (<<t[k + 1]>> \o r)[i] = r[i - 1]
          <5>1. r \in Seq(SS) /\ Len(r) = k /\ <<t[k + 1]>> \in Seq(SS)
            BY <1>1, <1>4
          <5> HIDE DEF r, SS
          <5> QED
            BY <3>2, <4>1, <5>1
        <4> QED
          BY <4>1, <4>2, <4>3
      <3> QED
        BY <3>1, <3>2
    <2>3. <<t[k + 1]>> \o r \in Seq(SS) /\ Len(<<t[k + 1]>> \o r) = k + 1
      BY <1>1, <1>4
    <2> HIDE DEF more, some, r, SS
    <2>4. <<t[k + 1]>> \o r = [i \in 1 .. k + 1 |-> (<<t[k + 1]>> \o r)[i]]
      BY <2>3
    <2> QED
      BY <2>1, <2>2, <2>4 DEF r
  <1> HIDE DEF some, more
  <1>6. FlattenSeq(Append(some, t[k + 1])) = FlattenSeq(some) \o t[k + 1]
    BY <1>1, FlattenAppend
  <1>7. FlattenSeq(<<t[k + 1]>> \o Reverse(some)) = t[k + 1] \o FlattenSeq(Reverse(some))
    BY <1>1, <1>4, FlattenCons
  <1> QED
    BY <1>3, <1>5, <1>6, <1>7 DEF Flat, Back, some, more
-----------------------------------------------------------------------------
\* What the words and the items of a script can be.
WordsIn(s) == {s.nodes[n].data : n \in NodeNumbers(s)} \cup {"undefined"}
ItemsIn(s) ==
  {RuleItem(s, name) : name \in {s.nodes[n].data : n \in NodeNumbers(s)} \cup DOMAIN s.rules}
    \cup {NodeItem(s, n) : n \in NodeNumbers(s)}
    \cup {StarItem(s, n) : n \in NodeNumbers(s)}
    \cup {TimesItem(s, n, k) : n \in NodeNumbers(s), k \in Int}

\* While a script that is a grammar runs, only options, repetitions and rules
\* wait, and rules for parameters which they do not have.
GrammarFrame(i) ==
  /\ kont[i].kind \in {"option", "loop", "args", "rule"}
  /\ kont[i].kind \in {"option", "loop"} => kont[i].env.formal = <<>>
  /\ kont[i].kind = "loop" /\ kont[i].first => kont[i].acc = Null
  /\ kont[i].kind = "args" => kont[i].params = <<>> /\ i = Len(kont) /\ focus.at = "next"

GrammarInv ==
  /\ \A p \in 1 .. Len(mem.heap) : mem.heap[p].text \in Seq(WordsIn(script))
  /\ \A i \in 1 .. Len(kont) : GrammarFrame(i)
  /\ focus.at = "atom" => focus.env.formal = <<>>
  /\ focus.at = "cooked" => kont # <<>> /\ Frame.kind = "rule"

Parsing == TypeInv /\ IsGrammar /\ GrammarInv

\* The types of nodes that a grammar has.
LEMMA GrammarNode ==
  ASSUME Parsing, NEW n \in NodeNumbers(script)
  PROVE  /\ script.nodes[n].type \in {"literal", "symbol", "choice", "star", "plus", "repeat_const"}
         /\ script.nodes[n].type = "symbol" => script.nodes[n].params = <<>>
         /\ IsNode(script.nodes[n], NodeNumbers(script))
  BY Given DEF Parsing, IsGrammar, NodeNumbers, IsScript

\* A node's item is one of the script's.
LEMMA ItemType ==
  ASSUME Parsing, NEW n \in NodeNumbers(script)
  PROVE  Item(script, n) \in ItemsIn(script)
  <1> DEFINE node == script.nodes[n]
  <1>1. /\ node.type \in {"literal", "symbol", "choice", "star", "plus", "repeat_const"}
        /\ IsNode(node, NodeNumbers(script))
    BY GrammarNode
  <1>2. node.type \in {"star", "plus", "repeat_const"} =>
          node.params[1] \in NodeNumbers(script) /\ node.count \in Int
    BY <1>1 DEF IsNode, Rounds
  <1>3. CASE node.type = "symbol"
    BY <1>3 DEF Item, ItemsIn
  <1>4. CASE node.type = "star"
    BY <1>2, <1>4 DEF Item, ItemsIn
  <1>5. CASE node.type = "repeat_const"
    BY <1>2, <1>5 DEF Item, ItemsIn
  <1>6. CASE node.type \in {"literal", "choice", "plus"}
    BY <1>6 DEF Item, ItemsIn
  <1> QED
    BY <1>1, <1>3, <1>4, <1>5, <1>6

\* The items of some nodes are the script's.
LEMMA ItemsType ==
  ASSUME Parsing, NEW ns \in Seq(NodeNumbers(script))
  PROVE  Items(script, ns) \in Seq(ItemsIn(script)) /\ Len(Items(script, ns)) = Len(ns)
  <1>1. \A i \in 1 .. Len(ns) : Item(script, ns[i]) \in ItemsIn(script)
    BY ItemType
  <1>2. Items(script, ns) = [i \in 1 .. Len(ns) |-> Item(script, ns[i])]
    BY DEF Items
  <1> HIDE DEF Items
  <1> QED
    BY <1>1, <1>2

\* What a frame contributes.
GatheredOf(m, frame) ==
  IF frame.kind \in {"option", "loop"} THEN TextAt(m, frame.acc) ELSE <<>>

PendingOf(s, frame, below, cooked) ==
  CASE frame.kind = "option" -> Items(s, frame.todo)
    [] frame.kind = "loop"   ->
         IF frame.random THEN <<StarItem(s, s.nodes[frame.node].params[1])>>
         ELSE <<TimesItem(s, s.nodes[frame.node].params[1], frame.left)>>
    [] frame.kind = "args"   -> <<RuleItem(s, below.name)>>
    [] frame.kind = "rule"   -> IF cooked THEN <<RuleItem(s, frame.name)>> ELSE <<>>

\* What the i-th function contributes depends on its frame and the memory only.
LEMMA PartsOf ==
  ASSUME NEW i
  PROVE  /\ Gathered(i) = GatheredOf(mem, kont[i])
         /\ Gathered(i)' = GatheredOf(mem', kont'[i])
         /\ Pending(i) = PendingOf(script, kont[i], kont[i - 1],
                                   focus.at = "cooked" /\ i = Len(kont))
         /\ Pending(i)' = PendingOf(script', kont'[i], kont'[i - 1],
                                    focus'.at = "cooked" /\ i = Len(kont'))
  BY DEF Gathered, GatheredOf, Pending, PendingOf

\* The texts are made of the script's words.
LEMMA TextType ==
  ASSUME Parsing, NEW p \in 0 .. Len(mem.heap)
  PROVE  TextAt(mem, p) \in Seq(WordsIn(script))
  BY Given DEF Parsing, GrammarInv, TextAt, Null

\* The frames of a grammar, by their kind.
LEMMA GivenFrame ==
  ASSUME Parsing, NEW i \in 1 .. Len(kont)
  PROVE  /\ GrammarFrame(i) /\ ChainAt(i)
         /\ kont[i].kind = "option" => kont[i] \in OptionFrames(script, Len(mem.heap))
         /\ kont[i].kind = "loop"   => kont[i] \in LoopFrames(script, Len(mem.heap))
         /\ kont[i].kind = "args"   => kont[i] \in ArgsFrames(script, Len(mem.heap))
         /\ kont[i].kind = "rule"   => kont[i] \in RuleFrames(script, Len(mem.heap))
  <1>1. kont[i] \in Frames(script, Len(mem.heap))
    BY Given DEF Parsing
  <1> QED
    BY <1>1, FrameOfKind DEF Parsing, TypeInv, GrammarInv

\* What a function contributes is made of the script's words and items.
LEMMA PartsType ==
  ASSUME Parsing, NEW i \in 1 .. Len(kont)
  PROVE  /\ Gathered(i) \in Seq(WordsIn(script))
         /\ Pending(i) \in Seq(ItemsIn(script))
  <1>1. CASE kont[i].kind = "option"
    <2>1. kont[i].acc \in 0 .. Len(mem.heap) /\ kont[i].todo \in Seq(NodeNumbers(script))
      BY <1>1, GivenFrame DEF OptionFrames
    <2> QED
      BY <1>1, <2>1, TextType, ItemsType DEF Gathered, Pending
  <1>2. CASE kont[i].kind = "loop"
    <2> DEFINE child == script.nodes[kont[i].node].params[1]
    <2>1. /\ kont[i].acc \in 0 .. Len(mem.heap) /\ kont[i].node \in NodeNumbers(script)
          /\ kont[i].left \in Int /\ script.nodes[kont[i].node].params # <<>>
      BY <1>2, GivenFrame DEF LoopFrames
    <2>2. child \in NodeNumbers(script)
      <3>1. script.nodes[kont[i].node].params \in Seq(NodeNumbers(script))
        BY <2>1, GrammarNode DEF IsNode
      <3> QED
        BY <2>1, <3>1, FirstElement
    <2>3. /\ StarItem(script, child) \in ItemsIn(script)
          /\ TimesItem(script, child, kont[i].left) \in ItemsIn(script)
      BY <2>1, <2>2 DEF ItemsIn
    <2> QED
      BY <1>2, <2>1, <2>3, TextType DEF Gathered, Pending
  <1>3. CASE kont[i].kind = "args"
    <2>1. i - 1 \in 1 .. Len(kont) /\ kont[i - 1].kind \in {"rule", "nested"}
      BY <1>3, GivenFrame, Given DEF ChainAt, Parsing
    <2>2. kont[i - 1].kind = "rule"
      BY <2>1, GivenFrame DEF GrammarFrame
    <2>3. kont[i - 1].name \in DOMAIN script.rules
      BY <2>1, <2>2, GivenFrame DEF RuleFrames
    <2>4. RuleItem(script, kont[i - 1].name) \in ItemsIn(script)
      BY <2>3 DEF ItemsIn
    <2> QED
      BY <1>3, <2>4 DEF Gathered, Pending
  <1>4. CASE kont[i].kind = "rule"
    <2>1. kont[i].name \in DOMAIN script.rules
      BY <1>4, GivenFrame DEF RuleFrames
    <2>2. RuleItem(script, kont[i].name) \in ItemsIn(script)
      BY <2>1 DEF ItemsIn
    <2> QED
      BY <1>4, <2>2 DEF Gathered, Pending
  <1> QED
    BY <1>1, <1>2, <1>3, <1>4, GivenFrame DEF GrammarFrame
-----------------------------------------------------------------------------
\* What the waiting functions have gathered and what they have still to do.
Harvest == [i \in DOMAIN kont |-> Gathered(i)]
Plans == [i \in DOMAIN kont |-> Pending(i)]
Ready  == IF focus.at \in {"return", "done"} THEN TextAt(mem, focus.text) ELSE <<>>
AtHand   == IF focus.at = "atom" THEN <<Item(script, focus.node)>> ELSE <<>>

\* Which texts a step leaves as they are: freeing changes none.
KeepsTexts(m, w) ==
  /\ Len(w.heap) >= Len(m.heap)
  /\ \A p \in 1 .. Len(m.heap) : w.heap[p].text = m.heap[p].text

\* A step leaves the k outermost functions alone.
Leaves(k) ==
  /\ script' = script
  /\ KeepsTexts(mem, mem')
  /\ DOMAIN kont' = 1 .. Len(kont') /\ Len(kont') \in Nat
  /\ k \in 0 .. Len(kont) /\ k <= Len(kont')
  /\ \A i \in 1 .. k : kont'[i] = kont[i]
  /\ focus.at = "cooked" => k < Len(kont)
  /\ focus'.at = "cooked" => k < Len(kont')

\* A function that a step leaves alone has still gathered what it had ...
LEMMA GatheredStays ==
  ASSUME Parsing, NEW i \in 1 .. Len(kont), KeepsTexts(mem, mem'), kont'[i] = kont[i]
  PROVE  Gathered(i)' = Gathered(i)
  <1>1. CASE kont[i].kind \in {"option", "loop"}
    <2>1. kont[i].acc \in 0 .. Len(mem.heap)
      BY <1>1, GivenFrame DEF OptionFrames, LoopFrames
    <2>2. TextAt(mem', kont[i].acc) = TextAt(mem, kont[i].acc)
      BY <2>1, Given DEF KeepsTexts, TextAt, Null, Parsing
    <2> QED
      BY <2>2, PartsOf DEF GatheredOf
  <1>2. CASE kont[i].kind \notin {"option", "loop"}
    BY <1>2, PartsOf DEF GatheredOf
  <1> QED
    BY <1>1, <1>2

\* ... and has still to do what it had.
LEMMA PendingStays ==
  ASSUME Parsing, NEW k, Leaves(k), NEW i \in 1 .. k
  PROVE  Pending(i)' = Pending(i)
  <1>1. Len(kont) \in Nat /\ i \in 1 .. Len(kont) /\ i - 1 <= k
    BY Given DEF Parsing, Leaves
  <1>2. kont'[i] = kont[i] /\ script' = script
    BY DEF Leaves
  <1>3. ~(focus.at = "cooked" /\ i = Len(kont)) /\ ~(focus'.at = "cooked" /\ i = Len(kont'))
    <2>1. k \in Nat /\ i \in Nat /\ i <= k /\ Len(kont') \in Nat
      BY <1>1 DEF Leaves
    <2>2. focus.at = "cooked" => k < Len(kont)
      BY DEF Leaves
    <2>3. focus'.at = "cooked" => k < Len(kont')
      BY DEF Leaves
    <2> QED
      BY <1>1, <2>1, <2>2, <2>3
  <1>4. kont[i].kind = "args" => i - 1 \in 1 .. k /\ kont'[i - 1] = kont[i - 1]
    <2>1. kont[i].kind = "args" => i > 1
      BY <1>1, GivenFrame DEF ChainAt
    <2> QED
      BY <1>1, <2>1 DEF Leaves
  <1>5. kont[i].kind \in {"option", "loop", "args", "rule"}
    BY <1>1, GivenFrame DEF GrammarFrame
  <1> QED
    BY <1>2, <1>3, <1>4, <1>5, PartsOf DEF PendingOf

\* The parts that a step leaves alone, and their types.
LEMMA PartsStay ==
  ASSUME Parsing, NEW k, Leaves(k)
  PROVE  /\ Flat(Harvest', k) = Flat(Harvest, k) /\ Back(Plans', k) = Back(Plans, k)
         /\ Flat(Harvest, k) \in Seq(WordsIn(script)) /\ Back(Plans, k) \in Seq(ItemsIn(script))
         /\ \A i \in 1 .. k : Harvest'[i] \in Seq(WordsIn(script))
                              /\ Plans'[i] \in Seq(ItemsIn(script))
  <1>1. /\ k \in Nat /\ k <= Len(kont) /\ k <= Len(kont') /\ Len(kont) \in Nat
        /\ DOMAIN kont = 1 .. Len(kont) /\ DOMAIN kont' = 1 .. Len(kont')
    BY Given DEF Parsing, Leaves
  <1>2. ASSUME NEW i \in 1 .. k
        PROVE  /\ Harvest'[i] = Harvest[i] /\ Plans'[i] = Plans[i]
               /\ Harvest[i] \in Seq(WordsIn(script)) /\ Plans[i] \in Seq(ItemsIn(script))
    <2>1. i \in DOMAIN kont /\ i \in DOMAIN kont' /\ i \in 1 .. Len(kont)
      BY <1>1
    <2>2. /\ Harvest[i] = Gathered(i) /\ Plans[i] = Pending(i)
          /\ Harvest'[i] = Gathered(i)' /\ Plans'[i] = Pending(i)'
      BY <2>1 DEF Harvest, Plans
    <2>3. Gathered(i)' = Gathered(i)
      BY <2>1, GatheredStays DEF Leaves
    <2>4. Pending(i)' = Pending(i)
      BY PendingStays
    <2> QED
      BY <2>1, <2>2, <2>3, <2>4, PartsType
  <1> HIDE DEF Harvest, Plans
  <1>3. Flat(Harvest', k) = Flat(Harvest, k) /\ Back(Plans', k) = Back(Plans, k)
    BY <1>2, JoinSame
  <1>4. Flat(Harvest, k) \in Seq(WordsIn(script))
    BY <1>1, <1>2, JoinType
  <1>5. Back(Plans, k) \in Seq(ItemsIn(script))
    BY <1>1, <1>2, JoinType
  <1> QED
    BY <1>2, <1>3, <1>4, <1>5

\* Both are made of all the parts.
LEMMA SettledIs ==
  ASSUME Parsing
  PROVE  /\ Settled = Flat(Harvest, Len(kont)) \o Ready
         /\ ToDerive = AtHand \o Back(Plans, Len(kont))
  <1>1. DOMAIN kont = 1 .. Len(kont)
    BY Given DEF Parsing
  <1>2. [i \in 1 .. Len(kont) |-> Harvest[i]] = [i \in DOMAIN kont |-> Gathered(i)]
    BY <1>1 DEF Harvest
  <1>3. [i \in 1 .. Len(kont) |-> Plans[i]] = [i \in DOMAIN kont |-> Pending(i)]
    BY <1>1 DEF Plans
  <1> QED
    BY <1>2, <1>3 DEF Settled, ToDerive, Flat, Back, Ready, AtHand, Parsing

\* The same holds after a step.
LEMMA SettledWillBe ==
  ASSUME Parsing, NEW k, Leaves(k)
  PROVE  /\ Settled' = Flat(Harvest', Len(kont')) \o Ready'
         /\ ToDerive' = AtHand' \o Back(Plans', Len(kont'))
  <1>1. DOMAIN kont' = 1 .. Len(kont') /\ IsGrammar'
    BY DEF Parsing, Leaves, IsGrammar
  <1>2. [i \in 1 .. Len(kont') |-> Harvest'[i]] = [i \in DOMAIN kont' |-> Gathered(i)']
    BY <1>1 DEF Harvest
  <1>3. [i \in 1 .. Len(kont') |-> Plans'[i]] = [i \in DOMAIN kont' |-> Pending(i)']
    BY <1>1 DEF Plans
  <1> QED
    BY <1>1, <1>2, <1>3 DEF Settled, ToDerive, Flat, Back, Ready, AtHand

\* Joining the parts of the frames above the k outermost, which are none, one,
\* or two of which the first contributes nothing.
LEMMA Before ==
  ASSUME Parsing, NEW k, Leaves(k)
  PROVE  /\ Len(kont) = k =>
              /\ Settled = Flat(Harvest, k) \o Ready
              /\ ToDerive = AtHand \o Back(Plans, k)
         /\ Len(kont) = k + 1 =>
              /\ Settled = (Flat(Harvest, k) \o Gathered(k + 1)) \o Ready
              /\ ToDerive = AtHand \o (Pending(k + 1) \o Back(Plans, k))
  <1>1. /\ k \in Nat /\ k <= Len(kont) /\ Len(kont) \in Nat /\ DOMAIN kont = 1 .. Len(kont)
    BY Given DEF Parsing, Leaves
  <1>2. ASSUME Len(kont) = k + 1
        PROVE  /\ Flat(Harvest, k + 1) = Flat(Harvest, k) \o Gathered(k + 1)
               /\ Back(Plans, k + 1) = Pending(k + 1) \o Back(Plans, k)
    <2>1. ASSUME NEW i \in 1 .. k + 1
          PROVE  Harvest[i] = Gathered(i) /\ Plans[i] = Pending(i)
      BY <1>1, <1>2 DEF Harvest, Plans
    <2>2. \A i \in 1 .. k + 1 : Harvest[i] \in Seq(WordsIn(script))
      BY <1>2, <2>1, PartsType
    <2>3. \A i \in 1 .. k + 1 : Plans[i] \in Seq(ItemsIn(script))
      BY <1>2, <2>1, PartsType
    <2>4. k + 1 \in 1 .. k + 1
      BY <1>1
    <2>5. Flat(Harvest, k + 1) = Flat(Harvest, k) \o Harvest[k + 1]
      BY <1>1, <2>2, JoinMore
    <2>6. Back(Plans, k + 1) = Plans[k + 1] \o Back(Plans, k)
      BY <1>1, <2>3, JoinMore
    <2> QED
      BY <2>1, <2>4, <2>5, <2>6
  <1> QED
    BY <1>1, <1>2, SettledIs

\* Above them, one more function is joined at its end.
LEMMA AfterMore ==
  ASSUME Parsing, NEW k, Leaves(k), NEW n \in Nat, n + 1 <= Len(kont'),
         \A i \in 1 .. n + 1 : Harvest'[i] \in Seq(WordsIn(script))
                               /\ Plans'[i] \in Seq(ItemsIn(script))
  PROVE  /\ Flat(Harvest', n + 1) = Flat(Harvest', n) \o Gathered(n + 1)'
         /\ Back(Plans', n + 1) = Pending(n + 1)' \o Back(Plans', n)
  <1>1. DOMAIN kont' = 1 .. Len(kont') /\ Len(kont') \in Nat
    BY DEF Leaves
  <1>2. n + 1 \in 1 .. Len(kont')
    BY <1>1
  <1>3. Flat(Harvest', n + 1) = Flat(Harvest', n) \o Harvest'[n + 1]
    BY JoinMore
  <1>4. Back(Plans', n + 1) = Plans'[n + 1] \o Back(Plans', n)
    BY JoinMore
  <1>5. Harvest'[n + 1] = Gathered(n + 1)' /\ Plans'[n + 1] = Pending(n + 1)'
    BY <1>1, <1>2 DEF Harvest, Plans
  <1> QED
    BY <1>3, <1>4, <1>5

\* A step leaves only the k outermost functions waiting.
LEMMA AfterNone ==
  ASSUME Parsing, NEW k, Leaves(k), Len(kont') = k
  PROVE  /\ Settled' = Flat(Harvest, k) \o Ready'
         /\ ToDerive' = AtHand' \o Back(Plans, k)
  BY SettledWillBe, PartsStay

\* A step leaves one function waiting above the k outermost.
LEMMA AfterOne ==
  ASSUME Parsing, NEW k, Leaves(k), Len(kont') = k + 1,
         NEW g \in Seq(WordsIn(script)), NEW p \in Seq(ItemsIn(script)),
         GatheredOf(mem', kont'[k + 1]) = g,
         PendingOf(script, kont'[k + 1], kont'[k], focus'.at = "cooked") = p
  PROVE  /\ Settled' = (Flat(Harvest, k) \o g) \o Ready'
         /\ ToDerive' = AtHand' \o (p \o Back(Plans, k))
  <1>1. k \in Nat /\ DOMAIN kont' = 1 .. Len(kont') /\ script' = script
    BY DEF Leaves
  <1>2. Gathered(k + 1)' = g /\ Pending(k + 1)' = p
    <2>1. (k + 1) - 1 = k
      BY <1>1
    <2> QED
      BY <1>1, <2>1, PartsOf
  <1>3. /\ Flat(Harvest', k) = Flat(Harvest, k) /\ Back(Plans', k) = Back(Plans, k)
        /\ \A i \in 1 .. k : Harvest'[i] \in Seq(WordsIn(script))
                             /\ Plans'[i] \in Seq(ItemsIn(script))
    BY PartsStay
  <1>4. ASSUME NEW i \in 1 .. k + 1
        PROVE  Harvest'[i] \in Seq(WordsIn(script)) /\ Plans'[i] \in Seq(ItemsIn(script))
    <2>1. CASE i \in 1 .. k
      BY <1>3, <2>1
    <2>2. CASE i = k + 1
      <3>1. Harvest'[i] = Gathered(i)' /\ Plans'[i] = Pending(i)'
        BY <1>1 DEF Harvest, Plans
      <3> QED
        BY <1>2, <2>2, <3>1
    <2> QED
      BY <1>1, <2>1, <2>2
  <1>5. /\ Flat(Harvest', k + 1) = Flat(Harvest', k) \o Gathered(k + 1)'
        /\ Back(Plans', k + 1) = Pending(k + 1)' \o Back(Plans', k)
    <2> DEFINE n == k
    <2>1. n \in Nat /\ n + 1 <= Len(kont')
      BY <1>1
    <2>2. \A i \in 1 .. n + 1 : Harvest'[i] \in Seq(WordsIn(script))
                                /\ Plans'[i] \in Seq(ItemsIn(script))
      BY <1>4
    <2> HIDE DEF n
    <2>3. /\ Flat(Harvest', n + 1) = Flat(Harvest', n) \o Gathered(n + 1)'
          /\ Back(Plans', n + 1) = Pending(n + 1)' \o Back(Plans', n)
      BY <2>1, <2>2, AfterMore
    <2> QED
      BY <2>3 DEF n
  <1> QED
    BY <1>2, <1>3, <1>5, SettledWillBe

\* A step leaves two functions waiting above the k outermost, the first of them a rule.
LEMMA AfterTwo ==
  ASSUME Parsing, NEW k, Leaves(k), Len(kont') = k + 2,
         NEW g \in Seq(WordsIn(script)), NEW p \in Seq(ItemsIn(script)),
         kont'[k + 1].kind = "rule",
         GatheredOf(mem', kont'[k + 2]) = g,
         PendingOf(script, kont'[k + 2], kont'[k + 1], focus'.at = "cooked") = p
  PROVE  /\ Settled' = (Flat(Harvest, k) \o g) \o Ready'
         /\ ToDerive' = AtHand' \o (p \o Back(Plans, k))
  <1>1. k \in Nat /\ DOMAIN kont' = 1 .. Len(kont') /\ script' = script
    BY DEF Leaves
  <1>2. Gathered(k + 2)' = g /\ Pending(k + 2)' = p
    <2>1. (k + 2) - 1 = k + 1
      BY <1>1
    <2> QED
      BY <1>1, <2>1, PartsOf
  <1>3. Gathered(k + 1)' = <<>> /\ Pending(k + 1)' = <<>>
    <2>1. k + 1 # Len(kont')
      BY <1>1
    <2>2. Gathered(k + 1)' = <<>>
      BY PartsOf DEF GatheredOf
    <2>3. Pending(k + 1)' = <<>>
      BY <2>1, PartsOf DEF PendingOf
    <2> QED
      BY <2>2, <2>3
  <1>4. /\ Flat(Harvest', k) = Flat(Harvest, k) /\ Back(Plans', k) = Back(Plans, k)
        /\ Flat(Harvest, k) \in Seq(WordsIn(script)) /\ Back(Plans, k) \in Seq(ItemsIn(script))
        /\ \A i \in 1 .. k : Harvest'[i] \in Seq(WordsIn(script))
                             /\ Plans'[i] \in Seq(ItemsIn(script))
    BY PartsStay
  <1>5. ASSUME NEW i \in 1 .. k + 2
        PROVE  Harvest'[i] \in Seq(WordsIn(script)) /\ Plans'[i] \in Seq(ItemsIn(script))
    <2>1. CASE i \in 1 .. k
      BY <1>4, <2>1
    <2>2. Harvest'[i] = Gathered(i)' /\ Plans'[i] = Pending(i)'
      BY <1>1 DEF Harvest, Plans
    <2>3. CASE i = k + 1
      <3>1. Harvest'[i] = <<>> /\ Plans'[i] = <<>>
        BY <1>3, <2>2, <2>3
      <3> QED
        BY <3>1
    <2>4. CASE i = k + 2
      BY <1>2, <2>2, <2>4
    <2> QED
      BY <1>1, <2>1, <2>3, <2>4
  <1>6. /\ Flat(Harvest', k + 1) = Flat(Harvest', k) \o Gathered(k + 1)'
        /\ Back(Plans', k + 1) = Pending(k + 1)' \o Back(Plans', k)
    <2>1. \A i \in 1 .. k + 1 : i \in 1 .. k + 2
      BY <1>1
    <2>2. k + 1 <= Len(kont')
      BY <1>1
    <2>3. \A i \in 1 .. k + 1 : Harvest'[i] \in Seq(WordsIn(script))
                                /\ Plans'[i] \in Seq(ItemsIn(script))
      BY <1>5, <2>1
    <2> DEFINE n == k
    <2>4. n \in Nat /\ n + 1 <= Len(kont')
      BY <1>1, <2>2
    <2>5. \A i \in 1 .. n + 1 : Harvest'[i] \in Seq(WordsIn(script))
                                /\ Plans'[i] \in Seq(ItemsIn(script))
      BY <2>3
    <2> HIDE DEF n
    <2>6. /\ Flat(Harvest', n + 1) = Flat(Harvest', n) \o Gathered(n + 1)'
          /\ Back(Plans', n + 1) = Pending(n + 1)' \o Back(Plans', n)
      BY <2>4, <2>5, AfterMore
    <2> QED
      BY <2>6 DEF n
  <1>7. /\ Flat(Harvest', k + 2) = Flat(Harvest', k + 1) \o Gathered(k + 2)'
        /\ Back(Plans', k + 2) = Pending(k + 2)' \o Back(Plans', k + 1)
    <2> DEFINE n == k + 1
    <2>1. n \in Nat /\ n + 1 = k + 2 /\ n + 1 <= Len(kont')
      BY <1>1
    <2>2. \A i \in 1 .. n + 1 : Harvest'[i] \in Seq(WordsIn(script))
                                /\ Plans'[i] \in Seq(ItemsIn(script))
      BY <1>5, <2>1
    <2> HIDE DEF n
    <2>3. /\ Flat(Harvest', n + 1) = Flat(Harvest', n) \o Gathered(n + 1)'
          /\ Back(Plans', n + 1) = Pending(n + 1)' \o Back(Plans', n)
      BY <2>1, <2>2, AfterMore
    <2> QED
      BY <2>1, <2>3 DEF n
  <1>8. Flat(Harvest', k + 1) = Flat(Harvest, k) /\ Back(Plans', k + 1) = Back(Plans, k)
    BY <1>3, <1>4, <1>6, ConcatEmptySeq
  <1> QED
    BY <1>2, <1>7, <1>8, SettledWillBe
-----------------------------------------------------------------------------
\* What the operations on the heap do to the texts.
LEMMA AllocTexts ==
  ASSUME NEW m, IsMemory(m), NEW text
  PROVE  /\ KeepsTexts(m, Alloc(m, text)) /\ Len(Alloc(m, text).heap) = Len(m.heap) + 1
         /\ TextAt(Alloc(m, text), Newest(Alloc(m, text))) = text
         /\ Alloc(m, text).heap[Len(m.heap) + 1].text = text
  <1> DEFINE cell == [text |-> text, state |-> "live"]
             w == Alloc(m, text)
  <1>1. Len(m.heap) \in Nat /\ IsHeap(m.heap) /\ DOMAIN m.heap = 1 .. Len(m.heap)
    BY DEF IsMemory, IsHeap
  <1>2. w.heap = Append(m.heap, cell)
    BY DEF Alloc, IsMemory
  <1>3. /\ Len(w.heap) = Len(m.heap) + 1
        /\ \A p \in 1 .. Len(m.heap) : w.heap[p] = m.heap[p]
        /\ w.heap[Len(m.heap) + 1] = cell
    BY AllocMemory, <1>1, <1>2 DEF Newest
  <1> HIDE DEF w
  <1> QED
    BY <1>1, <1>3 DEF KeepsTexts, TextAt, Null, Newest, w

\* free() changes no text.
LEMMA FreeTexts ==
  ASSUME NEW m, IsMemory(m), NEW p \in 0 .. Len(m.heap)
  PROVE  /\ KeepsTexts(m, Free(m, p)) /\ Len(Free(m, p).heap) = Len(m.heap)
  <1>1. Len(m.heap) \in Nat /\ Len(Free(m, p).heap) = Len(m.heap)
    BY FreeMemory DEF IsMemory, IsHeap
  <1>2. ASSUME NEW q \in 1 .. Len(m.heap) PROVE Free(m, p).heap[q].text = m.heap[q].text
    BY DEF Free, Fail, IsMemory, IsHeap, Null
  <1> QED
    BY <1>1, <1>2 DEF KeepsTexts

\* list_free() changes no text.
LEMMA FreeAllTexts ==
  ASSUME NEW m, IsMemory(m), NEW ps
  PROVE  KeepsTexts(m, FreeAll(m, ps)) /\ Len(FreeAll(m, ps).heap) = Len(m.heap)
  <1> DEFINE heap == [p \in DOMAIN m.heap |->
                        IF p \in ToSet(ps) /\ m.heap[p].state = "live"
                        THEN [m.heap[p] EXCEPT !.state = "freed"] ELSE m.heap[p]]
  <1>1. FreeAll(m, ps).heap = heap
    BY DEF FreeAll, Fail, IsMemory
  <1>2. /\ DOMAIN m.heap = 1 .. Len(m.heap) /\ Len(m.heap) \in Nat
        /\ \A p \in 1 .. Len(m.heap) : DOMAIN m.heap[p] = {"text", "state"}
    BY DEF IsMemory, IsHeap
  <1>3. \A p \in 1 .. Len(m.heap) : heap[p].text = m.heap[p].text
    BY <1>2
  <1>4. Len(heap) = Len(m.heap)
    BY <1>2
  <1> QED
    BY <1>1, <1>2, <1>3, <1>4 DEF KeepsTexts

\* dstrcat() adds the joined text and changes no other.
LEMMA DstrcatTexts ==
  ASSUME NEW m, IsMemory(m), NEW a \in 0 .. Len(m.heap), NEW b \in 0 .. Len(m.heap)
  PROVE  LET w == Dstrcat(m, a, b)
         IN  /\ KeepsTexts(m, w) /\ Len(w.heap) = Len(m.heap) + 1
             /\ TextAt(w, Newest(w)) = TextAt(m, a) \o TextAt(m, b)
             /\ w.heap[Len(m.heap) + 1].text = TextAt(m, a) \o TextAt(m, b)
  <1> DEFINE readA == IF a = Null THEN m ELSE Read(m, a)
             readB == IF b = Null THEN readA ELSE Read(readA, b)
             text == TextAt(m, a) \o TextAt(m, b)
             joined == Alloc(readB, text)
             once == Free(joined, a)
             w == Dstrcat(m, a, b)
  <1>0. Len(m.heap) \in Nat
    BY DEF IsMemory, IsHeap
  <1>1. IsMemory(readA) /\ readA.heap = m.heap
    BY ReadMemory
  <1>2. IsMemory(readB) /\ readB.heap = m.heap
    <2> HIDE DEF readA
    <2> QED
      BY <1>1, ReadMemory
  <1> HIDE DEF readB, text
  <1>3. IsMemory(joined) /\ Len(joined.heap) = Len(m.heap) + 1
    BY <1>2, AllocMemory DEF Newest
  <1>4. KeepsTexts(readB, joined) /\ joined.heap[Len(m.heap) + 1].text = text
    BY <1>2, AllocTexts
  <1>5. w = Free(once, b)
    BY DEF Dstrcat, readB, text
  <1> HIDE DEF joined
  <1>6. IsMemory(once) /\ Len(once.heap) = Len(m.heap) + 1 /\ KeepsTexts(joined, once)
    BY <1>0, <1>3, FreeMemory, FreeTexts
  <1> HIDE DEF once
  <1>7. KeepsTexts(once, w) /\ Len(w.heap) = Len(m.heap) + 1
    BY <1>0, <1>5, <1>6, FreeTexts
  <1> HIDE DEF w
  <1>8. KeepsTexts(m, w) /\ w.heap[Len(m.heap) + 1].text = text
    BY <1>0, <1>2, <1>3, <1>4, <1>6, <1>7 DEF KeepsTexts
  <1>9. TextAt(w, Newest(w)) = text
    BY <1>0, <1>7, <1>8 DEF TextAt, Newest, Null
  <1> QED
    BY <1>7, <1>8, <1>9 DEF w, text
-----------------------------------------------------------------------------
\* How calls and returns change the stack of calls.
LEMMA KontFacts ==
  ASSUME Parsing
  PROVE  /\ Len(kont) \in Nat /\ DOMAIN kont = 1 .. Len(kont) /\ IsMemory(mem)
         /\ Len(mem.heap) \in Nat
         /\ kont # <<>> => /\ Len(kont) >= 1 /\ Len(kont) - 1 \in Nat
                           /\ Len(kont) = (Len(kont) - 1) + 1
                           /\ Frame = kont[Len(kont)] /\ GrammarFrame(Len(kont))
  <1>1. kont # <<>> => Frame = kont[Len(kont)] /\ Len(kont) >= 1
    BY Given, TopAndBelow DEF Parsing
  <1> QED
    BY <1>1, Given DEF Parsing, GrammarInv

\* An atom that is answered leaves all waiting functions alone.
LEMMA AnswerLeaves ==
  ASSUME Parsing, focus.at = "atom", NEW m, NEW p, Answer(m, p), KeepsTexts(mem, m)
  PROVE  Leaves(Len(kont)) /\ Len(kont') = Len(kont)
  BY KontFacts DEF Answer, Leaves, Return, Same

\* A function that returns leaves those below it alone.
LEMMA LeaveLeaves ==
  ASSUME Parsing, kont # <<>>, NEW m, NEW p, Leave(m, p), KeepsTexts(mem, m)
  PROVE  Leaves(Len(kont) - 1) /\ Len(kont') = Len(kont) - 1
  <1>1. Below \in Seq(Frames(script, Len(mem.heap))) /\ Len(Below) = Len(kont) - 1
        /\ \A i \in 1 .. Len(kont) - 1 : Below[i] = kont[i]
    BY Given, TopAndBelow DEF Parsing
  <1>2. DOMAIN Below = 1 .. Len(Below)
    BY <1>1
  <1>3. kont' = Below /\ mem' = m /\ focus'.at = "return" /\ script' = script
    BY DEF Leave, Return, Same
  <1> HIDE DEF Below
  <1> QED
    BY <1>1, <1>2, <1>3, KontFacts DEF Leaves

\* A function that goes on leaves those below it alone.
LEMMA ContinueLeaves ==
  ASSUME Parsing, kont # <<>>, NEW m, NEW frame, NEW next, next.at # "cooked",
         Continue(m, frame, next), KeepsTexts(mem, m)
  PROVE  /\ Leaves(Len(kont) - 1) /\ Len(kont') = Len(kont) /\ kont'[Len(kont)] = frame
  <1>1. Below \in Seq(Frames(script, Len(mem.heap))) /\ Len(Below) = Len(kont) - 1
        /\ \A i \in 1 .. Len(kont) - 1 : Below[i] = kont[i]
    BY Given, TopAndBelow DEF Parsing
  <1>2. kont' = Append(Below, frame) /\ mem' = m /\ focus' = next /\ script' = script
    BY DEF Continue, Same
  <1> HIDE DEF Below
  <1>3. /\ DOMAIN kont' = 1 .. Len(kont') /\ Len(kont') = Len(kont) /\ kont'[Len(kont)] = frame
        /\ \A i \in 1 .. Len(kont) - 1 : kont'[i] = kont[i]
    BY <1>1, <1>2, KontFacts
  <1> QED
    BY <1>2, <1>3, KontFacts DEF Leaves

\* An atom that makes a function wait leaves the others alone.
LEMMA CallLeaves ==
  ASSUME Parsing, focus.at = "atom", NEW frame, NEW next, next.at # "cooked",
         Call(mem, frame, next)
  PROVE  Leaves(Len(kont)) /\ Len(kont') = Len(kont) + 1 /\ kont'[Len(kont) + 1] = frame
  <1>1. kont \in Seq(Frames(script, Len(mem.heap)))
    BY Given DEF Parsing
  <1>2. kont' = Append(kont, frame) /\ mem' = mem /\ focus' = next /\ script' = script
    BY DEF Call, Same
  <1>3. /\ DOMAIN kont' = 1 .. Len(kont') /\ Len(kont') = Len(kont) + 1
        /\ kont'[Len(kont) + 1] = frame
        /\ \A i \in 1 .. Len(kont) : kont'[i] = kont[i]
    BY <1>1, <1>2
  <1> QED
    BY <1>2, <1>3, KontFacts DEF Leaves, KeepsTexts

\* What is at hand and what is ready, before and after a step.
LEMMA AtHandIs ==
  ASSUME script' = script
  PROVE  /\ focus.at = "atom" => AtHand = <<Item(script, focus.node)>> /\ Ready = <<>>
         /\ focus.at \in {"next", "cooked"} => AtHand = <<>> /\ Ready = <<>>
         /\ focus.at \in {"return", "done"} => AtHand = <<>> /\ Ready = TextAt(mem, focus.text)
         /\ focus'.at = "atom" => AtHand' = <<Item(script, focus'.node)>> /\ Ready' = <<>>
         /\ focus'.at \in {"next", "cooked"} => AtHand' = <<>> /\ Ready' = <<>>
         /\ focus'.at \in {"return", "done"} =>
              AtHand' = <<>> /\ Ready' = TextAt(mem', focus'.text)
  BY DEF AtHand, Ready

\* The invariant after a step.
LEMMA KeepGrammar ==
  ASSUME Parsing, NEW k, Leaves(k), k = Len(kont) => focus.at # "next",
         \A p \in Len(mem.heap) + 1 .. Len(mem'.heap) : mem'.heap[p].text \in Seq(WordsIn(script)),
         \A i \in k + 1 .. Len(kont') : GrammarFrame(i)',
         focus'.at = "atom" => focus'.env.formal = <<>>,
         focus'.at = "cooked" => kont' # <<>> /\ kont'[Len(kont')].kind = "rule",
         Len(mem'.heap) \in Nat
  PROVE  GrammarInv'
  <1>1. script' = script /\ KeepsTexts(mem, mem') /\ k \in Nat /\ k <= Len(kont)
        /\ Len(kont) \in Nat /\ Len(mem.heap) \in Nat /\ Len(kont') \in Nat
    BY KontFacts DEF Leaves
  <1>2. ASSUME NEW p \in 1 .. Len(mem'.heap) PROVE mem'.heap[p].text \in Seq(WordsIn(script'))
    <2>1. CASE p \in 1 .. Len(mem.heap)
      BY <1>1, <2>1 DEF Parsing, GrammarInv, KeepsTexts
    <2>2. CASE p \notin 1 .. Len(mem.heap)
      <3>1. p \in Len(mem.heap) + 1 .. Len(mem'.heap)
        BY <1>1, <2>2
      <3> QED
        BY <1>1, <3>1
    <2> QED
      BY <2>1, <2>2
  <1>3. ASSUME NEW i \in 1 .. Len(kont') PROVE GrammarFrame(i)'
    <2>1. CASE i \in 1 .. k
      <3>1. GrammarFrame(i) /\ kont'[i] = kont[i] /\ i \in 1 .. Len(kont)
        BY <1>1, <2>1 DEF Parsing, GrammarInv, Leaves
      <3>2. kont[i].kind # "args"
        <4>1. kont[i].kind = "args" => i = Len(kont) /\ focus.at = "next"
          BY <3>1 DEF GrammarFrame
        <4>2. i = Len(kont) => k = Len(kont)
          BY <1>1, <2>1
        <4> QED
          BY <4>1, <4>2
      <3> QED
        BY <3>1, <3>2 DEF GrammarFrame
    <2>2. CASE i \notin 1 .. k
      <3>1. i \in k + 1 .. Len(kont')
        BY <1>1, <2>2
      <3> QED
        BY <3>1
    <2> QED
      BY <2>1, <2>2
  <1>4. (focus.at = "atom" => focus.env.formal = <<>>)'
    OBVIOUS
  <1>5. (focus.at = "cooked" => kont # <<>> /\ Frame.kind = "rule")'
    BY DEF Frame
  <1> QED
    BY <1>2, <1>3, <1>4, <1>5 DEF GrammarInv

\* Steps of the derivation, and steps that are none.
Derives == [Promise!Next]_<<Settled, ToDerive>>

\* The leftmost item is a literal, and its words are settled.
LEMMA Settles ==
  ASSUME NEW item, IsLiteral(item), NEW S, item \in S, NEW b \in Seq(S),
         ToDerive = <<item>> \o b, ToDerive' = b, Settled' = Settled \o LiteralWords(item)
  PROVE  Derives
  <1>1. <<item>> \o b # <<>> /\ Head(<<item>> \o b) = item /\ Tail(<<item>> \o b) = b
    OBVIOUS
  <1>2. ToDerive # <<>> /\ Head(ToDerive) = item /\ Tail(ToDerive) = b
    BY <1>1
  <1>3. Promise!Settle
    BY <1>2 DEF Promise!Settle
  <1> QED
    BY <1>3 DEF Derives, Promise!Next

\* The leftmost item is replaced by what a production says.
LEMMA Expands ==
  ASSUME NEW item, ~IsLiteral(item), NEW items \in Grammar(item),
         NEW S, item \in S, NEW b \in Seq(S),
         ToDerive = <<item>> \o b, ToDerive' = items \o b, Settled' = Settled
  PROVE  Derives
  <1>1. <<item>> \o b # <<>> /\ Head(<<item>> \o b) = item /\ Tail(<<item>> \o b) = b
    OBVIOUS
  <1>2. ToDerive # <<>> /\ Head(ToDerive) = item /\ Tail(ToDerive) = b
    BY <1>1
  <1>3. Promise!Expand
    BY <1>2 DEF Promise!Expand
  <1> QED
    BY <1>3 DEF Derives, Promise!Next

\* Nothing is derived.
LEMMA Stutters == ASSUME ToDerive' = ToDerive, Settled' = Settled PROVE Derives
  BY DEF Derives
-----------------------------------------------------------------------------
\* The steps one by one.  A literal is settled.
LEMMA LiteralDerives ==
  ASSUME Parsing, TypeInv', Literal PROVE GrammarInv' /\ Derives
  <1> DEFINE k == Len(kont)
             text == Text(Node.data)
             m == Alloc(mem, text)
             item == NodeItem(script, focus.node)
  <1>1. /\ focus.at = "atom" /\ Node.type = "literal" /\ Answer(m, Newest(m))
        /\ Node = script.nodes[focus.node] /\ focus.node \in NodeNumbers(script)
    BY GivenAtom DEF Literal, IsAtom, Parsing
  <1>2. /\ KeepsTexts(mem, m) /\ Len(m.heap) = Len(mem.heap) + 1
        /\ TextAt(m, Newest(m)) = text /\ m.heap[Len(mem.heap) + 1].text = text
    BY AllocTexts, KontFacts
  <1>3. text \in Seq(WordsIn(script))
    <2>1. Node.data \in WordsIn(script)
      BY <1>1 DEF WordsIn
    <2>2. <<Node.data>> \in Seq(WordsIn(script)) /\ <<>> \in Seq(WordsIn(script))
      BY <2>1
    <2> QED
      BY <2>2 DEF Text
  <1>4. mem' = m /\ focus'.at = "return" /\ focus'.text = Newest(m) /\ script' = script
    BY <1>1 DEF Answer, Return, Same
  <1> HIDE DEF text, m
  <1>5. Leaves(k) /\ Len(kont') = k
    BY <1>1, <1>2, AnswerLeaves
  <1>6. Item(script, focus.node) = item /\ IsLiteral(item) /\ LiteralWords(item) = text
        /\ item \in ItemsIn(script)
    BY <1>1 DEF Item, IsLiteral, NodeOf, NodeItem, LiteralWords, text, ItemsIn
  <1>7. GrammarInv'
    <2>1. \A p \in Len(mem.heap) + 1 .. Len(mem'.heap) : mem'.heap[p].text \in Seq(WordsIn(script))
      BY <1>2, <1>3, <1>4, KontFacts
    <2>2. Len(mem'.heap) \in Nat /\ \A i \in k + 1 .. Len(kont') : GrammarFrame(i)'
      BY <1>2, <1>4, <1>5, KontFacts
    <2> QED
      BY <1>1, <1>4, <1>5, <2>1, <2>2, KeepGrammar
  <1>8. Derives
    <2> DEFINE a == Flat(Harvest, k)
               b == Back(Plans, k)
    <2>1. a \in Seq(WordsIn(script)) /\ b \in Seq(ItemsIn(script))
      BY <1>5, PartsStay
    <2>2. Settled = a \o <<>> /\ ToDerive = <<item>> \o b
      BY <1>1, <1>4, <1>5, <1>6, Before, AtHandIs
    <2>3. Settled' = a \o text /\ ToDerive' = <<>> \o b
      BY <1>2, <1>4, <1>5, AfterNone, AtHandIs
    <2> HIDE DEF a, b, k, item
    <2>4. a \o <<>> = a /\ <<>> \o b = b
      BY <2>1, ConcatEmptySeq
    <2> QED
      BY <1>6, <2>1, <2>2, <2>3, <2>4, Settles
  <1> QED
    BY <1>7, <1>8

\* A step that neither adds a text to the heap nor frees one.
LEMMA HeapKept ==
  ASSUME Parsing, mem'.heap = mem.heap
  PROVE  /\ Len(mem'.heap) \in Nat /\ KeepsTexts(mem, mem')
         /\ \A p \in Len(mem.heap) + 1 .. Len(mem'.heap) : mem'.heap[p].text \in Seq(WordsIn(script))
  BY KontFacts DEF KeepsTexts

\* The frames of a rule: it waits for the parameters it does not have.
RuleFrame(name) == [kind |-> "rule", name |-> name, cooked |-> <<>>]

\* A symbol stays to be derived until its option is selected, or is nothing.
LEMMA SymbolDerives ==
  ASSUME Parsing, TypeInv', Symbol PROVE GrammarInv' /\ Derives
  <1> DEFINE k == Len(kont)
             name == Node.data
             item == RuleItem(script, name)
             env == focus.env
  <1>1. /\ focus.at = "atom" /\ Node.type = "symbol"
        /\ InvokeOn(mem, kont, name, Node.params, env)
        /\ Node = script.nodes[focus.node] /\ focus.node \in NodeNumbers(script)
    BY GivenAtom DEF Symbol, IsAtom, Parsing
  <1>2. mem' = mem /\ script' = script
    BY <1>1 DEF InvokeOn, Same
  <1>3. Node.params = <<>>
    BY <1>1, GrammarNode
  <1>4. Item(script, focus.node) = item /\ ~IsLiteral(item) /\ item \in ItemsIn(script)
    <2>1. Item(script, focus.node) = item
      BY <1>1 DEF Item
    <2>2. ~IsLiteral(item)
      BY DEF IsLiteral, RuleItem
    <2>3. item \in ItemsIn(script)
      BY <1>1, <2>1, ItemType
    <2> QED
      BY <2>1, <2>2, <2>3
  <1>5. CASE IsRule(name)
    <2> DEFINE args == ArgsFrame(Node.params, env)
    <2>1. kont' = kont \o <<RuleFrame(name), args>> /\ focus' = GoOn
      BY <1>1, <1>5 DEF InvokeOn, RuleFrame
    <2>2. kont \in Seq(Frames(script, Len(mem.heap)))
      BY Given DEF Parsing
    <2> HIDE DEF args
    <2>3. /\ Len(kont') = k + 2 /\ kont'[k + 1] = RuleFrame(name) /\ kont'[k + 2] = args
          /\ DOMAIN kont' = 1 .. Len(kont') /\ \A i \in 1 .. k : kont'[i] = kont[i]
      BY <2>1, <2>2
    <2>4. focus'.at = "next"
      BY <2>1 DEF GoOn
    <2>5. Leaves(k)
      BY <1>1, <1>2, <2>3, <2>4, KontFacts DEF Leaves, KeepsTexts
    <2>6. /\ args.kind = "args" /\ args.params = <<>>
          /\ RuleFrame(name).kind = "rule" /\ RuleFrame(name).name = name
      BY <1>3 DEF args, ArgsFrame, RuleFrame
    <2>7. GrammarInv'
      <3>1. ASSUME NEW i \in k + 1 .. Len(kont') PROVE GrammarFrame(i)'
        <4>1. i = k + 1 \/ i = k + 2
          BY <2>3, KontFacts
        <4> QED
          BY <2>3, <2>4, <2>6, <4>1 DEF GrammarFrame
      <3> QED
        BY <1>1, <1>2, <2>4, <2>5, <3>1, HeapKept, KeepGrammar
    <2>8. Derives
      <3> DEFINE a == Flat(Harvest, k)
                 b == Back(Plans, k)
      <3>1. a \in Seq(WordsIn(script)) /\ b \in Seq(ItemsIn(script))
        BY <2>5, PartsStay
      <3>2. Settled = a \o <<>> /\ ToDerive = <<item>> \o b
        BY <1>1, <1>2, <1>4, <2>5, Before, AtHandIs
      <3>3. /\ GatheredOf(mem', kont'[k + 2]) = <<>>
            /\ PendingOf(script, kont'[k + 2], kont'[k + 1], focus'.at = "cooked") = <<item>>
        BY <2>3, <2>6 DEF GatheredOf, PendingOf
      <3>4. Settled' = (a \o <<>>) \o <<>> /\ ToDerive' = <<>> \o (<<item>> \o b)
        <4>1. <<>> \in Seq(WordsIn(script)) /\ <<item>> \in Seq(ItemsIn(script))
          BY <1>4
        <4>2. kont'[k + 1].kind = "rule"
          BY <2>3, <2>6
        <4>3. /\ Settled' = (a \o <<>>) \o Ready'
              /\ ToDerive' = AtHand' \o (<<item>> \o b)
          <5> HIDE DEF item
          <5> QED
            BY <2>3, <2>5, <3>3, <4>1, <4>2, AfterTwo
        <4> QED
          BY <1>2, <2>4, <4>3, AtHandIs
      <3>5. <<item>> \o b \in Seq(ItemsIn(script))
        BY <1>4, <3>1
      <3> HIDE DEF a, b, item
      <3>6. (a \o <<>>) \o <<>> = a \o <<>> /\ <<>> \o (<<item>> \o b) = <<item>> \o b
        BY <3>1, <3>5, ConcatEmptySeq
      <3> QED
        BY <3>2, <3>4, <3>6, Stutters
    <2> QED
      BY <2>7, <2>8
  <1>6. CASE ~IsRule(name)
    <2>1. kont' = kont /\ focus'.at = "return" /\ focus'.text = Null
      BY <1>1, <1>6 DEF InvokeOn, Return
    <2>2. Leaves(k) /\ Len(kont') = k
      BY <1>1, <1>2, <2>1, KontFacts DEF Leaves, KeepsTexts
    <2>3. GrammarInv'
      <3>1. \A i \in k + 1 .. Len(kont') : GrammarFrame(i)'
        BY <2>2, KontFacts
      <3> QED
        BY <1>1, <1>2, <2>1, <2>2, <3>1, HeapKept, KeepGrammar
    <2>4. <<>> \in Grammar(item)
      BY <1>6 DEF Grammar, RuleItem, IsRule
    <2>5. Derives
      <3> DEFINE a == Flat(Harvest, k)
                 b == Back(Plans, k)
      <3>1. a \in Seq(WordsIn(script)) /\ b \in Seq(ItemsIn(script))
        BY <2>2, PartsStay
      <3>2. Settled = a \o <<>> /\ ToDerive = <<item>> \o b
        BY <1>1, <1>2, <1>4, <2>2, Before, AtHandIs
      <3>3. TextAt(mem', focus'.text) = <<>>
        BY <2>1 DEF TextAt
      <3>4. Settled' = a \o <<>> /\ ToDerive' = <<>> \o b
        BY <1>2, <2>1, <2>2, <3>3, AfterNone, AtHandIs
      <3> HIDE DEF a, b, item
      <3> QED
        BY <1>4, <2>4, <3>1, <3>2, <3>4, Expands
    <2> QED
      BY <2>3, <2>5
  <1> QED
    BY <1>5, <1>6

\* What an option or a repetition has still to do does not depend on the others.
Plan(frame) == PendingOf(script, frame, frame, FALSE)

\* Of an option or a repetition, that is all it has still to do.
LEMMA PlanIs ==
  ASSUME NEW frame, frame.kind \in {"option", "loop"}, NEW below, NEW cooked
  PROVE  PendingOf(script, frame, below, cooked) = Plan(frame)
  BY DEF Plan, PendingOf

\* An atom in focus calls a function, which may go on with another atom.
LEMMA AtomCalls ==
  ASSUME Parsing, TypeInv', focus.at = "atom", NEW frame,
         Leaves(Len(kont)), Len(kont') = Len(kont) + 1, kont'[Len(kont) + 1] = frame,
         mem' = mem, frame.kind \in {"option", "loop"}, frame.acc = Null, frame.env = focus.env,
         focus'.at \in {"next", "atom"}, focus'.at = "atom" => focus'.env = focus.env,
         Plan(frame) \in Seq(ItemsIn(script))
  PROVE  /\ GrammarInv' /\ Settled' = Settled
         /\ \E b \in Seq(ItemsIn(script)) :
              /\ ToDerive = <<Item(script, focus.node)>> \o b
              /\ ToDerive' = AtHand' \o (Plan(frame) \o b)
  <1> DEFINE k == Len(kont)
             a == Flat(Harvest, k)
             b == Back(Plans, k)
  <1>1. focus.env.formal = <<>> /\ script' = script /\ k \in Nat
    BY KontFacts DEF Parsing, GrammarInv, Leaves
  <1>2. GrammarInv'
    <2>1. ASSUME NEW i \in k + 1 .. Len(kont') PROVE GrammarFrame(i)'
      <3>1. i = k + 1
        BY <1>1
      <3> QED
        BY <1>1, <3>1 DEF GrammarFrame
    <2> QED
      BY <1>1, <2>1, HeapKept, KeepGrammar
  <1>3. a \in Seq(WordsIn(script)) /\ b \in Seq(ItemsIn(script))
    BY PartsStay
  <1>4. Settled = a \o <<>> /\ ToDerive = <<Item(script, focus.node)>> \o b
    BY <1>1, Before, AtHandIs
  <1>5. GatheredOf(mem', frame) = <<>> /\ <<>> \in Seq(WordsIn(script))
    BY DEF GatheredOf, TextAt
  <1>6. /\ Settled' = (a \o <<>>) \o Ready'
        /\ ToDerive' = AtHand' \o (Plan(frame) \o b)
    <2>1. PendingOf(script, kont'[k + 1], kont'[k], focus'.at = "cooked") = Plan(frame)
      BY PlanIs
    <2>2. GatheredOf(mem', kont'[k + 1]) = <<>> /\ Len(kont') = k + 1 /\ Leaves(k)
      BY <1>5
    <2> HIDE DEF k
    <2> QED
      BY <1>5, <2>1, <2>2, AfterOne
  <1>7. Ready' = <<>>
    BY <1>1, AtHandIs
  <1> HIDE DEF a, b
  <1>8. (a \o <<>>) \o <<>> = a \o <<>>
    BY <1>3, ConcatEmptySeq
  <1> QED
    BY <1>2, <1>3, <1>4, <1>6, <1>7, <1>8

\* The option or the repetition on top goes on.
LEMMA TopContinues ==
  ASSUME Parsing, TypeInv', kont # <<>>, NEW m, NEW frame, NEW next, Continue(m, frame, next),
         next.at \in {"next", "atom"}, next.at = "atom" => next.env = Frame.env,
         KeepsTexts(mem, m),
         \A p \in Len(mem.heap) + 1 .. Len(m.heap) : m.heap[p].text \in Seq(WordsIn(script)),
         Frame.kind \in {"option", "loop"}, frame.kind = Frame.kind, frame.env = Frame.env,
         frame.kind = "loop" /\ frame.first => frame.acc = Null,
         GatheredOf(m, frame) \in Seq(WordsIn(script)), Plan(frame) \in Seq(ItemsIn(script))
  PROVE  /\ GrammarInv'
         /\ \E a \in Seq(WordsIn(script)), b \in Seq(ItemsIn(script)) :
              /\ Settled  = (a \o GatheredOf(mem, Frame)) \o Ready
              /\ ToDerive = AtHand \o (Plan(Frame) \o b)
              /\ Settled' = (a \o GatheredOf(m, frame)) \o Ready'
              /\ ToDerive' = AtHand' \o (Plan(frame) \o b)
  <1> DEFINE k == Len(kont) - 1
             a == Flat(Harvest, k)
             b == Back(Plans, k)
  <1>1. /\ Leaves(k) /\ Len(kont') = Len(kont) /\ kont'[Len(kont)] = frame
    BY ContinueLeaves
  <1>2. /\ k \in Nat /\ Len(kont) = k + 1 /\ Frame = kont[k + 1] /\ GrammarFrame(Len(kont))
        /\ mem' = m /\ focus' = next /\ script' = script
    BY KontFacts DEF Continue, Same
  <1>3. GrammarInv'
    <2>1. ASSUME NEW i \in k + 1 .. Len(kont') PROVE GrammarFrame(i)'
      <3>1. i = Len(kont)
        BY <1>1, <1>2
      <3> QED
        BY <1>1, <1>2, <3>1 DEF GrammarFrame
    <2>2. Len(mem'.heap) \in Nat
      BY DEF TypeInv, IsMemory, IsHeap
    <2>3. next.at = "atom" => next.env.formal = <<>>
      BY <1>2 DEF GrammarFrame
    <2>4. k # Len(kont)
      <3> HIDE DEF k
      <3> QED
        BY <1>2
    <2> QED
      BY <1>1, <1>2, <2>1, <2>2, <2>3, <2>4, KeepGrammar
  <1>4. a \in Seq(WordsIn(script)) /\ b \in Seq(ItemsIn(script))
    BY <1>1, PartsStay
  <1>5. /\ Settled = (a \o GatheredOf(mem, Frame)) \o Ready
        /\ ToDerive = AtHand \o (Plan(Frame) \o b)
    <2>1. Gathered(k + 1) = GatheredOf(mem, Frame) /\ Pending(k + 1) = Plan(Frame)
      <3> HIDE DEF k
      <3>1. Gathered(k + 1) = GatheredOf(mem, Frame)
        BY <1>2, PartsOf
      <3>2. Pending(k + 1) = PendingOf(script, Frame, kont[(k + 1) - 1],
                                       focus.at = "cooked" /\ k + 1 = Len(kont))
        BY <1>2, PartsOf
      <3> QED
        BY <3>1, <3>2, PlanIs
    <2> QED
      BY <1>1, <1>2, <2>1, Before
  <1>6. /\ Settled' = (a \o GatheredOf(m, frame)) \o Ready'
        /\ ToDerive' = AtHand' \o (Plan(frame) \o b)
    <2>1. kont'[k + 1] = frame /\ Len(kont') = k + 1
      BY <1>1, <1>2
    <2>2. PendingOf(script, kont'[k + 1], kont'[k], focus'.at = "cooked") = Plan(frame)
      BY <2>1, PlanIs
    <2>3. GatheredOf(mem', kont'[k + 1]) = GatheredOf(m, frame)
      BY <1>2, <2>1
    <2> HIDE DEF k
    <2> QED
      BY <1>1, <2>1, <2>2, <2>3, AfterOne
  <1> HIDE DEF a, b
  <1> QED
    BY <1>3, <1>4, <1>5, <1>6

\* The function on top returns.
LEMMA TopLeaves ==
  ASSUME Parsing, TypeInv', kont # <<>>, NEW m, NEW p, Leave(m, p), KeepsTexts(mem, m),
         Len(m.heap) = Len(mem.heap)
  PROVE  /\ GrammarInv'
         /\ \E a \in Seq(WordsIn(script)), b \in Seq(ItemsIn(script)) :
              /\ Settled  = (a \o Gathered(Len(kont))) \o Ready
              /\ ToDerive = AtHand \o (Pending(Len(kont)) \o b)
              /\ Settled' = a \o TextAt(m, p)
              /\ ToDerive' = b
  <1> DEFINE k == Len(kont) - 1
             a == Flat(Harvest, k)
             b == Back(Plans, k)
  <1>1. Leaves(k) /\ Len(kont') = k
    BY LeaveLeaves
  <1>2. /\ k \in Nat /\ Len(kont) = k + 1 /\ Len(mem.heap) \in Nat
        /\ mem' = m /\ focus'.at = "return" /\ focus'.text = p /\ script' = script
    BY KontFacts DEF Leave, Return, Same
  <1>3. GrammarInv'
    <2>1. \A i \in k + 1 .. Len(kont') : GrammarFrame(i)'
      BY <1>1, <1>2
    <2>2. \A q \in Len(mem.heap) + 1 .. Len(mem'.heap) : mem'.heap[q].text \in Seq(WordsIn(script))
      BY <1>2
    <2>3. k # Len(kont)
      <3> HIDE DEF k
      <3> QED
        BY <1>2
    <2> QED
      BY <1>1, <1>2, <2>1, <2>2, <2>3, KeepGrammar
  <1>4. a \in Seq(WordsIn(script)) /\ b \in Seq(ItemsIn(script))
    BY <1>1, PartsStay
  <1>5. /\ Settled = (a \o Gathered(Len(kont))) \o Ready
        /\ ToDerive = AtHand \o (Pending(Len(kont)) \o b)
    BY <1>1, <1>2, Before
  <1>6. Settled' = a \o TextAt(m, p) /\ ToDerive' = <<>> \o b
    BY <1>1, <1>2, AfterNone, AtHandIs
  <1> HIDE DEF a, b
  <1>7. <<>> \o b = b
    BY <1>4, ConcatEmptySeq
  <1> QED
    BY <1>3, <1>4, <1>5, <1>6, <1>7
-----------------------------------------------------------------------------
\* The node of an atom in focus, and of a repetition: its one part is a node.
LEMMA AtomFacts ==
  ASSUME Parsing, NEW type, IsAtom(type)
  PROVE  /\ focus.at = "atom" /\ focus.node \in NodeNumbers(script)
         /\ Node = script.nodes[focus.node] /\ Node.type = type
         /\ Item(script, focus.node) \in ItemsIn(script)
         /\ type \in Rounds => Node.params[1] \in NodeNumbers(script)
         /\ Node.count \in Int /\ Node.options \in Seq(Seq(NodeNumbers(script)))
  <1>1. focus.at = "atom" /\ Node.type = type
    BY DEF IsAtom
  <1>2. /\ focus.node \in NodeNumbers(script) /\ Node = script.nodes[focus.node]
        /\ IsNode(Node, NodeNumbers(script))
    BY <1>1, GivenAtom DEF Parsing
  <1>3. type \in Rounds => Node.params[1] \in NodeNumbers(script)
    <2>1. type \in Rounds => Node.params # <<>>
      BY <1>1, <1>2 DEF IsNode
    <2> QED
      BY <1>2, <2>1, FirstPart DEF Parsing
  <1> QED
    BY <1>1, <1>2, <1>3, ItemType DEF IsNode

\* A repetition that begins has its node to do.
LEMMA LoopPlan ==
  ASSUME Parsing, NEW type \in Rounds, IsAtom(type), NEW left \in Int, NEW random \in BOOLEAN,
         NEW first
  PROVE  LET frame == Loop(left, random, first)
             child == Node.params[1]
         IN  /\ frame.kind = "loop" /\ frame.acc = Null /\ frame.env = focus.env
             /\ Plan(frame) = IF random THEN <<StarItem(script, child)>>
                              ELSE <<TimesItem(script, child, left)>>
             /\ Plan(frame) \in Seq(ItemsIn(script))
  <1> DEFINE frame == Loop(left, random, first)
             child == Node.params[1]
  <1>1. /\ frame.kind = "loop" /\ frame.acc = Null /\ frame.env = focus.env
        /\ frame.node = focus.node /\ frame.random = random /\ frame.left = left
    BY DEF Loop
  <1>2. Node = script.nodes[focus.node] /\ child \in NodeNumbers(script)
    BY AtomFacts
  <1> HIDE DEF frame
  <1>3. Plan(frame) = IF random THEN <<StarItem(script, child)>>
                      ELSE <<TimesItem(script, child, left)>>
    BY <1>1, <1>2 DEF Plan, PendingOf
  <1>4. StarItem(script, child) \in ItemsIn(script) /\ TimesItem(script, child, left) \in ItemsIn(script)
    <2> HIDE DEF child
    <2> QED
      BY <1>2 DEF ItemsIn
  <1>5. Plan(frame) \in Seq(ItemsIn(script))
    BY <1>3, <1>4
  <1> QED
    BY <1>1, <1>3, <1>5 DEF frame

\* `*' and %repeat stay to be derived as they are.
LEMMA StarDerives ==
  ASSUME Parsing, TypeInv', Star \/ RepeatConst PROVE GrammarInv' /\ Derives
  <1>1. PICK type \in {"star", "repeat_const"}, left \in Int, random \in BOOLEAN :
          /\ IsAtom(type) /\ Call(mem, Loop(left, random, FALSE), GoOn)
          /\ Item(script, focus.node) = IF random THEN StarItem(script, Node.params[1])
                                        ELSE TimesItem(script, Node.params[1], left)
    <2>1. CASE Star
      <3>1. IsAtom("star") /\ Call(mem, Loop(MaxReps, TRUE, FALSE), GoOn)
        BY <2>1 DEF Star
      <3>2. MaxReps \in Int
        BY RepsAssumption
      <3>3. Item(script, focus.node) = StarItem(script, Node.params[1])
        BY <3>1, AtomFacts DEF Item
      <3> QED
        BY <3>1, <3>2, <3>3
    <2>2. CASE RepeatConst
      <3>1. IsAtom("repeat_const") /\ Call(mem, Loop(Node.count, FALSE, FALSE), GoOn)
        BY <2>2 DEF RepeatConst
      <3>2. Item(script, focus.node) = TimesItem(script, Node.params[1], Node.count)
            /\ Node.count \in Int
        BY <3>1, AtomFacts DEF Item
      <3> QED
        BY <3>1, <3>2
    <2> QED
      BY <2>1, <2>2
  <1> DEFINE frame == Loop(left, random, FALSE)
  <1>2. focus.at = "atom" /\ type \in Rounds
    BY <1>1, AtomFacts DEF Rounds
  <1>3. /\ frame.kind = "loop" /\ frame.acc = Null /\ frame.env = focus.env
        /\ Plan(frame) = <<Item(script, focus.node)>>
        /\ Plan(frame) \in Seq(ItemsIn(script))
    BY <1>1, <1>2, LoopPlan
  <1>4. focus' = GoOn /\ mem' = mem /\ script' = script /\ GoOn.at = "next"
    BY <1>1 DEF Call, Same, GoOn
  <1> HIDE DEF frame
  <1>5. Call(mem, frame, GoOn)
    BY <1>1 DEF frame
  <1>6. Leaves(Len(kont)) /\ Len(kont') = Len(kont) + 1 /\ kont'[Len(kont) + 1] = frame
    BY <1>2, <1>4, <1>5, CallLeaves
  <1>7. /\ GrammarInv' /\ Settled' = Settled
        /\ \E b \in Seq(ItemsIn(script)) :
              /\ ToDerive = <<Item(script, focus.node)>> \o b
              /\ ToDerive' = AtHand' \o (Plan(frame) \o b)
    BY <1>2, <1>3, <1>4, <1>6, AtomCalls
  <1>8. PICK b \in Seq(ItemsIn(script)) :
              /\ ToDerive = <<Item(script, focus.node)>> \o b
              /\ ToDerive' = AtHand' \o (Plan(frame) \o b)
    BY <1>7
  <1>9. AtHand' = <<>>
    BY <1>4, AtHandIs
  <1>10. Plan(frame) \o b \in Seq(ItemsIn(script))
    BY <1>3
  <1>11. <<>> \o (Plan(frame) \o b) = Plan(frame) \o b
    BY <1>10, ConcatEmptySeq
  <1> QED
    BY <1>3, <1>7, <1>8, <1>9, <1>11, Stutters

\* Two items, joined.
LEMMA TwoJoined ==
  ASSUME NEW S, NEW x \in S, NEW y \in S PROVE <<x>> \o <<y>> = <<x, y>>
  <1> DEFINE one == <<x>> \o <<y>>
             two == <<x, y>>
  <1>1. one \in Seq(S) /\ Len(one) = 2 /\ one[1] = x /\ one[2] = y
    OBVIOUS
  <1>2. two \in Seq(S) /\ Len(two) = 2 /\ two[1] = x /\ two[2] = y
    OBVIOUS
  <1> HIDE DEF one, two
  <1>3. one = two
    BY <1>1, <1>2, SeqEqual
  <1> QED
    BY <1>3 DEF one, two

\* `+' is its subnode, and then `*'.
LEMMA PlusDerives ==
  ASSUME Parsing, TypeInv', Plus PROVE GrammarInv' /\ Derives
  <1> DEFINE frame == Loop(MaxReps, TRUE, TRUE)
             child == Node.params[1]
             next == Atom(child, focus.env)
             item == NodeItem(script, focus.node)
  <1>1. IsAtom("plus") /\ Call(mem, frame, next) /\ "plus" \in Rounds
    BY DEF Plus, Rounds
  <1>2. /\ focus.at = "atom" /\ child \in NodeNumbers(script) /\ Node = script.nodes[focus.node]
        /\ Node.type = "plus" /\ focus.node \in NodeNumbers(script)
        /\ Item(script, focus.node) \in ItemsIn(script)
    BY <1>1, AtomFacts
  <1>3. MaxReps \in Int
    BY RepsAssumption
  <1>4. /\ frame.kind = "loop" /\ frame.acc = Null /\ frame.env = focus.env
        /\ Plan(frame) = <<StarItem(script, child)>>
        /\ Plan(frame) \in Seq(ItemsIn(script))
    BY <1>1, <1>3, LoopPlan
  <1>5. /\ focus'.at = "atom" /\ focus'.node = child /\ focus'.env = focus.env
        /\ mem' = mem /\ script' = script /\ next.at = "atom"
    BY <1>1 DEF Call, Same, Atom
  <1> HIDE DEF frame, next
  <1>6. Leaves(Len(kont)) /\ Len(kont') = Len(kont) + 1 /\ kont'[Len(kont) + 1] = frame
    BY <1>1, <1>2, <1>5, CallLeaves
  <1>7. /\ GrammarInv' /\ Settled' = Settled
        /\ \E b \in Seq(ItemsIn(script)) :
              /\ ToDerive = <<Item(script, focus.node)>> \o b
              /\ ToDerive' = AtHand' \o (Plan(frame) \o b)
    BY <1>2, <1>4, <1>5, <1>6, AtomCalls
  <1>8. PICK b \in Seq(ItemsIn(script)) :
              /\ ToDerive = <<Item(script, focus.node)>> \o b
              /\ ToDerive' = AtHand' \o (Plan(frame) \o b)
    BY <1>7
  <1>9. AtHand' = <<Item(script, child)>> /\ Item(script, child) \in ItemsIn(script)
    BY <1>2, <1>5, AtHandIs, ItemType
  <1>10. Item(script, focus.node) = item
    BY <1>2 DEF Item
  <1>11. <<Item(script, child), StarItem(script, child)>> \in Grammar(item) /\ ~IsLiteral(item)
    <2>1. item.is = "node" /\ NodeOf(item) = Node /\ item.of = script
      BY <1>2 DEF NodeItem, NodeOf
    <2> HIDE DEF item
    <2> QED
      BY <1>2, <2>1 DEF Grammar, IsLiteral
  <1> DEFINE first == Item(script, child)
             again == StarItem(script, child)
  <1>12. again \in ItemsIn(script)
    <2> HIDE DEF child
    <2> QED
      BY <1>2 DEF ItemsIn
  <1> HIDE DEF first, again
  <1>13. <<first>> \o (<<again>> \o b) = <<first, again>> \o b
    <2>1. <<first>> \in Seq(ItemsIn(script)) /\ <<again>> \in Seq(ItemsIn(script))
      BY <1>9, <1>12 DEF first
    <2>2. <<first>> \o (<<again>> \o b) = (<<first>> \o <<again>>) \o b
      BY <2>1, ConcatAssociative
    <2>3. <<first>> \o <<again>> = <<first, again>>
      BY <1>9, <1>12, TwoJoined DEF first
    <2> QED
      BY <2>2, <2>3
  <1>14. ToDerive' = <<first, again>> \o b
    BY <1>4, <1>8, <1>9, <1>13 DEF first, again
  <1>15. <<first, again>> \in Grammar(item)
    BY <1>11 DEF first, again
  <1> HIDE DEF item
  <1>16. Derives
    BY <1>2, <1>7, <1>8, <1>10, <1>11, <1>14, <1>15, Expands
  <1> QED
    BY <1>7, <1>16

\* An option of an inline choice.
LEMMA ChoiceDerives ==
  ASSUME Parsing, TypeInv', Choice PROVE GrammarInv' /\ Derives
  <1> DEFINE item == NodeItem(script, focus.node)
  <1>1. /\ focus.at = "atom" /\ Node = script.nodes[focus.node] /\ Node.type = "choice"
        /\ focus.node \in NodeNumbers(script) /\ Item(script, focus.node) \in ItemsIn(script)
        /\ Node.options \in Seq(Seq(NodeNumbers(script)))
    <2>1. IsAtom("choice")
      BY DEF Choice
    <2> QED
      BY <2>1, AtomFacts
  <1>2. PICK c \in DOMAIN Node.options :
          kont' = Append(kont, OptionFrame(Node.options[c], focus.env))
    BY DEF Choice
  <1>3. focus' = GoOn /\ mem' = mem /\ script' = script /\ focus'.at = "next"
    BY DEF Choice, GoOn
  <1> DEFINE option == Node.options[c]
             frame == OptionFrame(option, focus.env)
  <1>4. option \in Seq(NodeNumbers(script)) /\ option \in ToSet(Node.options)
    <2>1. c \in 1 .. Len(Node.options)
      BY <1>1, <1>2
    <2> QED
      BY <1>1, <2>1 DEF ToSet
  <1> HIDE DEF option
  <1>5. /\ frame.kind = "option" /\ frame.acc = Null /\ frame.env = focus.env
        /\ Plan(frame) = Items(script, option) /\ Plan(frame) \in Seq(ItemsIn(script))
    BY <1>4, ItemsType DEF OptionFrame, Plan, PendingOf
  <1>6. kont' = Append(kont, frame)
    BY <1>2 DEF option
  <1> HIDE DEF frame
  <1>7. Leaves(Len(kont)) /\ Len(kont') = Len(kont) + 1 /\ kont'[Len(kont) + 1] = frame
    <2>1. kont \in Seq(Frames(script, Len(mem.heap)))
      BY Given DEF Parsing
    <2>2. /\ DOMAIN kont' = 1 .. Len(kont') /\ Len(kont') = Len(kont) + 1
          /\ kont'[Len(kont) + 1] = frame
          /\ \A i \in 1 .. Len(kont) : kont'[i] = kont[i]
      BY <1>6, <2>1
    <2> QED
      BY <1>1, <1>3, <2>2, KontFacts DEF Leaves, KeepsTexts
  <1>8. /\ GrammarInv' /\ Settled' = Settled
        /\ \E b \in Seq(ItemsIn(script)) :
              /\ ToDerive = <<Item(script, focus.node)>> \o b
              /\ ToDerive' = AtHand' \o (Plan(frame) \o b)
    BY <1>1, <1>3, <1>5, <1>7, AtomCalls
  <1>9. PICK b \in Seq(ItemsIn(script)) :
              /\ ToDerive = <<Item(script, focus.node)>> \o b
              /\ ToDerive' = AtHand' \o (Plan(frame) \o b)
    BY <1>8
  <1>10. AtHand' = <<>>
    BY <1>3, AtHandIs
  <1>11. Plan(frame) \o b \in Seq(ItemsIn(script))
    BY <1>5
  <1>12. <<>> \o (Plan(frame) \o b) = Plan(frame) \o b
    BY <1>11, ConcatEmptySeq
  <1>13. Item(script, focus.node) = item
    BY <1>1 DEF Item
  <1>14. Plan(frame) \in Grammar(item) /\ ~IsLiteral(item)
    <2>1. item.is = "node" /\ NodeOf(item) = Node /\ item.of = script
      BY <1>1 DEF NodeItem, NodeOf
    <2> HIDE DEF item
    <2> QED
      BY <1>1, <1>4, <1>5, <2>1 DEF Grammar, IsLiteral
  <1> HIDE DEF item
  <1>15. Derives
    BY <1>1, <1>8, <1>9, <1>10, <1>12, <1>13, <1>14, Expands
  <1> QED
    BY <1>8, <1>15

\* A round of a repetition: its node, and the rest of it.
LEMMA RoundDerives ==
  ASSUME Parsing, TypeInv', Round PROVE GrammarInv' /\ Derives
  <1> DEFINE child == script.nodes[Frame.node].params[1]
             frame == [Frame EXCEPT !.left = @ - 1]
             next == Atom(child, Frame.env)
             done == GatheredOf(mem, Frame)
  <1>1. /\ kont # <<>> /\ Frame.kind = "loop" /\ focus.at = "next" /\ Frame.left > 0
        /\ Continue(mem, frame, next) /\ Frame \in LoopFrames(script, Len(mem.heap))
    BY GivenTurn, FrameOfKind DEF Round, Parsing
  <1>2. /\ Frame.node \in NodeNumbers(script) /\ Frame.left \in Int /\ Frame.random \in BOOLEAN
        /\ Frame.acc \in 0 .. Len(mem.heap) /\ script.nodes[Frame.node].params # <<>>
        /\ frame.kind = "loop" /\ frame.env = Frame.env /\ frame.acc = Frame.acc
        /\ frame.node = Frame.node /\ frame.random = Frame.random
        /\ frame.first = Frame.first /\ frame.left = Frame.left - 1
    BY <1>1 DEF LoopFrames
  <1>3. child \in NodeNumbers(script)
    BY <1>2, FirstPart DEF Parsing
  <1>4. /\ next.at = "atom" /\ next.env = Frame.env /\ next.node = child
        /\ focus' = next /\ script' = script
    BY <1>1 DEF Atom, Continue, Same
  <1>5. done \in Seq(WordsIn(script))
    BY <1>1, <1>2, TextType DEF GatheredOf
  <1>6. GatheredOf(mem, frame) = done
    BY <1>1, <1>2 DEF GatheredOf
  <1>7. frame.first => frame.acc = Null
    BY <1>1, <1>2, KontFacts DEF GrammarFrame
  <1>8. PICK item, again \in ItemsIn(script) :
          /\ Plan(Frame) = <<item>> /\ Plan(frame) = <<again>> /\ ~IsLiteral(item)
          /\ <<Item(script, child), again>> \in Grammar(item)
    <2>1. CASE Frame.random
      <3> DEFINE item == StarItem(script, child)
      <3>1. Plan(Frame) = <<item>> /\ Plan(frame) = <<item>>
        BY <1>1, <1>2, <2>1 DEF Plan, PendingOf
      <3>2. ~IsLiteral(item) /\ <<Item(script, child), item>> \in Grammar(item)
        BY DEF IsLiteral, Grammar, StarItem
      <3>3. item \in ItemsIn(script)
        <4> HIDE DEF child
        <4> QED
          BY <1>3 DEF ItemsIn
      <3> QED
        BY <3>1, <3>2, <3>3
    <2>2. CASE ~Frame.random
      <3> DEFINE left == Frame.left
                 item == TimesItem(script, child, left)
                 again == TimesItem(script, child, left - 1)
      <3>1. Plan(Frame) = <<item>> /\ Plan(frame) = <<again>>
        BY <1>1, <1>2, <2>2 DEF Plan, PendingOf
      <3>2. left \in Int /\ left - 1 \in Int /\ ~(left <= 0)
        BY <1>1, <1>2
      <3> HIDE DEF left, child
      <3>3. ~IsLiteral(item) /\ <<Item(script, child), again>> \in Grammar(item)
        BY <3>2 DEF IsLiteral, Grammar, TimesItem
      <3>4. item \in ItemsIn(script) /\ again \in ItemsIn(script)
        BY <1>3, <3>2 DEF ItemsIn
      <3> QED
        BY <3>1, <3>3, <3>4
    <2> QED
      BY <2>1, <2>2
  <1>9. /\ KeepsTexts(mem, mem)
        /\ \A p \in Len(mem.heap) + 1 .. Len(mem.heap) : mem.heap[p].text \in Seq(WordsIn(script))
    BY KontFacts DEF KeepsTexts
  <1>10. Plan(frame) \in Seq(ItemsIn(script))
    BY <1>8
  <1> HIDE DEF frame, next, done
  <1>11. /\ GrammarInv'
         /\ \E a \in Seq(WordsIn(script)), b \in Seq(ItemsIn(script)) :
              /\ Settled  = (a \o done) \o Ready
              /\ ToDerive = AtHand \o (Plan(Frame) \o b)
              /\ Settled' = (a \o done) \o Ready'
              /\ ToDerive' = AtHand' \o (Plan(frame) \o b)
    <2>1. GatheredOf(mem, Frame) = done
      BY DEF done
    <2>2. /\ next.at \in {"next", "atom"} /\ Frame.kind \in {"option", "loop"}
          /\ frame.kind = Frame.kind /\ kont # <<>> /\ Continue(mem, frame, next)
      BY <1>1, <1>2, <1>4
    <2>3. /\ next.at = "atom" => next.env = Frame.env
          /\ frame.env = Frame.env
          /\ frame.kind = "loop" /\ frame.first => frame.acc = Null
      BY <1>2, <1>4, <1>7
    <2>4. GatheredOf(mem, frame) \in Seq(WordsIn(script))
      BY <1>5, <1>6
    <2>5. /\ GrammarInv'
          /\ \E a \in Seq(WordsIn(script)), b \in Seq(ItemsIn(script)) :
              /\ Settled  = (a \o GatheredOf(mem, Frame)) \o Ready
              /\ ToDerive = AtHand \o (Plan(Frame) \o b)
              /\ Settled' = (a \o GatheredOf(mem, frame)) \o Ready'
              /\ ToDerive' = AtHand' \o (Plan(frame) \o b)
      BY <1>9, <1>10, <2>2, <2>3, <2>4, TopContinues, ZenonT(60)
    <2> QED
      BY <1>6, <2>1, <2>5
  <1>12. PICK a \in Seq(WordsIn(script)), b \in Seq(ItemsIn(script)) :
              /\ Settled  = (a \o done) \o Ready
              /\ ToDerive = AtHand \o (<<item>> \o b)
              /\ Settled' = (a \o done) \o Ready'
              /\ ToDerive' = AtHand' \o (<<again>> \o b)
    BY <1>8, <1>11
  <1> DEFINE first == Item(script, child)
  <1>13. /\ AtHand = <<>> /\ Ready = <<>> /\ Ready' = <<>> /\ AtHand' = <<first>>
         /\ first \in ItemsIn(script)
    BY <1>1, <1>3, <1>4, AtHandIs, ItemType
  <1> HIDE DEF first, child
  <1>14. /\ <<>> \o (<<item>> \o b) = <<item>> \o b
         /\ <<first>> \o (<<again>> \o b) = <<first, again>> \o b
    <2>1. <<first>> \in Seq(ItemsIn(script)) /\ <<again>> \in Seq(ItemsIn(script))
          /\ <<item>> \o b \in Seq(ItemsIn(script))
      BY <1>8, <1>13
    <2>2. <<first>> \o (<<again>> \o b) = (<<first>> \o <<again>>) \o b
      BY <2>1, ConcatAssociative
    <2>3. <<first>> \o <<again>> = <<first, again>>
      BY <1>8, <1>13, TwoJoined
    <2> QED
      BY <2>1, <2>2, <2>3, ConcatEmptySeq
  <1>15. Derives
    <2>1. ToDerive = <<item>> \o b /\ ToDerive' = <<first, again>> \o b /\ Settled' = Settled
      BY <1>12, <1>13, <1>14
    <2>2. <<first, again>> \in Grammar(item)
      BY <1>8 DEF first
    <2> QED
      BY <1>8, <2>1, <2>2, Expands
  <1> QED
    BY <1>11, <1>15

\* The heap is as it was.
LEMMA SameTexts == ASSUME Parsing PROVE KeepsTexts(mem, mem) /\ Len(mem.heap) \in Nat
  BY KontFacts DEF KeepsTexts

\* A repetition ends, at random or when its rounds are done.
LEMMA EndLoopDerives ==
  ASSUME Parsing, TypeInv', EndLoop PROVE GrammarInv' /\ Derives
  <1> DEFINE child == script.nodes[Frame.node].params[1]
             done == TextAt(mem, Frame.acc)
             k == Len(kont)
  <1>1. /\ kont # <<>> /\ Frame.kind = "loop" /\ focus.at = "next"
        /\ Frame.random \/ Frame.left <= 0
        /\ Leave(mem, Frame.acc) /\ Frame \in LoopFrames(script, Len(mem.heap))
    BY GivenTurn, FrameOfKind DEF EndLoop, Parsing
  <1>2. /\ Frame.node \in NodeNumbers(script) /\ Frame.left \in Int /\ Frame.random \in BOOLEAN
        /\ Frame.acc \in 0 .. Len(mem.heap) /\ script.nodes[Frame.node].params # <<>>
    BY <1>1 DEF LoopFrames
  <1>3. child \in NodeNumbers(script)
    BY <1>2, FirstPart DEF Parsing
  <1>4. done \in Seq(WordsIn(script))
    BY <1>2, TextType
  <1>5. Gathered(k) = done /\ Pending(k) = Plan(Frame)
    <2>1. Frame = kont[k]
      BY <1>1, KontFacts
    <2>2. Gathered(k) = GatheredOf(mem, Frame)
      BY <2>1, PartsOf
    <2>3. Pending(k) = PendingOf(script, Frame, kont[k - 1], focus.at = "cooked" /\ k = Len(kont))
      BY <2>1, PartsOf
    <2> QED
      BY <1>1, <2>2, <2>3, PlanIs DEF GatheredOf
  <1>6. PICK item \in ItemsIn(script) :
          Plan(Frame) = <<item>> /\ ~IsLiteral(item) /\ <<>> \in Grammar(item)
    <2>1. CASE Frame.random
      <3> DEFINE item == StarItem(script, child)
      <3>1. Plan(Frame) = <<item>>
        BY <1>1, <1>2, <2>1 DEF Plan, PendingOf
      <3>2. ~IsLiteral(item) /\ <<>> \in Grammar(item)
        BY DEF IsLiteral, Grammar, StarItem
      <3>3. item \in ItemsIn(script)
        <4> HIDE DEF child
        <4> QED
          BY <1>3 DEF ItemsIn
      <3> QED
        BY <3>1, <3>2, <3>3
    <2>2. CASE ~Frame.random
      <3> DEFINE left == Frame.left
                 item == TimesItem(script, child, left)
      <3>1. Plan(Frame) = <<item>>
        BY <1>1, <1>2, <2>2 DEF Plan, PendingOf
      <3>2. left \in Int /\ left <= 0
        BY <1>1, <1>2, <2>2
      <3> HIDE DEF left, child
      <3>3. ~IsLiteral(item) /\ <<>> \in Grammar(item)
        BY <3>2 DEF IsLiteral, Grammar, TimesItem
      <3>4. item \in ItemsIn(script)
        BY <1>3, <3>2 DEF ItemsIn
      <3> QED
        BY <3>1, <3>3, <3>4
    <2> QED
      BY <2>1, <2>2
  <1> HIDE DEF done
  <1>7. /\ GrammarInv'
        /\ \E a \in Seq(WordsIn(script)), b \in Seq(ItemsIn(script)) :
              /\ Settled  = (a \o Gathered(Len(kont))) \o Ready
              /\ ToDerive = AtHand \o (Pending(Len(kont)) \o b)
              /\ Settled' = a \o TextAt(mem, Frame.acc)
              /\ ToDerive' = b
    BY <1>1, SameTexts, TopLeaves
  <1>8. PICK a \in Seq(WordsIn(script)), b \in Seq(ItemsIn(script)) :
              /\ Settled  = (a \o done) \o Ready
              /\ ToDerive = AtHand \o (<<item>> \o b)
              /\ Settled' = a \o done
              /\ ToDerive' = b
    BY <1>5, <1>6, <1>7 DEF done
  <1>9. AtHand = <<>> /\ Ready = <<>>
    <2>1. script' = script
      BY <1>1 DEF Leave, Same
    <2> QED
      BY <1>1, <2>1, AtHandIs
  <1>10. /\ <<>> \o (<<item>> \o b) = <<item>> \o b /\ <<>> \o b = b
         /\ (a \o done) \o <<>> = a \o done
    <2>1. <<item>> \o b \in Seq(ItemsIn(script)) /\ a \o done \in Seq(WordsIn(script))
      BY <1>4, <1>6
    <2> QED
      BY <2>1, ConcatEmptySeq
  <1>11. Derives
    <2>1. ToDerive = <<item>> \o b /\ ToDerive' = <<>> \o b /\ Settled' = Settled
      BY <1>8, <1>9, <1>10
    <2> QED
      BY <1>6, <2>1, Expands
  <1> QED
    BY <1>7, <1>11

\* The option or the repetition on top, as it is before a step.
LEMMA TopIs ==
  ASSUME Parsing, kont # <<>>, Frame.kind \in {"option", "loop"}
  PROVE  /\ Plan(Frame) \in Seq(ItemsIn(script))
         /\ GatheredOf(mem, Frame) \in Seq(WordsIn(script))
         /\ Gathered(Len(kont)) = GatheredOf(mem, Frame)
         /\ Pending(Len(kont)) = Plan(Frame)
         /\ GatheredOf(mem, Frame) = TextAt(mem, Frame.acc)
  <1> DEFINE k == Len(kont)
  <1>1. Frame = kont[k] /\ k \in 1 .. Len(kont)
    BY KontFacts
  <1>2. Gathered(k) = GatheredOf(mem, Frame)
    BY <1>1, PartsOf
  <1>3. Pending(k) = PendingOf(script, Frame, kont[k - 1], focus.at = "cooked" /\ k = Len(kont))
    BY <1>1, PartsOf
  <1>4. Pending(k) = Plan(Frame)
    BY <1>3, PlanIs
  <1>5. GatheredOf(mem, Frame) = TextAt(mem, Frame.acc)
    BY DEF GatheredOf
  <1>6. Gathered(k) \in Seq(WordsIn(script)) /\ Pending(k) \in Seq(ItemsIn(script))
    BY <1>1, PartsType
  <1> QED
    BY <1>2, <1>4, <1>5, <1>6

\* The text that a function returns.
LEMMA ReturnedText ==
  ASSUME Parsing, focus.at \in {"return", "done"}
  PROVE  focus.text \in 0 .. Len(mem.heap) /\ TextAt(mem, focus.text) \in Seq(WordsIn(script))
  <1>1. focus.text \in 0 .. Len(mem.heap)
    BY DEF Parsing, TypeInv, Focuses
  <1> QED
    BY <1>1, TextType

\* The option or the repetition on top joins the text it gets to what it has.
LEMMA TakesText ==
  ASSUME Parsing, TypeInv', kont # <<>>, focus.at = "return", NEW m, NEW frame,
         Continue(m, frame, GoOn), KeepsTexts(mem, m),
         \A p \in Len(mem.heap) + 1 .. Len(m.heap) : m.heap[p].text \in Seq(WordsIn(script)),
         Frame.kind \in {"option", "loop"}, frame.kind = Frame.kind, frame.env = Frame.env,
         frame.kind = "loop" /\ frame.first => frame.acc = Null,
         GatheredOf(m, frame) = GatheredOf(mem, Frame) \o TextAt(mem, focus.text),
         Plan(frame) = Plan(Frame)
  PROVE  GrammarInv' /\ Derives
  <1> DEFINE had == GatheredOf(mem, Frame)
             text == TextAt(mem, focus.text)
  <1>1. had \in Seq(WordsIn(script)) /\ text \in Seq(WordsIn(script))
        /\ Plan(Frame) \in Seq(ItemsIn(script))
    BY TopIs, ReturnedText
  <1>2. had \o text \in Seq(WordsIn(script))
    <2> HIDE DEF had, text
    <2> QED
      BY <1>1
  <1>3. GoOn.at = "next" /\ focus' = GoOn /\ script' = script
    BY DEF GoOn, Continue, Same
  <1>4. /\ GrammarInv'
        /\ \E a \in Seq(WordsIn(script)), b \in Seq(ItemsIn(script)) :
             /\ Settled  = (a \o GatheredOf(mem, Frame)) \o Ready
             /\ ToDerive = AtHand \o (Plan(Frame) \o b)
             /\ Settled' = (a \o GatheredOf(m, frame)) \o Ready'
             /\ ToDerive' = AtHand' \o (Plan(frame) \o b)
    <2>1. GoOn.at \in {"next", "atom"} /\ (GoOn.at = "atom" => GoOn.env = Frame.env)
      BY <1>3
    <2>2. GatheredOf(m, frame) \in Seq(WordsIn(script)) /\ Plan(frame) \in Seq(ItemsIn(script))
      BY <1>1, <1>2
    <2> QED
      BY <2>1, <2>2, TopContinues, ZenonT(60)
  <1>5. PICK a \in Seq(WordsIn(script)), b \in Seq(ItemsIn(script)) :
             /\ Settled  = (a \o had) \o Ready
             /\ ToDerive = AtHand \o (Plan(Frame) \o b)
             /\ Settled' = (a \o (had \o text)) \o Ready'
             /\ ToDerive' = AtHand' \o (Plan(Frame) \o b)
    BY <1>4
  <1>6. AtHand = <<>> /\ Ready = text /\ AtHand' = <<>> /\ Ready' = <<>>
    BY <1>3, AtHandIs
  <1> HIDE DEF had, text
  <1>7. (a \o (had \o text)) \o <<>> = (a \o had) \o text
    <2>1. a \o (had \o text) = (a \o had) \o text
      BY <1>1, ConcatAssociative, SMTT(30)
    <2>2. a \o (had \o text) \in Seq(WordsIn(script))
      BY <1>2
    <2> QED
      BY <2>1, <2>2, ConcatEmptySeq
  <1>8. ToDerive' = ToDerive /\ Settled' = Settled
    BY <1>5, <1>6, <1>7
  <1> QED
    BY <1>4, <1>8, Stutters

\* The text of a round is joined to those before it.
LEMMA AccumulateDerives ==
  ASSUME Parsing, TypeInv', Accumulate PROVE GrammarInv' /\ Derives
  <1> DEFINE m == Dstrcat(mem, Frame.acc, focus.text)
             first == [Frame EXCEPT !.acc = focus.text, !.first = FALSE]
             again == [Frame EXCEPT !.acc = Newest(m)]
  <1>1. /\ kont # <<>> /\ Frame.kind = "loop" /\ focus.at = "return"
        /\ Frame \in LoopFrames(script, Len(mem.heap))
    BY GivenTurn, FrameOfKind DEF Accumulate, Parsing
  <1>2. /\ Frame.acc \in 0 .. Len(mem.heap) /\ focus.text \in 0 .. Len(mem.heap)
        /\ TextAt(mem, focus.text) \in Seq(WordsIn(script))
        /\ GatheredOf(mem, Frame) = TextAt(mem, Frame.acc)
        /\ GatheredOf(mem, Frame) \in Seq(WordsIn(script))
    BY <1>1, ReturnedText, TopIs DEF LoopFrames
  <1>3. CASE Frame.first
    <2>1. /\ Continue(mem, first, GoOn)
          /\ first.kind = "loop" /\ first.env = Frame.env /\ first.acc = focus.text
          /\ first.first = FALSE /\ first.node = Frame.node /\ first.random = Frame.random
          /\ first.left = Frame.left
      BY <1>1, <1>3 DEF Accumulate, LoopFrames
    <2> HIDE DEF first
    <2>2. GatheredOf(mem, first) = GatheredOf(mem, Frame) \o TextAt(mem, focus.text)
      <3>1. Frame.acc = Null
        BY <1>1, <1>3, KontFacts DEF GrammarFrame
      <3>2. GatheredOf(mem, Frame) = <<>>
        BY <1>2, <3>1 DEF TextAt
      <3>3. GatheredOf(mem, first) = TextAt(mem, focus.text)
        BY <2>1 DEF GatheredOf
      <3> DEFINE text == TextAt(mem, focus.text)
      <3>4. text \in Seq(WordsIn(script))
        BY <1>2
      <3> HIDE DEF text
      <3>5. <<>> \o text = text
        BY <3>4, ConcatEmptySeq
      <3> QED
        BY <3>2, <3>3, <3>5 DEF text
    <2>3. Plan(first) = Plan(Frame)
      BY <1>1, <2>1 DEF Plan, PendingOf
    <2>4. \A p \in Len(mem.heap) + 1 .. Len(mem.heap) : mem.heap[p].text \in Seq(WordsIn(script))
      BY SameTexts
    <2>5. first.kind = Frame.kind /\ Frame.kind \in {"option", "loop"}
          /\ (first.kind = "loop" /\ first.first => first.acc = Null)
      BY <1>1, <2>1
    <2> QED
      BY <1>1, <2>1, <2>2, <2>3, <2>4, <2>5, SameTexts, TakesText
  <1>4. CASE ~Frame.first
    <2>1. /\ Continue(m, again, GoOn)
          /\ again.kind = "loop" /\ again.env = Frame.env /\ again.acc = Newest(m)
          /\ again.first = Frame.first /\ again.node = Frame.node /\ again.random = Frame.random
          /\ again.left = Frame.left
      BY <1>1, <1>4 DEF Accumulate, LoopFrames
    <2>2. /\ KeepsTexts(mem, m) /\ Len(m.heap) = Len(mem.heap) + 1
          /\ TextAt(m, Newest(m)) = TextAt(mem, Frame.acc) \o TextAt(mem, focus.text)
          /\ m.heap[Len(mem.heap) + 1].text = TextAt(mem, Frame.acc) \o TextAt(mem, focus.text)
      BY <1>2, KontFacts, DstrcatTexts
    <2> HIDE DEF m, again
    <2>3. GatheredOf(m, again) = GatheredOf(mem, Frame) \o TextAt(mem, focus.text)
      BY <1>2, <2>1, <2>2 DEF GatheredOf
    <2>4. \A p \in Len(mem.heap) + 1 .. Len(m.heap) : m.heap[p].text \in Seq(WordsIn(script))
      <3>1. m.heap[Len(mem.heap) + 1].text \in Seq(WordsIn(script))
        BY <1>2, <2>2
      <3>2. \A p \in Len(mem.heap) + 1 .. Len(m.heap) : p = Len(mem.heap) + 1
        BY <2>2, SameTexts
      <3> QED
        BY <3>1, <3>2
    <2>5. Plan(again) = Plan(Frame)
      BY <1>1, <2>1 DEF Plan, PendingOf
    <2>6. again.kind = Frame.kind /\ Frame.kind \in {"option", "loop"}
          /\ (again.kind = "loop" /\ again.first => again.acc = Null)
      BY <1>1, <1>4, <2>1
    <2> QED
      BY <1>1, <2>1, <2>2, <2>3, <2>4, <2>5, <2>6, TakesText
  <1> QED
    BY <1>3, <1>4

\* The text of an atom is joined to those before it.
LEMMA AddTextDerives ==
  ASSUME Parsing, TypeInv', AddText PROVE GrammarInv' /\ Derives
  <1> DEFINE m == Dstrcat(mem, Frame.acc, focus.text)
             frame == [Frame EXCEPT !.acc = Newest(m)]
  <1>1. /\ kont # <<>> /\ Frame.kind = "option" /\ focus.at = "return"
        /\ Continue(m, frame, GoOn)
        /\ Frame \in OptionFrames(script, Len(mem.heap))
    BY GivenTurn, FrameOfKind DEF AddText, Parsing
  <1>2. /\ Frame.acc \in 0 .. Len(mem.heap) /\ focus.text \in 0 .. Len(mem.heap)
        /\ TextAt(mem, focus.text) \in Seq(WordsIn(script))
        /\ GatheredOf(mem, Frame) = TextAt(mem, Frame.acc)
        /\ GatheredOf(mem, Frame) \in Seq(WordsIn(script))
    BY <1>1, ReturnedText, TopIs DEF OptionFrames
  <1>3. /\ frame.kind = "option" /\ frame.env = Frame.env /\ frame.acc = Newest(m)
        /\ frame.todo = Frame.todo
    BY <1>1 DEF OptionFrames
  <1>4. /\ KeepsTexts(mem, m) /\ Len(m.heap) = Len(mem.heap) + 1
        /\ TextAt(m, Newest(m)) = TextAt(mem, Frame.acc) \o TextAt(mem, focus.text)
        /\ m.heap[Len(mem.heap) + 1].text = TextAt(mem, Frame.acc) \o TextAt(mem, focus.text)
    BY <1>2, KontFacts, DstrcatTexts
  <1> HIDE DEF m, frame
  <1>5. GatheredOf(m, frame) = GatheredOf(mem, Frame) \o TextAt(mem, focus.text)
    BY <1>2, <1>3, <1>4 DEF GatheredOf
  <1>6. \A p \in Len(mem.heap) + 1 .. Len(m.heap) : m.heap[p].text \in Seq(WordsIn(script))
    <2>1. m.heap[Len(mem.heap) + 1].text \in Seq(WordsIn(script))
      BY <1>2, <1>4
    <2>2. \A p \in Len(mem.heap) + 1 .. Len(m.heap) : p = Len(mem.heap) + 1
      BY <1>4, SameTexts
    <2> QED
      BY <2>1, <2>2
  <1>7. Plan(frame) = Plan(Frame)
    BY <1>1, <1>3 DEF Plan, PendingOf
  <1>8. frame.kind = Frame.kind /\ Frame.kind \in {"option", "loop"}
        /\ (frame.kind = "loop" /\ frame.first => frame.acc = Null)
    BY <1>1, <1>3
  <1> QED
    BY <1>1, <1>3, <1>4, <1>5, <1>6, <1>7, <1>8, TakesText

\* The items of some nodes are that of the first one and those of the rest.
LEMMA ItemsSplit ==
  ASSUME Parsing, NEW ns \in Seq(NodeNumbers(script)), ns # <<>>
  PROVE  /\ Head(ns) \in NodeNumbers(script) /\ Tail(ns) \in Seq(NodeNumbers(script))
         /\ Items(script, ns) = <<Item(script, Head(ns))>> \o Items(script, Tail(ns))
  <1> DEFINE S == ItemsIn(script)
             whole == Items(script, ns)
             rest == Items(script, Tail(ns))
             first == Item(script, Head(ns))
  <1>1. /\ Head(ns) \in NodeNumbers(script) /\ Tail(ns) \in Seq(NodeNumbers(script))
        /\ Len(ns) \in Nat /\ Len(ns) >= 1 /\ Len(Tail(ns)) = Len(ns) - 1 /\ Head(ns) = ns[1]
        /\ \A i \in 1 .. Len(ns) - 1 : Tail(ns)[i] = ns[i + 1]
    OBVIOUS
  <1>2. whole \in Seq(S) /\ Len(whole) = Len(ns) /\ rest \in Seq(S) /\ Len(rest) = Len(ns) - 1
        /\ first \in S
    BY <1>1, ItemsType, ItemType
  <1>3. /\ \A i \in 1 .. Len(ns) : whole[i] = Item(script, ns[i])
        /\ \A i \in 1 .. Len(ns) - 1 : rest[i] = Item(script, Tail(ns)[i])
    <2>1. DOMAIN ns = 1 .. Len(ns) /\ DOMAIN Tail(ns) = 1 .. Len(ns) - 1
      BY <1>1
    <2> QED
      BY <2>1 DEF Items
  <1> HIDE DEF whole, rest, first
  <1>4. <<first>> \o rest \in Seq(S) /\ Len(<<first>> \o rest) = Len(ns)
    <2>1. <<first>> \in Seq(S) /\ Len(<<first>>) = 1
      BY <1>2
    <2> HIDE DEF S
    <2>2. <<first>> \o rest \in Seq(S) /\ Len(<<first>> \o rest) = 1 + Len(rest)
      BY <1>2, <2>1
    <2>3. 1 + Len(rest) = Len(ns)
      BY <1>1, <1>2
    <2> QED
      BY <2>2, <2>3
  <1>5. ASSUME NEW i \in 1 .. Len(whole) PROVE whole[i] = (<<first>> \o rest)[i]
    <2>1. CASE i = 1
      BY <1>1, <1>2, <1>3, <2>1 DEF first
    <2>2. CASE i # 1
      <3>1. i - 1 \in 1 .. Len(ns) - 1 /\ (i - 1) + 1 = i /\ i \in 1 .. Len(ns)
        BY <1>1, <1>2, <2>2
      <3>2. (<<first>> \o rest)[i] = rest[i - 1]
        BY <1>1, <1>2, <2>2, <3>1
      <3> QED
        BY <1>1, <1>3, <3>1, <3>2
    <2> QED
      BY <2>1, <2>2
  <1>6. whole = <<first>> \o rest
    BY <1>2, <1>4, <1>5, SeqEqual
  <1> QED
    BY <1>1, <1>6 DEF whole, rest, first

\* The next atom of an option comes into focus.
LEMMA NextAtomDerives ==
  ASSUME Parsing, TypeInv', NextAtom PROVE GrammarInv' /\ Derives
  <1> DEFINE frame == [Frame EXCEPT !.todo = Tail(@)]
             next == Atom(Head(Frame.todo), Frame.env)
             had == GatheredOf(mem, Frame)
  <1>1. /\ kont # <<>> /\ Frame.kind = "option" /\ focus.at = "next"
        /\ Frame.todo # <<>> /\ Continue(mem, frame, next)
        /\ Frame \in OptionFrames(script, Len(mem.heap))
    BY GivenTurn, FrameOfKind DEF NextAtom, Parsing
  <1>2. /\ Frame.todo \in Seq(NodeNumbers(script))
        /\ frame.kind = "option" /\ frame.env = Frame.env /\ frame.acc = Frame.acc
        /\ frame.todo = Tail(Frame.todo)
    BY <1>1 DEF OptionFrames
  <1> DEFINE first == Item(script, Head(Frame.todo))
  <1>3. /\ Head(Frame.todo) \in NodeNumbers(script) /\ first \in ItemsIn(script)
        /\ Plan(Frame) = <<first>> \o Plan(frame)
        /\ Plan(frame) \in Seq(ItemsIn(script))
    <2>1. Plan(Frame) = Items(script, Frame.todo) /\ Plan(frame) = Items(script, Tail(Frame.todo))
      BY <1>1, <1>2 DEF Plan, PendingOf
    <2> QED
      BY <1>1, <1>2, <2>1, ItemsSplit, ItemsType, ItemType
  <1>4. had \in Seq(WordsIn(script)) /\ GatheredOf(mem, frame) = had
    BY <1>1, <1>2, TopIs DEF GatheredOf
  <1>5. /\ next.at = "atom" /\ next.env = Frame.env /\ next.node = Head(Frame.todo)
        /\ focus' = next /\ script' = script
    BY <1>1 DEF Atom, Continue, Same
  <1>6. /\ AtHand = <<>> /\ Ready = <<>> /\ AtHand' = <<first>> /\ Ready' = <<>>
    BY <1>1, <1>5, AtHandIs
  <1> HIDE DEF frame, next, first
  <1>7. /\ GrammarInv'
        /\ \E a \in Seq(WordsIn(script)), b \in Seq(ItemsIn(script)) :
             /\ Settled  = (a \o GatheredOf(mem, Frame)) \o Ready
             /\ ToDerive = AtHand \o (Plan(Frame) \o b)
             /\ Settled' = (a \o GatheredOf(mem, frame)) \o Ready'
             /\ ToDerive' = AtHand' \o (Plan(frame) \o b)
    <2>1. /\ next.at \in {"next", "atom"} /\ (next.at = "atom" => next.env = Frame.env)
          /\ Frame.kind \in {"option", "loop"} /\ frame.kind = Frame.kind
          /\ (frame.kind = "loop" /\ frame.first => frame.acc = Null)
      BY <1>1, <1>2, <1>5
    <2>2. GatheredOf(mem, frame) \in Seq(WordsIn(script))
      BY <1>4
    <2>3. \A p \in Len(mem.heap) + 1 .. Len(mem.heap) : mem.heap[p].text \in Seq(WordsIn(script))
      BY SameTexts
    <2> QED
      BY <1>1, <1>2, <1>3, <2>1, <2>2, <2>3, SameTexts, TopContinues, ZenonT(60)
  <1>8. PICK a \in Seq(WordsIn(script)), b \in Seq(ItemsIn(script)) :
             /\ Settled  = (a \o had) \o <<>>
             /\ ToDerive = <<>> \o ((<<first>> \o Plan(frame)) \o b)
             /\ Settled' = (a \o had) \o <<>>
             /\ ToDerive' = <<first>> \o (Plan(frame) \o b)
    BY <1>3, <1>4, <1>6, <1>7
  <1> DEFINE more == Plan(frame)
  <1>9. more \in Seq(ItemsIn(script)) /\ <<first>> \in Seq(ItemsIn(script))
    BY <1>3
  <1> HIDE DEF had, more
  <1>10. <<>> \o ((<<first>> \o more) \o b) = <<first>> \o (more \o b)
    <2>1. (<<first>> \o more) \o b = <<first>> \o (more \o b)
      BY <1>9, ConcatAssociative
    <2>2. (<<first>> \o more) \o b \in Seq(ItemsIn(script))
      BY <1>9
    <2> QED
      BY <2>1, <2>2, ConcatEmptySeq
  <1> QED
    BY <1>7, <1>8, <1>10, Stutters DEF more

\* An option whose atoms are all done.
LEMMA EndOptionDerives ==
  ASSUME Parsing, TypeInv', EndOption PROVE GrammarInv' /\ Derives
  <1> DEFINE had == TextAt(mem, Frame.acc)
  <1>1. /\ kont # <<>> /\ Frame.kind = "option" /\ focus.at = "next"
        /\ Frame.todo = <<>> /\ Leave(mem, Frame.acc) /\ script' = script
    BY GivenTurn DEF EndOption, Parsing, Leave, Same
  <1>2. /\ Plan(Frame) = <<>> /\ had \in Seq(WordsIn(script))
        /\ Gathered(Len(kont)) = had /\ Pending(Len(kont)) = <<>>
    <2>1. Plan(Frame) = <<>>
      BY <1>1 DEF Plan, PendingOf, Items
    <2> QED
      BY <1>1, <2>1, TopIs
  <1>3. /\ GrammarInv'
        /\ \E a \in Seq(WordsIn(script)), b \in Seq(ItemsIn(script)) :
              /\ Settled  = (a \o Gathered(Len(kont))) \o Ready
              /\ ToDerive = AtHand \o (Pending(Len(kont)) \o b)
              /\ Settled' = a \o TextAt(mem, Frame.acc)
              /\ ToDerive' = b
    BY <1>1, SameTexts, TopLeaves
  <1>4. AtHand = <<>> /\ Ready = <<>>
    BY <1>1, AtHandIs
  <1>5. PICK a \in Seq(WordsIn(script)), b \in Seq(ItemsIn(script)) :
              /\ Settled  = (a \o had) \o <<>>
              /\ ToDerive = <<>> \o (<<>> \o b)
              /\ Settled' = a \o had
              /\ ToDerive' = b
    BY <1>2, <1>3, <1>4
  <1> HIDE DEF had
  <1>6. (a \o had) \o <<>> = a \o had /\ <<>> \o (<<>> \o b) = b
    <2>1. a \o had \in Seq(WordsIn(script))
      BY <1>2
    <2> QED
      BY <2>1, ConcatEmptySeq
  <1> QED
    BY <1>3, <1>5, <1>6, Stutters

\* A rule hands on the text of its option, and frees the parameters.
LEMMA EndRuleDerives ==
  ASSUME Parsing, TypeInv', EndRule PROVE GrammarInv' /\ Derives
  <1> DEFINE k == Len(kont)
             m == FreeAll(mem, Frame.cooked)
             p == focus.text
             text == TextAt(mem, p)
  <1>1. /\ kont # <<>> /\ Frame.kind = "rule" /\ focus.at = "return"
        /\ Leave(m, p) /\ script' = script
    BY GivenTurn DEF EndRule, Parsing, Leave, Same
  <1>2. text \in Seq(WordsIn(script)) /\ p \in 0 .. Len(mem.heap)
    BY <1>1, ReturnedText
  <1>3. KeepsTexts(mem, m) /\ Len(m.heap) = Len(mem.heap)
    BY KontFacts, FreeAllTexts
  <1> HIDE DEF m
  <1>4. TextAt(m, p) = text
    BY <1>2, <1>3, KontFacts DEF TextAt, Null, KeepsTexts
  <1>5. Gathered(k) = <<>> /\ Pending(k) = <<>>
    <2>1. Frame = kont[k]
      BY <1>1, KontFacts
    <2> QED
      BY <1>1, <2>1 DEF Gathered, Pending
  <1>6. /\ GrammarInv'
        /\ \E a \in Seq(WordsIn(script)), b \in Seq(ItemsIn(script)) :
              /\ Settled  = (a \o Gathered(Len(kont))) \o Ready
              /\ ToDerive = AtHand \o (Pending(Len(kont)) \o b)
              /\ Settled' = a \o TextAt(m, p)
              /\ ToDerive' = b
    BY <1>1, <1>3, TopLeaves
  <1>7. AtHand = <<>> /\ Ready = text
    BY <1>1, AtHandIs
  <1>8. PICK a \in Seq(WordsIn(script)), b \in Seq(ItemsIn(script)) :
              /\ Settled  = (a \o <<>>) \o text
              /\ ToDerive = <<>> \o (<<>> \o b)
              /\ Settled' = a \o text
              /\ ToDerive' = b
    BY <1>4, <1>5, <1>6, <1>7
  <1> HIDE DEF text
  <1>9. a \o <<>> = a /\ <<>> \o (<<>> \o b) = b
    BY ConcatEmptySeq
  <1> QED
    BY <1>6, <1>8, <1>9, Stutters

\* Two functions wait above the k outermost, and the first of them is a rule.
LEMMA BeforeTwo ==
  ASSUME Parsing, NEW k \in Nat, Len(kont) = k + 2, kont[k + 1].kind = "rule"
  PROVE  /\ Settled = (Flat(Harvest, k) \o Gathered(k + 2)) \o Ready
         /\ ToDerive = AtHand \o (Pending(k + 2) \o Back(Plans, k))
  <1>1. DOMAIN kont = 1 .. Len(kont)
    BY KontFacts
  <1>2. ASSUME NEW i \in 1 .. k + 2
        PROVE  /\ Harvest[i] = Gathered(i) /\ Harvest[i] \in Seq(WordsIn(script))
               /\ Plans[i] = Pending(i) /\ Plans[i] \in Seq(ItemsIn(script))
    BY <1>1, PartsType DEF Harvest, Plans
  <1>3. /\ \A i \in 1 .. k + 1 : i \in 1 .. k + 2
        /\ \A i \in 1 .. k : i \in 1 .. k + 2
        /\ k + 1 \in Nat /\ (k + 1) + 1 = k + 2
        /\ k + 1 \in 1 .. k + 2 /\ k + 2 \in 1 .. k + 2
    OBVIOUS
  <1>4. Gathered(k + 1) = <<>> /\ Pending(k + 1) = <<>>
    <2>1. k + 1 # Len(kont)
      OBVIOUS
    <2> QED
      BY <2>1 DEF Gathered, Pending
  <1>5. Flat(Harvest, k) \in Seq(WordsIn(script)) /\ Back(Plans, k) \in Seq(ItemsIn(script))
    <2> HIDE DEF Harvest, Plans
    <2> QED
      BY <1>2, <1>3, JoinType
  <1>6. /\ Flat(Harvest, k + 1) = Flat(Harvest, k) \o Harvest[k + 1]
        /\ Back(Plans, k + 1) = Plans[k + 1] \o Back(Plans, k)
    <2>1. \A i \in 1 .. k + 1 : Harvest[i] \in Seq(WordsIn(script))
      BY <1>2, <1>3
    <2>2. \A i \in 1 .. k + 1 : Plans[i] \in Seq(ItemsIn(script))
      BY <1>2, <1>3
    <2> HIDE DEF Harvest, Plans
    <2>3. Flat(Harvest, k + 1) = Flat(Harvest, k) \o Harvest[k + 1]
      BY <2>1, JoinMore
    <2>4. Back(Plans, k + 1) = Plans[k + 1] \o Back(Plans, k)
      BY <2>2, JoinMore
    <2> QED
      BY <2>3, <2>4
  <1>7. Flat(Harvest, k + 1) = Flat(Harvest, k) /\ Back(Plans, k + 1) = Back(Plans, k)
    <2>1. Harvest[k + 1] = <<>> /\ Plans[k + 1] = <<>>
      BY <1>2, <1>3, <1>4
    <2> QED
      BY <1>5, <1>6, <2>1, ConcatEmptySeq
  <1>8. /\ Flat(Harvest, k + 2) = Flat(Harvest, k) \o Gathered(k + 2)
        /\ Back(Plans, k + 2) = Pending(k + 2) \o Back(Plans, k)
    <2> DEFINE n == k + 1
    <2>1. n \in Nat /\ n + 1 = k + 2
      OBVIOUS
    <2>2. \A i \in 1 .. n + 1 : Harvest[i] \in Seq(WordsIn(script))
      BY <1>2, <2>1
    <2>3. \A i \in 1 .. n + 1 : Plans[i] \in Seq(ItemsIn(script))
      BY <1>2, <2>1
    <2>4. Harvest[k + 2] = Gathered(k + 2) /\ Plans[k + 2] = Pending(k + 2)
      BY <1>2, <1>3
    <2>5. Flat(Harvest, n) = Flat(Harvest, k) /\ Back(Plans, n) = Back(Plans, k)
      BY <1>7
    <2> HIDE DEF n, Harvest, Plans
    <2>6. Flat(Harvest, n + 1) = Flat(Harvest, n) \o Harvest[n + 1]
      BY <2>1, <2>2, JoinMore
    <2>7. Back(Plans, n + 1) = Plans[n + 1] \o Back(Plans, n)
      BY <2>1, <2>3, JoinMore
    <2> QED
      BY <2>1, <2>4, <2>5, <2>6, <2>7
  <1> QED
    BY <1>8, SettledIs

\* The parameters of a rule of a grammar are none, and are all there at once.
LEMMA EndArgsDerives ==
  ASSUME Parsing, TypeInv', EndArgs PROVE GrammarInv' /\ Derives
  <1> DEFINE k == Len(kont) - 2
             rule == kont[Len(kont) - 1]
             item == RuleItem(script, rule.name)
             a == Flat(Harvest, k)
             b == Back(Plans, k)
  <1>1. /\ kont # <<>> /\ Frame.kind = "args" /\ focus.at = "next"
        /\ mem' = mem /\ script' = script /\ kont' = Below /\ focus'.at = "cooked"
    BY GivenTurn DEF EndArgs, Parsing, Same, Cooked
  <1>2. /\ Len(kont) >= 2 /\ Len(kont) \in Nat /\ Frame = kont[Len(kont)]
        /\ Len(kont) \in 1 .. Len(kont)
        /\ Len(kont) - 1 \in 1 .. Len(kont) /\ rule.kind \in {"rule", "nested"}
    BY <1>1, KontFacts, GivenFrame DEF ChainAt
  <1>3. /\ k \in Nat /\ Len(kont) = k + 2 /\ rule = kont[k + 1] /\ k + 1 \in 1 .. Len(kont)
        /\ (k + 2) - 1 = k + 1 /\ Len(kont) - 1 = k + 1
    BY <1>2
  <1>4. rule.kind = "rule" /\ rule.name \in DOMAIN script.rules
    <2>1. rule.kind = "rule"
      BY <1>2, GivenFrame DEF GrammarFrame
    <2> QED
      BY <1>2, <2>1, GivenFrame DEF RuleFrames
  <1>5. item \in ItemsIn(script)
    BY <1>4 DEF ItemsIn
  <1>6. /\ Len(kont') = k + 1 /\ DOMAIN kont' = 1 .. Len(kont')
        /\ \A i \in 1 .. k + 1 : kont'[i] = kont[i]
    <2>1. Below \in Seq(Frames(script, Len(mem.heap))) /\ Len(Below) = Len(kont) - 1
          /\ \A i \in 1 .. Len(kont) - 1 : Below[i] = kont[i]
      BY <1>1, Given, TopAndBelow DEF Parsing
    <2>2. DOMAIN Below = 1 .. Len(Below)
      BY <2>1
    <2> QED
      BY <1>1, <1>3, <2>1, <2>2
  <1>7. kont'[k + 1] = rule
    BY <1>3, <1>6
  <1>8. Leaves(k)
    <2>1. k \in 0 .. Len(kont) /\ k <= Len(kont') /\ k < Len(kont') /\ Len(kont') \in Nat
          /\ \A i \in 1 .. k : kont'[i] = kont[i]
      <3> HIDE DEF k
      <3> QED
        BY <1>3, <1>6
    <2> QED
      BY <1>1, <1>6, <2>1, SameTexts DEF Leaves
  <1> HIDE DEF k, rule
  <1>9. GrammarInv'
    <2>1. ASSUME NEW i \in k + 1 .. Len(kont') PROVE GrammarFrame(i)'
      <3>1. i = k + 1
        BY <1>3, <1>6
      <3> QED
        BY <1>4, <1>7, <3>1 DEF GrammarFrame
    <2>2. kont' # <<>> /\ kont'[Len(kont')].kind = "rule"
      BY <1>3, <1>4, <1>6, <1>7
    <2>3. k # Len(kont)
      BY <1>3
    <2> QED
      BY <1>1, <1>8, <2>1, <2>2, <2>3, HeapKept, KeepGrammar
  <1>10. a \in Seq(WordsIn(script)) /\ b \in Seq(ItemsIn(script))
    BY <1>8, PartsStay
  <1>11. Settled = (a \o <<>>) \o Ready /\ ToDerive = AtHand \o (<<item>> \o b)
    <2>1. Gathered(k + 2) = <<>>
      BY <1>1, <1>2, <1>3 DEF Gathered
    <2>2. Pending(k + 2) = PendingOf(script, kont[k + 2], kont[(k + 2) - 1],
                                     focus.at = "cooked" /\ k + 2 = Len(kont))
      BY PartsOf
    <2>3. Pending(k + 2) = <<item>>
      BY <1>1, <1>2, <1>3, <2>2 DEF PendingOf
    <2>4. kont[k + 1].kind = "rule"
      BY <1>3, <1>4
    <2> HIDE DEF item
    <2> QED
      BY <1>3, <2>1, <2>3, <2>4, BeforeTwo
  <1>12. Settled' = (a \o <<>>) \o Ready' /\ ToDerive' = AtHand' \o (<<item>> \o b)
    <2>1. <<>> \in Seq(WordsIn(script)) /\ <<item>> \in Seq(ItemsIn(script))
      BY <1>5
    <2>2. GatheredOf(mem', kont'[k + 1]) = <<>>
      BY <1>4, <1>7 DEF GatheredOf
    <2>3. PendingOf(script, kont'[k + 1], kont'[k], focus'.at = "cooked") = <<item>>
      BY <1>1, <1>4, <1>7 DEF PendingOf
    <2> HIDE DEF item
    <2> QED
      BY <1>6, <1>8, <2>1, <2>2, <2>3, AfterOne
  <1>13. AtHand = <<>> /\ Ready = <<>> /\ AtHand' = <<>> /\ Ready' = <<>>
    BY <1>1, AtHandIs
  <1> QED
    BY <1>9, <1>11, <1>12, <1>13, Stutters

\* Two frames on top of others.
LEMMA TwoOnTop ==
  ASSUME NEW S, NEW s \in Seq(S), NEW x, NEW y
  PROVE  LET t == s \o <<x, y>>
         IN  /\ Len(t) = Len(s) + 2 /\ DOMAIN t = 1 .. Len(t)
             /\ t[Len(s) + 1] = x /\ t[Len(s) + 2] = y
             /\ \A i \in 1 .. Len(s) : t[i] = s[i]
  OBVIOUS

\* An option of a rule is selected.
LEMMA SelectOptionDerives ==
  ASSUME Parsing, TypeInv', SelectOption PROVE GrammarInv' /\ Derives
  <1> DEFINE k == Len(kont) - 1
             name == Frame.name
             item == RuleItem(script, name)
             rule == [Frame EXCEPT !.cooked = focus.texts]
             env == [formal |-> Formals(name), cooked |-> focus.texts]
             a == Flat(Harvest, k)
             b == Back(Plans, k)
  <1>1. /\ kont # <<>> /\ Frame.kind = "rule" /\ focus.at = "cooked"
        /\ mem' = mem /\ script' = script /\ focus'.at = "next"
        /\ Frame \in RuleFrames(script, Len(mem.heap))
    BY GivenTurn, FrameOfKind DEF SelectOption, Parsing, Same, GoOn
  <1>2. /\ k \in Nat /\ Len(kont) = k + 1 /\ Frame = kont[k + 1]
    BY <1>1, KontFacts
  <1>3. /\ name \in DOMAIN script.rules /\ env.formal = <<>>
        /\ rule.kind = "rule"
        /\ script.rules[name].options \in Seq(Seq(NodeNumbers(script)))
    <2>1. name \in DOMAIN script.rules /\ rule.kind = "rule"
      BY <1>1 DEF RuleFrames
    <2> QED
      BY <2>1, Given DEF Formals, IsRule, Parsing, IsGrammar, IsScript
  <1>4. PICK c \in DOMAIN script.rules[name].options :
          kont' = Below \o <<rule, OptionFrame(script.rules[name].options[c], env)>>
    BY DEF SelectOption
  <1> DEFINE option == script.rules[name].options[c]
             frame == OptionFrame(option, env)
  <1>5. option \in Seq(NodeNumbers(script)) /\ option \in ToSet(script.rules[name].options)
    <2>1. c \in 1 .. Len(script.rules[name].options)
      BY <1>3, <1>4
    <2> QED
      BY <1>3, <2>1 DEF ToSet
  <1> HIDE DEF option, rule, env
  <1>6. /\ frame.kind = "option" /\ frame.acc = Null /\ frame.env = env
        /\ Plan(frame) = Items(script, option) /\ Plan(frame) \in Seq(ItemsIn(script))
    BY <1>5, ItemsType DEF OptionFrame, Plan, PendingOf
  <1>7. kont' = Below \o <<rule, frame>>
    BY <1>4 DEF option
  <1> HIDE DEF frame
  <1>8. /\ Len(kont') = k + 2 /\ DOMAIN kont' = 1 .. Len(kont')
        /\ kont'[k + 1] = rule /\ kont'[k + 2] = frame
        /\ \A i \in 1 .. k : kont'[i] = kont[i]
    <2>1. Below \in Seq(Frames(script, Len(mem.heap))) /\ Len(Below) = k
          /\ \A i \in 1 .. k : Below[i] = kont[i]
      BY <1>1, Given, TopAndBelow DEF Parsing
    <2> HIDE DEF Below, k
    <2>2. /\ Len(kont') = Len(Below) + 2 /\ DOMAIN kont' = 1 .. Len(kont')
          /\ kont'[Len(Below) + 1] = rule /\ kont'[Len(Below) + 2] = frame
          /\ \A i \in 1 .. Len(Below) : kont'[i] = Below[i]
      BY <1>7, <2>1, TwoOnTop
    <2> QED
      BY <2>1, <2>2
  <1>9. Leaves(k)
    <2>1. k \in 0 .. Len(kont) /\ k <= Len(kont') /\ k < Len(kont) /\ Len(kont') \in Nat
      <3> HIDE DEF k
      <3> QED
        BY <1>2, <1>8
    <2> QED
      BY <1>1, <1>8, <2>1, SameTexts DEF Leaves
  <1> HIDE DEF k
  <1>10. GrammarInv'
    <2>1. ASSUME NEW i \in k + 1 .. Len(kont') PROVE GrammarFrame(i)'
      <3>1. i = k + 1 \/ i = k + 2
        BY <1>2, <1>8
      <3> QED
        BY <1>3, <1>6, <1>8, <3>1 DEF GrammarFrame
    <2>2. k # Len(kont)
      BY <1>2
    <2> QED
      BY <1>1, <1>9, <2>1, <2>2, HeapKept, KeepGrammar
  <1>11. a \in Seq(WordsIn(script)) /\ b \in Seq(ItemsIn(script))
    BY <1>9, PartsStay
  <1>12. Settled = (a \o <<>>) \o Ready /\ ToDerive = AtHand \o (<<item>> \o b)
    <2>1. Gathered(k + 1) = <<>>
      BY <1>1, <1>2 DEF Gathered
    <2>2. Pending(k + 1) = <<item>>
      BY <1>1, <1>2 DEF Pending
    <2> HIDE DEF item
    <2> QED
      BY <1>2, <1>9, <2>1, <2>2, Before
  <1>13. Settled' = (a \o <<>>) \o Ready' /\ ToDerive' = AtHand' \o (Plan(frame) \o b)
    <2>1. GatheredOf(mem', frame) = <<>> /\ <<>> \in Seq(WordsIn(script))
      BY <1>6 DEF GatheredOf, TextAt
    <2>2. PendingOf(script, kont'[k + 2], kont'[k + 1], focus'.at = "cooked") = Plan(frame)
      BY <1>6, <1>8, PlanIs
    <2>3. GatheredOf(mem', kont'[k + 2]) = <<>> /\ kont'[k + 1].kind = "rule"
      BY <1>3, <1>8, <2>1
    <2> QED
      BY <1>6, <1>8, <1>9, <2>1, <2>2, <2>3, AfterTwo
  <1>14. AtHand = <<>> /\ Ready = <<>> /\ AtHand' = <<>> /\ Ready' = <<>>
    BY <1>1, AtHandIs
  <1>15. /\ ~IsLiteral(item) /\ Plan(frame) \in Grammar(item) /\ item \in ItemsIn(script)
    <2>1. item \in ItemsIn(script)
      BY <1>3 DEF ItemsIn
    <2>2. item.is = "rule" /\ item.name = name /\ item.of = script
      BY DEF RuleItem
    <2> HIDE DEF item
    <2> QED
      BY <1>3, <1>5, <1>6, <2>1, <2>2 DEF IsLiteral, Grammar
  <1> HIDE DEF a, b, item
  <1>16. /\ <<>> \o (<<item>> \o b) = <<item>> \o b
         /\ <<>> \o (Plan(frame) \o b) = Plan(frame) \o b
    <2>1. <<item>> \o b \in Seq(ItemsIn(script)) /\ Plan(frame) \o b \in Seq(ItemsIn(script))
      BY <1>6, <1>11, <1>15
    <2> QED
      BY <2>1, ConcatEmptySeq
  <1>17. Derives
    <2>1. ToDerive = <<item>> \o b /\ ToDerive' = Plan(frame) \o b /\ Settled' = Settled
      BY <1>12, <1>13, <1>14, <1>16
    <2> QED
      BY <1>11, <1>15, <2>1, Expands
  <1> QED
    BY <1>10, <1>17

\* The text of the initial rule is printed.
LEMMA OutputDerives ==
  ASSUME Parsing, TypeInv', Output PROVE GrammarInv' /\ Derives
  <1>1. /\ focus.at = "return" /\ kont = <<>> /\ kont' = kont /\ script' = script
        /\ mem' = Read(mem, focus.text) /\ focus'.at = "done" /\ focus'.text = focus.text
    BY DEF Output, Same
  <1>2. mem'.heap = mem.heap
    BY <1>1, KontFacts, ReadMemory
  <1>3. Len(kont) = 0 /\ Len(kont') = 0 /\ DOMAIN kont' = 1 .. Len(kont')
    BY <1>1
  <1>4. Leaves(0)
    BY <1>1, <1>2, <1>3, HeapKept DEF Leaves
  <1>5. GrammarInv'
    <2>1. \A i \in 0 + 1 .. Len(kont') : GrammarFrame(i)'
      BY <1>3
    <2> QED
      BY <1>1, <1>2, <1>4, <2>1, HeapKept, KeepGrammar
  <1>6. Ready' = Ready /\ AtHand' = AtHand
    BY <1>1, <1>2 DEF Ready, AtHand, TextAt
  <1>7. Settled' = Settled /\ ToDerive' = ToDerive
    BY <1>3, <1>4, <1>6, Before, AfterNone
  <1> QED
    BY <1>5, <1>7, Stutters
-----------------------------------------------------------------------------
\* The other atoms and functions do not occur in a grammar.
LEMMA NoOtherAtom ==
  ASSUME Parsing, NEW type, IsAtom(type)
  PROVE  type \in {"literal", "symbol", "choice", "star", "plus", "repeat_const"}
  <1>1. focus.node \in NodeNumbers(script) /\ Node = script.nodes[focus.node] /\ Node.type = type
    BY GivenAtom DEF IsAtom, Parsing
  <1> QED
    BY <1>1, GrammarNode

\* No other function waits, and one that resolves parameters never for a result.
LEMMA NoOtherTurn ==
  ASSUME Parsing, NEW at, NEW kind, Turn(at, kind)
  PROVE  kind \in {"option", "loop", "args", "rule"} /\ (kind = "args" => at = "next")
  <1>1. kont # <<>> /\ Frame.kind = kind /\ focus.at = at
    BY DEF Turn
  <1> QED
    BY <1>1, KontFacts DEF GrammarFrame

\* No symbol names a parameter.
LEMMA NoParameter == ASSUME Parsing PROVE ~Parameter
  <1>1. ASSUME Parameter PROVE FALSE
    <2>1. focus.at = "atom" /\ Position(focus.env.formal, Node.data) # 0
      BY <1>1 DEF Parameter, IsAtom
    <2>2. focus.env.formal = <<>>
      BY <2>1 DEF Parsing, GrammarInv
    <2>3. Position(<<>>, Node.data) = 0
      BY DEF Position
    <2> QED
      BY <2>1, <2>2, <2>3
  <1> QED
    BY <1>1

\* The rules of a grammar have no parameters that would have to be resolved.
LEMMA NoArg == ASSUME Parsing PROVE ~CascadeArg /\ ~NestedArg /\ ~ResolveArg /\ ~TakeArg
  <1>1. ASSUME Turn("next", "args"), Frame.left > 0 PROVE FALSE
    <2>1. kont # <<>> /\ Frame.kind = "args" /\ Frame \in ArgsFrames(script, Len(mem.heap))
      BY <1>1, GivenTurn, FrameOfKind DEF Parsing
    <2>2. Frame.params = <<>>
      BY <2>1, KontFacts DEF GrammarFrame
    <2>3. Frame.left \in Nat /\ Frame.left <= Len(Frame.params)
      BY <2>1 DEF ArgsFrames
    <2>4. Len(Frame.params) = 0
      BY <2>2
    <2> QED
      BY <1>1, <2>3, <2>4
  <1>2. ~Turn("cooked", "nested") /\ ~Turn("return", "args")
    BY NoOtherTurn
  <1> QED
    BY <1>1, <1>2 DEF CascadeArg, NestedArg, ResolveArg, TakeArg

\* No mapping, dereference, variable or silenced atom is resolved.
LEMMA NoOtherFunction ==
  ASSUME Parsing
  PROVE  /\ \A type \in Wrapping : ~Enter(type)
         /\ ~Map /\ ~Dereference /\ ~Define /\ ~CondDef /\ ~VarRef /\ ~Silence /\ ~RepeatVar
  <1>1. \A type \in Wrapping : ~IsAtom(type)
    BY NoOtherAtom DEF Wrapping
  <1>2. ~IsAtom("var_conddef") /\ ~IsAtom("var_ref") /\ ~IsAtom("repeat_var")
    BY NoOtherAtom
  <1>3. /\ ~Turn("return", "mapping") /\ ~Turn("return", "deref") /\ ~Turn("return", "var_def")
        /\ ~Turn("return", "var_conddef") /\ ~Turn("return", "silence")
    BY NoOtherTurn
  <1>4. \A type \in Wrapping : ~Enter(type)
    BY <1>1 DEF Enter
  <1> QED
    BY <1>2, <1>3, <1>4 DEF Map, Dereference, Define, CondDef, VarRef, Silence, RepeatVar

\* No block of code runs.
LEMMA NoCode == ASSUME Parsing PROVE ~RunCode
  <1>1. ~IsAtom("code") /\ ~Turn("next", "code") /\ ~Turn("return", "code")
    BY NoOtherAtom, NoOtherTurn
  <1> QED
    BY <1>1 DEF RunCode, Code, Exec, Invoke, Invoked, EmitResult, EndCode, Due

\* A step of a script that is a grammar.
LEMMA StepDerives ==
  ASSUME Parsing, TypeInv', [Next]_vars PROVE GrammarInv' /\ Derives
  <1>1. CASE UNCHANGED vars
    <2>1. /\ script' = script /\ mem' = mem /\ focus' = focus /\ kont' = kont
      BY <1>1 DEF vars
    <2>2. GrammarInv'
      BY <2>1 DEF Parsing, GrammarInv, GrammarFrame, Frame
    <2>3. Settled' = Settled /\ ToDerive' = ToDerive
      BY <2>1 DEF Settled, ToDerive, IsGrammar, Gathered, Pending
    <2> QED
      BY <2>2, <2>3, Stutters
  <1>2. CASE ResolveAtom
    BY <1>2, NoParameter, NoOtherFunction, LiteralDerives, SymbolDerives, StarDerives, PlusDerives,
       RoundDerives, EndLoopDerives, AccumulateDerives, ChoiceDerives DEF ResolveAtom
  <1>3. CASE ResolveRule
    BY <1>3, NoArg, NextAtomDerives, AddTextDerives, EndOptionDerives, EndArgsDerives,
       SelectOptionDerives, EndRuleDerives DEF ResolveRule
  <1>4. CASE RunCode
    BY <1>4, NoCode
  <1>5. CASE Output
    BY <1>5, OutputDerives
  <1>6. CASE Finished
    BY <1>1, <1>6 DEF Finished
  <1> QED
    BY <1>1, <1>2, <1>3, <1>4, <1>5, <1>6 DEF Next

\* The script does not change.
LEMMA ScriptStays == ASSUME [Next]_vars PROVE script' = script
  <1> USE DEF Same, Answer, Leave, Continue, Call, InvokeOn
  <1>1. CASE UNCHANGED vars
    BY <1>1 DEF vars
  <1>2. CASE ResolveAtom
    BY <1>2 DEF ResolveAtom, Literal, Parameter, Symbol, Enter, Map, Dereference, Define, CondDef,
       VarRef, Silence, Star, Plus, RepeatConst, RepeatVar, Round, EndLoop, Accumulate, Choice
  <1>3. CASE ResolveRule
    BY <1>3 DEF ResolveRule, NextAtom, AddText, EndOption, CascadeArg, NestedArg, ResolveArg,
       TakeArg, EndArgs, SelectOption, EndRule
  <1>4. CASE RunCode
    BY <1>4 DEF RunCode, Code, Exec, Invoke, Invoked, EmitResult, EndCode
  <1>5. CASE Output
    BY <1>5 DEF Output
  <1>6. CASE Finished
    BY <1>1, <1>6 DEF Finished
  <1> QED
    BY <1>1, <1>2, <1>3, <1>4, <1>5, <1>6 DEF Next

\* At first the initial rule is to be derived.
LEMMA InitDerives ==
  ASSUME Init PROVE (IsGrammar => GrammarInv) /\ Promise!Init
  <1> DEFINE item == RuleItem(script, script.start)
             args == ArgsFrame(<<>>, NoEnv)
  <1>1. TypeInv
    BY InitType
  <1>2. /\ script \in Scripts /\ mem = NewMemory /\ focus = GoOn
        /\ kont = <<RuleFrame(script.start), args>>
    BY DEF Init, RuleFrame
  <1>3. item \in Start
    BY <1>2 DEF Start
  <1>4. CASE ~IsGrammar
    BY <1>3, <1>4 DEF Settled, ToDerive, Promise!Init
  <1>5. CASE IsGrammar
    <2>1. /\ args.kind = "args" /\ args.params = <<>>
          /\ RuleFrame(script.start).kind = "rule" /\ RuleFrame(script.start).name = script.start
          /\ focus.at = "next"
      BY <1>2 DEF ArgsFrame, RuleFrame, GoOn
    <2> HIDE DEF args
    <2>2. Len(kont) = 2 /\ kont[1] = RuleFrame(script.start) /\ kont[2] = args
      BY <1>2
    <2>3. GrammarInv
      <3>1. ASSUME NEW i \in 1 .. Len(kont) PROVE GrammarFrame(i)
        <4>1. i = 1 \/ i = 2
          BY <2>2
        <4> QED
          BY <2>1, <2>2, <4>1 DEF GrammarFrame
      <3>2. ASSUME NEW p \in 1 .. Len(mem.heap) PROVE mem.heap[p].text \in Seq(WordsIn(script))
        <4>1. mem.heap[p].text = <<"undefined">>
          BY <1>2 DEF NewMemory
        <4>2. "undefined" \in WordsIn(script)
          BY DEF WordsIn
        <4> QED
          BY <4>1, <4>2
      <3> QED
        BY <2>1, <3>1, <3>2 DEF GrammarInv
    <2>4. Parsing
      BY <1>1, <1>5, <2>3 DEF Parsing
    <2>5. Settled = (<<>> \o <<>>) \o <<>> /\ ToDerive = <<>> \o (<<item>> \o <<>>)
      <3> DEFINE k == 0
      <3>1. k \in Nat /\ Len(kont) = k + 2 /\ kont[k + 1].kind = "rule" /\ k + 2 = 2
        BY <2>1, <2>2
      <3>2. Flat(Harvest, k) = <<>> /\ Back(Plans, k) = <<>>
        BY JoinNone
      <3>3. Gathered(2) = <<>>
        BY <2>1, <2>2 DEF Gathered
      <3>4. Pending(2) = <<item>>
        BY <2>1, <2>2 DEF Pending
      <3>5. AtHand = <<>> /\ Ready = <<>>
        BY <2>1 DEF AtHand, Ready
      <3> HIDE DEF k, item
      <3>6. /\ Settled = (Flat(Harvest, k) \o Gathered(k + 2)) \o Ready
            /\ ToDerive = AtHand \o (Pending(k + 2) \o Back(Plans, k))
        BY <2>4, <3>1, BeforeTwo
      <3> QED
        BY <3>1, <3>2, <3>3, <3>4, <3>5, <3>6
    <2>6. Settled = <<>> /\ ToDerive = <<item>>
      <3> HIDE DEF item
      <3>1. <<item>> \in Seq({item}) /\ <<>> \in Seq({item})
        OBVIOUS
      <3>2. <<>> \o <<>> = <<>> /\ <<item>> \o <<>> = <<item>> /\ <<>> \o <<item>> = <<item>>
        BY <3>1, ConcatEmptySeq
      <3> QED
        BY <2>5, <3>2
    <2> QED
      BY <1>3, <2>3, <2>6 DEF Promise!Init
  <1> QED
    BY <1>4, <1>5

\* Every step of the resolver is a step of a leftmost derivation of the script's
\* grammar, or none, whatever the grammar: what is printed is one of its sentences.
THEOREM ResolverDerives == Spec => ImplementsDerivation
  <1> DEFINE Inv == TypeInv /\ (IsGrammar => GrammarInv)
  <1>1. Init => Inv /\ Promise!Init
    BY InitType, InitDerives
  <1>2. Inv /\ [Next]_vars => Inv' /\ [Promise!Next]_<<Settled, ToDerive>>
    <2> SUFFICES ASSUME Inv, [Next]_vars
                 PROVE  Inv' /\ [Promise!Next]_<<Settled, ToDerive>>
      OBVIOUS
    <2>1. TypeInv'
      BY NextType
    <2>2. script' = script
      BY ScriptStays
    <2>3. IsGrammar' <=> IsGrammar
      BY <2>2 DEF IsGrammar
    <2>4. CASE IsGrammar
      <3>1. Parsing
        BY <2>4 DEF Parsing
      <3> QED
        BY <2>1, <3>1, StepDerives DEF Derives
    <2>5. CASE ~IsGrammar
      BY <2>1, <2>2, <2>3, <2>5 DEF Settled, ToDerive
    <2> QED
      BY <2>4, <2>5
  <1> HIDE DEF Inv
  <1>3. Spec => Promise!Spec
    BY <1>1, <1>2, PTL DEF Spec, Promise!Spec
  <1> QED
    BY <1>3, PTL DEF ImplementsDerivation
=============================================================================
