------------------------------- MODULE Memory -------------------------------
(***************************************************************************)
(* What resolve.c and machine.c keep in the C heap: texts, the table of    *)
(* variables (variables.c) and the operand stack of the embedded machine.  *)
(*                                                                         *)
(* A text is a sequence of words.  A pointer is the index of a cell of the *)
(* heap, which is never used for another text once freed; Null is no cell. *)
(* Every operation maps a memory to a memory and records in `fault' the    *)
(* first thing it did that C leaves undefined, or the program's exit(1).   *)
(***************************************************************************)
EXTENDS Integers, Sequences, SequencesExt, TLC

Null == 0

\* The string constant that var_def stores for an absent text.
Undefined == 1

\* A constant's storage is never freed; all other cells are malloc()ed.
NewMemory == [heap  |-> <<[text |-> <<"undefined">>, state |-> "constant"]>>,
              vars  |-> <<>>,
              stack |-> <<>>,
              fault |-> "none"]

\* The text of a string constant, which is one word or none.
Text(word) == IF word = "" THEN <<>> ELSE <<word>>

IntCell(i) == [type |-> "int_t", v |-> i]
StrCell(p) == [type |-> "string_t", v |-> p]

Pointers(m) == 1 .. Len(m.heap)

Fail(m, what) == IF m.fault = "none" THEN [m EXCEPT !.fault = what] ELSE m

\* The bytes at p are read: p must not be Null, nor freed.
Read(m, p) ==
  IF p = Null THEN Fail(m, "null")
  ELSE IF m.heap[p].state = "freed" THEN Fail(m, "stale") ELSE m

\* What is read at p; nothing is read at Null.
TextAt(m, p) == IF p = Null THEN <<>> ELSE m.heap[p].text

\* malloc(): the new cell is the last one.
Alloc(m, text) == [m EXCEPT !.heap = Append(@, [text |-> text, state |-> "live"])]
Newest(m)      == Len(m.heap)

\* free(): of nothing it is harmless, of a constant or for a second time it is not.
Free(m, p) ==
  IF p = Null THEN m
  ELSE IF m.heap[p].state = "live" THEN [m EXCEPT !.heap[p].state = "freed"]
  ELSE Fail(m, IF m.heap[p].state = "freed" THEN "stale" ELSE "bad free")

\* Whether the i-th of these pointers can be passed to free() after those
\* before it were.
Freeable(m, ps, i) ==
  \/ ps[i] = Null
  \/ m.heap[ps[i]].state = "live" /\ \A j \in 1 .. i - 1 : ps[j] # ps[i]

\* free() of one after another.
FreeAll(m, ps) ==
  LET freed == [m EXCEPT !.heap = [p \in DOMAIN @ |->
                  IF p \in ToSet(ps) /\ @[p].state = "live"
                  THEN [@[p] EXCEPT !.state = "freed"] ELSE @[p]]]
  IN  IF \A i \in DOMAIN ps : Freeable(m, ps, i) THEN freed
      ELSE Fail(freed, IF \A i \in DOMAIN ps : Freeable(m, ps, i) \/ m.heap[ps[i]].state = "constant"
                       THEN "bad free" ELSE "stale")

Strdup(m, p) == Alloc(Read(m, p), TextAt(m, p))

\* dstrcat(): the two strings joined in a new one, the originals freed.
Dstrcat(m, a, b) ==
  LET readA == IF a = Null THEN m ELSE Read(m, a)
      readB == IF b = Null THEN readA ELSE Read(readA, b)
  IN  Free(Free(Alloc(readB, TextAt(m, a) \o TextAt(m, b)), a), b)
-----------------------------------------------------------------------------
\* variables.c.  The tree of variables is a function from the names it holds.
VarPut(m, name, cell) ==
  [m EXCEPT !.vars = [n \in DOMAIN @ \cup {name} |-> IF n = name THEN cell ELSE @[n]]]

Holds(m, name, type) == name \in DOMAIN m.vars /\ m.vars[name].type = type

Numeral(i) == <<ToString(i)>>

\* var_fetch(): a text variable yields the very text it holds, an integer a
\* new text; an unknown variable, like one that holds no text, yields Null.
VarFetch(m, name) ==
  IF Holds(m, name, "int_t") THEN Alloc(m, Numeral(m.vars[name].v)) ELSE m

VarFetched(m, name) ==
  IF Holds(m, name, "int_t")         THEN Newest(VarFetch(m, name))
  ELSE IF Holds(m, name, "string_t") THEN m.vars[name].v
  ELSE Null
=============================================================================
