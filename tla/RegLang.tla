------------------------------ MODULE RegLang ------------------------------
(***************************************************************************)
(* What a regular expression means, for the library to be compared with.   *)
(* An expression is a sequence of branches, a branch a sequence of pieces, *)
(* a piece an atom with the bounds of its repetition: <<lo, hi>>.  Render  *)
(* writes it as a pattern; Ends gives the places a match that begins at i  *)
(* can end at, with what the groups then stand for.  There is no automaton *)
(* and no search here, only the sets of all matches.                       *)
(***************************************************************************)
EXTENDS RegComp

Chr(c)  == [k |-> "chr", c |-> c]
AnyAtom == [k |-> "any"]
\* A bracket with the text t, for the characters C, or all others.
Set(t, C, others) == [k |-> "set", text |-> t, C |-> C, others |-> others]
Grp(e)  == [k |-> "grp", e |-> e]
Back(i) == [k |-> "back", i |-> i]
Mark(t) == [k |-> t]                              \* "bol" "eol" "bow" "eow"
Piece(a, lo, hi) == [a |-> a, lo |-> lo, hi |-> hi]
Once(a) == Piece(a, 1, 1)

Digit == <<"1", "2", "3", "4", "5", "6", "7", "8", "9">>
Num(n) == IF n = 0 THEN "0" ELSE Digit[n]

----------------------------------------------------------------------------
(* An expression as a pattern, basic or extended.                          *)

Braces(p, ext) ==
    LET in == <<Num(p.lo)>> \o (IF p.hi = p.lo THEN <<>> ELSE <<",">>)
              \o (IF p.hi \in {p.lo, INFINITY} THEN <<>> ELSE <<Num(p.hi)>>)
    IN  IF ext THEN <<"{">> \o in \o <<"}">> ELSE <<"\\", "{">> \o in \o <<"\\", "}">>

Repetition(p, ext) ==
    CASE p.lo = 1 /\ p.hi = 1 -> <<>>
      [] p.lo = 0 /\ p.hi = INFINITY -> <<"*">>
      [] ext /\ p.lo = 1 /\ p.hi = INFINITY -> <<"+">>
      [] ext /\ p.lo = 0 /\ p.hi = 1 -> <<"?">>
      [] OTHER -> Braces(p, ext)

RECURSIVE Render(_, _)
RenderAtom(a, ext) ==
    CASE a.k = "chr" -> <<a.c>>
      [] a.k = "any" -> <<".">>
      [] a.k = "set" -> <<"[">> \o a.text \o <<"]">>
      [] a.k = "grp" -> IF ext THEN <<"(">> \o Render(a.e, ext) \o <<")">>
                        ELSE <<"\\", "(">> \o Render(a.e, ext) \o <<"\\", ")">>
      [] a.k = "back" -> <<"\\", Num(a.i)>>
      [] a.k = "bol" -> <<"^">>
      [] a.k = "eol" -> <<"$">>
      [] a.k = "bow" -> <<"[", "[", ":", "<", ":", "]", "]">>
      [] a.k = "eow" -> <<"[", "[", ":", ">", ":", "]", "]">>
Render(e, ext) ==
    LET Branch(b) == FlattenSeq([i \in DOMAIN b |->
                        RenderAtom(b[i].a, ext) \o Repetition(b[i], ext)])
    IN  FlattenSeq([i \in DOMAIN e |-> (IF i = 1 THEN <<>> ELSE <<"|">>) \o Branch(e[i])])

----------------------------------------------------------------------------
(* The matches.  x is the text with the flags; a configuration <<i, caps>> *)
(* is a place of the text and what the groups matched.                     *)

RECURSIVE Groups(_)   \* the number of groups of an expression
GroupsOf(b) == FoldSeq(LAMBDA p, n : n + (IF p.a.k = "grp" THEN 1 + Groups(p.a.e) ELSE 0), 0, b)
Groups(e) == FoldSeq(LAMBDA b, n : n + GroupsOf(b), 0, e)

Same(x, c, d) == c = d \/ ("ICASE" \in x.cflags /\ IsAlpha(c) /\ OtherCase(c) = d)
AtBol(x, i) == \/ i = 0 /\ "NOTBOL" \notin x.eflags
               \/ i > 0 /\ x.text[i] = "\n" /\ "NEWLINE" \in x.cflags
AtEol(x, i) == \/ i = Len(x.text) /\ "NOTEOL" \notin x.eflags
               \/ i < Len(x.text) /\ x.text[i + 1] = "\n" /\ "NEWLINE" \in x.cflags
WordAt(x, i) == i \in DOMAIN x.text /\ ISWORD(x.text[i])

RECURSIVE Ends(_, _, _, _), BranchEnds(_, _, _, _), Times(_, _, _, _, _)
\* Where atom a, preceded by k groups, can end from the configuration <<i, caps>>.
AtomEnds(a, k, x, i, caps) ==
    LET here(co) == IF co THEN {<<i, caps>>} ELSE {}
        eats(co) == IF i < Len(x.text) /\ co THEN {<<i + 1, caps>>} ELSE {}
        is(C) == \E d \in C : Same(x, d, x.text[i + 1])
        inLine == x.text[i + 1] # "\n" \/ "NEWLINE" \notin x.cflags
    IN  CASE a.k = "chr" -> eats(is({a.c}))
          [] a.k = "any" -> eats(inLine)
          [] a.k = "set" -> eats(IF a.others THEN ~is(a.C) /\ inLine ELSE is(a.C))
          [] a.k = "grp" -> {<<r[1], [r[2] EXCEPT ![k + 1] = <<i, r[1]>>]>> :
                              r \in Ends(a.e, k + 1, x, <<i, caps>>)}
          [] a.k = "back" ->
               LET from == caps[a.i][1]
                   len  == caps[a.i][2] - from
               IN  IF /\ from # -1 /\ i + len <= Len(x.text)
                      /\ \A j \in 1..len : x.text[i + j] = x.text[from + j]
                   THEN {<<i + len, caps>>} ELSE {}
          [] a.k = "bol" -> here(AtBol(x, i))
          [] a.k = "eol" -> here(AtEol(x, i))
          [] a.k = "bow" -> here(~WordAt(x, i) /\ WordAt(x, i + 1) /\ (i > 0 \/ AtBol(x, i)))
          [] a.k = "eow" -> here(WordAt(x, i) /\ ~WordAt(x, i + 1) /\ (i < Len(x.text) \/ AtEol(x, i)))

AllEnds(p, k, x, R) == UNION {AtomEnds(p.a, k, x, r[1], r[2]) : r \in R}
\* From the configurations R: at least lo times, then up to hi or for ever.
Times(p, k, x, R, lo) ==
    LET next == AllEnds(p, k, x, R)
    IN  IF p.lo > lo THEN Times(p, k, x, next, lo + 1)
        ELSE IF lo = p.hi \/ next \subseteq R THEN R
        ELSE R \cup Times(p, k, x, IF p.hi = INFINITY THEN R \cup next ELSE next,
                          IF p.hi = INFINITY THEN lo ELSE lo + 1)
BranchEnds(b, k, x, R) ==
    IF b = <<>> THEN R
    ELSE BranchEnds(Tail(b), k + GroupsOf(<<b[1]>>), x, Times(b[1], k, x, R, 0))
Ends(e, k, x, r) ==
    IF e = <<>> THEN {}
    ELSE BranchEnds(e[1], k, x, {r}) \cup Ends(Tail(e), k + GroupsOf(e[1]), x, r)

Unset(e) == [i \in 1..Groups(e) |-> <<-1, -1>>]
EndsAt(e, x, i) == Ends(e, 0, x, <<i, Unset(e)>>)

\* The leftmost of the matches, and of those the longest.
Starts(e, x) == {i \in 0..Len(x.text) : EndsAt(e, x, i) # {}}
FirstStart(e, x) == CHOOSE i \in Starts(e, x) : \A j \in Starts(e, x) : i <= j
LongestEnd(e, x) ==
    LET E == {r[1] : r \in EndsAt(e, x, FirstStart(e, x))}
    IN  CHOOSE j \in E : \A k \in E : k <= j
============================================================================
