------------------------------ MODULE RegComp ------------------------------
(***************************************************************************)
(* regcomp() of the bundled regular expression library: the mappings and   *)
(* transformations of a script are compiled by it.  A pattern becomes a    *)
(* "strip", a sequence of operators with an operand; the parser, struct    *)
(* parse, is the record p, which every function takes and returns.         *)
(* Positions in the strip are counted from 0, as in the code.              *)
(***************************************************************************)
EXTENDS Integers, Sequences, FiniteSets, SequencesExt

CONSTANTS Code,      \* the character set: [character -> its code], with NUL
          IntBits,   \* the bits of an int, and
          LongBits   \* of a long, on the machine the library is built for

ASSUME BitsAssumption == IntBits \in Nat \ {0} /\ LongBits \in Nat \ {0}

Char == DOMAIN Code
NUL  == "NUL"
OUT  == "OUT"               \* a value that is not a character
NPAREN   == 10
DUPMAX   == 255
INFINITY == DUPMAX + 1

IsLower(c) == Code[c] \in 97..122
IsAlpha(c) == IsLower(c) \/ Code[c] \in 65..90
IsDigit(c) == Code[c] \in 48..57
ISWORD(c)  == IsAlpha(c) \/ IsDigit(c) \/ c = "_"
OtherCase(c) == LET o == IF IsLower(c) THEN Code[c] - 32 ELSE Code[c] + 32
                IN  IF \E d \in Char : Code[d] = o
                    THEN CHOOSE d \in Char : Code[d] = o ELSE c

----------------------------------------------------------------------------
(* The input.  An error empties it, which brings every loop to a halt.     *)

MORE(p)  == p.in # <<>>
PEEK(p)  == IF MORE(p) THEN p.in[1] ELSE NUL
PEEK2(p) == IF Len(p.in) > 1 THEN p.in[2] ELSE NUL
SEE(p, c) == MORE(p) /\ PEEK(p) = c
SEETWO(p, a, b) == Len(p.in) > 1 /\ p.in[1] = a /\ p.in[2] = b
NEXTn(p, n) == [p EXCEPT !.in = SubSeq(@, n + 1, Len(@))]

\* The earliest error is kept.
seterr(p, e) == [p EXCEPT !.error = IF @ = "OK" THEN e ELSE @, !.in = <<>>]

REQUIRE(p, co, e) == IF co THEN p ELSE seterr(p, e)
EAT(p, c) == IF SEE(p, c) THEN NEXTn(p, 1) ELSE p
EatTwoOr(p, a, b, e) == IF SEETWO(p, a, b) THEN NEXTn(p, 2) ELSE seterr(p, e)

----------------------------------------------------------------------------
(* The strip.                                                              *)

HERE(p) == Len(p.strip)
Sop(p, pos) == p.strip[pos + 1]

\* The codes 16 to 20 set the sign bit of an int.  In a longer sop they are
\* extended with ones, which OP() masks: no case of a switch is theirs.
SignBit == {"OOR1", "OOR2", "O_CH", "OBOW", "OEOW"}
OP(op) == IF op \in SignBit /\ LongBits > IntBits THEN "none" ELSE op

\* doemit(): nothing is emitted after an error.
EMIT(p, op, opnd) ==
    IF p.error # "OK" THEN p
    ELSE [p EXCEPT !.strip = Append(@, [op |-> OP(op), opnd |-> opnd])]

\* doinsert(): the operators from pos on move up, and the positions of the
\* parentheses with them; offsets are relative and stay right.
\* A slip: the offset of the operator as it was before the insertion.
InsertShort(p, op, pos) ==
    IF p.error # "OK" THEN p
    ELSE [p EXCEPT !.strip = InsertAt(@, pos + 1, [op |-> op, opnd |-> HERE(p) - pos])]
INSERT(p, op, pos) ==
    LET Moved(f) == [i \in DOMAIN f |-> IF f[i] >= pos THEN f[i] + 1 ELSE f[i]]
    IN  IF p.error # "OK" THEN p
        ELSE [p EXCEPT !.strip = InsertAt(@, pos + 1,
                            [op |-> op, opnd |-> HERE(p) - pos + 1]),
                       !.pbegin = Moved(@), !.pend = Moved(@)]

\* dofwd(): complete a forward reference.
AHEAD(p, pos) ==
    IF p.error # "OK" THEN p
    ELSE [p EXCEPT !.strip[pos + 1].opnd = HERE(p) - pos]
ASTERN(p, op, pos) == EMIT(p, op, HERE(p) - pos)
DROP(p, n) == [p EXCEPT !.strip = SubSeq(@, 1, Len(@) - n)]

dupl(p, start, finish) ==
    [p EXCEPT !.strip = @ \o SubSeq(@, start + 1, finish)]

\* x+, x* as (x+)?, and x? as (x|), of the operand from pos on.
Plus(p, pos) == ASTERN(INSERT(p, "OPLUS_", pos), "O_PLUS", pos)
Star(p, pos) == ASTERN(INSERT(Plus(p, pos), "OQUEST_", pos), "O_QUEST", pos)
EmptyBranch(p) == ASTERN(AHEAD(p, HERE(p) - 1), "O_CH", HERE(p) - 2)
CloseQuest(p, pos) == EmptyBranch(EMIT(AHEAD(ASTERN(p, "OOR1", pos), pos), "OOR2", 0))
Quest(p, pos) == CloseQuest(INSERT(p, "OCH_", pos), pos)

\* A bounded repetition is expanded into copies of its operand.
RECURSIVE repeat(_, _, _, _)
OneMore(p, start, finish, to) == repeat(dupl(p, start + 1, finish + 1), HERE(p), 1, to - 1)
repeat(p, start, from, to) ==
    LET finish == HERE(p)
    IN  IF p.error # "OK" THEN p
        ELSE CASE from = 0 /\ to = 0 -> DROP(p, finish - start)
               [] from = 0 /\ to > 0 ->
                    CloseQuest(repeat(INSERT(p, "OCH_", start), start + 1, 1, to), start)
               [] from = 1 /\ to = 1 -> p
               [] from = 1 /\ to = INFINITY -> Plus(p, start)
               [] from = 1 /\ to \in 2..DUPMAX ->
                    OneMore(Quest(p, start), start, finish, to)
               [] from > 1 /\ to > 1 ->
                    repeat(dupl(p, start, finish), finish, from - 1,
                           IF to = INFINITY THEN to ELSE to - 1)
               [] OTHER -> seterr(p, "ASSERT")

RECURSIVE Count(_, _)
Count(p, acc) ==
    IF MORE(p) /\ IsDigit(PEEK(p)) /\ acc.n <= DUPMAX
    THEN Count(NEXTn(p, 1), [n |-> acc.n * 10 + Code[PEEK(p)] - 48, digits |-> TRUE])
    ELSE [p |-> REQUIRE(p, acc.digits /\ acc.n <= DUPMAX, "BADBR"), n |-> acc.n]
\* A slip: no digits are a count, too.
p_countNone(p) == Count(p, [n |-> 0, digits |-> TRUE])
p_count(p) == Count(p, [n |-> 0, digits |-> FALSE])

\* The bounds after { or \{ : n, n,m or n,
UpTo(lo, hi) == [p |-> REQUIRE(hi.p, lo <= hi.n, "BADBR"), lo |-> lo, hi |-> hi.n]
LowerTo(lo) ==
    IF ~SEE(lo.p, ",") THEN [p |-> lo.p, lo |-> lo.n, hi |-> lo.n]
    ELSE IF IsDigit(PEEK2(lo.p)) THEN UpTo(lo.n, p_count(NEXTn(lo.p, 1)))
    ELSE [p |-> NEXTn(lo.p, 1), lo |-> lo.n, hi |-> INFINITY]
Within(b, pos) == repeat(b.p, pos, b.lo, b.hi)
Bounds(p, pos) == Within(LowerTo(p_count(p)), pos)

RECURSIVE SkipTo(_, _)
SkipTo(p, close) == IF MORE(p) /\ ~IsPrefix(close, p.in) THEN SkipTo(NEXTn(p, 1), close) ELSE p
EndBounds(p, close) ==
    IF IsPrefix(close, p.in) THEN NEXTn(p, Len(close))
    ELSE LET q == SkipTo(p, close) IN seterr(REQUIRE(q, MORE(q), "EBRACE"), "BADBR")

----------------------------------------------------------------------------
(* Bracket expressions.  The set under construction is the last of p.sets. *)

CHadd(p, C) == LET n == Len(p.sets) IN [p EXCEPT !.sets[n] = @ \cup C]
allocset(p) == [p EXCEPT !.sets = Append(@, {})]
freeset(p, cs) ==
    [p EXCEPT !.sets = IF cs = Len(@) THEN Front(@) ELSE [@ EXCEPT ![cs] = {}]]

\* Identical sets share a number (the hash only makes the search quicker).
freezeset(p, cs) ==
    LET same == {i \in 1..(cs - 1) : p.sets[i] = p.sets[cs]}
    IN  IF same = {} THEN [p |-> p, no |-> cs]
        ELSE [p |-> freeset(p, cs), no |-> CHOOSE i \in same : \A j \in same : i <= j]

RECURSIVE Word(_)   \* the letters in front, as one name
Word(s) == IF s = <<>> \/ ~IsAlpha(s[1]) THEN "" ELSE s[1] \o Word(Tail(s))
Codes(S) == {c \in Char : Code[c] \in S}
cclasses == [alnum  |-> Codes(48..57 \cup 65..90 \cup 97..122),
             alpha  |-> Codes(65..90 \cup 97..122),
             blank  |-> Codes({9, 32}),
             cntrl  |-> Codes(1..31 \cup {127}),
             digit  |-> Codes(48..57),
             graph  |-> Codes(33..126),
             lower  |-> Codes(97..122),
             print  |-> Codes(32..126),
             punct  |-> Codes(33..47 \cup 58..64 \cup 91..96 \cup 123..126),
             space  |-> Codes(9..13 \cup {32}),
             upper  |-> Codes(65..90),
             xdigit |-> Codes(48..57 \cup 65..70 \cup 97..102)]

p_b_cclass(p) ==
    LET name == Word(p.in) IN
    IF name \in DOMAIN cclasses
    THEN CHadd(NEXTn(p, SelectInSeq(p.in \o <<NUL>>, LAMBDA c : ~IsAlpha(c)) - 1), cclasses[name])
    ELSE seterr(p, "ECTYPE")

\* A collating element up to endc and ].  Only the names of one character are
\* kept of the table of names.
ElemUpTo(p, q) ==
    IF ~MORE(q) THEN [p |-> seterr(q, "EBRACK"), c |-> NUL]
    ELSE IF Len(p.in) - Len(q.in) = 1 THEN [p |-> q, c |-> PEEK(p)]
    ELSE [p |-> seterr(q, "ECOLLATE"), c |-> NUL]
p_b_coll_elem(p, endc) == ElemUpTo(p, SkipTo(p, <<endc, "]">>))

AddElem(e) == CHadd(e.p, {e.c})
p_b_eclass(p) == AddElem(p_b_coll_elem(p, "="))

EndElem(e) == [e EXCEPT !.p = EatTwoOr(@, ".", "]", "ECOLLATE")]
p_b_symbol(p) ==
    IF SEETWO(p, "[", ".") THEN EndElem(p_b_coll_elem(NEXTn(p, 2), "."))
    ELSE [p |-> NEXTn(REQUIRE(p, MORE(p), "EBRACK"), 1), c |-> PEEK(p)]

\* The opening and the end of [:class:] and [=c=].
OpenName(p, err) ==
    LET q == REQUIRE(NEXTn(p, 2), Len(p.in) > 2, "EBRACK")
    IN  REQUIRE(q, PEEK(q) \notin {"-", "]"}, err)
EndName(p, mark, err) == EatTwoOr(REQUIRE(p, MORE(p), "EBRACK"), mark, "]", err)

\* From the symbol lo to hi, if there is a range.
AddRange(lo, hi) ==
    CHadd(REQUIRE(hi.p, Code[lo] <= Code[hi.c], "ERANGE"),
          {c \in Char : Code[lo] <= Code[c] /\ Code[c] <= Code[hi.c]})
RangeEnd(s) ==
    IF ~(SEE(s.p, "-") /\ Len(s.p.in) > 1 /\ PEEK2(s.p) # "]") THEN s
    ELSE IF PEEK2(s.p) = "-" THEN [p |-> NEXTn(s.p, 2), c |-> "-"]
    ELSE p_b_symbol(NEXTn(s.p, 1))
AddFrom(s) == AddRange(s.c, RangeEnd(s))

p_b_term(p) ==
    CASE SEE(p, "-") -> seterr(p, "ERANGE")
      [] SEETWO(p, "[", ":") -> EndName(p_b_cclass(OpenName(p, "ECTYPE")), ":", "ECTYPE")
      [] SEETWO(p, "[", "=") -> EndName(p_b_eclass(OpenName(p, "ECOLLATE")), "=", "ECOLLATE")
      [] OTHER -> AddFrom(p_b_symbol(p))

(* An ordinary character, in both cases if case is ignored: bothcases() and *)
(* nonnewline() have p_bracket() read a bracket of their own instead of p's *)
(* input.                                                                   *)

RECURSIVE Terms(_), p_bracket(_)
ordinary(p, ch) ==
    IF "ICASE" \in p.cflags /\ IsAlpha(ch) /\ OtherCase(ch) # ch
    THEN [p_bracket([p EXCEPT !.in = <<ch, "]">>]) EXCEPT !.in = p.in]
    ELSE EMIT(p, "OCHAR", ch)

AnyChar(p) ==
    IF "NEWLINE" \in p.cflags
    THEN [p_bracket([p EXCEPT !.in = <<"^", "\n", "]">>]) EXCEPT !.in = p.in]
    ELSE EMIT(p, "OANY", 0)

Terms(p) == IF MORE(p) /\ PEEK(p) # "]" /\ ~SEETWO(p, "-", "]") THEN Terms(p_b_term(p)) ELSE p

\* What a bracket with the members C stands for.
BracketSet(C, invert, cflags) ==
    LET both == IF "ICASE" \in cflags
                THEN C \cup {OtherCase(c) : c \in {d \in C : IsAlpha(d)}} ELSE C
    IN  IF ~invert THEN both
        ELSE (Char \ both) \ (IF "NEWLINE" \in cflags THEN {"\n"} ELSE {})

Leading(p) ==
    LET first == {c \in {"]", "-"} : SEE(p, c)}
    IN  IF first = {} THEN p ELSE CHadd(NEXTn(p, 1), first)
Trailing(p) == IF SEE(p, "-") THEN CHadd(NEXTn(p, 1), {"-"}) ELSE p
Closing(p) == IF SEE(p, "]") THEN NEXTn(p, 1) ELSE seterr(p, "EBRACK")

\* The set is finished: a single character is no set, and a set may be known.
AnyOf(f) == EMIT(f.p, "OANYOF", f.no)
UseSet(p, cs) ==
    IF Cardinality(p.sets[cs]) = 1
    THEN freeset(ordinary(p, CHOOSE c \in p.sets[cs] : TRUE), cs)
    ELSE AnyOf(freezeset(p, cs))
EndSet(p, invert) ==
    LET cs == Len(p.sets)
    IN  IF p.error # "OK" THEN p
        ELSE UseSet([p EXCEPT !.sets[cs] = BracketSet(@, invert, p.cflags)], cs)

p_bracket(p) ==
    CASE IsPrefix(<<"[", ":", "<", ":", "]", "]">>, p.in) -> NEXTn(EMIT(allocset(p), "OBOW", 0), 6)
      [] IsPrefix(<<"[", ":", ">", ":", "]", "]">>, p.in) -> NEXTn(EMIT(allocset(p), "OEOW", 0), 6)
      [] OTHER -> EndSet(Closing(Trailing(Terms(Leading(EAT(allocset(p), "^"))))), SEE(p, "^"))

----------------------------------------------------------------------------
(* The parsers.  Open and Close are the two halves of a group.             *)

Anchor(p, op) ==
    [EMIT(p, op, 0) EXCEPT !.nbol = @ + (IF op = "OBOL" THEN 1 ELSE 0),
                           !.neol = @ + (IF op = "OEOL" THEN 1 ELSE 0)]

Open(p) ==
    LET n == p.nsub + 1
        q == [p EXCEPT !.nsub = n, !.pbegin = IF n < NPAREN THEN [@ EXCEPT ![n] = HERE(p)] ELSE @]
    IN  EMIT(q, "OLPAREN", n)
Close(p, n, close, err) ==
    LET q == [p EXCEPT !.pend = IF n < NPAREN THEN [@ EXCEPT ![n] = HERE(p)] ELSE @]
        r == EMIT(q, "ORPAREN", n)
    IN  IF IsPrefix(close, r.in) THEN NEXTn(r, Len(close)) ELSE seterr(r, err)

\* \i: the operators of the group again, between two markers.
BackRef(p, i) ==
    LET q == EMIT(p, "OBACK_", i)
        r == IF p.pend[i] = 0 THEN seterr(p, "ESUBREG")
             ELSE EMIT(dupl(q, p.pbegin[i] + 1, p.pend[i]), "O_BACK", i)
    IN  [r EXCEPT !.backrefs = TRUE]

\* The basic expressions, of which p_simp_re() reads one, with its repetition;
\* `dollar' tells whether it was a plain $, which is an anchor at the end.
RECURSIVE p_bre(_, _), BreItems(_, _, _)
BreAtom(p, c, escaped, starordinary) ==
    LET open == Open(p)
        body == IF MORE(p) /\ ~SEETWO(p, "\\", ")") THEN p_bre(open, <<"\\", ")">>) ELSE open
    IN  CASE ~escaped /\ c = "." -> AnyChar(p)
          [] ~escaped /\ c = "[" -> p_bracket(p)
          [] escaped /\ c = "{" -> seterr(p, "BADRPT")
          [] escaped /\ c = "(" -> Close(body, p.nsub + 1, <<"\\", ")">>, "EPAREN")
          [] escaped /\ c \in {")", "}"} -> seterr(p, "EPAREN")
          [] escaped /\ Code[c] \in 49..57 -> BackRef(p, Code[c] - 48)
          [] ~escaped /\ c = "*" -> ordinary(REQUIRE(p, starordinary, "BADRPT"), c)
          [] OTHER -> ordinary(p, c)

BreRepeat(p, pos, dollar) ==
    CASE SEE(p, "*") -> [p |-> Star(NEXTn(p, 1), pos), dollar |-> FALSE]
      [] SEETWO(p, "\\", "{") ->
            [p |-> EndBounds(Bounds(NEXTn(p, 2), pos), <<"\\", "}">>), dollar |-> FALSE]
      [] OTHER -> [p |-> p, dollar |-> dollar]
p_simp_re(p, starordinary) ==
    LET escaped == PEEK(p) = "\\"
        p1 == IF escaped THEN REQUIRE(NEXTn(p, 1), Len(p.in) > 1, "EESCAPE") ELSE p
        c  == PEEK(p1)
    IN  BreRepeat(BreAtom(NEXTn(p1, 1), c, escaped, starordinary), HERE(p), ~escaped /\ c = "$")

BreItems(r, stop, first) ==
    IF MORE(r.p) /\ (stop = <<>> \/ ~IsPrefix(stop, r.p.in))
    THEN BreItems(p_simp_re(r.p, first), stop, FALSE)
    ELSE IF r.dollar THEN Anchor(DROP(r.p, 1), "OEOL") ELSE r.p

NotEmpty(p, pos) == REQUIRE(p, HERE(p) # pos, "EMPTY")
p_bre(p, stop) ==
    LET q == IF SEE(p, "^") THEN Anchor(NEXTn(p, 1), "OBOL") ELSE p
    IN  NotEmpty(BreItems([p |-> q, dollar |-> FALSE], stop, TRUE), HERE(p))

\* The extended expressions: alternatives of items.
RECURSIVE p_ere(_, _), EreItems(_, _), EreAlts(_, _, _, _)
EreRepeats(p) == SEE(p, "*") \/ SEE(p, "+") \/ SEE(p, "?") \/ (SEE(p, "{") /\ IsDigit(PEEK2(p)))

EreAtom(p, c) ==
    LET open == Open(REQUIRE(p, MORE(p), "EPAREN"))
        body == IF SEE(open, ")") THEN open ELSE p_ere(open, ")")
        esc  == REQUIRE(p, MORE(p), "EESCAPE")
    IN  CASE c = "(" -> Close(body, p.nsub + 1, <<")">>, "EPAREN")
          [] c = "^" -> Anchor(p, "OBOL")
          [] c = "$" -> Anchor(p, "OEOL")
          [] c = "|" -> seterr(p, "EMPTY")
          [] c \in {"*", "+", "?"} -> seterr(p, "BADRPT")
          [] c = "." -> AnyChar(p)
          [] c = "[" -> p_bracket(p)
          [] c = "\\" -> ordinary(NEXTn(esc, 1), PEEK(esc))
          [] c = "{" -> ordinary(REQUIRE(p, ~IsDigit(PEEK(p)), "BADRPT"), c)
          [] OTHER -> ordinary(p, c)

\* The repetition `rep' of what was emitted from pos on; there may be only one.
RepeatBy(p, rep, pos) ==
    CASE rep = "*" -> Star(p, pos)
      [] rep = "+" -> Plus(p, pos)
      [] rep = "?" -> Quest(p, pos)
      [] rep = "{" -> EndBounds(Bounds(p, pos), <<"}">>)
NoMore(p) == IF EreRepeats(p) THEN seterr(p, "BADRPT") ELSE p
EreRepeat(p, pos, c) ==
    IF ~EreRepeats(p) THEN p
    ELSE NoMore(RepeatBy(REQUIRE(NEXTn(p, 1), c # "^", "BADRPT"), PEEK(p), pos))
p_ere_exp(p) == EreRepeat(EreAtom(NEXTn(p, 1), PEEK(p)), HERE(p), PEEK(p))

EreItems(p, stop) ==
    IF MORE(p) /\ PEEK(p) \notin {"|", stop} THEN EreItems(p_ere_exp(p), stop) ELSE p

\* prevback and prevfwd are the ends of the last branch, -1 before the first |.
EreAlt(p, conc, stop, prevback, prevfwd) ==
    LET first == prevback = -1
        p2    == IF first THEN INSERT(NEXTn(p, 1), "OCH_", conc) ELSE NEXTn(p, 1)
        p3    == ASTERN(p2, "OOR1", IF first THEN conc ELSE prevback)
        p4    == AHEAD(p3, IF first THEN conc ELSE prevfwd)
    IN  IF SEE(p, "|")
        THEN EreAlts(EMIT(p4, "OOR2", 0), stop, HERE(p3) - 1, HERE(p4))
        ELSE IF first THEN p
        ELSE ASTERN(AHEAD(p, prevfwd), "O_CH", prevback)
EreAlts(p, stop, prevback, prevfwd) ==
    EreAlt(NotEmpty(EreItems(p, stop), HERE(p)), HERE(p), stop, prevback, prevfwd)
p_ere(p, stop) == EreAlts(p, stop, -1, -1)

----------------------------------------------------------------------------
(* What regcomp() works out of a finished strip.                           *)

\* findmust(): the longest run of characters every match contains, which is
\* what the text is searched for first.  `run' is the current run, `best' the
\* longest one so far; a bypass is skipped, to 0 if it is not well formed.
BAD == <<"bad">>
RECURSIVE EndOfSkip(_, _), FindMust(_, _, _, _)
EndOfSkip(strip, i) ==
    LET j == i + strip[i].opnd
    IN  CASE strip[j].op \in {"O_QUEST", "O_CH"} -> j
          [] strip[j].op = "OOR2" -> EndOfSkip(strip, j)
          [] OTHER -> 0
FindMust(strip, i, run, best) ==
    LET op == strip[i].op
        longer == IF Len(run) > Len(best) THEN run ELSE best
    IN  CASE op = "OCHAR" -> FindMust(strip, i + 1, Append(run, strip[i].opnd), best)
          [] op \in {"OPLUS_", "OLPAREN", "ORPAREN"} -> FindMust(strip, i + 1, run, best)
          [] op \in {"OQUEST_", "OCH_"} ->
               IF EndOfSkip(strip, i) = 0 THEN BAD ELSE FindMust(strip, EndOfSkip(strip, i), <<>>, longer)
          [] op = "OEND" -> longer
          [] OTHER -> FindMust(strip, i + 1, <<>>, longer)
findmust(strip) == FindMust(strip, 2, <<>>, <<>>)

\* pluscount(): how deep the loops nest.
pluscount(strip) ==
    LET open(i) == Cardinality({j \in 1..i : strip[j].op = "OPLUS_"})
                   - Cardinality({j \in 1..(i - 1) : strip[j].op = "O_PLUS"})
    IN  FoldSet(LAMBDA i, m : IF open(i) > m THEN open(i) ELSE m, 0,
                {i \in DOMAIN strip : strip[i].op = "O_PLUS"})

struct_parse(pattern, cflags) ==
    [in |-> pattern, error |-> "OK", strip |-> <<>>, cflags |-> cflags,
     nsub |-> 0, nbol |-> 0, neol |-> 0, backrefs |-> FALSE, sets |-> <<>>,
     pbegin |-> [i \in 1..(NPAREN - 1) |-> 0], pend |-> [i \in 1..(NPAREN - 1) |-> 0]]

RECURSIVE p_str(_)
p_str(p) == IF MORE(p) THEN p_str(ordinary(NEXTn(p, 1), PEEK(p))) ELSE p

Compiled(p) ==
    IF p.error # "OK" THEN [error |-> p.error]
    ELSE IF findmust(p.strip) = BAD THEN [error |-> "ASSERT"]
    ELSE [error |-> "OK", strip |-> p.strip, sets |-> p.sets, cflags |-> p.cflags,
          nbol |-> p.nbol, neol |-> p.neol, nsub |-> p.nsub, backrefs |-> p.backrefs,
          must |-> findmust(p.strip), nplus |-> pluscount(p.strip)]

regcomp(pattern, cflags) ==
    LET p == EMIT(struct_parse(pattern, cflags), "OEND", 0)
    IN  CASE {"EXTENDED", "NOSPEC"} \subseteq cflags -> [error |-> "INVARG"]
          [] OTHER -> Compiled(EMIT(CASE "EXTENDED" \in cflags -> p_ere(p, OUT)
                                      [] "NOSPEC" \in cflags -> p_str(REQUIRE(p, MORE(p), "EMPTY"))
                                      [] OTHER -> p_bre(p, <<>>), "OEND", 0))
============================================================================
