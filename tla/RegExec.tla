------------------------------ MODULE RegExec ------------------------------
(***************************************************************************)
(* regexec(): a text is run through a compiled strip.  A state is a        *)
(* position of the strip, "immediately preceding" its operator; fast() and *)
(* slow() carry the set of all states the match can be in.  The same code  *)
(* is compiled twice: for short strips the set is the bits of a long, but  *)
(* shifted as ints, for the others it is an array of bytes.                *)
(***************************************************************************)
EXTENDS RegComp

NULL == -1

\* A match in progress (struct match): the compiled expression, the text with
\* the bounds of its searched part, the flags, and the representation.
struct_match(g, text, from, to, eflags) ==
    [g |-> g, text |-> text, beginp |-> from, endp |-> to, eflags |-> eflags,
     small |-> Len(g.strip) <= LongBits]

CharAt(m, p) == m.text[p + 1]

----------------------------------------------------------------------------
(* State sets.  An int shift counts modulo its width, and what it moves    *)
(* past the width is lost.                                                 *)

Shift(m, n) == IF m.small THEN n % IntBits ELSE n
SET1(m, n) == {Shift(m, n)}
ISSET(m, st, n) == Shift(m, n) \in st
Kept(m, to) == IF to >= 0 /\ ~(m.small /\ to >= IntBits) THEN {to} ELSE {}
Moved(m, src, here, n) ==
    IF here \notin src THEN {}
    ELSE Kept(m, here + (IF n >= 0 THEN Shift(m, n) ELSE -Shift(m, -n)))

\* From the end of a branch to the end of the choice.
RECURSIVE Look(_, _, _)
Look(strip, pc, look) ==
    IF strip[pc + look + 1].op = "O_CH" THEN look
    ELSE Look(strip, pc, look + strip[pc + look + 1].opnd)

Consumes(g, s, ch) ==
    /\ ch \in Char
    /\ \/ s.op = "OCHAR" /\ s.opnd = ch
       \/ s.op = "OANY"
       \/ s.op = "OANYOF" /\ ch \in g.sets[s.opnd]
Anchors(s, ch) == \/ s.op = "OBOL" /\ ch \in {"BOL", "BOLEOL"}
                  \/ s.op = "OEOL" /\ ch \in {"EOL", "BOLEOL"}
                  \/ s.op = "OBOW" /\ ch = "BOW"
                  \/ s.op = "OEOW" /\ ch = "EOW"

\* step(): the states after the character or the event ch.  `here' is the bit
\* of pc; a loop whose body is reached again is gone through again.
RECURSIVE StepFrom(_, _, _, _, _, _, _)
StepFrom(m, pc, here, stop, bef, ch, aft) ==
    LET s == m.g.strip[pc + 1]
        Go(st) == StepFrom(m, pc + 1, here + 1, stop, bef, ch, st)
        Fwd(n) == Moved(m, aft, here, n)
        back == aft \cup Fwd(1) \cup Moved(m, aft, here, -s.opnd)
        ahead == m.g.strip[pc + s.opnd + 1].op
    IN  IF pc = stop THEN aft
        ELSE CASE Consumes(m.g, s, ch) \/ Anchors(s, ch) -> Go(aft \cup Moved(m, bef, here, 1))
               [] s.op \in {"OBACK_", "O_BACK", "OPLUS_", "O_QUEST", "OLPAREN", "ORPAREN", "O_CH"} ->
                    Go(aft \cup Fwd(1))
               [] s.op \in {"OQUEST_", "OCH_"} -> Go(aft \cup Fwd(1) \cup Fwd(s.opnd))
               [] s.op = "O_PLUS" ->
                    IF back = aft \cup Fwd(1) THEN Go(back)
                    ELSE LET pc2 == pc - s.opnd
                         IN  StepFrom(m, pc2, Shift(m, pc2 - 1) + 1, stop, bef, ch, back)
               [] s.op = "OOR1" -> Go(aft \cup Fwd(Look(m.g.strip, pc, 1)))
               [] s.op = "OOR2" ->
                    Go(aft \cup Fwd(1) \cup (IF ahead = "O_CH" THEN {} ELSE Fwd(s.opnd)))
               [] OTHER -> Go(aft)
step(m, start, stop, bef, ch, aft) ==
    StepFrom(m, start, Shift(m, start), stop, bef, ch, aft)

----------------------------------------------------------------------------
(* The scans of the text.                                                  *)

LineEnd(m, c, flag) == \/ c = "\n" /\ "NEWLINE" \in m.g.cflags
                       \/ c = OUT /\ flag \notin m.eflags
IsWord(c) == c # OUT /\ ISWORD(c)

\* The events between the characters lastc and c: ends of line, as often as the
\* pattern has anchors, then the boundary of a word.
RECURSIVE Repeatedly(_, _, _, _, _, _)
Repeatedly(m, start, stop, st, ch, i) ==
    IF i = 0 THEN st ELSE Repeatedly(m, start, stop, step(m, start, stop, st, ch, st), ch, i - 1)
LineEvent(bol, eol) ==
    CASE bol /\ eol -> "BOLEOL" [] bol -> "BOL" [] eol -> "EOL" [] OTHER -> "NOTHING"
\* The event `line' gives way to the beginning of a word, and both to its end.
WordBegins(line, lastc, c) ==
    IF (line = "BOL" \/ (lastc # OUT /\ ~IsWord(lastc))) /\ IsWord(c) THEN "BOW" ELSE line
WordEnds(flag, lastc, c) ==
    IF IsWord(lastc) /\ (flag = "EOL" \/ (c # OUT /\ ~IsWord(c))) THEN "EOW" ELSE flag
AtWord(m, start, stop, st, ch) ==
    IF ch \in {"BOW", "EOW"} THEN step(m, start, stop, st, ch, st) ELSE st
AtLine(m, start, stop, st, ch) ==
    Repeatedly(m, start, stop, st, ch, (IF ch \in {"BOL", "BOLEOL"} THEN m.g.nbol ELSE 0)
                                       + (IF ch \in {"EOL", "BOLEOL"} THEN m.g.neol ELSE 0))
Between(m, start, stop, st, lastc, c) ==
    LET line == LineEvent(LineEnd(m, lastc, "NOTBOL"), LineEnd(m, c, "NOTEOL"))
    IN  AtWord(m, start, stop, AtLine(m, start, stop, st, line),
               WordEnds(WordBegins(line, lastc, c), lastc, c))

Before(m, p) == IF p = m.beginp THEN OUT ELSE CharAt(m, p - 1)
At(m, p)     == IF p = m.endp THEN OUT ELSE CharAt(m, p)
Fresh(m, startst, stopst) ==
    LET st == SET1(m, startst) IN step(m, startst, stopst, st, "NOTHING", st)

\* fast(): is there a match, and what is the last place none was under way?
\* st are the states at p, after the events there.
RECURSIVE FastFrom(_, _, _, _, _, _)
FastAt(m, p, st, stop, coldp, b) ==
    IF ISSET(m, st, b.stopst) THEN [found |-> TRUE, coldp |-> coldp]
    ELSE IF p = stop THEN [found |-> FALSE, coldp |-> coldp]
    ELSE FastFrom(m, p + 1, step(m, b.startst, b.stopst, st, At(m, p), b.fresh), stop, coldp, b)
FastFrom(m, p, st, stop, coldp, b) ==
    FastAt(m, p, Between(m, b.startst, b.stopst, st, Before(m, p), At(m, p)), stop,
           IF st = b.fresh THEN p ELSE coldp, b)
FastFresh(m, start, stop, b) == FastFrom(m, start, b.fresh, stop, NULL, b)
fast(m, start, stop, startst, stopst) ==
    FastFresh(m, start, stop, [fresh |-> Fresh(m, startst, stopst), startst |-> startst, stopst |-> stopst])

\* slow(): where the longest match from `start' ends, or NULL.
RECURSIVE SlowFrom(_, _, _, _, _, _, _)
\* A slip: the first end that is found is kept, not the last one.
SlowAtFirst(m, p, st, stop, startst, stopst, matchp) ==
    LET new == IF ISSET(m, st, stopst) /\ matchp = NULL THEN p ELSE matchp
    IN  IF st = {} \/ p = stop THEN new
        ELSE SlowFrom(m, p + 1, step(m, startst, stopst, st, At(m, p), {}), stop, startst, stopst, new)
SlowAt(m, p, st, stop, startst, stopst, matchp) ==
    LET new == IF ISSET(m, st, stopst) THEN p ELSE matchp
    IN  IF st = {} \/ p = stop THEN new
        ELSE SlowFrom(m, p + 1, step(m, startst, stopst, st, At(m, p), {}), stop, startst, stopst, new)
SlowFrom(m, p, st, stop, startst, stopst, matchp) ==
    SlowAt(m, p, Between(m, startst, stopst, st, Before(m, p), At(m, p)), stop, startst, stopst, matchp)
slow(m, start, stop, startst, stopst) ==
    SlowFrom(m, start, Fresh(m, startst, stopst), stop, startst, stopst, NULL)

----------------------------------------------------------------------------
(* What each group matched: caps[i] is <<rm_so, rm_eo>>, <<-1, -1>> if unset. *)

NoCaps(g) == [i \in 1..g.nsub |-> <<-1, -1>>]

RECURSIVE EndOfChoice(_, _)
EndOfChoice(strip, pc) ==
    IF strip[pc + 1].op = "O_CH" THEN pc ELSE EndOfChoice(strip, pc + strip[pc + 1].opnd)

\* The end of the operator at pc, its operands included.
EndOfSub(strip, pc) ==
    CASE strip[pc + 1].op \in {"OPLUS_", "OQUEST_"} -> pc + strip[pc + 1].opnd + 1
      [] strip[pc + 1].op = "OCH_" -> EndOfChoice(strip, pc) + 1
      [] OTHER -> pc + 1

\* The longest match of ss..es from sp after which the rest still matches.
RECURSIVE Longest(_, _, _, _, _, _, _)
LongestFrom(m, sp, rest, stop, ss, es, stopst) ==
    IF slow(m, rest, stop, es, stopst) = stop THEN rest
    ELSE Longest(m, sp, rest - 1, stop, ss, es, stopst)
\* A slip: the rest is not asked whether it still matches.
LongestAlone(m, sp, stp, stop, ss, es, stopst) == slow(m, sp, stp, ss, es)
Longest(m, sp, stp, stop, ss, es, stopst) ==
    LongestFrom(m, sp, slow(m, sp, stp, ss, es), stop, ss, es, stopst)

\* Where the last pass of a loop over ssub..esub begins and ends.
RECURSIVE LastPass(_, _, _, _, _, _)
PassTo(m, ssp, oldssp, sep, rest, ssub, esub) ==
    CASE sep = NULL -> <<oldssp, ssp>>
      [] sep = ssp -> <<ssp, ssp>>
      [] OTHER -> LastPass(m, sep, ssp, rest, ssub, esub)
LastPass(m, ssp, oldssp, rest, ssub, esub) ==
    PassTo(m, ssp, oldssp, slow(m, ssp, rest, ssub, esub), rest, ssub, esub)

\* The first branch, from ssub to esub, that matches sp..rest.
RECURSIVE Branch(_, _, _, _, _)
NextEnd(strip, or2) == LET e == or2 + strip[or2 + 1].opnd
                       IN  IF strip[e + 1].op = "OOR2" THEN e - 1 ELSE e
Branch(m, sp, rest, ssub, esub) ==
    IF slow(m, sp, rest, ssub, esub) = rest THEN <<ssub, esub>>
    ELSE Branch(m, sp, rest, esub + 2, NextEnd(m.g.strip, esub + 1))

\* The operator at ss matches sp..rest, if it has operands; with them it ends at es.
RECURSIVE dissect(_, _, _, _, _, _)
InPass(m, pass, ssub, esub, caps) == dissect(m, pass[1], pass[2], ssub, esub, caps)
InBranch(m, sp, rest, b, caps) == dissect(m, sp, rest, b[1], b[2], caps)
Inside(m, sp, rest, ss, es, s, caps) ==
    CASE s.op = "OQUEST_" -> IF slow(m, sp, rest, ss + 1, es - 1) # NULL
                             THEN dissect(m, sp, rest, ss + 1, es - 1, caps) ELSE caps
      [] s.op = "OPLUS_" -> InPass(m, LastPass(m, sp, sp, rest, ss + 1, es - 1), ss + 1, es - 1, caps)
      [] s.op = "OCH_" -> InBranch(m, sp, rest, Branch(m, sp, rest, ss + 1, ss + s.opnd - 1), caps)
Around(m, sp, rest, stop, ss, es, stopst, caps) ==
    dissect(m, rest, stop, es, stopst, Inside(m, sp, rest, ss, es, m.g.strip[ss + 1], caps))
dissect(m, sp, stop, ss, stopst, caps) ==
    LET s    == m.g.strip[ss + 1]
        es   == EndOfSub(m.g.strip, ss)
        Rest(p, c) == dissect(m, p, stop, es, stopst, c)
    IN  IF ss >= stopst THEN caps
        ELSE CASE s.op \in {"OCHAR", "OANY", "OANYOF"} -> Rest(sp + 1, caps)
               [] s.op \in {"OBOL", "OEOL", "OBOW", "OEOW"} -> Rest(sp, caps)
               [] s.op \in {"OQUEST_", "OPLUS_", "OCH_"} ->
                    Around(m, sp, Longest(m, sp, stop, stop, ss, es, stopst), stop, ss, es, stopst, caps)
               [] s.op = "OLPAREN" -> Rest(sp, [caps EXCEPT ![s.opnd][1] = sp])
               [] s.op = "ORPAREN" -> Rest(sp, [caps EXCEPT ![s.opnd][2] = sp])

\* backref() tries the choices one after the other.  w holds what the C keeps in
\* struct match: the groups, undone on failure, and lastpos, which is not.
Failed(w) == [end |-> NULL, w |-> w]
Undo(r, i, k, old) == IF r.end # NULL THEN r ELSE [r EXCEPT !.w.caps[i][k] = old]

Holds(m, op, sp) ==
    LET bol == LineEnd(m, Before(m, sp), "NOTBOL") /\ (sp = m.beginp \/ sp < m.endp)
        eol == LineEnd(m, At(m, sp), "NOTEOL")
        wordBefore == IsWord(Before(m, sp))
        wordAfter  == IsWord(At(m, sp))
    IN  CASE op = "OBOL" -> bol
          [] op = "OEOL" -> eol
          [] op = "OBOW" -> (bol \/ (sp > m.beginp /\ ~wordBefore)) /\ wordAfter
          [] op = "OEOW" -> (eol \/ (sp < m.endp /\ ~wordAfter)) /\ wordBefore

RECURSIVE backref(_, _, _, _, _, _, _), BackBranch(_, _, _, _, _, _, _)
\* The branches are tried up to their own end.
BackBranch(m, sp, stop, ssub, esub, lev, w) ==
    LET r == backref(m, sp, stop, ssub, esub, lev, w)
    IN  IF r.end # NULL \/ m.g.strip[esub + 1].op = "O_CH" THEN r
        ELSE BackBranch(m, sp, stop, esub + 2, NextEnd(m.g.strip, esub + 1), lev, r.w)

backref(m, sp, stop, ss, stopst, lev, w) ==
    LET s == m.g.strip[ss + 1]
        Go(p, pc, l, v) == backref(m, p, stop, pc, stopst, l, v)
        cap == w.caps[s.opnd]
        len == cap[2] - cap[1]
        endback == CHOOSE j \in ss..Len(m.g.strip) :
                      /\ m.g.strip[j + 1] = [op |-> "O_BACK", opnd |-> s.opnd]
                      /\ \A k \in ss..(j - 1) : m.g.strip[k + 1].op # "O_BACK"
        into  == Go(sp, ss + 1, lev, w)
        again == Go(sp, ss - s.opnd + 1, lev, [w EXCEPT !.lastpos[lev] = sp])
    IN  IF ss >= stopst THEN (IF sp = stop THEN [end |-> sp, w |-> w] ELSE Failed(w))
        ELSE CASE s.op \in {"OCHAR", "OANY", "OANYOF"} ->
                    IF sp # stop /\ Consumes(m.g, s, CharAt(m, sp)) THEN Go(sp + 1, ss + 1, lev, w)
                    ELSE Failed(w)
               [] s.op \in {"OBOL", "OEOL", "OBOW", "OEOW"} ->
                    IF Holds(m, s.op, sp) THEN Go(sp, ss + 1, lev, w) ELSE Failed(w)
               [] s.op = "O_QUEST" -> Go(sp, ss + 1, lev, w)
               [] s.op = "OOR1" -> Go(sp, EndOfChoice(m.g.strip, ss + 1) + 1, lev, w)
               [] s.op = "OBACK_" ->
                    IF /\ cap[2] # -1
                       /\ sp + len <= stop
                       /\ \A k \in 0..(len - 1) : CharAt(m, sp + k) = CharAt(m, cap[1] + k)
                    THEN Go(sp + len, endback + 1, lev, w)
                    ELSE Failed(w)
               [] s.op = "OQUEST_" ->
                    IF into.end # NULL THEN into ELSE Go(sp, ss + s.opnd + 1, lev, into.w)
               [] s.op = "OPLUS_" -> Go(sp, ss + 1, lev + 1, [w EXCEPT !.lastpos[lev + 1] = sp])
               [] s.op = "O_PLUS" ->
                    IF sp = w.lastpos[lev] THEN Go(sp, ss + 1, lev - 1, w)
                    ELSE IF again.end # NULL THEN again ELSE Go(sp, ss + 1, lev - 1, again.w)
               [] s.op = "OCH_" -> BackBranch(m, sp, stop, ss + 1, ss + s.opnd - 1, lev, w)
               [] s.op = "OLPAREN" ->
                    Undo(Go(sp, ss + 1, lev, [w EXCEPT !.caps[s.opnd][1] = sp]), s.opnd, 1, cap[1])
               [] s.op = "ORPAREN" ->
                    Undo(Go(sp, ss + 1, lev, [w EXCEPT !.caps[s.opnd][2] = sp]), s.opnd, 2, cap[2])

----------------------------------------------------------------------------
(* matcher() and regexec().                                                *)

NoMatch == [code |-> "NOMATCH"]
Found(so, eo, caps) == [code |-> "OK", so |-> so, eo |-> eo, caps |-> caps]

\* "Finding start": one place after the other, from coldp on.
RECURSIVE FindStart(_, _, _, _), BackOff(_, _, _, _), Matches(_, _, _, _)
Gf == 1
Gl(g) == Len(g.strip) - 1
StartAt(m, coldp, end, stop, gl) ==
    IF end # NULL THEN <<coldp, end>> ELSE FindStart(m, coldp + 1, stop, gl)
FindStart(m, coldp, stop, gl) == StartAt(m, coldp, slow(m, coldp, stop, Gf, gl), stop, gl)

\* With back references the candidate end moves down until one works out.
Shorter(m, coldp, end, w) == IF end = NULL THEN NoMatch ELSE BackOff(m, coldp, end, w)
TryEnd(m, coldp, endp, r) ==
    IF r.end # NULL THEN Found(coldp, endp, r.w.caps)
    ELSE IF endp <= coldp THEN NoMatch
    ELSE Shorter(m, coldp, slow(m, coldp, endp - 1, Gf, Gl(m.g)), r.w)
BackOff(m, coldp, endp, w) == TryEnd(m, coldp, endp, backref(m, coldp, endp, Gf, Gl(m.g), 0, w))

OrLater(m, r, next, stop, nmatch) == IF r.code = "OK" THEN r ELSE Matches(m, next, stop, nmatch)
MatchAt(m, so, eo, stop, nmatch) ==
    LET g == m.g
    IN  CASE g.backrefs ->
               OrLater(m, BackOff(m, so, eo, [caps |-> NoCaps(g), lastpos |-> [l \in 1..g.nplus |-> NULL]]),
                       so + 1, stop, nmatch)
          [] nmatch = 1 /\ ~g.backrefs -> Found(so, eo, <<>>)
          [] OTHER -> Found(so, eo, dissect(m, so, eo, Gf, Gl(g), NoCaps(g)))
MatchOf(m, at, stop, nmatch) == MatchAt(m, at[1], at[2], stop, nmatch)
Candidate(m, cand, stop, nmatch) ==
    IF ~cand.found THEN NoMatch
    ELSE IF nmatch = 0 /\ ~m.g.backrefs THEN Found(NULL, NULL, <<>>)
    ELSE MatchOf(m, FindStart(m, cand.coldp, stop, Gl(m.g)), stop, nmatch)
Matches(m, start, stop, nmatch) == Candidate(m, fast(m, start, stop, Gf, Gl(m.g)), stop, nmatch)

\* The text is searched for the mandatory string before anything else.
Prescreened(g, text, from, to) ==
    g.must = <<>> \/ \E d \in from..(to - Len(g.must)) : SubSeq(text, d + 1, d + Len(g.must)) = g.must

\* `from' and `to' are those of REG_STARTEND, else the whole text.
regexec(preg, text, from, to, nmatch, eflags) ==
    LET nm == IF "NOSUB" \in preg.cflags THEN 0 ELSE nmatch
    IN  CASE preg.error # "OK" -> [code |-> "BADPAT"]
          [] to < from -> [code |-> "INVARG"]
          [] ~Prescreened(preg, text, from, to) -> NoMatch
          [] OTHER -> Matches(struct_match(preg, text, from, to, eflags), from, to, nm)
============================================================================
