------------------------------- MODULE Subst -------------------------------
(***************************************************************************)
(* Mappings and transformations: atom>name applies the one or the other to *)
(* a text.  The first option whose key, a regular expression, is found in  *)
(* the text is carried out: replace the text, substitute in it with        *)
(* regex_subst(), or work on a range of it.  Every call of the library is  *)
(* a step of its own, and the heap texts are followed: `live' are those    *)
(* that are allocated, `text' is the one that is handed on.                *)
(* The library of regular expressions is a parameter.  A pattern is a      *)
(* record whose p is its text.                                             *)
(***************************************************************************)
EXTENDS Integers, Sequences

CONSTANTS
  Jobs,                      \* the pairs <<text, function>> that are tried
  Chars,                     \* what texts consist of
  Regcomp(_, _),             \* regcomp() and regexec(), with their flags
  Regexec(_, _, _, _, _, _),
  ToLower(_), ToUpper(_)

VARIABLES pc,      \* where the program is
          job,     \* the text and the function it is applied to
          opt,     \* the option that is looked at
          re,      \* the regular expression that is in use
          text,    \* the text that is handed on, or Null,
          which,   \* and the block of the heap that it is in
          live,    \* the blocks that are allocated
          sub,     \* the variables of regex_subst()
          fault    \* a misuse of the heap, or "none"

vars == <<pc, job, opt, re, text, which, live, sub, fault>>

Null  == <<"NULL">>   \* no text has this character
NoSub == [k |-> "none"]
NoRe  == [error |-> "FREED"]
Blocks == {"in", "out"}
Other(b) == CHOOSE c \in Blocks : c # b

function == job[2]
options  == function.options
option   == options[opt]

\* regexec() with place for one match; `re' that is not compiled finds none.
SearchFor(r, s, ef) == Regexec(r, s, 0, Len(s), 1, ef)
Search(s, ef) == SearchFor(re, s, ef)
Hit(m) == m.code = "OK"
From(s, n) == SubSeq(s, n + 1, Len(s))
Upto(s, n) == SubSeq(s, 1, n)

\* What the parser can build: each option has the parts that its kind needs.
\* An s has its two literals (the parser does not count them, nor does the code).
IsOption(k, o) ==
  IF k = "mapping"
  THEN o.mode \in {"replace", "subst"} /\ o.out \in Seq(Chars)
  ELSE /\ o.cmd.addr # Null => o.cmd.addr[1] \in Int /\ o.cmd.addr[2] \in Int
       /\ o.cmd.name = "s" => o.cmd.params[2] \in Seq(Chars)
IsJob(j) ==
  /\ j[1] \in Seq(Chars) /\ j[2].k \in {"mapping", "xform"} /\ Len(j[2].options) \in Nat
  /\ \A i \in 1..Len(j[2].options) : IsOption(j[2].k, j[2].options[i])

\* The patterns that regex_subst() is given.
Substitutes(f, o) ==
  IF f.k = "mapping" THEN o.mode = "subst" ELSE o.cmd.name = "s"
PatternOf(f, o) == IF f.k = "mapping" THEN o.from ELSE o.cmd.params[1]
Froms(f) ==
  {PatternOf(f, f.options[i]) : i \in {j \in 1..Len(f.options) : Substitutes(f, f.options[j])}}
IsSpecial(p) == p \in {<<"^">>, <<"$">>}

ASSUME JobsAssumption == \A j \in Jobs : IsJob(j)
ASSUME CharsAssumption ==
  /\ "NULL" \notin Chars /\ "?" \in Chars
  /\ \A c \in Chars : ToLower(c) \in Chars /\ ToUpper(c) \in Chars
\* What is found lies within the text that is searched.
ASSUME LibraryAssumption ==
  \A j \in Jobs : \A p \in Froms(j[2]) : \A n \in 0..Len(j[1]) : \A ef \in {{}, {"NOTBOL"}} :
    LET s == From(j[1], n)
        m == SearchFor(Regcomp(p.p, {}), s, ef)
    IN  Hit(m) => m.eo \in 0..Len(s) /\ m.so \in 0..m.eo

Init == /\ pc = "key" /\ job \in Jobs /\ opt = 1 /\ re = NoRe
        /\ text = job[1] /\ which = "in" /\ live = {"in"}
        /\ sub = NoSub /\ fault = "none"

----------------------------------------------------------------------------
(* mapopt_match() and transopt_match(): what regcomp() returns is not      *)
(* looked at, a bad key just never matches.                                *)

CompileKey ==
    /\ pc = "key" /\ opt <= Len(options)
    /\ re' = Regcomp(option.key.p, {})
    /\ pc' = "match"
    /\ UNCHANGED <<job, opt, text, which, live, sub, fault>>

NextOption ==
    /\ pc = "match" /\ ~Hit(Search(text, {}))
    /\ pc' = "key" /\ opt' = opt + 1 /\ re' = NoRe
    /\ UNCHANGED <<job, text, which, live, sub, fault>>

\* No option: the text is returned as it is.
NoOption ==
    /\ pc = "key" /\ opt > Len(options)
    /\ pc' = "done"
    /\ UNCHANGED <<job, opt, re, text, which, live, sub, fault>>

\* A slip: what regexec() returns as a truth value.
TakeOptionNonzero ==
    /\ pc = "match" /\ ~Hit(Search(text, {}))
    /\ pc' = "act" /\ re' = NoRe
    /\ UNCHANGED <<job, opt, text, which, live, sub, fault>>
TakeOption ==
    /\ pc = "match" /\ Hit(Search(text, {}))
    /\ pc' = "act" /\ re' = NoRe
    /\ UNCHANGED <<job, opt, text, which, live, sub, fault>>

----------------------------------------------------------------------------
(* The heap: a new text takes the block that is free.                      *)

NewText(s) == /\ text' = s /\ which' = Other(which)
              /\ live' = (live \cup {Other(which)}) \ {which}
              /\ fault' = IF which \in live THEN fault ELSE "free"

Done(p) == /\ pc' = p /\ re' = NoRe /\ UNCHANGED <<job, opt>>

Replace ==
    /\ pc = "act" /\ function.k = "mapping" /\ option.mode = "replace"
    /\ NewText(option.out)
    /\ Done("done") /\ UNCHANGED sub

----------------------------------------------------------------------------
(* regex_subst(in, from, to).  m is the last match, in the text from        *)
(* `offset' on; r is the result, in a block of len + 1 characters.          *)

Calls(from, to) ==
    /\ sub' = [k |-> "subst", from |-> from, to |-> to, offset |-> 0, m |-> Null,
               len |-> 0, r |-> Null]
    /\ pc' = "subst"
    /\ UNCHANGED <<job, opt, re, text, which, live, fault>>

MapSubst == /\ pc = "act" /\ function.k = "mapping" /\ option.mode = "subst"
            /\ Calls(option.from, option.out)

Steps(p, s) == /\ pc' = p /\ sub' = s
               /\ UNCHANGED <<job, opt, text, which, fault>>

\* The special cases: a text is put in front, or at the end.
Special ==
    /\ pc = "subst" /\ IsSpecial(sub.from.p)
    /\ LET n == Len(text) + Len(sub.to)
       IN  Steps("return", [sub EXCEPT !.len = n,
                 !.r = IF sub.from.p = <<"^">> THEN sub.to \o text ELSE text \o sub.to])
    /\ live' = live \cup {Other(which)}
    /\ UNCHANGED re

CompileFrom ==
    /\ pc = "subst" /\ ~IsSpecial(sub.from.p)
    /\ re' = Regcomp(sub.from.p, {})
    /\ Steps("compiled", sub) /\ UNCHANGED live

\* A pattern that is none: null is returned.
BadFrom ==
    /\ pc = "compiled" /\ re.error # "OK"
    /\ Steps("return", sub) /\ UNCHANGED <<re, live>>

Measure ==
    /\ pc = "compiled" /\ re.error = "OK"
    /\ Steps("measure", [sub EXCEPT !.len = Len(text), !.m = Search(text, {})])
    /\ UNCHANGED <<re, live>>

\* Slips: the length of a match taken from the start of the text that was searched;
\* the offset set to that of the last match.
MeasureOneFromStart ==
    /\ pc = "measure" /\ Hit(sub.m)
    /\ LET offset == sub.offset + sub.m.eo
           s == [sub EXCEPT !.len = @ + Len(sub.to) - sub.m.eo]
       IN  IF sub.m.eo = 0 THEN Steps("measured", s)
           ELSE Steps("measure", [s EXCEPT !.offset = offset,
                         !.m = Search(From(text, offset), {"NOTBOL"})])
    /\ UNCHANGED <<re, live>>
MeasureOneStays ==
    /\ pc = "measure" /\ Hit(sub.m)
    /\ Steps("measure", [sub EXCEPT !.len = @ + Len(sub.to) - (sub.m.eo - sub.m.so),
                 !.offset = sub.m.eo, !.m = Search(From(text, sub.m.eo), {"NOTBOL"})])
    /\ UNCHANGED <<re, live>>

\* "first, accrue the length of the resulting string"
MeasureOne ==
    /\ pc = "measure" /\ Hit(sub.m)
    /\ LET offset == sub.offset + sub.m.eo
           s == [sub EXCEPT !.len = @ + Len(sub.to) - (sub.m.eo - sub.m.so)]
       IN  IF sub.m.eo = 0 THEN Steps("measured", s)
           ELSE Steps("measure", [s EXCEPT !.offset = offset,
                         !.m = Search(From(text, offset), {"NOTBOL"})])
    /\ UNCHANGED <<re, live>>

MeasureEnd == /\ pc = "measure" /\ ~Hit(sub.m)
              /\ Steps("measured", sub) /\ UNCHANGED <<re, live>>

\* "now, composite the resulting string".  If nothing matches, the place of the
\* match was never written, and any part of the text may be what comes of it.
Compose ==
    /\ pc = "measured"
    /\ LET m == Search(text, {})
       IN  \E n \in 0..Len(text) :
             /\ Hit(m) => n = m.so
             /\ Steps("compose", [sub EXCEPT !.offset = 0, !.m = m, !.r = Upto(text, n)])
    /\ live' = live \cup {Other(which)}
    /\ UNCHANGED re

\* A slip: the rest of the text is copied up to the end of the next match.
ComposeOneToEnd ==
    /\ pc = "compose" /\ Hit(sub.m)
    /\ LET offset == sub.offset + sub.m.eo
           rest == From(text, offset)
           m == Search(rest, {})
       IN  IF sub.m.eo = 0 THEN Steps("return", [sub EXCEPT !.r = @ \o sub.to])
           ELSE Steps("compose", [sub EXCEPT !.offset = offset, !.m = m,
                         !.r = @ \o sub.to \o (IF Hit(m) THEN Upto(rest, m.eo) ELSE rest)])
    /\ UNCHANGED <<re, live>>
ComposeOne ==
    /\ pc = "compose" /\ Hit(sub.m)
    /\ LET offset == sub.offset + sub.m.eo
           rest == From(text, offset)
           m == Search(rest, {})
           r == sub.r \o sub.to
       IN  IF sub.m.eo = 0 THEN Steps("return", [sub EXCEPT !.r = r])
           ELSE Steps("compose", [sub EXCEPT !.offset = offset, !.m = m,
                         !.r = r \o (IF Hit(m) THEN Upto(rest, m.so) ELSE rest)])
    /\ UNCHANGED <<re, live>>

ComposeEnd == /\ pc = "compose" /\ ~Hit(sub.m)
              /\ Steps("return", sub) /\ UNCHANGED <<re, live>>

\* A slip: the text that was searched is not freed.
SubstReturnsLeaks ==
    /\ pc = "return" /\ sub.r # Null
    /\ text' = sub.r /\ which' = Other(which)
    /\ UNCHANGED <<live, fault>>
    /\ Done("done") /\ sub' = NoSub

\* A mapping keeps its text if there is no result; a transformation does not.
SubstReturns ==
    /\ pc = "return"
    /\ IF sub.r # Null THEN NewText(sub.r)
       ELSE IF function.k = "mapping" THEN UNCHANGED <<text, which, live, fault>>
       ELSE /\ text' = Null /\ live' = live \ {which}
            /\ UNCHANGED <<which, fault>>
    /\ Done("done") /\ sub' = NoSub

----------------------------------------------------------------------------
(* apply_xform_cmd().  The grammar gives every option one command.          *)

cmd == option.cmd
Runs(name) == pc = "act" /\ function.k = "xform" /\ cmd.name = name

\* A slip: -1 taken for the last but one character.
addr_normaliseShort(addr, s) ==
    IF Len(s) = 0 THEN 0 ELSE (IF addr < 0 THEN addr - 1 ELSE addr) % Len(s)
addr_normalise(addr, s) ==
    IF Len(s) = 0 THEN 0 ELSE addr % Len(s)
from == IF cmd.addr = Null THEN 0 ELSE addr_normalise(cmd.addr[1], text)
to   == IF cmd.addr = Null THEN Len(text) - 1 ELSE addr_normalise(cmd.addr[2], text)

\* l and u, in place.
InPlace == Done("done") /\ UNCHANGED <<which, live, sub, fault>>
Lower ==
    /\ Runs("l") /\ InPlace
    /\ text' = [i \in DOMAIN text |-> IF i - 1 \in from..to THEN ToLower(text[i]) ELSE text[i]]
Upper ==
    /\ Runs("u") /\ InPlace
    /\ text' = [i \in DOMAIN text |-> IF i - 1 \in from..to THEN ToUpper(text[i]) ELSE text[i]]

\* d: strncpy() leaves a prefix unterminated, so that what the block held
\* before may come between it and the rest.
Junk == {<<>>, <<"?">>}
Delete ==
    /\ Runs("d")
    /\ \E junk \in Junk :
         /\ from = 0 => junk = <<>>
         /\ NewText(Upto(text, from) \o junk \o From(text, to + 1))
    /\ Done("done") /\ UNCHANGED sub

XformSubst == Runs("s") /\ Calls(cmd.params[1], cmd.params[2])

\* "ignoring undefined transformation"
Unknown == /\ pc = "act" /\ function.k = "xform" /\ cmd.name \notin {"d", "l", "s", "u"}
           /\ InPlace /\ UNCHANGED text

Next == \/ CompileKey \/ NextOption \/ NoOption \/ TakeOption \/ Replace \/ MapSubst
        \/ Special \/ CompileFrom \/ BadFrom \/ Measure \/ MeasureOne \/ MeasureEnd
        \/ Compose \/ ComposeOne \/ ComposeEnd \/ SubstReturns
        \/ Lower \/ Upper \/ Delete \/ XformSubst \/ Unknown

\* The caller goes on with the text.
Finished == pc = "done" /\ UNCHANGED vars

Spec == Init /\ [][Next \/ Finished]_vars

----------------------------------------------------------------------------
(* What a function and its text must be for the properties below, where    *)
(* the code looks at none of it.                                           *)

\* regex_subst() returns no text for a pattern that does not compile, and
\* apply_xform_cmd() hands that on.
PatternsCompile(j) ==
  j[2].k = "xform" =>
    \A p \in Froms(j[2]) : IsSpecial(p.p) \/ Regcomp(p.p, {}).error = "OK"
\* The pattern is not tied to the beginning of the text.
MatchesAnywhere(j) ==
  \A p \in Froms(j[2]) : \A n \in 1..Len(j[1]) :
    LET r == Regcomp(p.p, {})
        s == From(j[1], n)
    IN  ~IsSpecial(p.p) /\ r.error = "OK" => SearchFor(r, s, {}) = SearchFor(r, s, {"NOTBOL"})
\* The ends of a range lie within the text, and d begins at the start of it.
RangesWithin(j) ==
  j[2].k = "xform" =>
    \A i \in 1..Len(j[2].options) :
      LET c == j[2].options[i].cmd
          n == Len(j[1])
      IN  c.addr # Null =>
            /\ c.addr[1] \in (-n)..(n - 1) /\ c.addr[2] \in (-n)..(n - 1)
            /\ c.name = "d" => c.addr[1] \in {0, -n}

----------------------------------------------------------------------------
\* The two passes of regex_subst() match with different flags; what the second
\* one writes must still fit in the block whose size the first one worked out.
FitsBuffer == sub # NoSub /\ sub.r # Null => Len(sub.r) <= sub.len

\* The text that is handed in is handed back or freed, and what is handed back
\* is the one text that is left, whichever way the function returns.
OneText == /\ fault = "none"
           /\ pc = "done" => text # Null /\ live = {which}

\* A range is what the manual says: displacements from the start, or with -1
\* for the last character; nothing outside is touched.
Displaced(a, n) == IF a < 0 THEN n + a ELSE a
first == IF cmd.addr = Null THEN 0 ELSE Displaced(cmd.addr[1], Len(text))
last  == IF cmd.addr = Null THEN Len(text) - 1 ELSE Displaced(cmd.addr[2], Len(text))
Exactly ==
    CASE cmd.name = "d" -> text' = Upto(text, first) \o From(text, last + 1)
      [] cmd.name \in {"l", "u"} ->
           /\ Len(text') = Len(text)
           /\ \A i \in 1..Len(text) :
                text'[i] = IF i - 1 \notin first..last THEN text[i]
                           ELSE IF cmd.name = "l" THEN ToLower(text[i]) ELSE ToUpper(text[i])
      [] OTHER -> text' = text
RangeExact == [][pc = "act" /\ pc' = "done" /\ function.k = "xform" => Exactly]_vars

\* Every step moves on, to a later part of the program or in its loop: a match
\* that is not empty moves both passes of regex_subst() on, an empty one ends
\* them.  As the program stops at its end only, every application ends.
Parts == <<"key", "match", "act", "subst", "compiled", "measure", "measured", "compose", "return", "done">>
Part(p) == CHOOSE i \in DOMAIN Parts : Parts[i] = p
Onward == \/ Part(pc') > Part(pc)
          \/ pc = "match" /\ pc' = "key" /\ opt' > opt
          \/ pc' = pc /\ pc \in {"measure", "compose"} /\ sub'.offset \in (sub.offset + 1)..Len(text)
MovesOn == [][Onward]_vars
============================================================================
