---------------------------- MODULE SubstProofs ----------------------------
(***************************************************************************)
(* Proofs about mappings and transformations, whatever the functions, the  *)
(* texts and the library of regular expressions: how every application     *)
(* moves on to its end, what is left in the heap, what a range is, and     *)
(* that the two passes of regex_subst() agree on the length of the result. *)
(***************************************************************************)
EXTENDS Subst, Recursion

Start     == {"key", "match", "act"}
Matching  == {"measure", "measured", "compose"}
Searching == Matching \cup {"compiled"}
Within    == Searching \cup {"subst", "return"}

\* What the first pass finds in s from o on.
Found(r, s, o) == SearchFor(r, From(s, o), IF o = 0 THEN {} ELSE {"NOTBOL"})
\* A match is within the text that was searched.
InText(m, s) == Hit(m) => m.eo \in 0..Len(s) /\ m.so \in 0..m.eo
AllInText(r, s) == \A n \in 0..Len(s) : \A ef \in {{}, {"NOTBOL"}} :
                     InText(SearchFor(r, From(s, n), ef), From(s, n))

\* The variables of regex_subst() as a record, after an assignment to some.
SubRecord(u, o, m, l, r) ==
  [k |-> "subst", from |-> u.from, to |-> u.to, offset |-> o, m |-> m, len |-> l, r |-> r]

IsSub(u, f, s) ==
  /\ u = SubRecord(u, u.offset, u.m, u.len, u.r)
  /\ u.from \in Froms(f) /\ u.to \in Seq(Chars)
  /\ u.offset \in 0..Len(s) /\ u.len \in Int

JobInv ==
  /\ job \in Jobs /\ opt \in Nat \ {0}
  /\ pc \in Start \cup Within \cup {"done"}
  /\ pc \notin {"key", "done"} => opt <= Len(options)
  /\ pc # "done" => text = job[1]
SubInv ==
  /\ pc \notin Within => sub = NoSub
  /\ pc \in Within => IsSub(sub, function, text)
\* When there is a result; a search begins at the start.
ResultInv ==
  pc \in Within =>
    /\ sub.r \in Seq(Chars) \/ sub.r = Null
    /\ pc = "compose" => sub.r # Null
    /\ pc \notin {"compose", "return"} => sub.r = Null
    /\ pc \in {"subst", "compiled"} => sub.offset = 0
    /\ pc = "return" /\ sub.r = Null =>
         ~IsSpecial(sub.from.p) /\ Regcomp(sub.from.p, {}).error # "OK"
SearchInv ==
  /\ pc \in Searching => re = Regcomp(sub.from.p, {}) /\ ~IsSpecial(sub.from.p)
  /\ pc \in Matching => re.error = "OK"
  /\ pc = "measure" => sub.m = Found(re, text, sub.offset)
  /\ pc = "compose" => sub.m = SearchFor(re, From(text, sub.offset), {})
HeapInv ==
  /\ fault = "none" /\ which \in Blocks
  /\ pc \in Start => live = {which}
  /\ pc \in Within => live = IF sub.r = Null THEN {which} ELSE Blocks
  /\ pc = "done" /\ PatternsCompile(job) => live = {which} /\ text \in Seq(Chars)

Inv == JobInv /\ SubInv /\ ResultInv /\ SearchInv /\ HeapInv

----------------------------------------------------------------------------
(* Texts.                                                                  *)

\* A null pointer is not a text.
LEMMA NullIsNoText == Null \notin Seq(Chars)
  BY CharsAssumption DEF Null

\* The text from n on, and the text up to n.
LEMMA Parting ==
  ASSUME NEW S, NEW s \in Seq(S), NEW n \in 0..Len(s)
  PROVE  /\ From(s, n) \in Seq(S) /\ Len(From(s, n)) = Len(s) - n
         /\ Upto(s, n) \in Seq(S) /\ Len(Upto(s, n)) = n
  BY DEF From, Upto

\* All of a text.
LEMMA FromStart ==
  ASSUME NEW S, NEW s \in Seq(S)
  PROVE  From(s, 0) = s
  BY DEF From

\* Nothing is left at the end.
LEMMA FromEnd ==
  ASSUME NEW S, NEW s \in Seq(S)
  PROVE  From(s, Len(s)) = <<>>
  BY DEF From

\* There are two blocks.
LEMMA OtherBlock ==
  ASSUME NEW b \in Blocks
  PROVE  Other(b) \in Blocks /\ Other(b) # b /\ {b, Other(b)} = Blocks
  BY DEF Other, Blocks

\* While regex_subst() runs it has its variables.
LEMMA SubIsThere ==
  ASSUME NEW u, NEW f, NEW s, IsSub(u, f, s)
  PROVE  u # NoSub
  BY DEF IsSub, NoSub, SubRecord

----------------------------------------------------------------------------
(* The variables of regex_subst().                                         *)

\* What the record of its variables holds.
LEMMA SubFields ==
  ASSUME NEW u, NEW o, NEW m, NEW l, NEW r, NEW v, v = SubRecord(u, o, m, l, r)
  PROVE  v.from = u.from /\ v.to = u.to /\ v.offset = o /\ v.m = m /\ v.len = l /\ v.r = r
  BY DEF SubRecord

\* The assignments.
WithLenAndText(u, l, r) == [u EXCEPT !.len = l, !.r = r]
WithLenAndMatch(u, l, m) == [u EXCEPT !.len = l, !.m = m]
WithLen(u, l) == [u EXCEPT !.len = l]
WithText(u, r) == [u EXCEPT !.r = r]
WithNextMatch(u, l, o, m) == [[u EXCEPT !.len = l] EXCEPT !.offset = o, !.m = m]
WithMatchAndText(u, o, m, r) == [u EXCEPT !.offset = o, !.m = m, !.r = r]

\* len and r are assigned.
LEMMA LenAndTextAssigned ==
  ASSUME NEW u, u = SubRecord(u, u.offset, u.m, u.len, u.r), NEW l, NEW r
  PROVE  WithLenAndText(u, l, r) = SubRecord(u, u.offset, u.m, l, r)
  <1>1. PICK f, t, o0, m0, l0, r0 : u = [k |-> "subst", from |-> f, to |-> t, offset |-> o0, m |-> m0,
               len |-> l0, r |-> r0]
    BY DEF SubRecord
  <1>2. u.from = f /\ u.to = t /\ u.offset = o0 /\ u.m = m0 /\ u.len = l0 /\ u.r = r0
    BY <1>1
  <1> DEFINE a == [u EXCEPT !.len = l]
  <1>3. a = [k |-> "subst", from |-> f, to |-> t, offset |-> o0, m |-> m0,
               len |-> l, r |-> r0]
    BY <1>1
  <1> HIDE DEF a
  <1> DEFINE b == [a EXCEPT !.r = r]
  <1>4. b = [k |-> "subst", from |-> f, to |-> t, offset |-> o0, m |-> m0,
               len |-> l, r |-> r]
    BY <1>3
  <1> HIDE DEF b
  <1> QED
    BY <1>2, <1>4 DEF a, b, WithLenAndText, SubRecord

\* len and match are assigned.
LEMMA LenAndMatchAssigned ==
  ASSUME NEW u, u = SubRecord(u, u.offset, u.m, u.len, u.r), NEW l, NEW m
  PROVE  WithLenAndMatch(u, l, m) = SubRecord(u, u.offset, m, l, u.r)
  <1>1. PICK f, t, o0, m0, l0, r0 : u = [k |-> "subst", from |-> f, to |-> t, offset |-> o0, m |-> m0,
               len |-> l0, r |-> r0]
    BY DEF SubRecord
  <1>2. u.from = f /\ u.to = t /\ u.offset = o0 /\ u.m = m0 /\ u.len = l0 /\ u.r = r0
    BY <1>1
  <1> DEFINE a == [u EXCEPT !.len = l]
  <1>3. a = [k |-> "subst", from |-> f, to |-> t, offset |-> o0, m |-> m0,
               len |-> l, r |-> r0]
    BY <1>1
  <1> HIDE DEF a
  <1> DEFINE b == [a EXCEPT !.m = m]
  <1>4. b = [k |-> "subst", from |-> f, to |-> t, offset |-> o0, m |-> m,
               len |-> l, r |-> r0]
    BY <1>3
  <1> HIDE DEF b
  <1> QED
    BY <1>2, <1>4 DEF a, b, WithLenAndMatch, SubRecord

\* len is assigned.
LEMMA LenAssigned ==
  ASSUME NEW u, u = SubRecord(u, u.offset, u.m, u.len, u.r), NEW l
  PROVE  WithLen(u, l) = SubRecord(u, u.offset, u.m, l, u.r)
  <1>1. PICK f, t, o0, m0, l0, r0 : u = [k |-> "subst", from |-> f, to |-> t, offset |-> o0, m |-> m0,
               len |-> l0, r |-> r0]
    BY DEF SubRecord
  <1>2. u.from = f /\ u.to = t /\ u.offset = o0 /\ u.m = m0 /\ u.len = l0 /\ u.r = r0
    BY <1>1
  <1> DEFINE a == [u EXCEPT !.len = l]
  <1>3. a = [k |-> "subst", from |-> f, to |-> t, offset |-> o0, m |-> m0,
               len |-> l, r |-> r0]
    BY <1>1
  <1> HIDE DEF a
  <1> QED
    BY <1>2, <1>3 DEF a, WithLen, SubRecord

\* r is assigned.
LEMMA TextAssigned ==
  ASSUME NEW u, u = SubRecord(u, u.offset, u.m, u.len, u.r), NEW r
  PROVE  WithText(u, r) = SubRecord(u, u.offset, u.m, u.len, r)
  <1>1. PICK f, t, o0, m0, l0, r0 : u = [k |-> "subst", from |-> f, to |-> t, offset |-> o0, m |-> m0,
               len |-> l0, r |-> r0]
    BY DEF SubRecord
  <1>2. u.from = f /\ u.to = t /\ u.offset = o0 /\ u.m = m0 /\ u.len = l0 /\ u.r = r0
    BY <1>1
  <1> DEFINE a == [u EXCEPT !.r = r]
  <1>3. a = [k |-> "subst", from |-> f, to |-> t, offset |-> o0, m |-> m0,
               len |-> l0, r |-> r]
    BY <1>1
  <1> HIDE DEF a
  <1> QED
    BY <1>2, <1>3 DEF a, WithText, SubRecord

\* len is assigned, then offset and match.
LEMMA MatchAfterLenAssigned ==
  ASSUME NEW u, u = SubRecord(u, u.offset, u.m, u.len, u.r), NEW l, NEW o, NEW m
  PROVE  WithNextMatch(u, l, o, m) = SubRecord(u, o, m, l, u.r)
  <1>1. PICK f, t, o0, m0, l0, r0 : u = [k |-> "subst", from |-> f, to |-> t, offset |-> o0, m |-> m0,
               len |-> l0, r |-> r0]
    BY DEF SubRecord
  <1>2. u.from = f /\ u.to = t /\ u.offset = o0 /\ u.m = m0 /\ u.len = l0 /\ u.r = r0
    BY <1>1
  <1> DEFINE a == [u EXCEPT !.len = l]
  <1>3. a = [k |-> "subst", from |-> f, to |-> t, offset |-> o0, m |-> m0,
               len |-> l, r |-> r0]
    BY <1>1
  <1> HIDE DEF a
  <1> DEFINE b == [a EXCEPT !.offset = o]
  <1>4. b = [k |-> "subst", from |-> f, to |-> t, offset |-> o, m |-> m0,
               len |-> l, r |-> r0]
    BY <1>3
  <1> HIDE DEF b
  <1> DEFINE c == [b EXCEPT !.m = m]
  <1>5. c = [k |-> "subst", from |-> f, to |-> t, offset |-> o, m |-> m,
               len |-> l, r |-> r0]
    BY <1>4
  <1> HIDE DEF c
  <1> QED
    BY <1>2, <1>5 DEF a, b, c, WithNextMatch, SubRecord

\* offset, match and r are assigned.
LEMMA MatchAndTextAssigned ==
  ASSUME NEW u, u = SubRecord(u, u.offset, u.m, u.len, u.r), NEW o, NEW m, NEW r
  PROVE  WithMatchAndText(u, o, m, r) = SubRecord(u, o, m, u.len, r)
  <1>1. PICK f, t, o0, m0, l0, r0 : u = [k |-> "subst", from |-> f, to |-> t, offset |-> o0, m |-> m0,
               len |-> l0, r |-> r0]
    BY DEF SubRecord
  <1>2. u.from = f /\ u.to = t /\ u.offset = o0 /\ u.m = m0 /\ u.len = l0 /\ u.r = r0
    BY <1>1
  <1> DEFINE a == [u EXCEPT !.offset = o]
  <1>3. a = [k |-> "subst", from |-> f, to |-> t, offset |-> o, m |-> m0,
               len |-> l0, r |-> r0]
    BY <1>1
  <1> HIDE DEF a
  <1> DEFINE b == [a EXCEPT !.m = m]
  <1>4. b = [k |-> "subst", from |-> f, to |-> t, offset |-> o, m |-> m,
               len |-> l0, r |-> r0]
    BY <1>3
  <1> HIDE DEF b
  <1> DEFINE c == [b EXCEPT !.r = r]
  <1>5. c = [k |-> "subst", from |-> f, to |-> t, offset |-> o, m |-> m,
               len |-> l0, r |-> r]
    BY <1>4
  <1> HIDE DEF c
  <1> QED
    BY <1>2, <1>5 DEF a, b, c, WithMatchAndText, SubRecord

----------------------------------------------------------------------------
(* What the parser and the library promise.                                *)

\* A job is a text and a function with options.
LEMMA JobText ==
  ASSUME NEW j \in Jobs
  PROVE  /\ j[1] \in Seq(Chars) /\ j[2].k \in {"mapping", "xform"} /\ Len(j[2].options) \in Nat
         /\ \A i \in 1..Len(j[2].options) : IsOption(j[2].k, j[2].options[i])
  BY JobsAssumption DEF IsJob

\* Of its patterns every match lies within the text.
LEMMA PatternsInText ==
  ASSUME NEW j \in Jobs, NEW p \in Froms(j[2])
  PROVE  AllInText(Regcomp(p.p, {}), j[1])
  BY LibraryAssumption DEF AllInText, InText

\* The pattern of an option is one of those.
LEMMA FromIsPattern ==
  ASSUME NEW f, NEW i \in 1..Len(f.options), Substitutes(f, f.options[i])
  PROVE  PatternOf(f, f.options[i]) \in Froms(f)
  BY DEF Froms

----------------------------------------------------------------------------
(* The invariant is kept by every action.                                  *)

\* The text that a function is applied to.
LEMMA TextIsText ==
  ASSUME JobInv, pc # "done"
  PROVE  /\ text \in Seq(Chars) /\ text = job[1] /\ function.k \in {"mapping", "xform"}
         /\ Len(options) \in Nat /\ text # Null
  BY JobText, NullIsNoText DEF JobInv, function, options

\* The option that is carried out.
LEMMA OptionIsOption ==
  ASSUME JobInv, pc \notin {"key", "done"}
  PROVE  opt \in 1..Len(options) /\ IsOption(function.k, option)
  <1>1. opt \in 1..Len(options)
    BY TextIsText DEF JobInv
  <1> QED
    BY <1>1, JobText DEF JobInv, options, option, function

\* While there is a pattern in use, what it finds is within the text.
LEMMA SearchInText ==
  ASSUME JobInv, SubInv, pc \in Within
  PROVE  AllInText(Regcomp(sub.from.p, {}), text)
  <1>1. job \in Jobs /\ text = job[1] /\ sub.from \in Froms(job[2])
    BY DEF JobInv, SubInv, IsSub, Within, Searching, Matching, function
  <1> QED
    BY <1>1, PatternsInText

USE DEF Start, Matching, Searching, Within

\* The key of an option is compiled.
LEMMA CompileKeyKeeps ==
  ASSUME Inv, CompileKey
  PROVE  Inv'
  BY DEF Inv, JobInv, SubInv, ResultInv, SearchInv, HeapInv, CompileKey, options, function

\* The key is not found.
LEMMA NextOptionKeeps ==
  ASSUME Inv, NextOption
  PROVE  Inv'
  BY DEF Inv, JobInv, SubInv, ResultInv, SearchInv, HeapInv, NextOption, options, function

\* There are no options left.
LEMMA NoOptionKeeps ==
  ASSUME Inv, NoOption
  PROVE  Inv'
  <1>1. text \in Seq(Chars)
    BY TextIsText DEF Inv, NoOption
  <1> QED
    BY <1>1 DEF Inv, JobInv, SubInv, ResultInv, SearchInv, HeapInv, NoOption

\* The key is found.
LEMMA TakeOptionKeeps ==
  ASSUME Inv, TakeOption
  PROVE  Inv'
  BY DEF Inv, JobInv, SubInv, ResultInv, SearchInv, HeapInv, TakeOption, options, function

\* A new text takes the place of the one there is.
LEMMA NewTextKeeps ==
  ASSUME Inv, NEW s \in Seq(Chars), NewText(s), Done("done"), pc # "done", sub' = NoSub
  PROVE  Inv'
  <1>1. which \in Blocks /\ which \in live /\ live \subseteq Blocks /\ fault = "none"
    BY DEF Inv, JobInv, HeapInv, Blocks
  <1>2. fault' = "none" /\ which' \in Blocks /\ live' = {which'}
    BY <1>1, OtherBlock DEF NewText
  <1> QED
    BY <1>2 DEF Inv, JobInv, SubInv, ResultInv, SearchInv, HeapInv, NewText, Done

\* A mapping replaces the text.
LEMMA ReplaceKeeps ==
  ASSUME Inv, Replace
  PROVE  Inv'
  <1>1. option.out \in Seq(Chars)
    BY OptionIsOption DEF Inv, Replace, IsOption
  <1>2. sub' = NoSub
    BY DEF Inv, SubInv, Replace
  <1> QED
    BY <1>1, <1>2, NewTextKeeps DEF Replace

\* regex_subst() is entered.
LEMMA CallsKeeps ==
  ASSUME Inv, pc = "act", NEW p \in Froms(function), NEW t \in Seq(Chars), Calls(p, t)
  PROVE  Inv'
  <1>1. Len(text) \in Nat
    BY TextIsText DEF Inv
  <1>2. /\ sub' = [k |-> "subst", from |-> p, to |-> t, offset |-> 0, m |-> Null,
                   len |-> 0, r |-> Null]
        /\ pc' = "subst" /\ UNCHANGED <<job, opt, re, text, which, live, fault>>
    BY DEF Calls
  <1>3. IsSub(sub', function, text)
    BY <1>1, <1>2 DEF IsSub, SubRecord
  <1>4. SubInv'
    BY <1>2, <1>3 DEF SubInv, IsSub, function
  <1>5. JobInv' /\ ResultInv' /\ SearchInv' /\ HeapInv'
    BY <1>2 DEF Inv, JobInv, ResultInv, SearchInv, HeapInv, options, function
  <1> QED
    BY <1>4, <1>5 DEF Inv

\* A mapping calls regex_subst().
LEMMA MapSubstKeeps ==
  ASSUME Inv, MapSubst
  PROVE  Inv'
  <1>1. opt \in 1..Len(options) /\ IsOption(function.k, option) /\ Substitutes(function, option)
    BY OptionIsOption DEF Inv, MapSubst, Substitutes
  <1>2. option.from \in Froms(function)
    BY <1>1, FromIsPattern DEF MapSubst, PatternOf, option, options
  <1>3. option.out \in Seq(Chars)
    BY <1>1 DEF IsOption, MapSubst
  <1> QED
    BY <1>2, <1>3, CallsKeeps DEF MapSubst

\* A transformation calls regex_subst().
LEMMA XformSubstKeeps ==
  ASSUME Inv, XformSubst
  PROVE  Inv'
  <1>1. pc = "act" /\ function.k = "xform" /\ cmd.name = "s" /\ Calls(cmd.params[1], cmd.params[2])
    BY DEF XformSubst, Runs
  <1>2. opt \in 1..Len(options) /\ IsOption(function.k, option) /\ Substitutes(function, option)
    BY <1>1, OptionIsOption DEF Inv, Substitutes, cmd
  <1>3. cmd.params[1] \in Froms(function)
    BY <1>1, <1>2, FromIsPattern DEF PatternOf, option, options, cmd
  <1>4. cmd.params[2] \in Seq(Chars)
    BY <1>1, <1>2 DEF IsOption, cmd
  <1> QED
    BY <1>1, <1>3, <1>4, CallsKeeps

\* A step within regex_subst(), that may allocate the result.
LEMMA WithinKeeps ==
  ASSUME Inv, pc \in Within, NEW p \in Within, NEW o \in 0..Len(text), NEW m, NEW l \in Int, NEW r,
         Steps(p, SubRecord(sub, o, m, l, r)),
         live' = IF r = Null THEN live ELSE Blocks, r = Null => sub.r = Null
  PROVE  JobInv' /\ SubInv' /\ HeapInv'
  <1> DEFINE u == SubRecord(sub, o, m, l, r)
  <1>1. pc' = p /\ sub' = u /\ UNCHANGED <<job, opt, text, which, fault>>
    BY DEF Steps
  <1>2. JobInv'
    BY <1>1 DEF Inv, JobInv, options, function
  <1>3. IsSub(sub, function, text)
    BY DEF Inv, SubInv
  <1>4. u.from = sub.from /\ u.to = sub.to /\ u.offset = o /\ u.m = m /\ u.len = l /\ u.r = r
    BY SubFields
  <1>5. IsSub(u, function, text)
    <2>1. u = SubRecord(u, u.offset, u.m, u.len, u.r)
      BY <1>4 DEF SubRecord
    <2> HIDE DEF u
    <2> QED
      BY <1>3, <1>4, <2>1 DEF IsSub
  <1> HIDE DEF u
  <1>6. SubInv'
    BY <1>1, <1>5 DEF SubInv, IsSub, function
  <1>7. HeapInv'
    BY <1>1, <1>4 DEF Inv, HeapInv
  <1> QED
    BY <1>2, <1>6, <1>7

\* Prepending and appending.
LEMMA SpecialKeeps ==
  ASSUME Inv, Special
  PROVE  Inv'
  <1>1. /\ pc = "subst" /\ IsSpecial(sub.from.p) /\ IsSub(sub, function, text)
        /\ sub = SubRecord(sub, sub.offset, sub.m, sub.len, sub.r)
        /\ sub.r = Null /\ sub.offset \in 0..Len(text)
    BY DEF Special, Inv, SubInv, ResultInv, IsSub
  <1>2. text \in Seq(Chars) /\ sub.to \in Seq(Chars)
    BY <1>1, TextIsText DEF Inv, IsSub
  <1> DEFINE l == Len(text) + Len(sub.to)
  <1>3. PICK r \in Seq(Chars) : Steps("return", [sub EXCEPT !.len = l, !.r = r])
    <2>1. sub.to \o text \in Seq(Chars) /\ text \o sub.to \in Seq(Chars)
      BY <1>2
    <2> QED
      BY <2>1 DEF Special
  <1>4. l \in Int
    BY <1>2
  <1> HIDE DEF l
  <1>5. Steps("return", SubRecord(sub, sub.offset, sub.m, l, r))
    <2>1. WithLenAndText(sub, l, r) = SubRecord(sub, sub.offset, sub.m, l, r)
      BY <1>1, LenAndTextAssigned
    <2> QED
      BY <1>3, <2>1 DEF WithLenAndText
  <1>6. live' = Blocks /\ r # Null
    BY <1>1, <1>3, OtherBlock, NullIsNoText DEF Special, Inv, HeapInv
  <1>7. JobInv' /\ SubInv' /\ HeapInv'
    BY <1>1, <1>4, <1>5, <1>6, WithinKeeps
  <1>8. pc' = "return" /\ sub'.r = r
    BY <1>5, SubFields DEF Steps
  <1>9. ResultInv' /\ SearchInv'
    BY <1>6, <1>8 DEF ResultInv, SearchInv
  <1> QED
    BY <1>7, <1>9 DEF Inv

\* The pattern is compiled.
LEMMA CompileFromKeeps ==
  ASSUME Inv, CompileFrom
  PROVE  Inv'
  BY DEF Inv, JobInv, SubInv, ResultInv, SearchInv, HeapInv, CompileFrom, Steps, options, function

\* The pattern does not compile.
LEMMA BadFromKeeps ==
  ASSUME Inv, BadFrom
  PROVE  Inv'
  <1>1. pc = "compiled" /\ pc' = "return" /\ UNCHANGED <<job, opt, text, which, live, sub, fault, re>>
    BY DEF BadFrom, Steps
  <1>2. ~IsSpecial(sub.from.p) /\ Regcomp(sub.from.p, {}).error # "OK"
    BY DEF BadFrom, Inv, SearchInv
  <1>3. JobInv' /\ SubInv' /\ HeapInv'
    BY <1>1 DEF Inv, JobInv, SubInv, HeapInv, options, function
  <1>4. ResultInv' /\ SearchInv'
    BY <1>1, <1>2 DEF Inv, ResultInv, SearchInv
  <1> QED
    BY <1>3, <1>4 DEF Inv

\* The first search of the first pass.
LEMMA MeasureKeeps ==
  ASSUME Inv, Measure
  PROVE  Inv'
  <1>1. /\ pc = "compiled" /\ re.error = "OK" /\ re' = re /\ live' = live
        /\ sub = SubRecord(sub, sub.offset, sub.m, sub.len, sub.r)
        /\ sub.r = Null /\ sub.offset = 0 /\ sub.offset \in 0..Len(text)
        /\ Steps("measure", [sub EXCEPT !.len = Len(text), !.m = Search(text, {})])
    BY DEF Measure, Inv, SubInv, ResultInv, IsSub
  <1>2. text \in Seq(Chars)
    BY <1>1, TextIsText DEF Inv
  <1> DEFINE m == Search(text, {})
             l == Len(text)
  <1>3. l \in Int /\ m = Found(re, text, 0)
    BY <1>2, FromStart DEF Found, Search
  <1> HIDE DEF m, l
  <1>4. Steps("measure", SubRecord(sub, sub.offset, m, l, sub.r))
    <2>1. WithLenAndMatch(sub, l, m) = SubRecord(sub, sub.offset, m, l, sub.r)
      BY <1>1, LenAndMatchAssigned
    <2> QED
      BY <1>1, <2>1 DEF WithLenAndMatch, m, l
  <1>5. JobInv' /\ SubInv' /\ HeapInv'
    BY <1>1, <1>3, <1>4, WithinKeeps
  <1>6. /\ pc' = "measure" /\ text' = text /\ sub'.r = sub.r /\ sub'.offset = 0
        /\ sub'.m = m /\ sub'.from = sub.from
    <2>1. sub' = SubRecord(sub, sub.offset, m, l, sub.r)
      BY <1>4 DEF Steps
    <2> QED
      <3>1. sub'.r = sub.r /\ sub'.offset = sub.offset /\ sub'.m = m /\ sub'.from = sub.from
        BY <2>1, SubFields
      <3>2. pc' = "measure" /\ text' = text
        BY <1>4 DEF Steps
      <3> QED
        BY <1>1, <3>1, <3>2
  <1>7. ResultInv'
    BY <1>1, <1>6 DEF ResultInv
  <1>8. SearchInv'
    BY <1>1, <1>3, <1>6 DEF Inv, SearchInv
  <1> QED
    BY <1>5, <1>7, <1>8 DEF Inv

\* What there is while a pattern is searched for; a match lies within the text.
LEMMA WhileSearching ==
  ASSUME Inv, pc \in Matching
  PROVE  /\ sub = SubRecord(sub, sub.offset, sub.m, sub.len, sub.r)
         /\ text \in Seq(Chars) /\ sub.to \in Seq(Chars) /\ sub.len \in Int
         /\ sub.offset \in 0..Len(text)
         /\ re = Regcomp(sub.from.p, {}) /\ AllInText(re, text)
  <1>1. IsSub(sub, function, text)
    BY DEF Inv, SubInv
  <1>2. AllInText(Regcomp(sub.from.p, {}), text)
    BY SearchInText DEF Inv
  <1> QED
    BY <1>1, <1>2, TextIsText DEF Inv, SearchInv, IsSub

\* The match at hand lies within the text, and so does what follows it.
LEMMA MatchWithin ==
  ASSUME Inv, pc \in {"measure", "compose"}, Hit(sub.m)
  PROVE  /\ sub.m.eo \in 0..Len(From(text, sub.offset)) /\ sub.m.so \in 0..sub.m.eo
         /\ sub.offset + sub.m.eo \in 0..Len(text) /\ sub.m.eo \in Nat /\ sub.m.so \in Nat
  <1>1. /\ text \in Seq(Chars) /\ sub.offset \in 0..Len(text) /\ AllInText(re, text)
    BY WhileSearching
  <1>2. PICK ef \in {{}, {"NOTBOL"}} : sub.m = SearchFor(re, From(text, sub.offset), ef)
    BY DEF Inv, SearchInv, Found
  <1>3. InText(sub.m, From(text, sub.offset))
    BY <1>1, <1>2 DEF AllInText
  <1>4. Len(From(text, sub.offset)) = Len(text) - sub.offset
    BY <1>1, Parting
  <1> QED
    BY <1>1, <1>3, <1>4 DEF InText

\* Past the match, the length up to there, and what is found next.
next == sub.offset + sub.m.eo
grown == sub.len + Len(sub.to) - (sub.m.eo - sub.m.so)
measure == SearchFor(re, From(text, next), {"NOTBOL"})

\* One round of the first loop.
LEMMA MeasureOneIs ==
  ASSUME Inv, MeasureOne
  PROVE  /\ pc = "measure" /\ Hit(sub.m) /\ re' = re /\ live' = live
         /\ sub.m.eo \in Nat /\ sub.m.so \in Nat /\ next \in 0..Len(text) /\ grown \in Int
         /\ IF sub.m.eo = 0 THEN Steps("measured", SubRecord(sub, sub.offset, sub.m, grown, sub.r))
            ELSE Steps("measure", SubRecord(sub, next, measure, grown, sub.r))
  <1>1. /\ pc = "measure" /\ Hit(sub.m) /\ re' = re /\ live' = live
        /\ IF sub.m.eo = 0 THEN Steps("measured", [sub EXCEPT !.len = grown])
           ELSE Steps("measure", [[sub EXCEPT !.len = grown] EXCEPT !.offset = next, !.m = measure])
    BY DEF MeasureOne, Search, next, grown, measure
  <1>2. /\ sub = SubRecord(sub, sub.offset, sub.m, sub.len, sub.r)
        /\ sub.to \in Seq(Chars) /\ sub.len \in Int
    BY <1>1, WhileSearching
  <1>3. sub.m.eo \in Nat /\ sub.m.so \in Nat /\ next \in 0..Len(text)
    BY <1>1, MatchWithin DEF next
  <1>4. grown \in Int
    BY <1>2, <1>3 DEF grown
  <1>5. WithLen(sub, grown) = SubRecord(sub, sub.offset, sub.m, grown, sub.r)
    BY <1>2, LenAssigned
  <1>6. WithNextMatch(sub, grown, next, measure) = SubRecord(sub, next, measure, grown, sub.r)
    BY <1>2, MatchAfterLenAssigned
  <1> QED
    BY <1>1, <1>3, <1>4, <1>5, <1>6 DEF WithLen, WithNextMatch

\* One match is measured.
LEMMA MeasureOneKeeps ==
  ASSUME Inv, MeasureOne
  PROVE  Inv'
  <1>1. /\ pc = "measure" /\ Hit(sub.m) /\ re' = re /\ live' = live
        /\ sub.m.eo \in Nat /\ sub.m.so \in Nat /\ next \in 0..Len(text) /\ grown \in Int
        /\ IF sub.m.eo = 0 THEN Steps("measured", SubRecord(sub, sub.offset, sub.m, grown, sub.r))
           ELSE Steps("measure", SubRecord(sub, next, measure, grown, sub.r))
    BY MeasureOneIs
  <1>2. /\ sub = SubRecord(sub, sub.offset, sub.m, sub.len, sub.r) /\ sub.offset \in 0..Len(text)
    BY <1>1, WhileSearching
  <1>3. sub.r = Null
    BY <1>1 DEF Inv, ResultInv
  <1>4. CASE sub.m.eo = 0
    <2>1. Steps("measured", SubRecord(sub, sub.offset, sub.m, grown, sub.r))
      BY <1>1, <1>4
    <2>2. JobInv' /\ SubInv' /\ HeapInv'
      BY <1>1, <1>2, <1>3, <2>1, WithinKeeps
    <2>3. sub' = SubRecord(sub, sub.offset, sub.m, grown, sub.r) /\ pc' = "measured"
      BY <2>1 DEF Steps
    <2>4. sub'.r = sub.r /\ sub'.from = sub.from
      BY <2>3, SubFields
    <2>5. ResultInv' /\ SearchInv'
      BY <1>1, <1>3, <2>3, <2>4 DEF Inv, ResultInv, SearchInv
    <2> QED
      BY <2>2, <2>5 DEF Inv
  <1>5. CASE sub.m.eo # 0
    <2>1. Steps("measure", SubRecord(sub, next, measure, grown, sub.r))
      BY <1>1, <1>5
    <2>2. JobInv' /\ SubInv' /\ HeapInv'
      BY <1>1, <1>3, <2>1, WithinKeeps
    <2>3. sub' = SubRecord(sub, next, measure, grown, sub.r) /\ pc' = "measure" /\ text' = text
      BY <2>1 DEF Steps
    <2>4. sub'.r = sub.r /\ sub'.from = sub.from /\ sub'.m = measure /\ sub'.offset = next
      BY <2>3, SubFields
    <2>5. ResultInv'
      BY <1>3, <2>3, <2>4 DEF ResultInv
    <2>6. measure = Found(re, text, next)
      BY <1>1, <1>2, <1>5 DEF Found, measure, next
    <2>7. SearchInv'
      BY <1>1, <2>3, <2>4, <2>6 DEF Inv, SearchInv
    <2> QED
      BY <2>2, <2>5, <2>7 DEF Inv
  <1> QED
    BY <1>4, <1>5

\* The first loop ends.
LEMMA MeasureEndKeeps ==
  ASSUME Inv, MeasureEnd
  PROVE  Inv'
  BY DEF Inv, JobInv, SubInv, ResultInv, SearchInv, HeapInv, MeasureEnd, Steps, options, function

\* The block is allocated, and the second pass begins.
LEMMA ComposeKeeps ==
  ASSUME Inv, Compose
  PROVE  Inv'
  <1> DEFINE m == SearchFor(re, text, {})
  <1>1. PICK n \in 0..Len(text) :
          Steps("compose", [sub EXCEPT !.offset = 0, !.m = m, !.r = Upto(text, n)])
    BY DEF Compose, Search
  <1>2. pc = "measured" /\ live' = live \cup {Other(which)} /\ re' = re
    BY DEF Compose
  <1>3. /\ sub = SubRecord(sub, sub.offset, sub.m, sub.len, sub.r)
        /\ text \in Seq(Chars) /\ sub.len \in Int
    BY <1>2, WhileSearching
  <1> DEFINE r == Upto(text, n)
  <1>4. r \in Seq(Chars) /\ r # Null
    BY <1>3, Parting, NullIsNoText
  <1>5. m = SearchFor(re, From(text, 0), {})
    BY <1>3, FromStart
  <1> HIDE DEF m, r
  <1>6. WithMatchAndText(sub, 0, m, r) = SubRecord(sub, 0, m, sub.len, r)
    BY <1>3, MatchAndTextAssigned
  <1>7. Steps("compose", SubRecord(sub, 0, m, sub.len, r))
    BY <1>1, <1>6 DEF r, WithMatchAndText
  <1>8. live' = Blocks /\ 0 \in 0..Len(text)
    BY <1>2, <1>3, OtherBlock DEF Inv, ResultInv, HeapInv
  <1>9. JobInv' /\ SubInv' /\ HeapInv'
    BY <1>2, <1>3, <1>4, <1>7, <1>8, WithinKeeps
  <1>10. sub' = SubRecord(sub, 0, m, sub.len, r) /\ pc' = "compose" /\ text' = text
    BY <1>7 DEF Steps
  <1>11. sub'.r = r /\ sub'.from = sub.from /\ sub'.m = m /\ sub'.offset = 0
    BY <1>10, SubFields
  <1>12. ResultInv'
    BY <1>4, <1>10, <1>11 DEF ResultInv
  <1>13. SearchInv'
    BY <1>2, <1>5, <1>10, <1>11 DEF Inv, SearchInv
  <1> QED
    BY <1>9, <1>12, <1>13 DEF Inv

\* What is found next by the second pass, and the result up to there.
rest == From(text, next)
found == SearchFor(re, rest, {})
between == IF Hit(found) THEN Upto(rest, found.so) ELSE rest
replaced == sub.r \o sub.to
composed == replaced \o between

\* One round of the second loop.
LEMMA ComposeOneIs ==
  ASSUME Inv, ComposeOne
  PROVE  /\ pc = "compose" /\ Hit(sub.m) /\ re' = re /\ live' = live
         /\ next \in 0..Len(text) /\ Len(rest) = Len(text) - next
         /\ InText(found, rest) /\ between \in Seq(Chars)
         /\ Hit(found) => found.so \in 0..Len(rest) /\ Len(between) = found.so
         /\ replaced \in Seq(Chars) /\ replaced # Null
         /\ composed \in Seq(Chars) /\ composed # Null
         /\ IF sub.m.eo = 0 THEN Steps("return", SubRecord(sub, sub.offset, sub.m, sub.len, replaced))
            ELSE Steps("compose", SubRecord(sub, next, found, sub.len, composed))
  <1>1. /\ pc = "compose" /\ Hit(sub.m) /\ re' = re /\ live' = live
        /\ IF sub.m.eo = 0 THEN Steps("return", [sub EXCEPT !.r = replaced])
           ELSE Steps("compose", [sub EXCEPT !.offset = next, !.m = found, !.r = composed])
    BY DEF ComposeOne, Search, next, rest, found, between, replaced, composed
  <1>2. /\ sub = SubRecord(sub, sub.offset, sub.m, sub.len, sub.r) /\ text \in Seq(Chars)
        /\ sub.to \in Seq(Chars) /\ AllInText(re, text)
    BY <1>1, WhileSearching
  <1>3. next \in 0..Len(text)
    BY <1>1, MatchWithin DEF next
  <1>4. sub.r \in Seq(Chars) /\ sub.r # Null
    BY <1>1 DEF Inv, ResultInv
  <1>5. replaced \in Seq(Chars)
    BY <1>2, <1>4 DEF replaced
  <1>6. rest \in Seq(Chars) /\ Len(rest) = Len(text) - next /\ Len(rest) \in Nat
    BY <1>2, <1>3, Parting DEF rest
  <1>7. InText(found, rest)
    BY <1>2, <1>3 DEF AllInText, found, rest
  <1>8. Hit(found) => found.so \in 0..Len(rest)
    BY <1>6, <1>7 DEF InText
  <1>9. Hit(found) => Upto(rest, found.so) \in Seq(Chars) /\ Len(Upto(rest, found.so)) = found.so
    BY <1>6, <1>8, Parting
  <1>10. between \in Seq(Chars) /\ (Hit(found) => Len(between) = found.so)
    BY <1>6, <1>9 DEF between
  <1>11. composed \in Seq(Chars)
    BY <1>5, <1>10 DEF composed
  <1>12. replaced # Null /\ composed # Null
    BY <1>5, <1>11, NullIsNoText
  <1>13. WithText(sub, replaced) = SubRecord(sub, sub.offset, sub.m, sub.len, replaced)
    BY <1>2, TextAssigned
  <1>14. WithMatchAndText(sub, next, found, composed) = SubRecord(sub, next, found, sub.len, composed)
    BY <1>2, MatchAndTextAssigned
  <1>15. IF sub.m.eo = 0 THEN Steps("return", SubRecord(sub, sub.offset, sub.m, sub.len, replaced))
         ELSE Steps("compose", SubRecord(sub, next, found, sub.len, composed))
    BY <1>1, <1>13, <1>14 DEF WithText, WithMatchAndText
  <1> QED
    BY <1>1, <1>3, <1>5, <1>6, <1>7, <1>8, <1>10, <1>11, <1>12, <1>15

\* One match is replaced.
LEMMA ComposeOneKeeps ==
  ASSUME Inv, ComposeOne
  PROVE  Inv'
  <1>1. /\ pc = "compose" /\ Hit(sub.m) /\ re' = re /\ live' = live /\ next \in 0..Len(text)
        /\ replaced \in Seq(Chars) /\ replaced # Null
        /\ composed \in Seq(Chars) /\ composed # Null
        /\ IF sub.m.eo = 0 THEN Steps("return", SubRecord(sub, sub.offset, sub.m, sub.len, replaced))
           ELSE Steps("compose", SubRecord(sub, next, found, sub.len, composed))
    BY ComposeOneIs
  <1>2. sub.len \in Int /\ sub.offset \in 0..Len(text)
    BY <1>1, WhileSearching
  <1>3. live' = Blocks
    BY <1>1 DEF Inv, ResultInv, HeapInv
  <1>4. CASE sub.m.eo = 0
    <2>1. Steps("return", SubRecord(sub, sub.offset, sub.m, sub.len, replaced))
      BY <1>1, <1>4
    <2>2. JobInv' /\ SubInv' /\ HeapInv'
      BY <1>1, <1>2, <1>3, <2>1, WithinKeeps
    <2>3. sub' = SubRecord(sub, sub.offset, sub.m, sub.len, replaced) /\ pc' = "return"
      BY <2>1 DEF Steps
    <2>4. sub'.r = replaced
      BY <2>3, SubFields
    <2>5. ResultInv' /\ SearchInv'
      BY <1>1, <2>3, <2>4 DEF ResultInv, SearchInv
    <2> QED
      BY <2>2, <2>5 DEF Inv
  <1>5. CASE sub.m.eo # 0
    <2>1. Steps("compose", SubRecord(sub, next, found, sub.len, composed))
      BY <1>1, <1>5
    <2>2. JobInv' /\ SubInv' /\ HeapInv'
      BY <1>1, <1>2, <1>3, <2>1, WithinKeeps
    <2>3. /\ sub' = SubRecord(sub, next, found, sub.len, composed) /\ pc' = "compose"
          /\ text' = text
      BY <2>1 DEF Steps
    <2>4. sub'.r = composed /\ sub'.from = sub.from /\ sub'.m = found /\ sub'.offset = next
      BY <2>3, SubFields
    <2>5. ResultInv'
      BY <1>1, <2>3, <2>4 DEF ResultInv
    <2>6. found = SearchFor(re, From(text, next), {})
      BY DEF found, rest
    <2>7. SearchInv'
      BY <1>1, <2>3, <2>4, <2>6 DEF Inv, SearchInv
    <2> QED
      BY <2>2, <2>5, <2>7 DEF Inv
  <1> QED
    BY <1>4, <1>5

\* The second loop ends.
LEMMA ComposeEndKeeps ==
  ASSUME Inv, ComposeEnd
  PROVE  Inv'
  BY DEF Inv, JobInv, SubInv, ResultInv, SearchInv, HeapInv, ComposeEnd, Steps, options, function

\* regex_subst() returns.
LEMMA SubstReturnsKeeps ==
  ASSUME Inv, SubstReturns
  PROVE  Inv'
  <1>1. pc = "return" /\ Done("done") /\ sub' = NoSub
    BY DEF SubstReturns
  <1>2. CASE sub.r # Null
    <2>1. sub.r \in Seq(Chars) /\ NewText(sub.r)
      BY <1>1, <1>2 DEF SubstReturns, Inv, ResultInv
    <2> QED
      BY <1>1, <2>1, NewTextKeeps
  <1>3. CASE sub.r = Null
    <2>1. live = {which} /\ fault = "none" /\ which \in Blocks
      BY <1>1, <1>3 DEF Inv, HeapInv
    <2>2. /\ ~IsSpecial(sub.from.p) /\ Regcomp(sub.from.p, {}).error # "OK"
          /\ sub.from \in Froms(job[2])
      BY <1>1, <1>3 DEF Inv, ResultInv, SubInv, IsSub, function
    <2>3. text \in Seq(Chars) /\ function.k \in {"mapping", "xform"}
      BY <1>1, TextIsText DEF Inv
    <2>4. PatternsCompile(job) => function.k = "mapping"
      BY <2>2, <2>3 DEF PatternsCompile, function
    <2>5. fault' = "none" /\ which' = which
      BY <1>3, <2>1 DEF SubstReturns
    <2>6. PatternsCompile(job) => live' = {which} /\ text' \in Seq(Chars)
      BY <1>3, <2>1, <2>3, <2>4 DEF SubstReturns
    <2>7. HeapInv'
      BY <1>1, <2>1, <2>5, <2>6 DEF HeapInv, Done
    <2>8. JobInv' /\ SubInv' /\ ResultInv' /\ SearchInv'
      BY <1>1 DEF Inv, JobInv, SubInv, ResultInv, SearchInv, Done
    <2> QED
      BY <2>7, <2>8 DEF Inv
  <1> QED
    BY <1>2, <1>3

----------------------------------------------------------------------------
(* The commands of transformations.                                        *)

\* The remainder, and that it is the displacement of the manual for an address within the text.
LEMMA Remainder ==
  ASSUME NEW a \in Int, NEW n \in Nat \ {0}
  PROVE  /\ a % n \in 0..(n - 1)
         /\ a \in (-n)..(n - 1) => a % n = Displaced(a, n)
  BY DEF Displaced

\* What is left of a text beyond its end is a text, too.
LEMMA FromAny ==
  ASSUME NEW S, NEW s \in Seq(S), NEW n \in Nat
  PROVE  From(s, n) \in Seq(S)
  BY DEF From

\* The range begins within the text or at its end; what follows it begins at a natural number.
LEMMA RangeEnds ==
  ASSUME JobInv, pc = "act", function.k = "xform"
  PROVE  from \in 0..Len(text) /\ to + 1 \in Nat
  <1>1. text \in Seq(Chars) /\ Len(text) \in Nat
    BY TextIsText
  <1>2. cmd.addr # Null => cmd.addr[1] \in Int /\ cmd.addr[2] \in Int
    BY OptionIsOption DEF IsOption, cmd
  <1>3. CASE cmd.addr = Null
    BY <1>1, <1>3 DEF from, to
  <1>4. CASE cmd.addr # Null
    <2>1. \A a \in Int : addr_normalise(a, text) \in 0..Len(text)
      <3> SUFFICES ASSUME NEW a \in Int PROVE addr_normalise(a, text) \in 0..Len(text)
        OBVIOUS
      <3>1. Len(text) # 0 => a % Len(text) \in 0..(Len(text) - 1)
        BY <1>1, Remainder
      <3> QED
        BY <1>1, <3>1 DEF addr_normalise
    <2>2. addr_normalise(cmd.addr[1], text) \in 0..Len(text) /\ addr_normalise(cmd.addr[2], text) \in 0..Len(text)
      BY <1>2, <1>4, <2>1
    <2> QED
      BY <1>1, <1>4, <2>2 DEF from, to
  <1> QED
    BY <1>3, <1>4

\* The text is changed in place.
LEMMA InPlaceKeeps ==
  ASSUME Inv, pc = "act", InPlace, text' \in Seq(Chars)
  PROVE  Inv'
  <1>1. /\ pc' = "done" /\ re' = NoRe
        /\ UNCHANGED <<job, opt, which, live, sub, fault>>
    BY DEF InPlace, Done
  <1> QED
    BY <1>1 DEF Inv, JobInv, SubInv, ResultInv, SearchInv, HeapInv

\* The range in lower case.
LEMMA LowerKeeps ==
  ASSUME Inv, Lower
  PROVE  Inv'
  <1>1. pc = "act" /\ InPlace
    BY DEF Lower, Runs
  <1>2. text \in Seq(Chars)
    BY <1>1, TextIsText DEF Inv
  <1>3. text' \in Seq(Chars)
    BY <1>2, CharsAssumption DEF Lower
  <1> QED
    BY <1>1, <1>3, InPlaceKeeps

\* The range in upper case.
LEMMA UpperKeeps ==
  ASSUME Inv, Upper
  PROVE  Inv'
  <1>1. pc = "act" /\ InPlace
    BY DEF Upper, Runs
  <1>2. text \in Seq(Chars)
    BY <1>1, TextIsText DEF Inv
  <1>3. text' \in Seq(Chars)
    BY <1>2, CharsAssumption DEF Upper
  <1> QED
    BY <1>1, <1>3, InPlaceKeeps

\* A command that is not one.
LEMMA UnknownKeeps ==
  ASSUME Inv, Unknown
  PROVE  Inv'
  <1>1. pc = "act" /\ InPlace /\ text' = text
    BY DEF Unknown
  <1> QED
    BY <1>1, TextIsText, InPlaceKeeps DEF Inv

\* The range is deleted.
LEMMA DeleteKeeps ==
  ASSUME Inv, Delete
  PROVE  Inv'
  <1>1. pc = "act" /\ function.k = "xform" /\ Done("done") /\ sub' = sub
    BY DEF Delete, Runs
  <1>2. PICK junk \in Junk : NewText(Upto(text, from) \o junk \o From(text, to + 1))
    BY DEF Delete
  <1>3. text \in Seq(Chars) /\ from \in 0..Len(text) /\ to + 1 \in Nat
    BY <1>1, TextIsText, RangeEnds DEF Inv
  <1>4. Upto(text, from) \in Seq(Chars) /\ From(text, to + 1) \in Seq(Chars)
    BY <1>3, Parting, FromAny
  <1>5. junk \in Seq(Chars)
    <2>1. <<"?">> \in Seq(Chars) /\ <<>> \in Seq(Chars)
      BY CharsAssumption
    <2> QED
      BY <2>1 DEF Junk
  <1>6. Upto(text, from) \o junk \o From(text, to + 1) \in Seq(Chars)
    BY <1>4, <1>5
  <1>7. sub' = NoSub
    BY <1>1 DEF Inv, SubInv
  <1> QED
    BY <1>1, <1>2, <1>6, <1>7, NewTextKeeps

----------------------------------------------------------------------------
(* Every step keeps the invariant.                                         *)

\* Every step keeps the invariant.
LEMMA InvInductive ==
  /\ Init => Inv
  /\ Inv /\ [Next \/ Finished]_vars => Inv'
  <1>1. ASSUME Init PROVE Inv
    <2>1. job \in Jobs /\ job[1] \in Seq(Chars)
      BY <1>1, JobText DEF Init
    <2>2. JobInv /\ SubInv /\ ResultInv /\ SearchInv
      BY <1>1 DEF Init, JobInv, SubInv, ResultInv, SearchInv
    <2>3. HeapInv
      BY <1>1 DEF Init, HeapInv, Blocks
    <2> QED
      BY <2>2, <2>3 DEF Inv
  <1>2. ASSUME Inv, UNCHANGED vars PROVE Inv'
    BY <1>2 DEF Inv, JobInv, SubInv, ResultInv, SearchInv, HeapInv, vars, options, function
  <1>3. ASSUME Inv, Next PROVE Inv'
    BY <1>3, CompileKeyKeeps, NextOptionKeeps, NoOptionKeeps, TakeOptionKeeps, ReplaceKeeps,
       MapSubstKeeps, SpecialKeeps, CompileFromKeeps, BadFromKeeps, MeasureKeeps, MeasureOneKeeps,
       MeasureEndKeeps, ComposeKeeps, ComposeOneKeeps, ComposeEndKeeps, SubstReturnsKeeps,
       LowerKeeps, UpperKeeps, DeleteKeeps, XformSubstKeeps, UnknownKeeps, Zenon DEF Next
  <1> QED
    BY <1>1, <1>2, <1>3 DEF Finished

\* It holds in every run.
LEMMA InvAlways == Spec => []Inv
  BY InvInductive, PTL DEF Spec

----------------------------------------------------------------------------
(* What follows from it.                                                   *)

\* OneText: where the patterns of transformations compile, what is handed back is
\* the one text that is left in the heap, and no block is freed twice (map.c:157-164,
\* transform.c:64-84).
THEOREM OneTextIsLeft ==
  ASSUME \A j \in Jobs : PatternsCompile(j)
  PROVE  Spec => []OneText
  <1>1. Inv => OneText
    BY NullIsNoText DEF Inv, JobInv, HeapInv, OneText
  <1> QED
    BY <1>1, InvAlways, PTL

\* The order of the parts of the program.
LEMMA PartIs ==
  /\ Part("key") = 1 /\ Part("match") = 2 /\ Part("act") = 3 /\ Part("subst") = 4
  /\ Part("compiled") = 5 /\ Part("measure") = 6 /\ Part("measured") = 7
  /\ Part("compose") = 8 /\ Part("return") = 9 /\ Part("done") = 10
  <1>1. \A i \in 1..10 : Part(Parts[i]) = i
    <2> SUFFICES ASSUME NEW i \in 1..10 PROVE Part(Parts[i]) = i
      OBVIOUS
    <2>1. DOMAIN Parts = 1..10
      BY DEF Parts
    <2>2. \A j \in 1..10 : Parts[j] = Parts[i] => j = i
      BY DEF Parts
    <2> HIDE DEF Parts
    <2> QED
      BY <2>1, <2>2 DEF Part
  <1> QED
    BY <1>1 DEF Parts

\* MovesOn: every step goes on to a later part of the program, to the next option, or
\* past a match that is not empty, so that every application ends (map.c:116-140).
THEOREM EveryStepMovesOn == Spec => MovesOn
  <1>1. ASSUME Inv, MeasureOne PROVE Onward
    <2>1. /\ pc = "measure" /\ sub.m.eo \in Nat /\ next \in 0..Len(text)
          /\ IF sub.m.eo = 0 THEN Steps("measured", SubRecord(sub, sub.offset, sub.m, grown, sub.r))
             ELSE Steps("measure", SubRecord(sub, next, measure, grown, sub.r))
      BY <1>1, MeasureOneIs
    <2>2. text \in Seq(Chars) /\ sub.offset \in 0..Len(text)
      BY <1>1, <2>1, WhileSearching
    <2>3. CASE sub.m.eo = 0
      <3>1. pc' = "measured"
        BY <2>1, <2>3 DEF Steps
      <3> QED
        BY <2>1, <3>1, PartIs DEF Onward
    <2>4. CASE sub.m.eo # 0
      <3>1. pc' = "measure" /\ sub' = SubRecord(sub, next, measure, grown, sub.r)
        BY <2>1, <2>4 DEF Steps
      <3>2. sub'.offset = next
        BY <3>1, SubFields
      <3>3. sub'.offset \in (sub.offset + 1)..Len(text)
        BY <2>1, <2>2, <2>4, <3>2 DEF next
      <3> QED
        BY <2>1, <3>1, <3>3 DEF Onward
    <2> QED
      BY <2>3, <2>4
  <1>2. ASSUME Inv, ComposeOne PROVE Onward
    <2>1. /\ pc = "compose" /\ Hit(sub.m) /\ next \in 0..Len(text)
          /\ IF sub.m.eo = 0 THEN Steps("return", SubRecord(sub, sub.offset, sub.m, sub.len, replaced))
             ELSE Steps("compose", SubRecord(sub, next, found, sub.len, composed))
      BY <1>2, ComposeOneIs
    <2>2. text \in Seq(Chars) /\ sub.offset \in 0..Len(text) /\ sub.m.eo \in Nat
      BY <1>2, <2>1, WhileSearching, MatchWithin
    <2>3. CASE sub.m.eo = 0
      <3>1. pc' = "return"
        BY <2>1, <2>3 DEF Steps
      <3> QED
        BY <2>1, <3>1, PartIs DEF Onward
    <2>4. CASE sub.m.eo # 0
      <3>1. pc' = "compose" /\ sub' = SubRecord(sub, next, found, sub.len, composed)
        BY <2>1, <2>4 DEF Steps
      <3>2. sub'.offset = next
        BY <3>1, SubFields
      <3>3. sub'.offset \in (sub.offset + 1)..Len(text)
        BY <2>1, <2>2, <2>4, <3>2 DEF next
      <3> QED
        BY <2>1, <3>1, <3>3 DEF Onward
    <2> QED
      BY <2>3, <2>4
  <1>3. ASSUME Inv, CompileKey \/ NoOption \/ TakeOption \/ Replace \/ MapSubst \/ Special
                 \/ CompileFrom \/ BadFrom
        PROVE  Onward
    BY <1>3, PartIs DEF Onward, CompileKey, NoOption, TakeOption, Replace, MapSubst, Special,
       CompileFrom, BadFrom, Steps, Calls, Done
  <1>4. ASSUME Inv, Measure \/ MeasureEnd \/ Compose \/ ComposeEnd \/ SubstReturns
        PROVE  Onward
    <2>1. Measure => pc = "compiled" /\ pc' = "measure"
      BY DEF Measure, Steps
    <2>2. MeasureEnd => pc = "measure" /\ pc' = "measured"
      BY DEF MeasureEnd, Steps
    <2>3. Compose => pc = "measured" /\ pc' = "compose"
      BY DEF Compose, Steps
    <2>4. ComposeEnd => pc = "compose" /\ pc' = "return"
      BY DEF ComposeEnd, Steps
    <2>5. SubstReturns => pc = "return" /\ pc' = "done"
      BY DEF SubstReturns, Done
    <2> QED
      BY <1>4, <2>1, <2>2, <2>3, <2>4, <2>5, PartIs DEF Onward
  <1>5. ASSUME Inv, Lower \/ Upper \/ Delete \/ XformSubst \/ Unknown
        PROVE  Onward
    BY <1>5, PartIs DEF Onward, Lower, Upper, Delete, XformSubst, Unknown, Runs, InPlace, Calls, Done
  <1>6. ASSUME Inv, NextOption PROVE Onward
    BY <1>6 DEF Onward, NextOption, Inv, JobInv
  <1>7. Inv /\ [Next \/ Finished]_vars => [Onward]_vars
    BY <1>1, <1>2, <1>3, <1>4, <1>5, <1>6, Zenon DEF Next, Finished
  <1> QED
    BY <1>7, InvAlways, PTL DEF Spec, MovesOn

\* RangeExact: where the ends of a range are within the text, and d begins at the start,
\* what a command does is done to the range and to nothing else (transform.c:41-71).
THEOREM RangesAreExact ==
  ASSUME \A j \in Jobs : RangesWithin(j)
  PROVE  Spec => RangeExact
  <1> DEFINE Fits == pc = "act" /\ pc' = "done" /\ function.k = "xform" => Exactly
  <1>1. ASSUME Inv, pc = "act", function.k = "xform"
        PROVE  /\ from = first /\ to = last /\ text \in Seq(Chars)
               /\ cmd.name = "d" => from = 0
    <2>1. text \in Seq(Chars) /\ text = job[1] /\ Len(text) \in Nat
      BY <1>1, TextIsText DEF Inv
    <2>2. opt \in 1..Len(options) /\ IsOption(function.k, option)
      BY <1>1, OptionIsOption DEF Inv
    <2>3. cmd.addr # Null => /\ cmd.addr[1] \in Int /\ cmd.addr[2] \in Int
                             /\ cmd.addr[1] \in (-Len(text))..(Len(text) - 1)
                             /\ cmd.addr[2] \in (-Len(text))..(Len(text) - 1)
                             /\ cmd.name = "d" => cmd.addr[1] \in {0, -Len(text)}
      BY <1>1, <2>1, <2>2 DEF RangesWithin, IsOption, cmd, option, options, function, Inv, JobInv
    <2>4. CASE cmd.addr = Null
      BY <2>1, <2>4 DEF from, to, first, last
    <2>5. CASE cmd.addr # Null
      <3>1. Len(text) \in Nat \ {0}
        BY <2>1, <2>3, <2>5
      <3>2. /\ cmd.addr[1] % Len(text) = Displaced(cmd.addr[1], Len(text))
            /\ cmd.addr[2] % Len(text) = Displaced(cmd.addr[2], Len(text))
        BY <2>3, <2>5, <3>1, Remainder
      <3>3. from = first /\ to = last
        BY <2>5, <3>1, <3>2 DEF from, to, first, last, addr_normalise
      <3>4. cmd.name = "d" => first = 0
        BY <2>3, <2>5, <3>1 DEF first, Displaced
      <3> QED
        BY <2>1, <3>3, <3>4
    <2> QED
      BY <2>4, <2>5
  <1>2. ASSUME Inv, Lower PROVE Exactly
    <2>1. from = first /\ to = last /\ text \in Seq(Chars) /\ cmd.name = "l"
      BY <1>1, <1>2 DEF Lower, Runs
    <2>2. text' = [i \in 1..Len(text) |-> IF i - 1 \in first..last THEN ToLower(text[i]) ELSE text[i]]
      BY <1>2, <2>1 DEF Lower
    <2>3. Len(text') = Len(text)
      BY <2>1, <2>2
    <2> QED
      BY <2>1, <2>2, <2>3 DEF Exactly
  <1>3. ASSUME Inv, Upper PROVE Exactly
    <2>1. from = first /\ to = last /\ text \in Seq(Chars) /\ cmd.name = "u"
      BY <1>1, <1>3 DEF Upper, Runs
    <2>2. text' = [i \in 1..Len(text) |-> IF i - 1 \in first..last THEN ToUpper(text[i]) ELSE text[i]]
      BY <1>3, <2>1 DEF Upper
    <2>3. Len(text') = Len(text)
      BY <2>1, <2>2
    <2> QED
      BY <2>1, <2>2, <2>3 DEF Exactly
  <1>4. ASSUME Inv, Delete PROVE Exactly
    <2>1. from = first /\ to = last /\ text \in Seq(Chars) /\ cmd.name = "d" /\ from = 0
      BY <1>1, <1>4 DEF Delete, Runs
    <2>2. text' = Upto(text, from) \o <<>> \o From(text, to + 1)
      BY <1>4, <2>1 DEF Delete, NewText
    <2>3. Upto(text, from) \in Seq(Chars)
      BY <2>1, Parting
    <2>4. Upto(text, from) \o <<>> = Upto(text, from)
      BY <2>3
    <2> QED
      BY <2>1, <2>2, <2>4 DEF Exactly
  <1>5. ASSUME Inv, Unknown PROVE Exactly
    BY <1>5 DEF Unknown, Exactly
  <1>6. ASSUME Inv, Next, ~(Lower \/ Upper \/ Delete \/ Unknown) PROVE Fits
    BY <1>6 DEF Next, CompileKey, NextOption, NoOption, TakeOption, Replace, MapSubst, Special,
       CompileFrom, BadFrom, Measure, MeasureOne, MeasureEnd, Compose, ComposeOne, ComposeEnd,
       SubstReturns, XformSubst, Steps, Calls, Runs
  <1>7. Inv /\ [Next \/ Finished]_vars => [Fits]_vars
    BY <1>2, <1>3, <1>4, <1>5, <1>6 DEF Finished
  <1> QED
    BY <1>7, InvAlways, PTL DEF Spec, RangeExact

----------------------------------------------------------------------------
(* The two passes of regex_subst() agree.  D[o] is by how much the part of *)
(* the text from o on grows; the first pass works out Len(text) + D[0].    *)

\* The match at o, and what follows it.
Growth(m, k, rest1) ==
  IF ~Hit(m) THEN 0 ELSE IF m.eo = 0 THEN k ELSE k - (m.eo - m.so) + rest1
IsGrowth(D, r, s, k) ==
  /\ D \in [0..Len(s) -> Int]
  /\ \A o \in 0..Len(s) : D[o] = Growth(Found(r, s, o), k, D[o + Found(r, s, o).eo])

\* A match found at o lies within the rest of the text.
LEMMA FoundInText ==
  ASSUME NEW r, NEW s \in Seq(Chars), AllInText(r, s), NEW o \in 0..Len(s), Hit(Found(r, s, o))
  PROVE  /\ Found(r, s, o).eo \in Nat /\ Found(r, s, o).so \in 0..Found(r, s, o).eo
         /\ o + Found(r, s, o).eo \in 0..Len(s)
  <1>1. Len(From(s, o)) = Len(s) - o
    BY Parting
  <1>2. InText(Found(r, s, o), From(s, o))
    BY DEF AllInText, Found
  <1> QED
    BY <1>1, <1>2 DEF InText

\* There is such a function: what follows a match is shorter, so the recursion ends.
LEMMA GrowthExists ==
  ASSUME NEW r, NEW s \in Seq(Chars), AllInText(r, s), NEW k \in Nat
  PROVE  \E D : IsGrowth(D, r, s, k)
  <1> DEFINE Os == 0..Len(s)
             m(o) == Found(r, s, o)
             at(o, f) == Growth(m(o), k, f[o + m(o).eo])
             rank == [o \in Os |-> Len(s) - o]
             value == [of \in Os \X [Os -> Int] |-> at(of[1], of[2])]
  <1>1. Len(s) \in Nat
    OBVIOUS
  <1>2. ASSUME NEW o \in Os, Hit(m(o))
        PROVE  /\ m(o).eo \in Nat /\ m(o).so \in Nat /\ o + m(o).eo \in Os
               /\ m(o).eo # 0 => rank[o + m(o).eo] < rank[o]
    <2>1. m(o).eo \in Nat /\ m(o).so \in 0..m(o).eo /\ o + m(o).eo \in Os
      BY <1>2, FoundInText
    <2> HIDE DEF m
    <2> QED
      BY <1>1, <2>1
  <1> HIDE DEF m
  <1>3. ASSUME NEW o \in Os, NEW f \in [Os -> Int] PROVE at(o, f) \in Int
    <2>1. Hit(m(o)) => m(o).eo \in Nat /\ m(o).so \in Nat /\ f[o + m(o).eo] \in Int
      BY <1>2, <1>3
    <2> QED
      BY <2>1 DEF Growth
  <1> HIDE DEF at
  <1>4. value \in [Os \X [Os -> Int] -> Int]
    BY <1>3
  <1>5. IsRank(rank, Os, Len(s) + 1)
    BY <1>1 DEF IsRank
  <1>6. LooksLower(value, Os, Int, rank)
    <2> SUFFICES ASSUME NEW o \in Os, NEW f \in [Os -> Int], NEW g \in [Os -> Int],
                        \A q \in Os : rank[q] < rank[o] => f[q] = g[q]
                 PROVE  at(o, f) = at(o, g)
      BY DEF LooksLower
    <2>1. Hit(m(o)) /\ m(o).eo # 0 => f[o + m(o).eo] = g[o + m(o).eo]
      BY <1>2
    <2> QED
      BY <2>1 DEF at, Growth
  <1>7. Int # {} /\ Len(s) + 1 \in Nat
    BY <1>1
  <1> HIDE DEF value, rank, Os
  <1>8. PICK D \in [Os -> Int] : IsRecursive(D, value, Os)
    BY <1>4, <1>5, <1>6, <1>7, RankedRecursion
  <1>9. \A o \in Os : D[o] = at(o, D)
    BY <1>8 DEF IsRecursive, value
  <1>10. IsGrowth(D, r, s, k)
    BY <1>8, <1>9 DEF IsGrowth, Os, at, m
  <1> QED
    BY <1>10

\* The text from o on does not shrink by more than it has, nor what follows the match.
LEMMA GrowthBounded ==
  ASSUME NEW r, NEW s \in Seq(Chars), AllInText(r, s), NEW k \in Nat,
         NEW D, IsGrowth(D, r, s, k), NEW o \in 0..Len(s)
  PROVE  /\ D[o] \in Int
         /\ Hit(Found(r, s, o)) => o + Found(r, s, o).so <= Len(s) + D[o]
  <1> DEFINE Os == 0..Len(s)
             m(x) == Found(r, s, x)
             rank == [x \in Os |-> Len(s) - x]
             Good == {x \in Os : x <= Len(s) + D[x]}
  <1>1. Len(s) \in Nat /\ \A x \in Os : D[x] \in Int
    BY DEF IsGrowth
  <1>2. ASSUME NEW x \in Os, Hit(m(x))
        PROVE  /\ m(x).eo \in Nat /\ m(x).so \in 0..m(x).eo /\ x + m(x).eo \in Os
               /\ m(x).eo # 0 => rank[x + m(x).eo] < rank[x]
    <2>1. m(x).eo \in Nat /\ m(x).so \in 0..m(x).eo /\ x + m(x).eo \in Os
      BY <1>2, FoundInText
    <2> HIDE DEF m
    <2> QED
      BY <1>1, <2>1
  <1>3. \A x \in Os : D[x] = Growth(m(x), k, D[x + m(x).eo])
    BY DEF IsGrowth
  <1> HIDE DEF m
  <1>4. ASSUME NEW x \in Os, Hit(m(x)) => m(x).eo = 0 \/ x + m(x).eo \in Good
        PROVE  /\ x \in Good
               /\ Hit(m(x)) => x + m(x).so <= Len(s) + D[x]
    <2>1. D[x] = Growth(m(x), k, D[x + m(x).eo]) /\ D[x] \in Int
      BY <1>1, <1>3
    <2>2. CASE ~Hit(m(x))
      BY <1>1, <2>1, <2>2 DEF Growth
    <2>3. CASE Hit(m(x)) /\ m(x).eo = 0
      <3>1. D[x] = k
        BY <2>1, <2>3 DEF Growth
      <3>2. m(x).so \in 0..m(x).eo
        BY <1>2, <2>3
      <3>3. m(x).so = 0
        BY <2>3, <3>2
      <3> QED
        BY <1>1, <3>1, <3>3
    <2>4. CASE Hit(m(x)) /\ m(x).eo # 0
      <3>1. D[x] = k - (m(x).eo - m(x).so) + D[x + m(x).eo]
        BY <2>1, <2>4 DEF Growth
      <3>2. x + m(x).eo <= Len(s) + D[x + m(x).eo] /\ D[x + m(x).eo] \in Int
        BY <1>1, <1>4, <2>4
      <3>3. m(x).eo \in Nat /\ m(x).so \in 0..m(x).eo
        BY <1>2, <2>4
      <3> DEFINE e == m(x).eo
                 b == m(x).so
                 d == D[x + e]
      <3> HIDE DEF e, b, d
      <3>4. e \in Nat /\ b \in 0..e /\ d \in Int /\ x + e <= Len(s) + d /\ D[x] = k - (e - b) + d
        BY <3>1, <3>2, <3>3 DEF e, b, d
      <3>5. x + b <= Len(s) + D[x] /\ x <= Len(s) + D[x]
        BY <1>1, <3>4
      <3> QED
        BY <3>5 DEF b
    <2> QED
      BY <2>2, <2>3, <2>4
  <1>5. \A p \in Os : (\A q \in Os : rank[q] < rank[p] => q \in Good) => p \in Good
    <2> SUFFICES ASSUME NEW p \in Os, \A q \in Os : rank[q] < rank[p] => q \in Good
                 PROVE  p \in Good
      OBVIOUS
    <2>1. Hit(m(p)) => m(p).eo = 0 \/ p + m(p).eo \in Good
      BY <1>2
    <2> HIDE DEF Good
    <2> QED
      BY <1>4, <2>1
  <1>6. rank \in [Os -> Nat]
    BY <1>1
  <1> HIDE DEF Good, rank
  <1>7. Os \subseteq Good
    <2> HIDE DEF Os
    <2> QED
      BY <1>5, <1>6, RankedInduction
  <1>8. Hit(m(o)) => m(o).eo = 0 \/ o + m(o).eo \in Good
    BY <1>2, <1>7
  <1>9. Hit(m(o)) => o + m(o).so <= Len(s) + D[o]
    BY <1>4, <1>8
  <1> QED
    BY <1>1, <1>9 DEF m

\* Within regex_subst(): how the length relates to what has been found and composed.
Agrees(D) ==
  /\ pc = "measure" => sub.len = Len(text) + D[0] - D[sub.offset]
  /\ pc \in {"measured", "compose"} => sub.len = Len(text) + D[0]
  /\ pc = "compose" =>
       IF Hit(sub.m) THEN Len(sub.r) = sub.offset + sub.m.so + D[0] - D[sub.offset]
       ELSE Len(sub.r) <= sub.len
FitInv ==
  /\ pc \in Matching => \A D : IsGrowth(D, re, text, Len(sub.to)) => Agrees(D)
  /\ pc = "return" /\ sub.r # Null => Len(sub.r) <= sub.len

\* What is there of D, if the flags make no difference.
LEMMA WhatGrows ==
  ASSUME Inv, pc \in Matching, MatchesAnywhere(job), NEW D, IsGrowth(D, re, text, Len(sub.to))
  PROVE  /\ text \in Seq(Chars) /\ Len(text) \in Nat /\ Len(sub.to) \in Nat
         /\ sub.offset \in 0..Len(text) /\ sub.len \in Int /\ D[0] \in Int
         /\ \A o \in 0..Len(text) :
              /\ D[o] \in Int
              /\ Found(re, text, o) = SearchFor(re, From(text, o), {})
              /\ D[o] = Growth(Found(re, text, o), Len(sub.to), D[o + Found(re, text, o).eo])
              /\ Hit(Found(re, text, o)) => o + Found(re, text, o).so <= Len(text) + D[o]
         /\ pc # "measured" => sub.m = Found(re, text, sub.offset)
  <1>1. /\ text \in Seq(Chars) /\ sub.to \in Seq(Chars) /\ sub.len \in Int
        /\ sub.offset \in 0..Len(text) /\ AllInText(re, text) /\ re = Regcomp(sub.from.p, {})
    BY WhileSearching
  <1>2. Len(text) \in Nat /\ Len(sub.to) \in Nat
    BY <1>1
  <1>3. sub.from \in Froms(job[2]) /\ text = job[1] /\ ~IsSpecial(sub.from.p) /\ re.error = "OK"
    BY DEF Inv, JobInv, SubInv, SearchInv, IsSub, function
  <1>4. ASSUME NEW o \in 0..Len(text)
        PROVE  Found(re, text, o) = SearchFor(re, From(text, o), {})
    BY <1>1, <1>3 DEF MatchesAnywhere, Found
  <1>5. ASSUME NEW o \in 0..Len(text)
        PROVE  /\ D[o] \in Int
               /\ Hit(Found(re, text, o)) => o + Found(re, text, o).so <= Len(text) + D[o]
    BY <1>1, <1>2, GrowthBounded
  <1>6. ASSUME NEW o \in 0..Len(text)
        PROVE  D[o] = Growth(Found(re, text, o), Len(sub.to), D[o + Found(re, text, o).eo])
    BY DEF IsGrowth
  <1>7. D[0] \in Int
    BY <1>2, <1>5
  <1>8. pc # "measured" => sub.m = Found(re, text, sub.offset)
    BY <1>1, <1>4 DEF Inv, SearchInv
  <1> QED
    BY <1>1, <1>2, <1>4, <1>5, <1>6, <1>7, <1>8

\* There is one for the text and the expression at hand.
LEMMA GrowthIsThere ==
  ASSUME Inv, pc \in Matching
  PROVE  \E D : IsGrowth(D, re, text, Len(sub.to))
  <1>1. text \in Seq(Chars) /\ Len(sub.to) \in Nat /\ AllInText(re, text)
    BY WhileSearching
  <1> QED
    BY <1>1, GrowthExists

\* What has been composed is no longer than what has been measured.
LEMMA ComposedFits ==
  ASSUME Inv, pc = "compose", MatchesAnywhere(job), FitInv
  PROVE  Len(sub.r) <= sub.len
  <1>1. PICK D : IsGrowth(D, re, text, Len(sub.to))
    BY GrowthIsThere
  <1>2. Agrees(D)
    BY <1>1 DEF FitInv
  <1>3. /\ Len(text) \in Nat /\ sub.offset \in 0..Len(text) /\ D[0] \in Int /\ D[sub.offset] \in Int
        /\ Hit(sub.m) => sub.offset + sub.m.so <= Len(text) + D[sub.offset]
    BY <1>1, WhatGrows
  <1>4. Hit(sub.m) => sub.m.so \in Nat
    BY MatchWithin
  <1>5. /\ sub.len = Len(text) + D[0]
        /\ IF Hit(sub.m) THEN Len(sub.r) = sub.offset + sub.m.so + D[0] - D[sub.offset]
           ELSE Len(sub.r) <= sub.len
    BY <1>2 DEF Agrees
  <1> QED
    BY <1>3, <1>4, <1>5

\* The first search: nothing is added yet.
LEMMA MeasureAgrees ==
  ASSUME Inv, Inv', MatchesAnywhere(job), Measure
  PROVE  FitInv'
  <1>1. pc' = "measure"
    BY DEF Measure, Steps
  <1>2. sub'.len = Len(text) /\ text' = text /\ sub'.offset = 0 /\ Len(text) \in Nat
    <2>1. sub' = WithLenAndMatch(sub, Len(text), Search(text, {})) /\ text' = text /\ pc = "compiled"
      BY DEF Measure, Steps, WithLenAndMatch
    <2>2. sub = SubRecord(sub, sub.offset, sub.m, sub.len, sub.r) /\ sub.offset = 0
      BY <2>1 DEF Inv, SubInv, ResultInv, IsSub
    <2>3. sub' = SubRecord(sub, sub.offset, Search(text, {}), Len(text), sub.r)
      BY <2>1, <2>2, LenAndMatchAssigned
    <2>4. sub'.offset = sub.offset /\ sub'.len = Len(text)
      BY <2>3, SubFields
    <2>5. text \in Seq(Chars)
      BY <2>1, TextIsText DEF Inv
    <2> QED
      BY <2>1, <2>2, <2>4, <2>5
  <1>3. ASSUME NEW D, IsGrowth(D, re', text', Len(sub'.to)) PROVE Agrees(D)'
    <2>1. D[0] \in Int
      BY <1>2, <1>3 DEF IsGrowth
    <2> QED
      BY <1>1, <1>2, <2>1 DEF Agrees
  <1> QED
    BY <1>1, <1>3 DEF FitInv

\* A round of the first loop adds the growth of one match.
LEMMA MeasureOneAgrees ==
  ASSUME Inv, Inv', MatchesAnywhere(job), FitInv, MeasureOne
  PROVE  FitInv'
  <1>1. /\ pc = "measure" /\ Hit(sub.m) /\ re' = re
        /\ sub.m.eo \in Nat /\ sub.m.so \in Nat /\ next \in 0..Len(text) /\ grown \in Int
        /\ IF sub.m.eo = 0 THEN Steps("measured", SubRecord(sub, sub.offset, sub.m, grown, sub.r))
           ELSE Steps("measure", SubRecord(sub, next, measure, grown, sub.r))
    BY MeasureOneIs
  <1>2. sub.m.so \in 0..sub.m.eo
    BY <1>1, MatchWithin
  <1>3. CASE sub.m.eo = 0
    <2>1. /\ sub' = SubRecord(sub, sub.offset, sub.m, grown, sub.r) /\ pc' = "measured"
          /\ text' = text
      BY <1>1, <1>3 DEF Steps
    <2>2. sub'.len = grown /\ sub'.to = sub.to
      BY <2>1, SubFields
    <2>3. ASSUME NEW D, IsGrowth(D, re, text, Len(sub.to)) PROVE grown = Len(text) + D[0]
      <3>1. Agrees(D)
        BY <1>1, <2>3 DEF FitInv
      <3>2. /\ Len(text) \in Nat /\ Len(sub.to) \in Nat /\ sub.len \in Int /\ D[0] \in Int
            /\ D[sub.offset] = Growth(sub.m, Len(sub.to), D[sub.offset + sub.m.eo])
            /\ D[sub.offset] \in Int
        BY <1>1, <2>3, WhatGrows
      <3>3. D[sub.offset] = Len(sub.to) /\ sub.m.so = 0
        BY <1>1, <1>2, <1>3, <3>2 DEF Growth
      <3> QED
        BY <1>1, <1>3, <3>1, <3>2, <3>3 DEF Agrees, grown
    <2> QED
      BY <1>1, <2>1, <2>2, <2>3 DEF FitInv, Agrees
  <1>4. CASE sub.m.eo # 0
    <2>1. /\ sub' = SubRecord(sub, next, measure, grown, sub.r) /\ pc' = "measure"
          /\ text' = text
      BY <1>1, <1>4 DEF Steps
    <2>2. sub'.len = grown /\ sub'.to = sub.to /\ sub'.offset = next
      BY <2>1, SubFields
    <2>3. ASSUME NEW D, IsGrowth(D, re, text, Len(sub.to)) PROVE grown = Len(text) + D[0] - D[next]
      <3>1. Agrees(D)
        BY <1>1, <2>3 DEF FitInv
      <3>2. /\ Len(text) \in Nat /\ Len(sub.to) \in Nat /\ sub.len \in Int /\ D[0] \in Int
            /\ D[sub.offset] = Growth(sub.m, Len(sub.to), D[sub.offset + sub.m.eo])
            /\ D[next] \in Int
        BY <1>1, <2>3, WhatGrows
      <3>3. D[sub.offset] = Len(sub.to) - (sub.m.eo - sub.m.so) + D[next]
        BY <1>1, <1>4, <3>2 DEF Growth, next
      <3>4. sub.len = Len(text) + D[0] - D[sub.offset]
        BY <1>1, <3>1 DEF Agrees
      <3>5. sub.m.eo \in Nat /\ sub.m.so \in Nat
        BY <1>1
      <3>6. grown = sub.len + Len(sub.to) - (sub.m.eo - sub.m.so)
        BY DEF grown
      <3> DEFINE e == sub.m.eo
                 b == sub.m.so
                 k == Len(sub.to)
                 n == Len(text)
                 d == D[sub.offset]
                 d1 == D[next]
      <3> HIDE DEF e, b, k, n, d, d1
      <3>7. /\ e \in Nat /\ b \in Nat /\ k \in Nat /\ n \in Nat /\ d1 \in Int /\ D[0] \in Int
            /\ d = k - (e - b) + d1 /\ sub.len = n + D[0] - d /\ grown = sub.len + k - (e - b)
        BY <3>2, <3>3, <3>4, <3>5, <3>6 DEF e, b, k, n, d, d1
      <3>8. grown = n + D[0] - d1
        BY <3>7
      <3> QED
        BY <3>8 DEF n, d1
    <2> QED
      BY <1>1, <2>1, <2>2, <2>3 DEF FitInv, Agrees
  <1> QED
    BY <1>3, <1>4

\* The first loop ends: what it has measured is the whole.
LEMMA MeasureEndAgrees ==
  ASSUME Inv, Inv', MatchesAnywhere(job), FitInv, MeasureEnd
  PROVE  FitInv'
  <1>1. /\ pc = "measure" /\ ~Hit(sub.m) /\ pc' = "measured" /\ re' = re /\ sub' = sub
        /\ text' = text
    BY DEF MeasureEnd, Steps
  <1>2. ASSUME NEW D, IsGrowth(D, re, text, Len(sub.to)) PROVE sub.len = Len(text) + D[0]
    <2>1. Agrees(D)
      BY <1>1, <1>2 DEF FitInv
    <2>2. /\ Len(text) \in Nat /\ D[0] \in Int /\ sub.len \in Int
          /\ D[sub.offset] = Growth(sub.m, Len(sub.to), D[sub.offset + sub.m.eo])
      BY <1>1, <1>2, WhatGrows
    <2>3. D[sub.offset] = 0
      BY <1>1, <2>2 DEF Growth
    <2> QED
      BY <1>1, <2>1, <2>2, <2>3 DEF Agrees
  <1> QED
    BY <1>1, <1>2 DEF FitInv, Agrees

\* The second pass begins: it has composed the text before the first match.
LEMMA ComposeAgrees ==
  ASSUME Inv, Inv', MatchesAnywhere(job), FitInv, Compose
  PROVE  FitInv'
  <1> DEFINE m == SearchFor(re, text, {})
  <1>1. PICK n \in 0..Len(text) :
          /\ Hit(m) => n = m.so
          /\ Steps("compose", [sub EXCEPT !.offset = 0, !.m = m, !.r = Upto(text, n)])
    BY DEF Compose, Search
  <1> DEFINE r == Upto(text, n)
  <1>2. pc = "measured" /\ re' = re
    BY DEF Compose
  <1>3. /\ sub = SubRecord(sub, sub.offset, sub.m, sub.len, sub.r) /\ text \in Seq(Chars)
    BY <1>2, WhileSearching
  <1>4. Len(r) = n /\ m = Found(re, text, 0)
    BY <1>3, FromStart, Parting DEF Found
  <1> HIDE DEF m, r
  <1>5. sub' = WithMatchAndText(sub, 0, m, r) /\ pc' = "compose" /\ text' = text
    BY <1>1 DEF Steps, r, WithMatchAndText
  <1>6. sub' = SubRecord(sub, 0, m, sub.len, r)
    BY <1>3, <1>5, MatchAndTextAssigned
  <1>7. sub'.len = sub.len /\ sub'.to = sub.to /\ sub'.offset = 0 /\ sub'.m = m /\ sub'.r = r
    BY <1>6, SubFields
  <1>8. ASSUME NEW D, IsGrowth(D, re, text, Len(sub.to))
        PROVE  /\ sub.len = Len(text) + D[0]
               /\ IF Hit(m) THEN Len(r) = 0 + m.so + D[0] - D[0] ELSE Len(r) <= sub.len
    <2>1. Agrees(D)
      BY <1>2, <1>8 DEF FitInv
    <2>2. /\ Len(text) \in Nat /\ D[0] \in Int
          /\ D[0] = Growth(Found(re, text, 0), Len(sub.to), D[0 + Found(re, text, 0).eo])
      <3>1. 0 \in 0..Len(text)
        BY <1>3
      <3> QED
        BY <1>2, <1>8, <3>1, WhatGrows
    <2>3. sub.len = Len(text) + D[0]
      BY <1>2, <2>1 DEF Agrees
    <2>4. CASE Hit(m)
      <3>1. m.so = n
        BY <1>1, <2>4
      <3> QED
        BY <1>4, <2>2, <2>3, <2>4, <3>1
    <2>5. CASE ~Hit(m)
      <3>1. D[0] = 0
        BY <1>4, <2>2, <2>5 DEF Growth
      <3> QED
        BY <1>4, <2>2, <2>3, <2>5, <3>1
    <2> QED
      BY <2>4, <2>5
  <1>9. ASSUME NEW D, IsGrowth(D, re', text', Len(sub'.to)) PROVE Agrees(D)'
    <2>1. IsGrowth(D, re, text, Len(sub.to))
      BY <1>2, <1>5, <1>7, <1>9
    <2> QED
      BY <1>5, <1>7, <1>8, <2>1 DEF Agrees
  <1> QED
    BY <1>5, <1>9 DEF FitInv

\* The lengths of a round of the second loop.
LEMMA ComposedLength ==
  ASSUME NEW o \in Int, NEW e \in Int, NEW b \in Int, NEW k \in Int, NEW d0 \in Int,
         NEW d1 \in Int, NEW n \in Int
  PROVE  o + b + d0 - (k - (e - b) + d1) + k + n = (o + e) + d0 - d1 + n
  OBVIOUS

\* A round of the second loop composes one match and the text before the next.
LEMMA ComposeOneAgrees ==
  ASSUME Inv, Inv', MatchesAnywhere(job), FitInv, ComposeOne
  PROVE  FitInv'
  <1>1. /\ pc = "compose" /\ Hit(sub.m) /\ re' = re
        /\ next \in 0..Len(text) /\ Len(rest) = Len(text) - next
        /\ between \in Seq(Chars) /\ replaced \in Seq(Chars)
        /\ Hit(found) => found.so \in 0..Len(rest) /\ Len(between) = found.so
        /\ IF sub.m.eo = 0 THEN Steps("return", SubRecord(sub, sub.offset, sub.m, sub.len, replaced))
           ELSE Steps("compose", SubRecord(sub, next, found, sub.len, composed))
    BY ComposeOneIs
  <1>2. sub.m.so \in 0..sub.m.eo /\ sub.m.eo \in Nat /\ sub.m.so \in Nat
    BY <1>1, MatchWithin
  <1>3. sub.r \in Seq(Chars) /\ sub.to \in Seq(Chars)
    BY <1>1, WhileSearching DEF Inv, ResultInv
  <1>4. Len(replaced) = Len(sub.r) + Len(sub.to) /\ Len(sub.r) \in Nat /\ Len(sub.to) \in Nat
    BY <1>3 DEF replaced
  <1>5. Len(composed) = Len(replaced) + Len(between) /\ Len(between) \in Nat
    BY <1>1 DEF composed
  <1>6. ASSUME NEW D, IsGrowth(D, re, text, Len(sub.to))
        PROVE  /\ Len(text) \in Nat /\ sub.offset \in 0..Len(text) /\ sub.len \in Int
               /\ D[0] \in Int /\ D[next] \in Int /\ D[sub.offset] \in Int
               /\ sub.len = Len(text) + D[0]
               /\ Len(sub.r) = sub.offset + sub.m.so + D[0] - D[sub.offset]
               /\ D[sub.offset] = Growth(sub.m, Len(sub.to), D[next])
               /\ ~Hit(found) => D[next] = 0
    <2>1. Agrees(D)
      BY <1>1, <1>6 DEF FitInv
    <2>2. /\ Len(text) \in Nat /\ sub.offset \in 0..Len(text) /\ sub.len \in Int
          /\ D[0] \in Int /\ D[next] \in Int /\ D[sub.offset] \in Int
          /\ D[sub.offset] = Growth(sub.m, Len(sub.to), D[sub.offset + sub.m.eo])
          /\ Found(re, text, next) = SearchFor(re, From(text, next), {})
          /\ D[next] = Growth(Found(re, text, next), Len(sub.to), D[next + Found(re, text, next).eo])
      BY <1>1, <1>6, WhatGrows
    <2>3. found = Found(re, text, next)
      BY <2>2 DEF found, rest
    <2>4. ~Hit(found) => D[next] = 0
      BY <2>2, <2>3 DEF Growth
    <2>5. D[sub.offset] = Growth(sub.m, Len(sub.to), D[next])
      BY <2>2 DEF next
    <2> QED
      BY <1>1, <2>1, <2>2, <2>4, <2>5 DEF Agrees
  <1>7. CASE sub.m.eo = 0
    <2>1. /\ sub' = SubRecord(sub, sub.offset, sub.m, sub.len, replaced) /\ pc' = "return"
      BY <1>1, <1>7 DEF Steps
    <2>2. sub'.len = sub.len /\ sub'.r = replaced
      BY <2>1, SubFields
    <2>3. PICK D : IsGrowth(D, re, text, Len(sub.to))
      BY <1>1, GrowthIsThere
    <2>4. /\ Len(text) \in Nat /\ sub.offset \in 0..Len(text) /\ sub.len \in Int /\ D[0] \in Int
          /\ sub.len = Len(text) + D[0]
          /\ Len(sub.r) = sub.offset + sub.m.so + D[0] - D[sub.offset]
          /\ D[sub.offset] = Growth(sub.m, Len(sub.to), D[next])
      BY <1>6, <2>3
    <2>5. sub.m.so = 0
      BY <1>2, <1>7
    <2>6. D[sub.offset] = Len(sub.to)
      BY <1>1, <1>7, <2>4 DEF Growth
    <2>7. Len(sub.r) + Len(sub.to) = sub.offset + D[0]
      BY <1>4, <2>4, <2>5, <2>6
    <2>8. Len(replaced) <= sub.len
      BY <1>4, <2>4, <2>7
    <2> QED
      BY <2>1, <2>2, <2>8 DEF FitInv
  <1>8. CASE sub.m.eo # 0
    <2>1. /\ sub' = SubRecord(sub, next, found, sub.len, composed) /\ pc' = "compose"
          /\ text' = text
      BY <1>1, <1>8 DEF Steps
    <2>2. /\ sub'.len = sub.len /\ sub'.r = composed /\ sub'.to = sub.to /\ sub'.m = found
          /\ sub'.offset = next
      BY <2>1, SubFields
    <2>3. ASSUME NEW D, IsGrowth(D, re, text, Len(sub.to))
          PROVE  /\ sub.len = Len(text) + D[0]
                 /\ IF Hit(found) THEN Len(composed) = next + found.so + D[0] - D[next]
                    ELSE Len(composed) <= sub.len
      <3>1. /\ Len(text) \in Nat /\ sub.offset \in 0..Len(text) /\ sub.len \in Int
            /\ D[0] \in Int /\ D[next] \in Int /\ sub.len = Len(text) + D[0]
            /\ Len(sub.r) = sub.offset + sub.m.so + D[0] - D[sub.offset]
            /\ D[sub.offset] = Growth(sub.m, Len(sub.to), D[next])
            /\ ~Hit(found) => D[next] = 0
        BY <1>6, <2>3
      <3>2. D[sub.offset] = Len(sub.to) - (sub.m.eo - sub.m.so) + D[next]
        BY <1>1, <1>8, <3>1 DEF Growth
      <3>3. next = sub.offset + sub.m.eo
        BY DEF next
      <3>4. Len(composed) = next + D[0] - D[next] + Len(between)
        <4>1. sub.offset \in Int /\ D[0] \in Int /\ D[next] \in Int /\ Len(between) \in Int
          BY <1>5, <3>1
        <4>2. sub.m.eo \in Int /\ sub.m.so \in Int /\ Len(sub.to) \in Int
          BY <1>2, <1>4
        <4>3. Len(composed) = sub.offset + sub.m.so + D[0] - D[sub.offset] + Len(sub.to) + Len(between)
          BY <1>4, <1>5, <3>1
        <4> QED
          <5> DEFINE o == sub.offset
                     e == sub.m.eo
                     b == sub.m.so
                     k == Len(sub.to)
                     d0 == D[0]
                     d1 == D[next]
                     n == Len(between)
          <5>1. Len(composed) = o + b + d0 - (k - (e - b) + d1) + k + n /\ next = o + e
            BY <3>2, <3>3, <4>3
          <5>2. /\ o \in Int /\ e \in Int /\ b \in Int /\ k \in Int /\ d0 \in Int /\ d1 \in Int
                /\ n \in Int
            BY <4>1, <4>2
          <5> HIDE DEF o, e, b, k, d0, d1, n
          <5>3. Len(composed) = next + d0 - d1 + n
            BY <5>1, <5>2, ComposedLength
          <5> QED
            BY <5>3 DEF d0, d1, n
      <3>5. CASE Hit(found)
        <4>1. Len(between) = found.so /\ found.so \in Int
          BY <1>1, <3>5
        <4>2. next \in Int /\ D[0] \in Int /\ D[next] \in Int /\ sub.len = Len(text) + D[0]
          BY <1>1, <3>1
        <4>3. Len(composed) = next + found.so + D[0] - D[next]
          BY <3>4, <4>1, <4>2
        <4> QED
          BY <3>5, <4>2, <4>3
      <3>6. CASE ~Hit(found)
        <4>1. Len(between) = Len(text) - next /\ D[next] = 0
          BY <1>1, <3>1, <3>6 DEF between
        <4> QED
          BY <1>1, <3>1, <3>4, <3>6, <4>1
      <3> QED
        BY <3>5, <3>6
    <2>4. ASSUME NEW D, IsGrowth(D, re', text', Len(sub'.to)) PROVE Agrees(D)'
      <3>1. IsGrowth(D, re, text, Len(sub.to))
        BY <1>1, <2>1, <2>2, <2>4
      <3> QED
        BY <2>1, <2>2, <2>3, <3>1 DEF Agrees
    <2> QED
      BY <2>1, <2>4 DEF FitInv
  <1> QED
    BY <1>7, <1>8

\* What Special returns.
LEMMA SpecialFits ==
  ASSUME Inv, Inv', Special
  PROVE  FitInv'
  <1>1. pc = "subst" /\ IsSub(sub, function, text)
    BY DEF Special, Inv, SubInv
  <1>2. /\ text \in Seq(Chars) /\ sub.to \in Seq(Chars)
        /\ sub = SubRecord(sub, sub.offset, sub.m, sub.len, sub.r)
    BY <1>1, TextIsText DEF Inv, IsSub
  <1> DEFINE l == Len(text) + Len(sub.to)
             r == IF sub.from.p = <<"^">> THEN sub.to \o text ELSE text \o sub.to
  <1>3. Len(r) = l /\ l \in Nat
    BY <1>2
  <1> HIDE DEF l, r
  <1>4. sub' = WithLenAndText(sub, l, r) /\ pc' = "return"
    BY DEF Special, Steps, WithLenAndText, l, r
  <1>5. sub' = SubRecord(sub, sub.offset, sub.m, l, r)
    BY <1>2, <1>4, LenAndTextAssigned
  <1>6. sub'.len = l /\ sub'.r = r
    BY <1>5, SubFields
  <1> QED
    BY <1>3, <1>4, <1>6 DEF FitInv

\* Every step keeps the passes in agreement.
LEMMA FitInductive ==
  ASSUME Inv, Inv', MatchesAnywhere(job), FitInv, [Next \/ Finished]_vars
  PROVE  FitInv'
  <1>1. ASSUME pc' \notin Matching, pc' # "return" PROVE FitInv'
    BY <1>1 DEF FitInv
  <1>2. CASE UNCHANGED vars
    BY <1>2 DEF FitInv, Agrees, vars
  <1>3. CASE Next
    <2>1. CompileKey => pc' = "match"
      BY DEF CompileKey
    <2>2. NextOption => pc' = "key"
      BY DEF NextOption
    <2>3. NoOption => pc' = "done"
      BY DEF NoOption
    <2>4. TakeOption => pc' = "act"
      BY DEF TakeOption
    <2>5. MapSubst \/ XformSubst => pc' = "subst"
      BY DEF MapSubst, XformSubst, Calls
    <2>6. Replace \/ SubstReturns \/ Lower \/ Upper \/ Delete \/ Unknown => pc' = "done"
      BY DEF Replace, SubstReturns, Lower, Upper, Delete, Unknown, InPlace, Done
    <2>7. CompileFrom => pc' = "compiled"
      BY DEF CompileFrom, Steps
    <2>8. BadFrom => FitInv'
      <3> SUFFICES ASSUME BadFrom PROVE FitInv'
        OBVIOUS
      <3>1. pc = "compiled" /\ pc' = "return" /\ sub' = sub
        BY DEF BadFrom, Steps
      <3>2. sub.r = Null
        BY <3>1 DEF Inv, ResultInv
      <3> QED
        BY <3>1, <3>2 DEF FitInv
    <2>9. ComposeEnd => FitInv'
      <3> SUFFICES ASSUME ComposeEnd PROVE FitInv'
        OBVIOUS
      <3>1. pc = "compose" /\ pc' = "return" /\ sub' = sub
        BY DEF ComposeEnd, Steps
      <3>2. Len(sub.r) <= sub.len
        BY <3>1, ComposedFits
      <3> QED
        BY <3>1, <3>2 DEF FitInv
    <2>10. Special \/ Measure \/ MeasureOne \/ MeasureEnd \/ Compose \/ ComposeOne => FitInv'
      BY SpecialFits, MeasureAgrees, MeasureOneAgrees, MeasureEndAgrees, ComposeAgrees, ComposeOneAgrees
    <2> HIDE DEF Matching
    <2>11. {"match", "key", "done", "act", "subst", "compiled"} \cap Matching = {}
      BY DEF Matching
    <2>12. ASSUME pc' \in {"match", "key", "done", "act", "subst", "compiled"} PROVE FitInv'
      BY <1>1, <2>11, <2>12
    <2> QED
      BY <1>3, <2>1, <2>2, <2>3, <2>4, <2>5, <2>6, <2>7, <2>8, <2>9, <2>10, <2>12 DEF Next
  <1> QED
    BY <1>2, <1>3 DEF Finished

\* FitsBuffer: where the patterns match the same in the rest of a text as at its start,
\* the second pass writes no more than the first has made room for (map.c:111-140).
THEOREM ResultFits ==
  ASSUME \A j \in Jobs : MatchesAnywhere(j)
  PROVE  Spec => []FitsBuffer
  <1>1. Init => FitInv
    BY DEF Init, FitInv
  <1>2. Inv => MatchesAnywhere(job)
    BY DEF Inv, JobInv
  <1>3. Inv /\ Inv' /\ FitInv /\ [Next \/ Finished]_vars => FitInv'
    BY <1>2, FitInductive
  <1>4. Inv /\ FitInv => FitsBuffer
    <2> SUFFICES ASSUME Inv, FitInv, sub # NoSub, sub.r # Null PROVE Len(sub.r) <= sub.len
      BY DEF FitsBuffer
    <2>1. pc \in {"compose", "return"}
      BY DEF Inv, SubInv, ResultInv
    <2> QED
      BY <1>2, <2>1, ComposedFits DEF FitInv
  <1> QED
    BY <1>1, <1>3, <1>4, InvAlways, PTL DEF Spec

----------------------------------------------------------------------------
(* Which option is carried out.                                            *)

Finds(j) == Hit(SearchFor(Regcomp(options[j].key.p, {}), text, {}))
FirstFound == pc = "act" => Finds(opt) /\ \A j \in 1..(opt - 1) : ~Finds(j)
OptionInv ==
  /\ pc \in Start => \A j \in 1..(opt - 1) : ~Finds(j)
  /\ pc = "match" => re = Regcomp(option.key.p, {})
  /\ pc = "act" => Finds(opt)

\* Every step keeps it: the keys before the one in use have not been found.
LEMMA OptionInductive ==
  ASSUME Inv, OptionInv, [Next \/ Finished]_vars
  PROVE  OptionInv'
  <1>1. ASSUME UNCHANGED <<job, opt, text>>
        PROVE  \A j : Finds(j)' <=> Finds(j)
    BY <1>1 DEF Finds, options, function
  <1>2. CASE UNCHANGED vars
    <2>1. \A j : Finds(j)' <=> Finds(j)
      BY <1>1, <1>2 DEF vars
    <2> QED
      BY <1>2, <2>1 DEF OptionInv, vars, option, options, function
  <1>3. CASE CompileKey
    <2>1. /\ pc = "key" /\ pc' = "match" /\ re' = Regcomp(option.key.p, {})
          /\ UNCHANGED <<job, opt, text>>
      BY <1>3 DEF CompileKey
    <2>2. \A j : Finds(j)' <=> Finds(j)
      BY <1>1, <2>1
    <2>3. option' = option
      BY <2>1 DEF option, options, function
    <2> QED
      BY <2>1, <2>2, <2>3 DEF OptionInv
  <1>4. CASE NextOption
    <2>1. /\ pc = "match" /\ pc' = "key" /\ opt' = opt + 1 /\ UNCHANGED <<job, text>>
          /\ opt \in Nat \ {0} /\ re = Regcomp(option.key.p, {}) /\ ~Hit(SearchFor(re, text, {}))
      BY <1>4 DEF NextOption, Inv, JobInv, OptionInv, Search
    <2>2. ~Finds(opt)
      BY <2>1 DEF Finds, option
    <2>3. \A j \in 1..opt : ~Finds(j)
      BY <2>1, <2>2 DEF OptionInv
    <2>4. \A j : Finds(j)' <=> Finds(j)
      BY <2>1 DEF Finds, options, function
    <2>5. (opt + 1) - 1 = opt
      BY <2>1
    <2> QED
      BY <2>1, <2>3, <2>4, <2>5 DEF OptionInv
  <1>5. CASE TakeOption
    <2>1. /\ pc = "match" /\ pc' = "act" /\ UNCHANGED <<job, opt, text>>
          /\ re = Regcomp(option.key.p, {}) /\ Hit(SearchFor(re, text, {}))
      BY <1>5 DEF TakeOption, OptionInv, Search
    <2>2. Finds(opt)
      BY <2>1 DEF Finds, option
    <2>3. \A j : Finds(j)' <=> Finds(j)
      BY <1>1, <2>1
    <2> QED
      BY <2>1, <2>2, <2>3 DEF OptionInv
  <1>6. ASSUME Next, ~(CompileKey \/ NextOption \/ TakeOption)
        PROVE  pc' \notin Start
    BY <1>6 DEF Next, NoOption, Replace, MapSubst, Special, CompileFrom, BadFrom, Measure, MeasureOne,
       MeasureEnd, Compose, ComposeOne, ComposeEnd, SubstReturns, Lower, Upper, Delete, XformSubst,
       Unknown, InPlace, Runs, Calls, Done, Steps
  <1>7. CASE pc' \notin Start
    BY <1>7 DEF OptionInv
  <1> QED
    BY <1>2, <1>3, <1>4, <1>5, <1>6, <1>7 DEF Finished

\* Of the options the first is carried out whose key the library finds in the text,
\* whatever the library finds (map.c:50-66, transform.c:20-38).
THEOREM FirstFoundIsTaken == Spec => []FirstFound
  <1>1. Init => OptionInv
    BY DEF Init, OptionInv
  <1>2. OptionInv => FirstFound
    BY DEF OptionInv, FirstFound
  <1> QED
    BY <1>1, <1>2, OptionInductive, InvAlways, PTL DEF Spec

----------------------------------------------------------------------------
(* What the second pass composes.  R[o] is what becomes of the text from o *)
(* on: the part before the match, the replacement, and what becomes of the *)
(* text after it; an empty match, however, is the last thing that is seen. *)

At(r, s, o) == SearchFor(r, From(s, o), {})
Becomes(m, s, new, rest1) ==
  IF ~Hit(m) THEN s ELSE Upto(s, m.so) \o (new \o (IF m.eo = 0 THEN <<>> ELSE rest1))
AllReplaced(R, r, s, new) ==
  /\ R \in [0..Len(s) -> Seq(Chars)]
  /\ \A o \in 0..Len(s) : R[o] = Becomes(At(r, s, o), From(s, o), new, R[o + At(r, s, o).eo])

\* A match found at o lies within the rest of the text.
LEMMA AtInText ==
  ASSUME NEW r, NEW s \in Seq(Chars), AllInText(r, s), NEW o \in 0..Len(s), Hit(At(r, s, o))
  PROVE  /\ At(r, s, o).eo \in Nat /\ At(r, s, o).so \in 0..Len(From(s, o))
         /\ o + At(r, s, o).eo \in 0..Len(s)
  <1>1. Len(From(s, o)) = Len(s) - o
    BY Parting
  <1>2. InText(At(r, s, o), From(s, o))
    BY DEF AllInText, At
  <1> QED
    BY <1>1, <1>2 DEF InText

\* There is such a function.
LEMMA AllReplacedExists ==
  ASSUME NEW r, NEW s \in Seq(Chars), AllInText(r, s), NEW new \in Seq(Chars)
  PROVE  \E R : AllReplaced(R, r, s, new)
  <1> DEFINE Os == 0..Len(s)
             Texts == Seq(Chars)
             m(o) == At(r, s, o)
             at(o, f) == Becomes(m(o), From(s, o), new, f[o + m(o).eo])
             rank == [o \in Os |-> Len(s) - o]
             value == [of \in Os \X [Os -> Texts] |-> at(of[1], of[2])]
  <1>1. Len(s) \in Nat
    OBVIOUS
  <1>2. ASSUME NEW o \in Os, Hit(m(o))
        PROVE  /\ m(o).so \in 0..Len(From(s, o)) /\ o + m(o).eo \in Os
               /\ m(o).eo # 0 => rank[o + m(o).eo] < rank[o]
    <2>1. m(o).eo \in Nat /\ m(o).so \in 0..Len(From(s, o)) /\ o + m(o).eo \in Os
      BY <1>2, AtInText
    <2> HIDE DEF m
    <2> QED
      BY <1>1, <2>1
  <1> HIDE DEF m
  <1>3. ASSUME NEW o \in Os, NEW f \in [Os -> Texts] PROVE at(o, f) \in Texts
    <2>1. From(s, o) \in Seq(Chars)
      BY Parting
    <2>2. CASE ~Hit(m(o))
      BY <2>1, <2>2 DEF Becomes
    <2>3. CASE Hit(m(o))
      <3>1. Upto(From(s, o), m(o).so) \in Seq(Chars)
        BY <1>2, <2>1, <2>3, Parting
      <3>2. f[o + m(o).eo] \in Seq(Chars)
        BY <1>2, <1>3, <2>3
      <3>3. (IF m(o).eo = 0 THEN <<>> ELSE f[o + m(o).eo]) \in Seq(Chars)
        BY <3>2
      <3> QED
        BY <2>3, <3>1, <3>3 DEF Becomes
    <2> QED
      BY <2>2, <2>3
  <1> HIDE DEF at
  <1>4. value \in [Os \X [Os -> Texts] -> Texts]
    BY <1>3
  <1>5. IsRank(rank, Os, Len(s) + 1)
    BY <1>1 DEF IsRank
  <1>6. LooksLower(value, Os, Texts, rank)
    <2> SUFFICES ASSUME NEW o \in Os, NEW f \in [Os -> Texts], NEW g \in [Os -> Texts],
                        \A q \in Os : rank[q] < rank[o] => f[q] = g[q]
                 PROVE  at(o, f) = at(o, g)
      BY DEF LooksLower
    <2>1. Hit(m(o)) /\ m(o).eo # 0 => f[o + m(o).eo] = g[o + m(o).eo]
      BY <1>2
    <2> QED
      BY <2>1 DEF at, Becomes
  <1>7. Texts # {} /\ Len(s) + 1 \in Nat
    BY <1>1
  <1> HIDE DEF value, rank, Os, Texts
  <1>8. PICK R \in [Os -> Texts] : IsRecursive(R, value, Os)
    BY <1>4, <1>5, <1>6, <1>7, RankedRecursion
  <1>9. \A o \in Os : R[o] = at(o, R)
    BY <1>8 DEF IsRecursive, value
  <1>10. AllReplaced(R, r, s, new)
    BY <1>8, <1>9 DEF AllReplaced, Os, Texts, at, m
  <1> QED
    BY <1>10

\* What is still to come of the text at a match.
After(m, new, rest1) == IF ~Hit(m) THEN <<>> ELSE new \o (IF m.eo = 0 THEN <<>> ELSE rest1)

pattern  == Regcomp(sub.from.p, {})
IsResult(R) == AllReplaced(R, pattern, text, sub.to)
Matches  == Hit(SearchFor(pattern, text, {}))
Composing(R) == R[0] = sub.r \o After(sub.m, sub.to, R[next])
ComposedInv ==
  /\ pc = "compose" /\ Matches => \A R : IsResult(R) => Composing(R)
  /\ pc = "return" /\ sub.r # Null /\ ~IsSpecial(sub.from.p) /\ Matches =>
       \A R : IsResult(R) => sub.r = R[0]

\* Every match is replaced, as far as the library finds one: it is searched for in what follows the
\* last, and the result is composed of the replacements and of the texts between them.
EachReplaced ==
  pc = "return" /\ sub.r # Null /\ ~IsSpecial(sub.from.p) /\ Matches =>
    \E R : IsResult(R) /\ sub.r = R[0]

\* The second pass begins with the text before the first match.
LEMMA ComposeBegins ==
  ASSUME Inv, Compose
  PROVE  ComposedInv'
  <1> DEFINE m == SearchFor(re, text, {})
  <1>1. PICK n \in 0..Len(text) :
          /\ Hit(m) => n = m.so
          /\ Steps("compose", [sub EXCEPT !.offset = 0, !.m = m, !.r = Upto(text, n)])
    BY DEF Compose, Search
  <1> DEFINE r == Upto(text, n)
  <1>2. pc = "measured"
    BY DEF Compose
  <1>3. /\ sub = SubRecord(sub, sub.offset, sub.m, sub.len, sub.r) /\ text \in Seq(Chars)
        /\ re = pattern /\ sub.to \in Seq(Chars)
    BY <1>2, WhileSearching DEF pattern
  <1>4. From(text, 0) = text /\ 0 \in 0..Len(text)
    BY <1>3, FromStart
  <1>5. At(re, text, 0) = m
    BY <1>4 DEF At
  <1>6. Matches => Hit(m)
    BY <1>3 DEF Matches
  <1>7. Hit(m) => r = Upto(text, m.so) /\ m.eo \in Nat
    BY <1>1, <1>3, <1>4, <1>5, WhileSearching, <1>2, AtInText
  <1> HIDE DEF m, r
  <1>8. sub' = WithMatchAndText(sub, 0, m, r) /\ pc' = "compose" /\ text' = text
    BY <1>1 DEF Steps, r, WithMatchAndText
  <1>9. sub' = SubRecord(sub, 0, m, sub.len, r)
    BY <1>3, <1>8, MatchAndTextAssigned
  <1>10. /\ sub'.from = sub.from /\ sub'.to = sub.to /\ sub'.offset = 0 /\ sub'.m = m /\ sub'.r = r
    BY <1>9, SubFields
  <1>11. ASSUME Matches, NEW R, AllReplaced(R, re, text, sub.to)
         PROVE  R[0] = r \o After(m, sub.to, R[m.eo])
    <2>1. R[0] = Becomes(m, text, sub.to, R[0 + m.eo])
      BY <1>4, <1>5, <1>11 DEF AllReplaced
    <2>2. Hit(m) /\ 0 + m.eo = m.eo
      BY <1>6, <1>7, <1>11
    <2> QED
      BY <1>7, <2>1, <2>2 DEF Becomes, After
  <1>12. pattern' = pattern /\ (Matches' <=> Matches) /\ \A R : IsResult(R)' <=> IsResult(R)
    BY <1>8, <1>10 DEF pattern, Matches, IsResult
  <1>13. Matches => next' = m.eo
    BY <1>6, <1>7, <1>10 DEF next
  <1>14. ASSUME Matches, NEW R, IsResult(R) PROVE Composing(R)'
    <2>1. AllReplaced(R, re, text, sub.to)
      BY <1>3, <1>14 DEF IsResult
    <2>2. R[0] = r \o After(m, sub.to, R[m.eo])
      BY <1>11, <1>14, <2>1
    <2> QED
      BY <1>10, <1>13, <1>14, <2>2 DEF Composing
  <1> QED
    BY <1>8, <1>12, <1>14 DEF ComposedInv

\* Texts are put together in any order.
LEMMA Together ==
  \A a, b, c \in Seq(Chars) : a \o (b \o c) = (a \o b) \o c
  OBVIOUS

\* The text before a match, the replacement, and nothing.
LEMMA TogetherAtEnd ==
  ASSUME NEW S, NEW a \in Seq(S), NEW b \in Seq(S)
  PROVE  a \o (b \o <<>>) = a \o b /\ (a \o b) \o <<>> = a \o b
  OBVIOUS

\* A round of the second loop goes on to the next match, or to the end.
LEMMA ComposeOneComposes ==
  ASSUME Inv, ComposedInv, ComposeOne
  PROVE  ComposedInv'
  <1>1. /\ pc = "compose" /\ Hit(sub.m) /\ next \in 0..Len(text)
        /\ IF sub.m.eo = 0 THEN Steps("return", SubRecord(sub, sub.offset, sub.m, sub.len, replaced))
           ELSE Steps("compose", SubRecord(sub, next, found, sub.len, composed))
    BY ComposeOneIs
  <1>2. /\ text \in Seq(Chars) /\ sub.to \in Seq(Chars) /\ re = pattern /\ AllInText(re, text)
        /\ sub.r \in Seq(Chars)
    BY <1>1, WhileSearching DEF pattern, Inv, ResultInv
  <1>3. text' = text /\ sub'.from = sub.from /\ sub'.to = sub.to
    BY <1>1, SubFields DEF Steps
  <1>4. pattern' = pattern /\ (Matches' <=> Matches) /\ \A R : IsResult(R)' <=> IsResult(R)
    BY <1>3 DEF pattern, Matches, IsResult
  <1>5. ASSUME NEW R, Matches, IsResult(R)
        PROVE  R[0] = sub.r \o (sub.to \o (IF sub.m.eo = 0 THEN <<>> ELSE R[next]))
    BY <1>1, <1>5 DEF ComposedInv, Composing, After
  <1>6. CASE sub.m.eo = 0
    <2>1. pc' = "return" /\ sub'.r = replaced
      BY <1>1, <1>6, SubFields DEF Steps
    <2>2. sub.r \o (sub.to \o <<>>) = replaced
      BY <1>2, TogetherAtEnd DEF replaced
    <2>3. ASSUME NEW R, Matches, IsResult(R) PROVE R[0] = replaced
      BY <1>5, <1>6, <2>2, <2>3
    <2> QED
      BY <1>4, <2>1, <2>3 DEF ComposedInv
  <1>7. CASE sub.m.eo # 0
    <2>1. pc' = "compose" /\ sub'.offset = next /\ sub'.m = found /\ sub'.r = composed
      BY <1>1, <1>7, SubFields DEF Steps
    <2>2. At(re, text, next) = found /\ rest \in Seq(Chars)
      BY <1>1, <1>2, Parting DEF At, found, rest
    <2>3. between \in Seq(Chars) /\ replaced \in Seq(Chars) /\ composed \in Seq(Chars)
      BY ComposeOneIs
    <2>4. ASSUME NEW R, Matches, IsResult(R)
          PROVE  R[0] = composed \o After(found, sub.to, R[next + found.eo])
      <3>1. AllReplaced(R, re, text, sub.to)
        BY <1>2, <2>4 DEF IsResult
      <3>2. R[next] = Becomes(found, rest, sub.to, R[next + found.eo])
        BY <1>1, <2>2, <3>1 DEF AllReplaced, rest
      <3> DEFINE later == After(found, sub.to, R[next + found.eo])
      <3>3. R[next] = between \o later /\ later \in Seq(Chars)
        <4>1. CASE ~Hit(found)
          BY <2>2, <3>2, <4>1, TogetherAtEnd DEF Becomes, After, between
        <4>2. CASE Hit(found)
          <5>1. next + found.eo \in 0..Len(text)
            BY <1>1, <1>2, <2>2, <4>2, AtInText
          <5>2. R[next + found.eo] \in Seq(Chars)
            BY <3>1, <5>1 DEF AllReplaced
          <5>3. later = sub.to \o (IF found.eo = 0 THEN <<>> ELSE R[next + found.eo])
            BY <4>2 DEF After
          <5>4. R[next] = between \o later
            BY <3>2, <4>2, <5>3 DEF Becomes, between
          <5>5. (IF found.eo = 0 THEN <<>> ELSE R[next + found.eo]) \in Seq(Chars)
            BY <5>2
          <5> HIDE DEF later
          <5> QED
            BY <1>2, <5>3, <5>4, <5>5
        <4> QED
          BY <4>1, <4>2
      <3>4. R[0] = sub.r \o (sub.to \o R[next])
        BY <1>5, <1>7, <2>4
      <3> HIDE DEF later
      <3>5. sub.r \o (sub.to \o (between \o later)) = ((sub.r \o sub.to) \o between) \o later
        <4>1. sub.r \in Seq(Chars) /\ sub.to \in Seq(Chars)
          BY <1>2
        <4>2. \A q \in Seq(Chars) : sub.r \o (sub.to \o q) = (sub.r \o sub.to) \o q
          BY <4>1, Together, Zenon
        <4>3. between \o later \in Seq(Chars) /\ sub.r \o sub.to \in Seq(Chars)
          BY <2>3, <3>3, <4>1
        <4>4. \A q \in Seq(Chars) : q \o (between \o later) = (q \o between) \o later
          BY <2>3, <3>3, Together, Zenon
        <4> QED
          BY <4>2, <4>3, <4>4, Zenon
      <3>6. R[0] = composed \o later
        BY <3>3, <3>4, <3>5 DEF composed, replaced
      <3> QED
        BY <3>6 DEF later
    <2>5. next' = next + found.eo
      BY <2>1 DEF next
    <2>6. ASSUME NEW R, Matches, IsResult(R) PROVE Composing(R)'
      BY <1>3, <2>1, <2>4, <2>5, <2>6 DEF Composing
    <2> QED
      BY <1>4, <2>1, <2>6 DEF ComposedInv
  <1> QED
    BY <1>6, <1>7

\* Every step keeps it.
LEMMA ComposedInductive ==
  ASSUME Inv, Inv', ComposedInv, [Next \/ Finished]_vars
  PROVE  ComposedInv'
  <1>1. CASE pc' \notin {"compose", "return"}
    BY <1>1 DEF ComposedInv
  <1>2. CASE UNCHANGED vars
    BY <1>2 DEF ComposedInv, Composing, IsResult, Matches, pattern, next, vars
  <1>3. CASE Special
    <2>1. pc = "subst" /\ pc' = "return" /\ IsSpecial(sub.from.p) /\ sub = SubRecord(sub, sub.offset, sub.m, sub.len, sub.r)
      BY <1>3 DEF Special, Steps, Inv, SubInv, IsSub
    <2>2. PICK l, r : sub' = WithLenAndText(sub, l, r)
      BY <1>3 DEF Special, Steps, WithLenAndText
    <2>3. sub'.from = sub.from
      BY <2>1, <2>2, LenAndTextAssigned, SubFields
    <2> QED
      BY <2>1, <2>3 DEF ComposedInv
  <1>4. CASE BadFrom
    <2>1. pc' = "return" /\ sub'.r = Null
      BY <1>4 DEF BadFrom, Steps, Inv, ResultInv
    <2> QED
      BY <2>1 DEF ComposedInv
  <1>5. CASE ComposeEnd
    <2>1. /\ pc = "compose" /\ ~Hit(sub.m) /\ pc' = "return" /\ sub' = sub /\ text' = text
      BY <1>5 DEF ComposeEnd, Steps
    <2>2. sub.r \in Seq(Chars)
      BY <2>1 DEF Inv, ResultInv
    <2>3. pattern' = pattern /\ (Matches' <=> Matches) /\ \A R : IsResult(R)' <=> IsResult(R)
      BY <2>1 DEF pattern, Matches, IsResult
    <2>4. sub.r \o <<>> = sub.r
      BY <2>2
    <2>5. ASSUME NEW R, Matches, IsResult(R) PROVE sub.r = R[0]
      BY <2>1, <2>4, <2>5 DEF ComposedInv, Composing, After
    <2> QED
      BY <2>1, <2>3, <2>5 DEF ComposedInv
  <1>6. CASE Compose \/ ComposeOne
    BY <1>6, ComposeBegins, ComposeOneComposes
  <1>7. ASSUME Next, ~(Special \/ BadFrom \/ Compose \/ ComposeOne \/ ComposeEnd)
        PROVE  pc' \notin {"compose", "return"}
    BY <1>7 DEF Next, CompileKey, NextOption, TakeOption, NoOption, Replace, MapSubst, CompileFrom,
       Measure, MeasureOne, MeasureEnd, SubstReturns, Lower, Upper, Delete, XformSubst, Unknown,
       InPlace, Runs, Calls, Done, Steps
  <1> QED
    BY <1>1, <1>2, <1>3, <1>4, <1>5, <1>6, <1>7 DEF Finished

\* What regex_subst() returns, if anything matches: the text with each match replaced that the
\* library finds in what follows the last one (map.c:123-140).
THEOREM EachMatchIsReplaced == Spec => []EachReplaced
  <1>1. Init => ComposedInv
    BY DEF Init, ComposedInv
  <1>2. Inv /\ ComposedInv => EachReplaced
    <2> SUFFICES ASSUME Inv, ComposedInv, pc = "return", sub.r # Null, ~IsSpecial(sub.from.p), Matches
                 PROVE  \E R : IsResult(R) /\ sub.r = R[0]
      BY DEF EachReplaced
    <2>1. /\ text \in Seq(Chars) /\ text = job[1] /\ sub.to \in Seq(Chars)
          /\ sub.from \in Froms(job[2]) /\ job \in Jobs
      BY TextIsText DEF Inv, JobInv, SubInv, IsSub, function
    <2>2. AllInText(pattern, text)
      BY <2>1, PatternsInText DEF pattern
    <2>3. PICK R : IsResult(R)
      BY <2>1, <2>2, AllReplacedExists DEF IsResult
    <2> QED
      BY <2>3 DEF ComposedInv
  <1> QED
    BY <1>1, <1>2, ComposedInductive, InvInductive, InvAlways, PTL DEF Spec
=============================================================================
