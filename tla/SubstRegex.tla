----------------------------- MODULE SubstRegex -----------------------------
(***************************************************************************)
(* Mappings and transformations with the library of regular expressions    *)
(* that they are linked with: what is substituted, and which option is     *)
(* taken, in terms of what the expressions mean.  In a pattern e is the    *)
(* expression it was written from (None if it is none).                    *)
(***************************************************************************)
EXTENDS Subst, RegExec, RegLang

None == <<>>
Plain(s) == [text |-> s, eflags |-> {}, cflags |-> {}]
Found1(pat, s) == pat.e # None /\ Starts(pat.e, Plain(s)) # {}

\* "All substrings matching the regular expression in the second string are
\* replaced with copies of the third string" (dada.texi): the leftmost longest
\* one, and the same in what follows it.  This is stated of a text in which the
\* pattern is found: if it is not, though the key is, the text does not stay as it
\* is but becomes any beginning of it (Compose).  (After an empty match the rest
\* is lost.)
RECURSIVE Replaced(_, _, _, _)
Replaced(e, s, new, i) ==
    LET S == {j \in Starts(e, Plain(s)) : j >= i}
        so == CHOOSE j \in S : \A k \in S : j <= k
        E == {r[1] : r \in EndsAt(e, Plain(s), so)}
        eo == CHOOSE j \in E : \A k \in E : k <= j
    IN  IF S = {} THEN From(s, i)
        ELSE SubSeq(s, i + 1, so) \o new \o Replaced(e, s, new, eo)
MatchesEmpty(e, s) == \E i \in 0..Len(s) : i \in {r[1] : r \in EndsAt(e, Plain(s), i)}
SubstitutesAll ==
    pc = "return" /\ sub.r # Null /\ Found1(sub.from, text) /\ ~MatchesEmpty(sub.from.e, text) =>
        sub.r = Replaced(sub.from.e, text, sub.to, 0)

\* The option that is carried out is the first whose key is found in the text.
FirstOption ==
    pc = "act" => /\ Found1(option.key, text)
                  /\ \A j \in 1..(opt - 1) : ~Found1(options[j].key, text)
=============================================================================
