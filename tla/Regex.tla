------------------------------- MODULE Regex -------------------------------
(***************************************************************************)
(* The regular expression library as its callers use it: regcomp() once,   *)
(* regexec() any number of times, regfree().  `expr' is the expression the *)
(* pattern was written from; it is not part of the program, and says what  *)
(* the program should answer.                                              *)
(***************************************************************************)
EXTENDS RegExec, RegLang

CONSTANTS Exprs,     \* the pairs <<expression, cflags>> that are compiled
          Searches,  \* the triples <<text, eflags, nmatch>> that are searched for them
          RawPatterns  \* other patterns, most of them wrong: <<pattern, cflags, error>>

VARIABLES preg,      \* the compiled expression
          expr,      \* the expression it was compiled from, and its flags
          out        \* the last search: text, flags and answer

vars == <<preg, expr, out>>

Ext(f) == "EXTENDED" \in f
None == [k |-> "none"]
Freed == [error |-> "FREED"]

Init == preg = Freed /\ expr = None /\ out = None

Regcomp(e, f) ==
    /\ preg = Freed
    /\ preg' = regcomp(Render(e, Ext(f)), f)
    /\ expr' = [k |-> "expr", e |-> e, cflags |-> f]
    /\ UNCHANGED out

RegcompRaw(s, f, err) ==
    /\ preg = Freed
    /\ preg' = regcomp(s, f)
    /\ expr' = [k |-> "raw", cflags |-> f, error |-> err]
    /\ UNCHANGED out

Regexec(text, ef, n) ==
    /\ preg # Freed /\ out = None
    /\ out' = [k |-> "out", text |-> text, eflags |-> ef, nmatch |-> n,
               r |-> regexec(preg, text, 0, Len(text), n, ef)]
    /\ UNCHANGED <<preg, expr>>

Regfree ==
    /\ preg # Freed
    /\ preg' = Freed /\ expr' = None /\ out' = None

Next == \/ \E ef \in Exprs : Regcomp(ef[1], ef[2])
        \/ \E s \in RawPatterns : RegcompRaw(s[1], s[2], s[3])
        \/ \E s \in Searches : Regexec(s[1], s[2], s[3])
        \/ Regfree

Spec == Init /\ [][Next]_vars

----------------------------------------------------------------------------
X == [text |-> out.text, eflags |-> out.eflags, cflags |-> expr.cflags]
Answered == out # None /\ expr.k = "expr"
Located  == Answered /\ out.r.code = "OK" /\ out.nmatch > 0

\* There is an answer if and only if there is a match, in spite of the search
\* for the mandatory string, of the two matchers and of the trials of back
\* references.  The match is the leftmost one, and of the leftmost ones the
\* longest, as re_format(7) has it, wherever fast() last saw none under way.
LeftmostLongest ==
    /\ Answered => (out.r.code = "OK" <=> Starts(expr.e, X) # {})
    /\ Located => /\ out.r.so = FirstStart(expr.e, X)
                  /\ out.r.eo = LongestEnd(expr.e, X)

\* What dissect() and backref() say the groups matched, they can all have
\* matched at once.
GroupsTogether ==
    Located /\ out.nmatch > 1 =>
        <<out.r.eo, out.r.caps>> \in EndsAt(expr.e, X, out.r.so)

\* Every expression is accepted, and what is none is refused with the error
\* that regex(3) lists for it, however the parser goes on after it.
ParserExact == /\ expr.k = "expr" => preg.error = "OK"
               /\ expr.k = "raw" => preg.error = expr.error

Compiles == out = None /\ preg.error = "OK"
\* "Any deviation from sequential flow must be marked at both its source and
\* its destination" (regex2.h), so that the strip can be run backwards, and
\* the loops and choices nest.
StripLinked ==
    Compiles =>
        LET s == preg.strip
            Pair(i, op, len) == s[i + len].op = op /\ s[i + len].opnd = len
        IN  \A i \in DOMAIN s :
              /\ s[i].op = "OPLUS_"  => Pair(i, "O_PLUS", s[i].opnd)
              /\ s[i].op = "OQUEST_" => Pair(i, "O_QUEST", s[i].opnd)
              /\ s[i].op = "OCH_" => s[i + s[i].opnd].op = "OOR2"
                                     /\ Pair(i, "OOR1", s[i].opnd - 1)
              /\ s[i].op = "OOR2" =>
                    \/ s[i + s[i].opnd].op = "OOR2" /\ Pair(i - 1, "OOR1", s[i].opnd)
                    \/ Pair(i - 1, "O_CH", s[i].opnd + 1)
============================================================================
