------------------------------ MODULE MCSubst ------------------------------
(* Small instances of mappings and transformations: short texts over two   *)
(* letters, against functions of every kind.                               *)
EXTENDS SubstRegex, TLC

CONSTANT MaxText   \* the length of the texts

Ascii == {<<"NUL", 0>>, <<"\n", 10>>, <<"$", 36>>, <<"*", 42>>, <<".", 46>>, <<"A", 65>>,
          <<"B", 66>>, <<"[", 91>>, <<"]", 93>>, <<"^", 94>>, <<"a", 97>>, <<"b", 98>>,
          <<"x", 120>>}
MCCode == [c \in {p[1] : p \in Ascii} |-> (CHOOSE p \in Ascii : p[1] = c)[2]]

MCChars == DOMAIN MCCode \cup {"?"}
MCToLower(c) == IF c \in DOMAIN MCCode /\ IsAlpha(c) /\ ~IsLower(c) THEN OtherCase(c) ELSE c
MCToUpper(c) == IF c \in DOMAIN MCCode /\ IsLower(c) THEN OtherCase(c) ELSE c

Pat(b) == [e |-> <<b>>, p |-> Render(<<b>>, FALSE)]
Bad == [e |-> None, p |-> <<"[", "a">>]
a == Once(Chr("a"))
b == Once(Chr("b"))
Many(c) == Piece(Chr(c), 0, INFINITY)
Every == Pat(<<Piece(AnyAtom, 0, INFINITY)>>)                   \* ".*"
Bol == Pat(<<Once(Mark("bol"))>>)                               \* "^"
Eol == Pat(<<Once(Mark("eol"))>>)                               \* "$"
\* Patterns that are not tied to the beginning of the text.
Pats == {Pat(<<Many("a")>>), Pat(<<a>>), Pat(<<a, b>>), Pat(<<Many("a"), b>>), Pat(<<b, Many("b")>>),
         Pat(<<Once(AnyAtom), b>>), Pat(<<Once(Set(<<"^", "b">>, {"b"}, TRUE))>>) , Pat(<<b, Once(Mark("eol"))>>)}
Outs == {<<>>, <<"x">>, <<"x", "b", "a">>}

Map(os) == [k |-> "mapping", options |-> os]
Xform(os) == [k |-> "xform", options |-> os]
ReplaceBy(key, out) == [key |-> key, mode |-> "replace", out |-> out]
SubstBy(key, f, out) == [key |-> key, mode |-> "subst", from |-> f, out |-> out]
Cmd(key, name, addr, params) == [key |-> key, cmd |-> [name |-> name, addr |-> addr, params |-> params]]

Mappings ==
    {Map(<<SubstBy(p, p, o)>>) : p \in Pats, o \in Outs}
    \cup {Map(<<SubstBy(p, q, <<"x", "b", "a">>)>>) : p \in Pats, q \in Pats}
    \cup {Map(<<ReplaceBy(Bad, <<"x">>), ReplaceBy(p, o), SubstBy(Every, q, o)>>) :
            p \in Pats, q \in {Bol, Eol, Bad}, o \in {<<"x">>}}
Xforms ==
    {Xform(<<Cmd(p, "s", Null, <<p, o>>), Cmd(Every, "u", Null, <<>>)>>) : p \in Pats, o \in Outs}
    \cup {Xform(<<Cmd(p, "s", Null, <<q, <<"x">>>>)>>) : p \in {Pat(<<a>>), Every}, q \in Pats}
    \cup {Xform(<<Cmd(Bad, "d", Null, <<>>), Cmd(Every, n, Null, <<>>)>>) : n \in {"d", "l", "u", "z"}}
\* Ranges within the text; d only from the start of it.
Ranges(t) ==
    LET n == Len(t) IN
    {Xform(<<Cmd(Every, c, <<i, j>>, <<>>)>>) :
        c \in {"l", "u"}, i \in (-n)..(n - 1), j \in (-n)..(n - 1)}
    \cup {Xform(<<Cmd(Every, "d", <<i, j>>, <<>>)>>) : i \in {0, -n}, j \in (-n)..(n - 1)}

Seqs(S, n) == UNION {[1..k -> S] : k \in 1..n}
Words == {<<>>} \cup Seqs({"a", "b"}, MaxText)
Cased == {<<"a", "B", "b">>, <<"A">>, <<"B", "a", "A", "b">>}
MCJobs == (Words \X (Mappings \cup Xforms))
          \cup UNION {{t} \X (Xforms \cup Ranges(t)) : t \in Cased}

ASSUME MCJobsAssumption ==
    \A j \in MCJobs : PatternsCompile(j) /\ MatchesAnywhere(j) /\ RangesWithin(j)

\* "^a" -> "^a"/"xx"
MCCaret == {<<<<"a", "a", "b">>, Map(<<SubstBy(p, p, <<"x", "x">>)>>)>> :
              p \in {Pat(<<Once(Mark("bol")), a>>)}}
============================================================================
