------------------------------ MODULE MCRegex ------------------------------
(* Small instances of the library: every expression of a few shapes over   *)
(* two letters, against every text of up to MaxText characters.            *)
EXTENDS Regex, TLC

CONSTANT MaxText   \* the length of the texts

Ascii == {<<"NUL", 0>>, <<"\n", 10>>, <<" ", 32>>, <<"$", 36>>, <<"(", 40>>,
          <<")", 41>>, <<"*", 42>>, <<"+", 43>>, <<",", 44>>, <<"-", 45>>,
          <<".", 46>>, <<"0", 48>>, <<"1", 49>>, <<"2", 50>>, <<"3", 51>>,
          <<":", 58>>, <<"<", 60>>, <<"=", 61>>, <<">", 62>>, <<"?", 63>>,
          <<"A", 65>>, <<"[", 91>>, <<"\\", 92>>, <<"]", 93>>, <<"^", 94>>,
          <<"_", 95>>, <<"a", 97>>, <<"b", 98>>, <<"h", 104>>, <<"l", 108>>,
          <<"p", 112>>, <<"{", 123>>, <<"|", 124>>, <<"}", 125>>}
MCCode == [c \in {p[1] : p \in Ascii} |-> (CHOOSE p \in Ascii : p[1] = c)[2]]

a == Chr("a")
b == Chr("b")
Bounds1 == {<<1, 1>>, <<0, INFINITY>>}
Bounds2 == Bounds1 \cup {<<0, 1>>, <<1, 2>>, <<2, INFINITY>>}
Pieces(A, R) == {Piece(x, r[1], r[2]) : x \in A, r \in R}
Seqs(S, n) == UNION {[1..k -> S] : k \in 1..n}

Flat  == Seqs(Pieces({a, b, AnyAtom}, Bounds2), 2)
Few   == Seqs(Pieces({a, b}, Bounds1), 2)
Inner == {<<s>> : s \in Few}
Alts  == {<<s, t>> : s \in Few, t \in Seqs(Pieces({a}, Bounds1), 1)}
         \cup {<<<<Once(a)>>, <<p>>, s>> : p \in Pieces({b}, Bounds1), s \in Few}
Tails == {Once(a), Piece(b, 0, INFINITY)}
Groups1 == Pieces({Grp(e) : e \in Inner}, Bounds2)

\* Brackets, with what they stand for.
Brackets == {Set(<<"a", "b">>, {"a", "b"}, FALSE), Set(<<"^", "a">>, {"a"}, TRUE),
             Set(<<"a", "-", "b">>, {"a", "b"}, FALSE), Set(<<"]", "a">>, {"]", "a"}, FALSE),
             Set(<<"[", "=", "a", "=", "]", "-">>, {"a", "-"}, FALSE), Set(<<"b">>, {"b"}, FALSE),
             Set(<<"[", ".", "-", ".", "]", "a">>, {"a", "-"}, FALSE),
             Set(<<"[", ":", "a", "l", "p", "h", "a", ":", "]">>, {"A", "a", "b", "h", "l", "p"}, FALSE)}
Bols == {<<>>, <<Once(Mark("bol"))>>}
Eols == {<<>>, <<Once(Mark("eol"))>>}
Bows == {<<>>, <<Once(Mark("bow"))>>}
Eows == {<<>>, <<Once(Mark("eow"))>>}

\* Without alternatives: a basic or an extended expression.
Lines == Flat \cup {<<p, q>> : p \in Groups1, q \in Tails}
         \cup {x \o <<p>> \o y : x \in Bols, y \in Eols, p \in Pieces({a, AnyAtom, Grp(<<<<Once(Mark("bol")), Once(b)>>>>)}, Bounds1)}
         \cup {x \o <<p>> \o y : x \in Bows, y \in Eows, p \in Pieces({a, AnyAtom}, Bounds1)}
         \cup {<<p>> : p \in Pieces(Brackets, Bounds1)}
\* One repetition inside the other.  A group within a loop that ends with an
\* empty pass is left out: dissect() mixes the passes then.
Repeats == {s \in {<<Piece(Grp(<<<<p>>>>), r[1], r[2])>> : p \in Pieces({a, Grp(<<<<Once(b)>>>>)}, Bounds2), r \in Bounds2} :
              ~(s[1].a.e[1][1].a.k = "grp" /\ s[1].a.e[1][1].lo = 0 /\ s[1].hi = INFINITY)}
\* Back references, to a group that is repeated or to one with a repetition in
\* it, but not to both: backref() does not restore lastpos, and may not end.
Backs == {<<p>> \o m \o <<Piece(Back(1), r[1], r[2])>> :
            p \in {Once(Grp(e)) : e \in Inner} \cup {Piece(Grp(<<s>>), 0, INFINITY) : s \in Seqs({Once(a), Once(b)}, 2)},
            m \in {<<>>, <<Once(b)>>}, r \in Bounds1}

Cases(S, f) == {<<e, f>> : e \in S}
Basic    == Cases({<<s>> : s \in Lines \cup Repeats \cup Backs}, {})
Extended == Cases(Alts \cup {<<<<p, q>>>> : p \in Pieces({Grp(e) : e \in Alts}, Bounds1), q \in Tails},
                  {"EXTENDED"})
Flags    == Cases({<<s>> : s \in Seqs(Pieces({a, AnyAtom} \cup Brackets, Bounds1), 1)}, {"ICASE"})
            \cup Cases({<<x \o <<p>> \o y>> : x \in Bols, y \in Eols, p \in Pieces({a, AnyAtom}, Bounds1)}, {"NEWLINE"})
MCExprs == Basic \cup Extended \cup Flags

Words == {<<>>} \cup Seqs({"a", "b"}, MaxText)
Others == {<<"A", "b">>, <<"a", "\n", "b">>, <<"\n", "a">>, <<"b", " ", "a">>, <<"a", "-", "]">>}
MCSearches == {<<t, {}, 3>> : t \in Words \cup Others}
              \cup {<<t, {"NOTBOL"}, 1>> : t \in {<<"a">>, <<"b", "b">>, <<"b", "\n", "a">>}}
              \cup {<<t, {"NOTEOL"}, 0>> : t \in {<<>>, <<"a", "b">>}}

\* What is no expression, with the error that regex(3) lists for it, and the
\* limits of what is one: with POSIX_MISTAKE, a lone ) stands for itself.
RawBasic == {<<<<>>, "EMPTY">>, <<<<"^">>, "OK">>, <<<<"\\", "(", "\\", ")">>, "OK">>,
             <<<<"\\", "(", "a">>, "EPAREN">>, <<<<"a", "\\", ")">>, "EPAREN">>,
             <<<<"a", "\\", "1">>, "ESUBREG">>, <<<<"\\", "(", "a", "\\", "1", "\\", ")">>, "ESUBREG">>,
             <<<<"a", "\\">>, "EESCAPE">>, <<<<"\\", "{", "1", "\\", "}">>, "BADRPT">>, <<<<"a", "*", "*">>, "BADRPT">>,
             <<<<"a", "\\", "{", "2", ",", "1", "\\", "}">>, "BADBR">>, <<<<"a", "\\", "{", "3", "0", "0", "\\", "}">>, "BADBR">>,
             <<<<"a", "\\", "{", ",", "1", "\\", "}">>, "BADBR">>, <<<<"a", "\\", "{", "1">>, "EBRACE">>, <<<<"a", "\\", "{", "1", "a", "\\", "}">>, "BADBR">>,
             <<<<"[", "a">>, "EBRACK">>, <<<<"[", "b", "-", "a", "]">>, "ERANGE">>, <<<<"[", "a", "-", "b", "-", "b", "]">>, "ERANGE">>,
             <<<<"[", "[", ":", "a", ":", "]", "]">>, "ECTYPE">>, <<<<"[", "[", ".", "a", "b", ".", "]", "]">>, "ECOLLATE">>}
RawExtended == {<<<<>>, "EMPTY">>, <<<<"a", "|">>, "EMPTY">>, <<<<"|", "a">>, "EMPTY">>, <<<<"(", ")">>, "OK">>,
                <<<<"(", "a">>, "EPAREN">>, <<<<"a", ")">>, "OK">>, <<<<"*">>, "BADRPT">>, <<<<"^", "*">>, "BADRPT">>,
                <<<<"a", "*", "+">>, "BADRPT">>, <<<<"{", "1", "}">>, "BADRPT">>, <<<<"a", "{", "2", ",", "1", "}">>, "BADBR">>,
                <<<<"a", "{", "1">>, "EBRACE">>, <<<<"\\">>, "EESCAPE">>}
MCRaw == {<<s[1], {}, s[2]>> : s \in RawBasic} \cup {<<s[1], {"EXTENDED"}, s[2]>> : s \in RawExtended}
         \cup {<<<<"(", "*">>, {"NOSPEC"}, "OK">>, <<<<>>, {"NOSPEC"}, "EMPTY">>, <<<<"a">>, {"NOSPEC", "EXTENDED"}, "INVARG">>}
============================================================================
