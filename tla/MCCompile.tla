----------------------------- MODULE MCCompile -----------------------------
(* All expressions of up to three operators in a tree of depth two, and a  *)
(* few blocks of several statements.                                       *)
EXTENDS Compile, TLC

MCLetters == {"f", "x", "e", "n"}
MCDigits == {"1", "2"}

Leaf(k, v) == [k |-> k, v |-> v]
One == Leaf("INTEGER", <<"1">>)
X == Leaf("IDENT", <<"x">>)
Leaves == {One, X, Leaf("INTEGER", <<"-", "2", "1">>), Leaf("IDENT", <<"f", "-", "1">>),
           Leaf("LITERAL", <<"f", " ", "+">>), Leaf("LITERAL", <<>>), Leaf("@", <<"f">>)}
Op(k, a, b) == [k |-> k, a |-> a, b |-> b]
Single == {Op(k, One, X) : k \in Operators}
Double == {Op(k, a, b) : k \in Operators, a \in Single \cup {One}, b \in Single \cup {X}}
Mixed == {Op(k, a, b) : k \in {"+", "-"}, a \in Leaves, b \in Leaves}

\* Names that make a keyword with a percent sign before them, and one that does not.
N == Leaf("IDENT", <<"n">>)
Names == {N, Leaf("IDENT", <<"e", "1">>), Leaf("IDENT", <<"x", "n">>)}
Remainders == {Op("%", a, b) : a \in Single \cup {One}, b \in Names}
              \cup {Op(k, Op("%", X, b), c) : k \in Operators, b \in Names, c \in Names}

To(v, e) == [to |-> v, e |-> e]
Blocks == {<<To(<<>>, e)>> : e \in Double \cup Remainders}
          \cup {<<To(<<"x">>, e)>> : e \in Leaves \cup Mixed}
          \cup {<<To(<<"x">>, a), To(<<"f">>, b), To(<<>>, a)>> : a \in Single, b \in Leaves}
          \cup {<<>>}
=============================================================================
