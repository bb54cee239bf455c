------------------------------- MODULE MCLoad -------------------------------
(* Small scripts: all orders of a few declarations over three names, and   *)
(* all bodies of a rule that a check might mistake.                        *)
EXTENDS Load, TLC

Atom(type, data, params, os) == [type |-> type, data |-> data, params |-> params, options |-> os]
Lit == Atom("literal", 0, <<>>, <<>>)
Sym(n) == Atom("symbol", n, <<>>, <<>>)

\* A node with those that are within it: it is the last one.
Call1(n, a) == <<a, Atom("symbol", n, <<1>>, <<>>)>>
Call2(n, a, b) == <<a, b, Atom("symbol", n, <<1, 2>>, <<>>)>>
Mapped(t, n) == Append(t, Atom("mapping", n, <<Len(t)>>, <<>>))
Deref(t) == Append(t, Atom("deref", 0, <<Len(t)>>, <<>>))
Choice(a) == <<a, Lit, Atom("choice", 0, <<>>, <<<<1>>, <<2>>>>)>>

Body(formals, os) == [formals |-> formals, options |-> os]
Decl(k, n, b) == [k |-> k, name |-> n, body |-> b]
Script(nodes, ds, s, p) == [nodes |-> nodes, decls |-> ds, start |-> s, puts |-> p]

MCNames == 1..3
Upto(S, n) == UNION {[1..k -> S] : k \in 0..n}

\* Every sequence of up to four declarations.  The bodies tell two rules of a
\* name apart if they are of different kinds, and the options their order.
Rule(n, l) == Decl("rule", n, Body(<<>>, <<<<l>>, <<l, l>>, <<l>>, <<l>>>>))
Resource(n) == Decl("resource", n, Body(<<>>, <<<<1, 1>>>>))
Param(n) == Decl("param", n, Body(<<9>>, <<<<2>>, <<1>>>>))
Map(n, is) == Decl("mapping", n, is)
OneWay(n) == Map(n, <<<<"M", "a", "b">>>>)
TwoWays(n) == Map(n, <<<<"M", "c", "a">>, <<"R", "a", "b">>>>)
Xform(n) == Decl("xform", n, <<<<"a", "u">>, <<"b", "l">>>>)
Error == [k |-> "error"]

Orders == Upto({Rule(n, 1) : n \in MCNames} \cup {Resource(n) : n \in {1, 2}} \cup {Param(n) : n \in {2, 3}}, 4)
Mixed == Upto({Rule(2, 1), OneWay(1), TwoWays(1), OneWay(2), Xform(1), Xform(3), Error}, 4)
TwoNodes == <<Lit, Sym(9)>>
Reading == {Script(TwoNodes, ds, s, 0) : ds \in Orders, s \in {None, 2}}
           \cup {Script(TwoNodes, ds, None, 0) : ds \in Mixed}

\* Bodies: name 1 is a mapping, 2 a rule, 3 is not defined, 9 is a parameter.
Leaves == {Lit} \cup {Sym(n) : n \in {1, 2, 3, 9}}
One == {<<a>> : a \in Leaves}
Nodes == One \cup {Call1(n, a) : n \in {2, 9}, a \in Leaves}
         \cup {Call2(n, a, Sym(3)) : n \in {2, 9}, a \in Leaves}
         \cup {Mapped(t, n) : t \in One \cup {Call1(2, Sym(3)), Deref(<<Sym(2)>>)}, n \in {1, 3}}
         \cup {Deref(t) : t \in One} \cup {Choice(a) : a \in Leaves}
Options(a, l) == {<<<<a>>>>, <<<<a, l>>>>, <<<<l>>, <<l, a>>>>}
Checked(t, k, f, os) ==
  LET l == Len(t) + 1
      r == Decl(k, 2, Body(f, os))
  IN  {Script(Append(t, Lit), ds, None, 0) :
         ds \in {<<Rule(2, l), OneWay(1), r>>, <<r, Rule(2, l), Xform(1)>>}}
Checking ==
  UNION {UNION {Checked(t, k, f, os) : os \in Options(Len(t), Len(t) + 1)}
           : t \in Nodes, k \in {"rule", "param"}, f \in {<<>>, <<9>>, <<2, 9>>}}

Putting == {Script(<<Lit>>, <<Rule(1, 1)>>, None, 4)}
MCScripts == Reading \cup Checking \cup Putting
=============================================================================
