----------------------------- MODULE MCResolver -----------------------------
(***************************************************************************)
(* The scripts that the model checker runs through Resolver.  They are the *)
(* test scripts of scripts/test and the examples of doc/dada.texi, cut     *)
(* down to the smallest number of alternatives that still shows the point. *)
(***************************************************************************)
EXTENDS ResolverRefinement, OwnerInv

\* The nodes and instructions that the parser's actions build.
Plain(type, data, params) ==
  [type |-> type, data |-> data, params |-> params, count |-> 0,
   options |-> <<>>, code |-> <<>>]
Lit(word)            == Plain("literal", word, <<>>)
Sym(name)            == Plain("symbol", name, <<>>)
CallOf(name, params) == Plain("symbol", name, params)
Mapped(n, name)      == Plain("mapping", name, <<n>>)
Deref(n)             == Plain("deref", "", <<n>>)
Keep(var, n)         == Plain("var_conddef", var, <<n>>)
Assign(var, n)       == Plain("var_def", var, <<n>>)
Ref(var)             == Plain("var_ref", var, <<>>)
Silent(n)            == Plain("silence", "", <<n>>)
Rep(type, n)         == Plain(type, "", <<n>>)
Times(n, count)      == [Plain("repeat_const", "", <<n>>) EXCEPT !.count = count]
TimesVar(n, var)     == Plain("repeat_var", var, <<n>>)
Inline(opts)         == [Plain("choice", "no name", <<>>) EXCEPT !.options = opts]
Block(instrs)        == [Plain("code", "no name", <<>>) EXCEPT !.code = instrs]

PushI(i)  == [op |-> "PUSH", type |-> "int_t", i |-> i]
PushS(w)  == [op |-> "PUSH", type |-> "string_t", word |-> w]
PushV(v)  == [op |-> "PUSHV", name |-> v]
SetV(v)   == [op |-> "SET", name |-> v]
Run(r)    == [op |-> "INVOKE", name |-> r]
Op(name)  == [op |-> name]

Rule(options)           == [formal |-> <<>>, options |-> options]
ParamRule(formal, opts) == [formal |-> formal, options |-> opts]

NoMaps == [name \in {} |-> <<>>]
-----------------------------------------------------------------------------
\* scripts/test/paramtest.pb: sentence: double(fruit); double(foo): foo "and" foo
ParamTest ==
  [start |-> "sentence",
   rules |-> [sentence |-> Rule(<< <<1>> >>),
              double   |-> ParamRule(<<"foo">>, << <<3, 4, 3>> >>),
              fruit    |-> Rule(<< <<5>>, <<6>> >>)],
   nodes |-> <<CallOf("double", <<2>>), Sym("fruit"), Sym("foo"), Lit("and"),
               Lit("apples"), Lit("oranges")>>,
   maps |-> NoMaps,
   output |-> {<<f, "and", f>> : f \in {"apples", "oranges"}}]

\* scripts/test/cascading.pb, with a second parameter.
Cascading ==
  [start |-> "start",
   rules |-> [start |-> Rule(<< <<1>> >>),
              foo   |-> ParamRule(<<"baz">>, << <<3, 3>> >>),
              bar   |-> ParamRule(<<"baz", "x">>, << <<5, 6, 4>> >>)],
   nodes |-> <<CallOf("foo", <<2>>), Lit("blah"), CallOf("bar", <<4, 5>>),
               Sym("baz"), Lit("["), Sym("x")>>,
   maps |-> NoMaps,
   output |-> {<<"[", "[", "blah", "[", "[", "blah">>}]

\* dada.texi, Indirection: @subject " is a " subject.
Indirection ==
  [start |-> "start",
   rules |-> [start  |-> Rule(<< <<1>> >>),
              animal |-> Rule(<< <<3>>, <<4>> >>),
              about  |-> ParamRule(<<"subject">>, << <<6, 7, 5>> >>),
              dog    |-> Rule(<< <<8>> >>),
              cat    |-> Rule(<< <<9>> >>)],
   nodes |-> <<CallOf("about", <<2>>), Sym("animal"), Lit("dog"), Lit("cat"),
               Sym("subject"), Deref(5), Lit("is a"), Lit("Fido"), Lit("Tiddles")>>,
   maps |-> NoMaps,
   output |-> {<<"Fido", "is a", "dog">>, <<"Tiddles", "is a", "cat">>}]

\* Variables: who << name is kept, $who, ?colour = "green" is silent, and a
\* mapping that knows one of the two names.
Remembering ==
  [start |-> "s",
   rules |-> [s    |-> Rule(<< <<1, 1, 3, 5, 6, 7>> >>),
              name |-> Rule(<< <<8>>, <<9>> >>)],
   nodes |-> <<Keep("who", 2), Sym("name"), Ref("who"), Assign("colour", 10),
               Silent(4), Ref("colour"), Mapped(3, "pronoun"),
               Lit("Alice"), Lit("Carol"), Lit("green")>>,
   maps |-> [pronoun |-> (<<"Alice">> :> <<"she">>)],
   output |-> {<<n, n, n, "green", IF n = "Alice" THEN "she" ELSE n>> :
                 n \in {"Alice", "Carol"}}]

\* scripts/test/concattest.pb: b: $c { res = res + "foo"; c = c + 1 }, in turns.
ConcatTest ==
  [start |-> "s",
   rules |-> [s |-> Rule(<< <<1, 2, 2, 3>> >>),
              a |-> Rule(<< <<4, 5>>, <<4, 6>> >>)],
   nodes |-> <<Block(<<PushS("eol"), SetV("res"), PushI(0), SetV("c")>>),
               Sym("a"), Ref("res"), Ref("c"),
               Block(<<PushV("res"), PushS("foo"), Op("ADD"), SetV("res"),
                       PushV("c"), PushI(1), Op("ADD"), SetV("c")>>),
               Block(<<PushV("res"), PushV("c"), Op("ADD"), SetV("res"),
                       PushV("c"), PushI(1), Op("ADD"), SetV("c")>>)>>,
   maps |-> NoMaps,
   output |-> {<<"0", "1", "eol", x, y>> : x \in {"foo", "0"}, y \in {"foo", "1"}}]

\* scripts/test/repeattest.pb and plus_star.pb: the count comes from a variable
\* that a random expression and a lesser of two set.
Repeating ==
  [start |-> "s",
   rules |-> [s    |-> Rule(<< <<1, 2, 3, 4, 5, 6>> >>),
              word |-> Rule(<< <<8>>, <<9>> >>)],
   nodes |-> <<Block(<<PushI(0), PushI(2), Op("RANDOM"), PushI(1), Op("LESSER"),
                       SetV("n")>>),
               TimesVar(7, "n"), Lit("|"), Rep("star", 7), Rep("plus", 7),
               Times(7, 1), Sym("word"), Lit("x"), Inline(<< <<8>>, <<10>> >>),
               Lit("y")>>,
   maps |-> NoMaps,
   output |-> {a \o <<"|">> \o b :
                 a \in {<<>>, <<"x">>, <<"y">>},
                 b \in UNION {[1 .. n -> {"x", "y"}] : n \in 2 .. 2 + 2 * MaxReps}}]

\* dada.texi, Textual Operators: {= "The " + @noun + " is green."}, where the
\* invoked rule runs a block of its own in the midst of the expression.
Invoking ==
  [start |-> "sentence",
   rules |-> [sentence |-> Rule(<< <<1>> >>),
              noun     |-> Rule(<< <<2, 3>>, <<3, 2, 4>> >>)],
   nodes |-> <<Block(<<PushS("The"), Run("noun"), Op("ADD"), PushS("is green"),
                       Op("ADD"), Op("EMIT"), PushI(1), SetV("unreached")>>),
               Block(<<PushI(7), PushI(2), Op("DIV"), PushI(5), PushI(3),
                       Op("MOD"), Op("MUL"), PushI(4), Op("GREATER"), SetV("n"),
                       PushV("n"), Op("EMIT")>>),
               Lit("ball"), Block(<<PushI(1), SetV("n")>>)>>,
   maps |-> NoMaps,
   output |-> {<<"The", "6", "ball", "is green">>, <<"The", "ball", "6", "is green">>}]

SaneScripts == {ParamTest, Cascading, Indirection, Remembering, ConcatTest,
                Repeating, Invoking}
-----------------------------------------------------------------------------
\* scripts/test/test2.pb: output: output sentence | sentence, which recurs, with
\* an undefined symbol in an inline choice, where check_rtn() does not look.
Recursion ==
  [start |-> "output",
   rules |-> [output   |-> Rule(<< <<1, 2>>, <<2>> >>),
              sentence |-> Rule(<< <<3, 5>>, <<3>> >>)],
   nodes |-> <<Sym("output"), Sym("sentence"), Lit("the"), Lit("boy"),
               Inline(<< <<4>>, <<7, 6>>, <<1>> >>), Sym("undefined"), Lit("ball")>>,
   maps |-> NoMaps, output |-> {}]

\* scripts/test/plus_star.pb, and with a repetition of a repetition.
Stars ==
  [start |-> "S",
   rules |-> [S  |-> Rule(<< <<1, 2>>, <<3>> >>),
              S1 |-> Rule(<< <<4>> >>),
              A  |-> Rule(<< <<7>>, <<8>> >>)],
   nodes |-> <<Sym("S1"), Rep("plus", 6), Times(5, 2), Rep("star", 6),
               Rep("plus", 9), Sym("A"), Lit("a"), Lit("b"), Rep("star", 7)>>,
   maps |-> NoMaps, output |-> {}]

AllScripts == SaneScripts \cup {Recursion, Stars}

\* The hypothesis of the theorems about the operand stack holds of all of them.
ASSUME SaneBlocks == \A s \in AllScripts : CarefulScript(s)
-----------------------------------------------------------------------------
\* A script on which the program departs from what is said of it.

\* include/plain.pbi: FOOTNOTE(text): ?tx=text {num = num+1} $num
\*                      {footnotes = footnotes + num + tx} ;
\* called as scripts/pomo.pb calls it.
Footnotes ==
  {[start |-> "s",
    rules |-> [s        |-> Rule(<< <<1, 2>> >>),
               cite     |-> ParamRule(<<"surname">>, << <<4>> >>),
               citeText |-> ParamRule(<<"surname">>, << <<6, 7>> >>),
               FOOTNOTE |-> ParamRule(<<"text">>, << <<9, 11, 12, 13>> >>)],
    nodes |-> <<Block(<<PushI(0), SetV("num"), PushS("notes"), SetV("footnotes")>>),
                CallOf("cite", <<3>>), Lit("Derrida"), CallOf("FOOTNOTE", <<5>>),
                CallOf("citeText", <<6>>), Sym("surname"), Lit("1972"),
                Assign("tx", 10), Silent(8), Sym("text"),
                Block(<<PushV("num"), PushI(1), Op("ADD"), SetV("num")>>), Ref("num"),
                Block(<<PushV("footnotes"), PushV("num"), Op("ADD"), PushV("tx"),
                        Op("ADD"), SetV("footnotes")>>)>>,
    maps |-> NoMaps, output |-> {<<"1">>}]}

\* Its blocks have types as well, but one adds to tx and puts nothing back.
ASSUME FootnoteBlocks ==
  \A s \in Footnotes : WellTyped(s) /\ ~CarefulScript(s)
=============================================================================
