------------------------- MODULE ResolverRefinement -------------------------
(***************************************************************************)
(* The resolver implements Derivation on scripts made of literals, rules   *)
(* without parameters, inline choices, `*', `+' and %repeat: at every      *)
(* moment the texts gathered by the waiting C functions, from the outermost*)
(* in, are the words settled so far, and what these functions have yet to  *)
(* do, from the innermost out, is what remains to be derived.              *)
(***************************************************************************)
EXTENDS Resolver

\* The items of a script's grammar: rules by name, other nodes by number, and
\* the repetitions of a node, without end or for a number of rounds.
RuleItem(s, name) == [of |-> s, is |-> "rule", name |-> name]
NodeItem(s, n)    == [of |-> s, is |-> "node", n |-> n]
StarItem(s, n)    == [of |-> s, is |-> "star", n |-> n]
TimesItem(s, n, k) == [of |-> s, is |-> "times", n |-> n, k |-> k]

Item(s, n) ==
  LET node == s.nodes[n]
  IN  CASE node.type = "symbol"       -> RuleItem(s, node.data)
        [] node.type = "star"         -> StarItem(s, node.params[1])
        [] node.type = "repeat_const" -> TimesItem(s, node.params[1], node.count)
        [] OTHER                      -> NodeItem(s, n)

Items(s, ns) == [i \in DOMAIN ns |-> Item(s, ns[i])]

NodeOf(item)    == item.of.nodes[item.n]
IsLiteral(item) == item.is = "node" /\ NodeOf(item).type = "literal"
LiteralWords(item) == Text(NodeOf(item).data)

\* dada.texi: foo: bar* is foo: bar foo | nothing; bar+ is bar bar*; an inline
\* choice stands for a rule with the same options.
Grammar(item) ==
  LET s == item.of
  IN  CASE item.is = "rule" ->
             IF item.name \in DOMAIN s.rules
             THEN {Items(s, option) : option \in ToSet(s.rules[item.name].options)}
             ELSE {<<>>}
        [] item.is = "star"  -> {<<>>, <<Item(s, item.n), item>>}
        [] item.is = "times" ->
             IF item.k <= 0 THEN {<<>>}
             ELSE {<<Item(s, item.n), TimesItem(s, item.n, item.k - 1)>>}
        [] item.is = "node" /\ NodeOf(item).type = "plus" ->
             LET bar == NodeOf(item).params[1]
             IN  {<<Item(s, bar), StarItem(s, bar)>>}
        [] item.is = "node" /\ NodeOf(item).type = "choice" ->
             {Items(s, option) : option \in ToSet(NodeOf(item).options)}

Start == {RuleItem(s, s.start) : s \in Scripts}

\* What a waiting function has still to do.  A rule whose option was not yet
\* selected is still there as a whole.
Pending(i) ==
  LET frame == kont[i]
      child == script.nodes[frame.node].params[1]
  IN  CASE frame.kind = "option" -> Items(script, frame.todo)
        [] frame.kind = "loop"   ->
             IF frame.random THEN <<StarItem(script, child)>>
             ELSE <<TimesItem(script, child, frame.left)>>
        [] frame.kind = "args"   -> <<RuleItem(script, kont[i - 1].name)>>
        [] frame.kind = "rule"   ->
             IF focus.at = "cooked" /\ i = Len(kont)
             THEN <<RuleItem(script, frame.name)>> ELSE <<>>

Gathered(i) ==
  IF kont[i].kind \in {"option", "loop"} THEN TextAt(mem, kont[i].acc) ELSE <<>>

\* Of a script with other nodes, or with parameters, the grammar says nothing.
IsGrammar ==
  /\ \A i \in DOMAIN script.nodes :
       /\ script.nodes[i].type \in {"literal", "symbol", "choice", "star", "plus", "repeat_const"}
       /\ script.nodes[i].type = "symbol" => script.nodes[i].params = <<>>
  /\ \A name \in DOMAIN script.rules : script.rules[name].formal = <<>>

Settled ==
  IF ~IsGrammar THEN <<>>
  ELSE FlattenSeq([i \in DOMAIN kont |-> Gathered(i)])
    \o (IF focus.at \in {"return", "done"} THEN TextAt(mem, focus.text) ELSE <<>>)

ToDerive ==
  IF ~IsGrammar THEN <<RuleItem(script, script.start)>>
  ELSE (IF focus.at = "atom" THEN <<Item(script, focus.node)>> ELSE <<>>)
    \o FlattenSeq(Reverse([i \in DOMAIN kont |-> Pending(i)]))

Promise == INSTANCE Derivation WITH
             IsWord <- IsLiteral, WordsOf <- LiteralWords, Productions <- Grammar,
             out <- Settled, rest <- ToDerive

\* Every step of the resolver is a step of a leftmost derivation, or none: what
\* is printed is a sentence of the grammar.
ImplementsDerivation == Promise!Spec
=============================================================================
