----------------------------- MODULE Derivation -----------------------------
(***************************************************************************)
(* What a script without variables promises its author, as doc/dada.texi   *)
(* tells it: the rules are a context-free grammar, and what is printed is  *)
(* one of its sentences.  A state is a sentential form of a leftmost       *)
(* derivation: the words that are settled and the items yet to be expanded.*)
(***************************************************************************)
EXTENDS Sequences

CONSTANTS
  IsWord(_),        \* whether an item is a literal
  WordsOf(_),       \* the words of a literal
  Productions(_),   \* the sequences of items that may replace another item
  Start             \* the items a derivation may begin with

VARIABLES
  out,              \* the words settled so far
  rest              \* the items still to be expanded, the leftmost first

Init == out = <<>> /\ \E item \in Start : rest = <<item>>

\* The leftmost item is a literal.
Settle ==
  /\ rest # <<>> /\ IsWord(Head(rest))
  /\ out' = out \o WordsOf(Head(rest))
  /\ rest' = Tail(rest)

\* The leftmost item is replaced by what one of its productions says.
Expand ==
  /\ rest # <<>> /\ ~IsWord(Head(rest))
  /\ \E items \in Productions(Head(rest)) : rest' = items \o Tail(rest)
  /\ UNCHANGED out

Next == Settle \/ Expand

Spec == Init /\ [][Next]_<<out, rest>>
=============================================================================
