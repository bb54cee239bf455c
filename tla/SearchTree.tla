----------------------------- MODULE SearchTree -----------------------------
(***************************************************************************)
(* The binary trees in which the rules (rtn.c) and the variables           *)
(* (variables.c) are kept, by name.  A tree is the sequence of its nodes in *)
(* the order in which they were made; a node has a name and a body, and left *)
(* and right are the places of other nodes, or 0.                           *)
(***************************************************************************)
EXTENDS Integers, Sequences

Node(name, body) == [name |-> name, body |-> body, left |-> 0, right |-> 0]
Root(t) == IF t = <<>> THEN 0 ELSE 1

\* The node of that name, or 0: rule_find() and var_lookup().
Find(t, name) ==
  LET from[p \in 0..Len(t)] ==
        IF p = 0 THEN 0
        ELSE IF t[p].name = name THEN p
        ELSE from[IF name < t[p].name THEN t[p].left ELSE t[p].right]
  IN  from[Root(t)]

\* A slip: what is not in order goes nowhere but to the left.
InsertLeft(t, new) ==
  LET N == Len(t) + 1
      below[p \in 1..Len(t)] ==
        IF t[p].left = 0 THEN [t EXCEPT ![p].left = N] ELSE below[t[p].left]
  IN  Append(IF t = <<>> THEN t ELSE below[1], new)

\* The new node is hung where the walk for its name ends; a node of the same
\* name that is passed is taken for a greater one.
Insert(t, new) ==
  LET N == Len(t) + 1
      below[p \in 1..Len(t)] ==
        IF new.name > t[p].name
        THEN IF t[p].right = 0 THEN [t EXCEPT ![p].right = N] ELSE below[t[p].right]
        ELSE IF t[p].left = 0 THEN [t EXCEPT ![p].left = N] ELSE below[t[p].left]
  IN  Append(IF t = <<>> THEN t ELSE below[1], new)

\* The nodes from left to right.
Inorder(t) ==
  LET within[p \in 0..Len(t)] ==
        IF p = 0 THEN <<>> ELSE within[t[p].left] \o <<p>> \o within[t[p].right]
  IN  within[Root(t)]
=============================================================================
