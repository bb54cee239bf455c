----------------------------- MODULE LoadProofs -----------------------------
(***************************************************************************)
(* Reading a script, for every set of scripts that the parser can build:   *)
(* the trees stay search trees that hold and find what was read, the text  *)
(* begins where it should, the check for undefined names is right, and     *)
(* reading and running a script implements look-ups by name (Meaning).     *)
(*                                                                         *)
(* First the search trees (SearchTree): a search walks as the insertion    *)
(* does, so that no order is needed for what it finds (FindInsert); the    *)
(* order is needed for the traversal only (InsertOrdered, InorderLists).   *)
(* Then the lists that the grammar builds, what the recursive check reports *)
(* (UndefIs), the invariant LoadInv and the steps that keep it, and what   *)
(* each step means.                                                        *)
(***************************************************************************)
EXTENDS Load, Recursion

-----------------------------------------------------------------------------
(* Search trees.                                                            *)

\* The sequences that are trees: what is below a node was made after it.
NodesOf(B) == [name : Int, body : B, left : Nat, right : Nat]
IsTree(t, B) ==
  /\ t \in Seq(NodesOf(B))
  /\ \A p \in 1 .. Len(t) : /\ t[p].left = 0 \/ t[p].left \in p + 1 .. Len(t)
                            /\ t[p].right = 0 \/ t[p].right \in p + 1 .. Len(t)

\* What holds of a node if it holds of the later ones holds of all.
LEMMA DownInduction ==
  ASSUME NEW N \in Nat, NEW Good,
         \A p \in 1 .. N : (\A q \in p + 1 .. N : q \in Good) => p \in Good
  PROVE  1 .. N \subseteq Good
  <1> DEFINE D == 1 .. N
             rank == [p \in D |-> N - p]
  <1>1. rank \in [D -> Nat]
    OBVIOUS
  <1>2. ASSUME NEW p \in D, \A q \in D : rank[q] < rank[p] => q \in Good
        PROVE  p \in Good
    <2>1. \A q \in p + 1 .. N : q \in D /\ rank[q] < rank[p]
      OBVIOUS
    <2> HIDE DEF rank
    <2> QED
      BY <1>2, <2>1
  <1> HIDE DEF rank, D
  <1>3. \A p \in D : (\A q \in D : rank[q] < rank[p] => q \in Good) => p \in Good
    BY <1>2
  <1>4. D \subseteq Good
    BY <1>1, <1>3, RankedInduction
  <1> QED
    BY <1>4 DEF D

\* The value at 0 is given, and otherwise depends on what it is at 0 and further on.
LooksOn(value, N, S) ==
  \A p \in 0 .. N : \A f, g \in [0 .. N -> S] :
     (p # 0 => f[0] = g[0] /\ \A q \in p + 1 .. N : f[q] = g[q])
       => value[<<p, f>>] = value[<<p, g>>]

\* A function of the nodes, and of the null pointer, may be defined by what it
\* is at the nodes below.
LEMMA DownRecursion ==
  ASSUME NEW N \in Nat, NEW S, S # {},
         NEW value \in [(0 .. N) \X [0 .. N -> S] -> S], LooksOn(value, N, S)
  PROVE  \E f \in [0 .. N -> S] : IsRecursive(f, value, 0 .. N)
  <1> DEFINE D == 0 .. N
             M == N + 1
             rank == [p \in D |-> IF p = 0 THEN 0 ELSE (N - p) + 1]
  <1>1. IsRank(rank, D, M) /\ M \in Nat
    BY DEF IsRank
  <1>2. ASSUME NEW p \in D, NEW f \in [D -> S], NEW g \in [D -> S],
               \A q \in D : rank[q] < rank[p] => f[q] = g[q]
        PROVE  value[<<p, f>>] = value[<<p, g>>]
    <2>1. ASSUME p # 0 PROVE f[0] = g[0] /\ \A q \in p + 1 .. N : f[q] = g[q]
      <3>1. rank[0] < rank[p] /\ 0 \in D
        BY <2>1
      <3>2. \A q \in p + 1 .. N : rank[q] < rank[p] /\ q \in D
        BY <2>1
      <3> HIDE DEF rank
      <3> QED
        BY <1>2, <3>1, <3>2
    <2> QED
      BY <2>1 DEF LooksOn
  <1>3. LooksLower(value, D, S, rank)
    <2> HIDE DEF rank, D
    <2> QED
      BY <1>2 DEF LooksLower
  <1>4. value \in [D \X [D -> S] -> S]
    OBVIOUS
  <1> HIDE DEF rank, D, M
  <1>5. \E f \in [D -> S] : IsRecursive(f, value, D)
    BY <1>1, <1>3, <1>4, RankedRecursion
  <1> QED
    BY <1>5 DEF D

\* Where the walk for a name goes from a node.
Toward(t, name, p) == IF name > t[p].name THEN t[p].right ELSE t[p].left

\* Where the walks for a name end, by where they begin.
IsWalk(t, name, last) ==
  /\ last \in [0 .. Len(t) -> 0 .. Len(t)] /\ last[0] = 0
  /\ \A p \in 1 .. Len(t) :
       last[p] = IF Toward(t, name, p) = 0 THEN p ELSE last[Toward(t, name, p)]

\* A child is a later node, or none.
LEMMA TowardIs ==
  ASSUME NEW B, NEW t, IsTree(t, B), NEW name \in Int, NEW p \in 1 .. Len(t)
  PROVE  /\ Toward(t, name, p) = 0 \/ Toward(t, name, p) \in p + 1 .. Len(t)
         /\ Toward(t, name, p) \in 0 .. Len(t)
  <1>1. Len(t) \in Nat
    BY DEF IsTree
  <1>2. Toward(t, name, p) = 0 \/ Toward(t, name, p) \in p + 1 .. Len(t)
    BY DEF Toward, IsTree
  <1> QED
    BY <1>1, <1>2

\* Every walk ends.
LEMMA WalkExists ==
  ASSUME NEW B, NEW t, IsTree(t, B), NEW name \in Int
  PROVE  \E last : IsWalk(t, name, last)
  <1> DEFINE N == Len(t)
             S == 0 .. N
             to(p) == Toward(t, name, p)
             at(p, f) == IF p = 0 THEN 0 ELSE IF to(p) = 0 THEN p ELSE f[to(p)]
             value == [pf \in (0 .. N) \X [0 .. N -> S] |-> at(pf[1], pf[2])]
  <1>1. N \in Nat /\ 0 \in S
    BY DEF IsTree
  <1>2. \A p \in 1 .. N : (to(p) = 0 \/ to(p) \in p + 1 .. N) /\ to(p) \in 0 .. N
    BY TowardIs
  <1> HIDE DEF to, N
  <1>3. \A p \in 0 .. N : \A f \in [0 .. N -> S] : at(p, f) \in S
    BY <1>1, <1>2
  <1>4. value \in [(0 .. N) \X [0 .. N -> S] -> S]
    <2> HIDE DEF S, at
    <2> QED
      BY <1>3
  <1>5. \A p \in 0 .. N : \A f \in [0 .. N -> S] : value[<<p, f>>] = at(p, f)
    <2> HIDE DEF S, at
    <2> QED
      OBVIOUS
  <1>6. LooksOn(value, N, S)
    <2> SUFFICES ASSUME NEW p \in 0 .. N, NEW f \in [0 .. N -> S], NEW g \in [0 .. N -> S],
                        p # 0 => f[0] = g[0] /\ \A q \in p + 1 .. N : f[q] = g[q]
                 PROVE  value[<<p, f>>] = value[<<p, g>>]
      BY DEF LooksOn
    <2>1. at(p, f) = at(p, g)
      BY <1>1, <1>2
    <2> HIDE DEF value, at, S
    <2> QED
      BY <1>5, <2>1
  <1>7. PICK f \in [0 .. N -> S] : IsRecursive(f, value, 0 .. N)
    <2> HIDE DEF value, S
    <2> QED
      BY <1>1, <1>4, <1>6, DownRecursion
  <1>8. \A p \in 0 .. N : f[p] = at(p, f)
    <2> HIDE DEF value, at, S
    <2> QED
      BY <1>5, <1>7 DEF IsRecursive
  <1>9. f[0] = 0 /\ \A p \in 1 .. N : f[p] = IF to(p) = 0 THEN p ELSE f[to(p)]
    BY <1>1, <1>8
  <1>10. IsWalk(t, name, f)
    BY <1>9 DEF IsWalk, N, to
  <1> QED
    BY <1>10

\* The tree with the next node hung below p.
Hang(t, p, name) ==
  IF name > t[p].name THEN [t EXCEPT ![p].right = Len(t) + 1]
                      ELSE [t EXCEPT ![p].left = Len(t) + 1]

\* A node is put where the walk for its name ends.
LEMMA InsertIs ==
  ASSUME NEW B, NEW t, IsTree(t, B), t # <<>>, NEW new, new.name \in Int,
         NEW last, IsWalk(t, new.name, last)
  PROVE  Insert(t, new) = Append(Hang(t, last[1], new.name), new)
  <1> DEFINE N == Len(t)
             name == new.name
             to(p) == Toward(t, name, p)
             Body(h) == [p \in 1 .. Len(t) |->
                IF new.name > t[p].name
                THEN IF t[p].right = 0 THEN [t EXCEPT ![p].right = Len(t) + 1]
                     ELSE h[t[p].right]
                ELSE IF t[p].left = 0 THEN [t EXCEPT ![p].left = Len(t) + 1]
                     ELSE h[t[p].left]]
             below == CHOOSE h : h = Body(h)
             h0 == [p \in 1 .. N |-> Hang(t, last[p], name)]
  <1>1. N \in Nat /\ N # 0 /\ 1 \in 1 .. N
    BY DEF IsTree
  <1>2. \A p \in 1 .. N : (to(p) = 0 \/ to(p) \in p + 1 .. N) /\ to(p) \in 0 .. N
    BY TowardIs
  <1>3. \A p \in 1 .. N : last[p] = IF to(p) = 0 THEN p ELSE last[to(p)]
    BY DEF IsWalk
  <1>4. ASSUME NEW h
        PROVE  Body(h) = [p \in 1 .. N |-> IF to(p) = 0 THEN Hang(t, p, name) ELSE h[to(p)]]
    BY DEF Toward, Hang
  <1> HIDE DEF to, N, name
  <1>5. h0 = Body(h0)
    <2>1. ASSUME NEW p \in 1 .. N
          PROVE  h0[p] = IF to(p) = 0 THEN Hang(t, p, name) ELSE h0[to(p)]
      <3>1. CASE to(p) = 0
        BY <1>3, <3>1
      <3>2. CASE to(p) # 0
        <4>1. to(p) \in 1 .. N
          BY <1>1, <1>2, <3>2
        <4> QED
          BY <1>3, <3>2, <4>1
      <3> QED
        BY <3>1, <3>2
    <2>2. h0 = [p \in 1 .. N |-> h0[p]]
      OBVIOUS
    <2> HIDE DEF h0, Body
    <2> QED
      BY <1>4, <2>1, <2>2
  <1>6. below = Body(below)
    <2> HIDE DEF Body, h0
    <2> QED
      BY <1>5
  <1> HIDE DEF below, Body
  <1>7. \A p \in 1 .. N : below[p] = IF to(p) = 0 THEN Hang(t, p, name) ELSE below[to(p)]
    BY <1>4, <1>6
  <1> DEFINE Good == {p \in 1 .. N : below[p] = Hang(t, last[p], name)}
  <1>8. ASSUME NEW p \in 1 .. N, \A q \in p + 1 .. N : q \in Good PROVE p \in Good
    BY <1>1, <1>2, <1>3, <1>7, <1>8
  <1>9. 1 .. N \subseteq Good
    <2> HIDE DEF Good
    <2> QED
      BY <1>1, <1>8, DownInduction
  <1>10. below[1] = Hang(t, last[1], name)
    BY <1>1, <1>9
  <1>11. Insert(t, new) = Append(below[1], new)
    BY DEF Insert, below, Body
  <1> QED
    BY <1>10, <1>11 DEF name

\* A walk ends at a node that has nothing where it would go on.
LEMMA WalkEnds ==
  ASSUME NEW B, NEW t, IsTree(t, B), NEW name \in Int, NEW last, IsWalk(t, name, last)
  PROVE  \A p \in 1 .. Len(t) : last[p] \in 1 .. Len(t) /\ Toward(t, name, last[p]) = 0
  <1> DEFINE N == Len(t)
             to(p) == Toward(t, name, p)
             Good == {p \in 1 .. N : last[p] \in 1 .. N /\ to(last[p]) = 0}
  <1>1. N \in Nat
    BY DEF IsTree
  <1>2. \A p \in 1 .. N : (to(p) = 0 \/ to(p) \in p + 1 .. N) /\ to(p) \in 0 .. N
    BY TowardIs
  <1>3. \A p \in 1 .. N : last[p] = IF to(p) = 0 THEN p ELSE last[to(p)]
    BY DEF IsWalk
  <1> HIDE DEF to, N
  <1>4. ASSUME NEW p \in 1 .. N, \A q \in p + 1 .. N : q \in Good PROVE p \in Good
    BY <1>1, <1>2, <1>3, <1>4
  <1>5. 1 .. N \subseteq Good
    <2> HIDE DEF Good
    <2> QED
      BY <1>1, <1>4, DownInduction
  <1> QED
    BY <1>5 DEF N, to

\* What hangs a node below q leaves the rest as it is.
Extends(u, t, q, name, new) ==
  /\ Len(u) = Len(t) + 1 /\ u[Len(t) + 1] = new
  /\ \A p \in 1 .. Len(t) :
       /\ u[p].name = t[p].name /\ u[p].body = t[p].body
       /\ u[p].left = IF p = q /\ ~(name > t[p].name) THEN Len(t) + 1 ELSE t[p].left
       /\ u[p].right = IF p = q /\ name > t[p].name THEN Len(t) + 1 ELSE t[p].right

\* What is hung below a node of a tree makes a tree of it.
LEMMA HangIs ==
  ASSUME NEW B, NEW t, IsTree(t, B), NEW name \in Int, NEW b \in B, NEW q \in 1 .. Len(t)
  PROVE  LET u == Append(Hang(t, q, name), Node(name, b))
         IN  Extends(u, t, q, name, Node(name, b)) /\ IsTree(u, B)
  <1> DEFINE N == Len(t)
             R == NodesOf(B)
             new == Node(name, b)
             h == Hang(t, q, name)
             u == Append(h, new)
  <1>1. N \in Nat /\ t \in Seq(R) /\ \A p \in 1 .. N : t[p] \in R
    BY DEF IsTree
  <1>2. new \in R /\ new.left = 0 /\ new.right = 0
    BY DEF Node, NodesOf
  <1> HIDE DEF new
  <1>3. /\ h \in Seq(R) /\ Len(h) = N
        /\ \A p \in 1 .. N :
             /\ h[p].name = t[p].name /\ h[p].body = t[p].body
             /\ h[p].left = IF p = q /\ ~(name > t[p].name) THEN N + 1 ELSE t[p].left
             /\ h[p].right = IF p = q /\ name > t[p].name THEN N + 1 ELSE t[p].right
    <2>1. CASE name > t[q].name
      <3> DEFINE c == [t[q] EXCEPT !.right = N + 1]
      <3>1. h = [t EXCEPT ![q] = c]
        BY <2>1 DEF Hang
      <3>2. c \in R /\ c.name = t[q].name /\ c.body = t[q].body /\ c.left = t[q].left
            /\ c.right = N + 1
        <4>1. t[q] \in NodesOf(B) /\ N + 1 \in Nat
          BY <1>1
        <4> QED
          BY <4>1 DEF NodesOf
      <3> HIDE DEF h, c, R
      <3>3. h \in Seq(R) /\ Len(h) = N
        BY <1>1, <3>1, <3>2
      <3> QED
        BY <1>1, <2>1, <3>1, <3>2, <3>3
    <2>2. CASE ~(name > t[q].name)
      <3> DEFINE c == [t[q] EXCEPT !.left = N + 1]
      <3>1. h = [t EXCEPT ![q] = c]
        BY <2>2 DEF Hang
      <3>2. c \in R /\ c.name = t[q].name /\ c.body = t[q].body /\ c.right = t[q].right
            /\ c.left = N + 1
        <4>1. t[q] \in NodesOf(B) /\ N + 1 \in Nat
          BY <1>1
        <4> QED
          BY <4>1 DEF NodesOf
      <3> HIDE DEF h, c, R
      <3>3. h \in Seq(R) /\ Len(h) = N
        BY <1>1, <3>1, <3>2
      <3> QED
        BY <1>1, <2>2, <3>1, <3>2, <3>3
    <2> QED
      BY <2>1, <2>2
  <1> HIDE DEF h, R
  <1>4. /\ u \in Seq(R) /\ Len(u) = N + 1 /\ u[N + 1] = new
        /\ \A p \in 1 .. N : u[p] = h[p]
    <2>1. h \in Seq(R) /\ Len(h) = N /\ new \in R
      BY <1>2, <1>3
    <2>2. u \in Seq(R) /\ Len(u) = Len(h) + 1 /\ u[Len(h) + 1] = new
      BY <2>1
    <2>3. \A p \in 1 .. Len(h) : u[p] = h[p]
      BY <2>1
    <2> QED
      BY <2>1, <2>2, <2>3
  <1> HIDE DEF u
  <1>5. Extends(u, t, q, name, new)
    BY <1>3, <1>4 DEF Extends
  <1>6. ASSUME NEW p \in 1 .. Len(u)
        PROVE  /\ u[p].left = 0 \/ u[p].left \in p + 1 .. Len(u)
               /\ u[p].right = 0 \/ u[p].right \in p + 1 .. Len(u)
    <2>1. CASE p = N + 1
      BY <1>2, <1>4, <2>1
    <2>2. CASE p # N + 1
      <3>1. p \in 1 .. N
        BY <1>1, <1>4, <2>2
      <3>2. /\ t[p].left = 0 \/ t[p].left \in p + 1 .. N
            /\ t[p].right = 0 \/ t[p].right \in p + 1 .. N
        BY <3>1 DEF IsTree
      <3>3. N + 1 \in p + 1 .. N + 1
        BY <1>1, <3>1
      <3>4. p + 1 .. N \subseteq p + 1 .. N + 1
        BY <1>1, <3>1
      <3>5. u[p] = h[p] /\ Len(u) = N + 1
        BY <1>4, <3>1
      <3>6. u[p].left = N + 1 \/ u[p].left = t[p].left
        BY <1>3, <3>1, <3>5
      <3>7. u[p].right = N + 1 \/ u[p].right = t[p].right
        BY <1>3, <3>1, <3>5
      <3> HIDE DEF N
      <3> QED
        BY <3>2, <3>3, <3>4, <3>5, <3>6, <3>7
    <2> QED
      BY <2>1, <2>2
  <1>7. IsTree(u, B)
    BY <1>4, <1>6 DEF IsTree, R
  <1> QED
    BY <1>5, <1>7 DEF u, new, h

\* The tree with one node is one.
LEMMA FirstNode ==
  ASSUME NEW B, NEW name, name \in Int, NEW b \in B
  PROVE  LET u == Insert(<<>>, Node(name, b))
         IN  IsTree(u, B) /\ Len(u) = 1 /\ u[1] = Node(name, b)
  <1> DEFINE R == NodesOf(B)
             new == Node(name, b)
             u == Insert(<<>>, new)
  <1>1. new \in R /\ new.left = 0 /\ new.right = 0
    BY DEF Node, NodesOf
  <1> HIDE DEF new
  <1>2. u = Append(<<>>, new)
    BY DEF Insert
  <1> HIDE DEF R, u
  <1>3. u \in Seq(R) /\ Len(u) = 1 /\ u[1] = new
    BY <1>1, <1>2
  <1>4. \A p \in 1 .. Len(u) : p = 1
    BY <1>3
  <1>5. IsTree(u, B)
    BY <1>1, <1>3, <1>4 DEF IsTree, R
  <1> QED
    BY <1>3, <1>5 DEF u, new

\* Inserting makes a tree of one node more, in which the others keep their names
\* and bodies.
LEMMA InsertGives ==
  ASSUME NEW B, NEW t, IsTree(t, B), NEW name \in Int, NEW b \in B
  PROVE  LET u == Insert(t, Node(name, b))
         IN  /\ IsTree(u, B) /\ Len(u) = Len(t) + 1
             /\ u[Len(t) + 1].name = name /\ u[Len(t) + 1].body = b
             /\ \A p \in 1 .. Len(t) : u[p].name = t[p].name /\ u[p].body = t[p].body
  <1> DEFINE new == Node(name, b)
             u == Insert(t, new)
  <1>0. new.name = name /\ new.body = b
    BY DEF Node
  <1>1. CASE t = <<>>
    <2>1. IsTree(u, B) /\ Len(u) = 1 /\ u[1] = new
      BY <1>1, FirstNode
    <2> HIDE DEF u, new
    <2>2. Len(t) = 0
      BY <1>1
    <2>3. Len(t) + 1 = 1 /\ 1 .. Len(t) = {}
      BY <2>2
    <2> QED
      BY <1>0, <2>1, <2>3 DEF u, new
  <1>2. CASE t # <<>>
    <2> HIDE DEF new
    <2>1. PICK last : IsWalk(t, name, last)
      BY WalkExists
    <2>2. u = Append(Hang(t, last[1], name), new)
      BY <1>0, <1>2, <2>1, InsertIs
    <2>3. 1 \in 1 .. Len(t)
      BY <1>2 DEF IsTree
    <2>4. last[1] \in 1 .. Len(t)
      BY <2>1, <2>3, WalkEnds
    <2>5. Extends(u, t, last[1], name, new) /\ IsTree(u, B)
      BY <2>2, <2>4, HangIs DEF new
    <2> HIDE DEF u
    <2>6. /\ IsTree(u, B) /\ Len(u) = Len(t) + 1
          /\ u[Len(t) + 1].name = name /\ u[Len(t) + 1].body = b
          /\ \A p \in 1 .. Len(t) : u[p].name = t[p].name /\ u[p].body = t[p].body
      BY <1>0, <2>5 DEF Extends
    <2> QED
      BY <2>6 DEF u, new
  <1> QED
    BY <1>1, <1>2

\* The nodes of a name that are found, by where the search begins.
IsFind(t, name, g) ==
  /\ g \in [0 .. Len(t) -> 0 .. Len(t)] /\ g[0] = 0
  /\ \A p \in 1 .. Len(t) : g[p] = IF t[p].name = name THEN p ELSE g[Toward(t, name, p)]
  /\ Find(t, name) = g[Root(t)]

\* Find() is such a search.
LEMMA FindExists ==
  ASSUME NEW B, NEW t, IsTree(t, B), NEW name \in Int
  PROVE  \E g : IsFind(t, name, g)
  <1> DEFINE N == Len(t)
             S == 0 .. N
             to(p) == Toward(t, name, p)
             at(p, f) == IF p = 0 THEN 0 ELSE IF t[p].name = name THEN p ELSE f[to(p)]
             value == [pf \in (0 .. N) \X [0 .. N -> S] |-> at(pf[1], pf[2])]
             Body(h) == [p \in 0 .. Len(t) |->
                           IF p = 0 THEN 0
                           ELSE IF t[p].name = name THEN p
                           ELSE h[IF name < t[p].name THEN t[p].left ELSE t[p].right]]
             from == CHOOSE h : h = Body(h)
  <1>1. N \in Nat /\ 0 \in S
    BY DEF IsTree
  <1>2. \A p \in 1 .. N : (to(p) = 0 \/ to(p) \in p + 1 .. N) /\ to(p) \in 0 .. N
    BY TowardIs
  <1>3. ASSUME NEW p \in 1 .. N, t[p].name # name
        PROVE  (IF name < t[p].name THEN t[p].left ELSE t[p].right) = to(p)
    <2>1. t[p] \in NodesOf(B)
      BY DEF IsTree
    <2>2. t[p].name \in Int
      BY <2>1 DEF NodesOf
    <2> QED
      BY <1>3, <2>2 DEF Toward
  <1>4. ASSUME NEW h PROVE Body(h) = [p \in 0 .. N |-> at(p, h)]
    <2>1. ASSUME NEW p \in 0 .. N
          PROVE  (IF p = 0 THEN 0
                  ELSE IF t[p].name = name THEN p
                  ELSE h[IF name < t[p].name THEN t[p].left ELSE t[p].right]) = at(p, h)
      <3> HIDE DEF to
      <3>1. p = 0 \/ p \in 1 .. N
        BY <1>1
      <3> QED
        BY <1>3, <3>1
    <2> HIDE DEF at
    <2> QED
      BY <2>1
  <1> HIDE DEF to, N, Body, from
  <1>5. \A p \in 0 .. N : \A f \in [0 .. N -> S] : at(p, f) \in S
    BY <1>1, <1>2
  <1>6. value \in [(0 .. N) \X [0 .. N -> S] -> S]
    <2> HIDE DEF S, at
    <2> QED
      BY <1>5
  <1>7. \A p \in 0 .. N : \A f \in [0 .. N -> S] : value[<<p, f>>] = at(p, f)
    <2> HIDE DEF S, at
    <2> QED
      OBVIOUS
  <1>8. LooksOn(value, N, S)
    <2> SUFFICES ASSUME NEW p \in 0 .. N, NEW f \in [0 .. N -> S], NEW g \in [0 .. N -> S],
                        p # 0 => f[0] = g[0] /\ \A q \in p + 1 .. N : f[q] = g[q]
                 PROVE  value[<<p, f>>] = value[<<p, g>>]
      BY DEF LooksOn
    <2>1. at(p, f) = at(p, g)
      <3> HIDE DEF value, S
      <3>1. CASE p = 0
        BY <3>1
      <3>2. CASE p # 0
        <4>1. p \in 1 .. N
          BY <1>1, <3>2
        <4>2. f[to(p)] = g[to(p)]
          BY <1>2, <3>2, <4>1
        <4> QED
          BY <4>2
      <3> QED
        BY <3>1, <3>2
    <2> HIDE DEF value, at, S
    <2> QED
      BY <1>7, <2>1
  <1>9. PICK f \in [0 .. N -> S] : IsRecursive(f, value, 0 .. N)
    <2> HIDE DEF value, S
    <2> QED
      BY <1>1, <1>6, <1>8, DownRecursion
  <1>10. f = Body(f)
    <2>1. \A p \in 0 .. N : f[p] = at(p, f)
      <3> HIDE DEF value, at, S
      <3> QED
        BY <1>7, <1>9 DEF IsRecursive
    <2>2. f = [p \in 0 .. N |-> f[p]]
      OBVIOUS
    <2> HIDE DEF value, at, S
    <2> QED
      BY <1>4, <2>1, <2>2
  <1>11. from = Body(from)
    <2> HIDE DEF value, at, S
    <2> QED
      BY <1>10 DEF from
  <1>12. from = [p \in 0 .. N |-> at(p, from)]
    <2> HIDE DEF value, at, S
    <2> QED
      BY <1>4, <1>11
  <1>13. \A p \in 0 .. N : from[p] = at(p, from)
    <2> HIDE DEF value, S
    <2> QED
      BY <1>12
  <1>14. from[0] = 0
    BY <1>1, <1>13
  <1> DEFINE Good == {p \in 1 .. N : from[p] \in S}
  <1>15. ASSUME NEW p \in 1 .. N, \A q \in p + 1 .. N : q \in Good PROVE p \in Good
    <2> HIDE DEF value
    <2>1. p # 0 /\ p \in 0 .. N /\ p \in S
      BY <1>1
    <2>2. from[p] = IF t[p].name = name THEN p ELSE from[to(p)]
      BY <1>13, <2>1
    <2>3. from[to(p)] \in S
      BY <1>1, <1>2, <1>14, <1>15
    <2> QED
      BY <2>1, <2>2, <2>3
  <1>16. 1 .. N \subseteq Good
    <2> HIDE DEF Good
    <2> QED
      BY <1>1, <1>15, DownInduction
  <1>17. \A p \in 0 .. N : from[p] \in S
    BY <1>1, <1>14, <1>16
  <1>18. from \in [0 .. N -> S]
    <2> HIDE DEF S, at
    <2> QED
      BY <1>12, <1>17
  <1>19. \A p \in 1 .. N : from[p] = IF t[p].name = name THEN p ELSE from[to(p)]
    BY <1>1, <1>13
  <1>20. Find(t, name) = from[Root(t)]
    BY DEF Find, from, Body
  <1>21. IsFind(t, name, from)
    <2> HIDE DEF from, at, value
    <2> QED
      BY <1>14, <1>18, <1>19, <1>20 DEF IsFind, N, to
  <1> QED
    BY <1>21

\* What is found is a node of that name, or nothing.
LEMMA FindIsNode ==
  ASSUME NEW B, NEW t, IsTree(t, B), NEW name \in Int
  PROVE  /\ Find(t, name) \in 0 .. Len(t)
         /\ Find(t, name) # 0 => t[Find(t, name)].name = name
  <1> DEFINE N == Len(t)
             to(p) == Toward(t, name, p)
  <1>1. N \in Nat
    BY DEF IsTree
  <1>2. \A p \in 1 .. N : (to(p) = 0 \/ to(p) \in p + 1 .. N) /\ to(p) \in 0 .. N
    BY TowardIs
  <1>3. PICK g : IsFind(t, name, g)
    BY FindExists
  <1>4. \A p \in 1 .. N : g[p] = IF t[p].name = name THEN p ELSE g[to(p)]
    BY <1>3 DEF IsFind
  <1>5. g \in [0 .. N -> 0 .. N] /\ g[0] = 0 /\ Find(t, name) = g[Root(t)]
    BY <1>3 DEF IsFind
  <1> HIDE DEF to
  <1> DEFINE Good == {p \in 1 .. N : g[p] # 0 => t[g[p]].name = name}
  <1>6. ASSUME NEW p \in 1 .. N, \A q \in p + 1 .. N : q \in Good PROVE p \in Good
    <2> HIDE DEF N
    <2> QED
      BY <1>1, <1>2, <1>4, <1>5, <1>6
  <1>7. 1 .. N \subseteq Good
    <2> HIDE DEF Good
    <2> QED
      BY <1>1, <1>6, DownInduction
  <1>8. Root(t) = 0 \/ Root(t) \in 1 .. N
    BY <1>1 DEF IsTree, Root
  <1>9. Root(t) \in 0 .. N
    BY <1>1, <1>8
  <1> HIDE DEF N
  <1>10. g[Root(t)] \in 0 .. N /\ (g[Root(t)] # 0 => t[g[Root(t)]].name = name)
    BY <1>5, <1>7, <1>8, <1>9
  <1> QED
    BY <1>5, <1>10 DEF N

\* The walks over the larger tree go where those over the smaller one do, but to
\* the new node.
LEMMA TowardExtends ==
  ASSUME NEW B, NEW t, IsTree(t, B), NEW u, NEW q \in 1 .. Len(t), NEW name \in Int, NEW new,
         Extends(u, t, q, name, new), NEW n \in Int, NEW p \in 1 .. Len(t)
  PROVE  Toward(u, n, p) = IF p = q /\ (n > t[p].name <=> name > t[p].name)
                           THEN Len(t) + 1 ELSE Toward(t, n, p)
  BY DEF Extends, Toward

\* The search in a tree to which a node was added.
LEMMA FindExtends ==
  ASSUME NEW B, NEW t, IsTree(t, B), t # <<>>, NEW name \in Int, NEW b \in B,
         NEW last, IsWalk(t, name, last), NEW u, IsTree(u, B),
         Extends(u, t, last[1], name, Node(name, b)), NEW n \in Int
  PROVE  Find(u, n) = IF Find(t, n) # 0 THEN Find(t, n)
                      ELSE IF n = name THEN Len(t) + 1 ELSE 0
  <1> DEFINE N == Len(t)
             q == last[1]
             to(p) == Toward(t, n, p)
             go(p) == Toward(u, n, p)
             walk(p) == Toward(t, name, p)
  <1>1. N \in Nat /\ N # 0 /\ 1 \in 1 .. N
    BY DEF IsTree
  <1>2. \A p \in 1 .. N : (to(p) = 0 \/ to(p) \in p + 1 .. N) /\ to(p) \in 0 .. N
    BY TowardIs
  <1>3. q \in 1 .. N /\ walk(q) = 0
    BY <1>1, WalkEnds
  <1>4. \A p \in 1 .. N : last[p] = IF walk(p) = 0 THEN p ELSE last[walk(p)]
    BY DEF IsWalk
  <1>5. PICK g : IsFind(t, n, g)
    BY FindExists
  <1>6. PICK e : IsFind(u, n, e)
    BY FindExists
  <1>7. /\ g[0] = 0 /\ Find(t, n) = g[1]
        /\ \A p \in 1 .. N : g[p] = IF t[p].name = n THEN p ELSE g[to(p)]
    BY <1>5 DEF IsFind, Root
  <1>8. Len(u) = N + 1 /\ u[N + 1] = Node(name, b)
        /\ \A p \in 1 .. N : u[p].name = t[p].name
    BY DEF Extends
  <1>9. \A p \in 1 .. N : go(p) = IF p = q /\ (n > t[p].name <=> name > t[p].name)
                                 THEN N + 1 ELSE to(p)
    BY <1>3, TowardExtends
  <1>10. /\ e[0] = 0 /\ Find(u, n) = e[1]
         /\ \A p \in 1 .. N + 1 : e[p] = IF u[p].name = n THEN p ELSE e[go(p)]
    <2>1. u # <<>>
      BY <1>1, <1>8
    <2> QED
      BY <1>6, <1>8, <2>1 DEF IsFind, Root
  <1>11. go(N + 1) = 0 /\ u[N + 1].name = name
    BY <1>8 DEF Toward, Node
  <1>12. n > t[q].name <=> name > t[q].name => to(q) = walk(q)
    BY DEF Toward
  <1>13. n = name => \A p \in 1 .. N : to(p) = walk(p)
    OBVIOUS
  <1> HIDE DEF to, go, walk, q, N
  <1>14. e[N + 1] = IF n = name THEN N + 1 ELSE 0
    BY <1>1, <1>10, <1>11
  <1>15. ASSUME n > t[q].name <=> name > t[q].name PROVE to(q) = 0
    BY <1>3, <1>12, <1>15
  <1> DEFINE Good == {p \in 1 .. N :
                        /\ g[p] # 0 => e[p] = g[p]
                        /\ g[p] = 0 /\ n # name => e[p] = 0
                        /\ g[p] = 0 /\ n = name /\ last[p] = q => e[p] = N + 1}
  <1>16. ASSUME NEW p \in 1 .. N, \A r \in p + 1 .. N : r \in Good PROVE p \in Good
    <2>1. p \in 1 .. N + 1 /\ p # 0 /\ u[p].name = t[p].name
      BY <1>1, <1>8
    <2>2. CASE t[p].name = n
      BY <1>7, <1>10, <2>1, <2>2
    <2>3. CASE t[p].name # n
      <3>1. g[p] = g[to(p)] /\ e[p] = e[go(p)]
        BY <1>7, <1>10, <2>1, <2>3
      <3>2. CASE go(p) = N + 1 /\ p = q /\ to(p) = 0
        BY <1>7, <1>14, <3>1, <3>2
      <3>3. CASE go(p) = to(p) /\ ~(p = q /\ (n > t[p].name <=> name > t[p].name))
        <4>1. CASE to(p) = 0
          <5>1. n = name => walk(p) = 0 /\ p # q /\ last[p] = p
            BY <1>4, <1>13, <3>3, <4>1
          <5> QED
            BY <1>7, <1>10, <3>1, <3>3, <4>1, <5>1
        <4>2. CASE to(p) # 0
          <5>1. to(p) \in p + 1 .. N
            BY <1>2, <4>2
          <5>2. to(p) \in Good
            BY <1>16, <5>1
          <5>3. n = name => last[p] = last[to(p)]
            BY <1>4, <1>13, <4>2
          <5> QED
            BY <3>1, <3>3, <5>2, <5>3
        <4> QED
          BY <4>1, <4>2
      <3> QED
        BY <1>9, <1>15, <3>2, <3>3
    <2> QED
      BY <2>2, <2>3
  <1>17. 1 .. N \subseteq Good
    <2> HIDE DEF Good
    <2> QED
      BY <1>1, <1>16, DownInduction
  <1>18. 1 \in Good
    BY <1>1, <1>17
  <1>19. last[1] = q
    BY DEF q
  <1> QED
    BY <1>7, <1>10, <1>18, <1>19 DEF N

\* After the insertion of a name what was found is found, and what was not found
\* is found if it is the name.  No order is needed for it: the insertion walks as
\* the search does.
LEMMA FindInsert ==
  ASSUME NEW B, NEW t, IsTree(t, B), NEW name \in Int, NEW b \in B, NEW n \in Int
  PROVE  Find(Insert(t, Node(name, b)), n) =
           IF Find(t, n) # 0 THEN Find(t, n) ELSE IF n = name THEN Len(t) + 1 ELSE 0
  <1> DEFINE new == Node(name, b)
             u == Insert(t, new)
  <1>0. new.name = name /\ new.left = 0 /\ new.right = 0
    BY DEF Node
  <1>1. CASE t = <<>>
    <2>1. IsTree(u, B) /\ Len(u) = 1 /\ u[1] = new
      BY <1>1, FirstNode
    <2> HIDE DEF u, new
    <2>2. Len(t) = 0 /\ Root(t) = 0 /\ Root(u) = 1
      BY <1>1, <2>1 DEF Root
    <2>3. PICK g : IsFind(t, n, g)
      BY FindExists
    <2>4. PICK e : IsFind(u, n, e)
      BY <2>1, FindExists
    <2>5. Find(t, n) = 0
      BY <2>2, <2>3 DEF IsFind
    <2>6. e[1] = (IF u[1].name = n THEN 1 ELSE e[Toward(u, n, 1)]) /\ e[0] = 0
          /\ Find(u, n) = e[1]
      BY <2>1, <2>2, <2>4 DEF IsFind
    <2>7. Toward(u, n, 1) = 0
      BY <1>0, <2>1 DEF Toward
    <2>8. Find(u, n) = IF n = name THEN 1 ELSE 0
      BY <1>0, <2>1, <2>6, <2>7
    <2> QED
      BY <2>2, <2>5, <2>8 DEF u, new
  <1>2. CASE t # <<>>
    <2> HIDE DEF new
    <2>1. PICK last : IsWalk(t, name, last)
      BY WalkExists
    <2>2. u = Append(Hang(t, last[1], name), new)
      BY <1>0, <1>2, <2>1, InsertIs
    <2>3. 1 \in 1 .. Len(t)
      BY <1>2 DEF IsTree
    <2>4. last[1] \in 1 .. Len(t)
      BY <2>1, <2>3, WalkEnds
    <2>5. Extends(u, t, last[1], name, new) /\ IsTree(u, B)
      BY <2>2, <2>4, HangIs DEF new
    <2> HIDE DEF u
    <2> QED
      BY <1>2, <2>1, <2>5, FindExtends DEF u, new
  <1> QED
    BY <1>1, <1>2

\* The tree with another body at one node, and what that means.
IsUpdate(u, t, p, v) == u = [t EXCEPT ![p].body = v]
Updates(u, t, p, v) ==
  /\ Len(u) = Len(t) /\ u[p].body = v
  /\ \A r \in 1 .. Len(t) : r # p => u[r].body = t[r].body
  /\ \A n \in Int : Find(u, n) = Find(t, n)

\* A node that gets another body is found as before.
LEMMA FindUpdate ==
  ASSUME NEW B, NEW t, IsTree(t, B), NEW p \in 1 .. Len(t), NEW v \in B,
         NEW u, IsUpdate(u, t, p, v)
  PROVE  IsTree(u, B) /\ Updates(u, t, p, v)
  <1> DEFINE N == Len(t)
             R == NodesOf(B)
             c == [t[p] EXCEPT !.body = v]
  <1>1. u = [t EXCEPT ![p] = c]
    BY DEF IsUpdate
  <1>2. N \in Nat /\ t \in Seq(R) /\ \A r \in 1 .. N : t[r] \in R
    BY DEF IsTree
  <1>3. /\ c \in R /\ c.name = t[p].name /\ c.left = t[p].left /\ c.right = t[p].right
        /\ c.body = v
    <2>1. t[p] \in NodesOf(B)
      BY <1>2
    <2> QED
      BY <2>1 DEF NodesOf
  <1> HIDE DEF c, R
  <1>4. u \in Seq(R) /\ Len(u) = N
    BY <1>1, <1>2, <1>3
  <1>5. \A r \in 1 .. N : /\ u[r].name = t[r].name
                          /\ u[r].left = t[r].left /\ u[r].right = t[r].right
                          /\ u[r].body = IF r = p THEN v ELSE t[r].body
    BY <1>1, <1>2, <1>3
  <1>6. IsTree(u, B)
    BY <1>4, <1>5 DEF IsTree, R
  <1>7. ASSUME NEW n \in Int PROVE Find(u, n) = Find(t, n)
    <2>1. PICK g : IsFind(t, n, g)
      BY FindExists
    <2>2. PICK e : IsFind(u, n, e)
      BY <1>6, FindExists
    <2> DEFINE to(r) == Toward(t, n, r)
    <2>3. \A r \in 1 .. N : (to(r) = 0 \/ to(r) \in r + 1 .. N) /\ to(r) \in 0 .. N
      BY TowardIs
    <2>4. \A r \in 1 .. N : Toward(u, n, r) = to(r)
      BY <1>5 DEF Toward
    <2>5. /\ g[0] = 0
          /\ \A r \in 1 .. N : g[r] = IF t[r].name = n THEN r ELSE g[to(r)]
      BY <2>1 DEF IsFind
    <2> HIDE DEF to
    <2>6. /\ e[0] = 0
          /\ \A r \in 1 .. N : e[r] = IF t[r].name = n THEN r ELSE e[to(r)]
      BY <1>4, <1>5, <2>2, <2>4 DEF IsFind
    <2> DEFINE Good == {r \in 1 .. N : e[r] = g[r]}
    <2>7. ASSUME NEW r \in 1 .. N, \A s \in r + 1 .. N : s \in Good PROVE r \in Good
      BY <2>3, <2>5, <2>6, <2>7
    <2>8. 1 .. N \subseteq Good
      <3> HIDE DEF Good, N
      <3> QED
        BY <1>2, <2>7, DownInduction
    <2>9. Root(u) = Root(t) /\ Root(t) = 1 /\ 1 \in 1 .. N
      <3>1. N >= 1
        BY <1>2
      <3>2. t # <<>> /\ u # <<>>
        BY <1>4, <3>1
      <3> QED
        BY <3>1, <3>2 DEF Root
    <2> QED
      BY <2>1, <2>2, <2>8, <2>9 DEF IsFind
  <1> QED
    BY <1>4, <1>5, <1>6, <1>7 DEF Updates

\* The nodes that are below each node, itself among them.
IsUnder(t, u) ==
  /\ u \in [0 .. Len(t) -> SUBSET (1 .. Len(t))] /\ u[0] = {}
  /\ \A p \in 1 .. Len(t) : u[p] = {p} \cup u[t[p].left] \cup u[t[p].right]

\* To the left of a node are names that are not greater, to the right greater ones.
IsOrdered(t, u) ==
  \A p \in 1 .. Len(t) : /\ \A r \in u[t[p].left] : t[r].name <= t[p].name
                         /\ \A r \in u[t[p].right] : t[r].name > t[p].name

\* A search tree: in order, and all of it below the root.
IsSearchTree(t) ==
  \E u : IsUnder(t, u) /\ IsOrdered(t, u) /\ u[Root(t)] = 1 .. Len(t)

\* No node is below two children, nor below what was made after it.
LEMMA UnderIs ==
  ASSUME NEW B, NEW t, IsTree(t, B), NEW u, IsUnder(t, u)
  PROVE  /\ \A p \in 1 .. Len(t) : \A r \in u[p] : r >= p
         /\ \A p \in 1 .. Len(t) : \A s \in u[p] : u[s] \subseteq u[p]
  <1> DEFINE N == Len(t)
  <1>1. N \in Nat
    BY DEF IsTree
  <1>2. \A p \in 1 .. N : /\ t[p].left = 0 \/ t[p].left \in p + 1 .. N
                          /\ t[p].right = 0 \/ t[p].right \in p + 1 .. N
    BY DEF IsTree
  <1>3. u[0] = {} /\ \A p \in 1 .. N : /\ u[p] \subseteq 1 .. N
                                       /\ u[p] = {p} \cup u[t[p].left] \cup u[t[p].right]
    BY <1>1 DEF IsUnder
  <1> DEFINE Good == {p \in 1 .. N : (\A r \in u[p] : r >= p)
                                   /\ (\A s \in u[p] : u[s] \subseteq u[p])}
  <1> HIDE DEF N
  <1>4. ASSUME NEW p \in 1 .. N, \A q \in p + 1 .. N : q \in Good PROVE p \in Good
    <2>1. ASSUME NEW c, c = t[p].left \/ c = t[p].right, NEW s \in u[c]
          PROVE  s >= p /\ u[s] \subseteq u[c] /\ u[c] \subseteq u[p]
      <3>1. c \in p + 1 .. N
        BY <1>2, <1>3, <2>1
      <3>2. c \in Good /\ c > p /\ s \in 1 .. N
        BY <1>1, <1>3, <1>4, <3>1
      <3>3. s >= c /\ u[s] \subseteq u[c]
        BY <3>2
      <3>4. u[c] \subseteq u[p]
        BY <1>3, <2>1
      <3> QED
        BY <1>1, <3>1, <3>2, <3>3, <3>4
    <2>2. ASSUME NEW s \in u[p] PROVE s >= p /\ u[s] \subseteq u[p]
      <3>1. s = p \/ s \in u[t[p].left] \/ s \in u[t[p].right]
        BY <1>3
      <3> QED
        BY <2>1, <3>1
    <2> QED
      BY <2>2
  <1>5. 1 .. N \subseteq Good
    <2> HIDE DEF Good
    <2> QED
      BY <1>1, <1>4, DownInduction
  <1> QED
    BY <1>5 DEF N

\* In a search tree a node is below one child only.
LEMMA UnderOne ==
  ASSUME NEW B, NEW t, IsTree(t, B), NEW u, IsUnder(t, u), IsOrdered(t, u),
         NEW p \in 1 .. Len(t), NEW r
  PROVE  ~(r \in u[t[p].left] /\ r \in u[t[p].right])
  <1> SUFFICES ASSUME r \in u[t[p].left], r \in u[t[p].right] PROVE FALSE
    OBVIOUS
  <1>1. t[r].name <= t[p].name /\ t[r].name > t[p].name
    BY DEF IsOrdered
  <1>2. Len(t) \in Nat /\ t[p].left \in 0 .. Len(t)
    <2>1. t[p].left = 0 \/ t[p].left \in p + 1 .. Len(t)
      BY DEF IsTree
    <2>2. Len(t) \in Nat
      BY DEF IsTree
    <2> QED
      BY <2>1, <2>2
  <1>3. r \in 1 .. Len(t)
    BY <1>2 DEF IsUnder
  <1>4. t[r] \in NodesOf(B) /\ t[p] \in NodesOf(B)
    BY <1>3 DEF IsTree
  <1>5. t[r].name \in Int /\ t[p].name \in Int
    BY <1>4 DEF NodesOf
  <1> QED
    BY <1>1, <1>5

\* A walk that ends below a node has passed that node, and has turned to the side
\* where it ends.
LEMMA WalkPasses ==
  ASSUME NEW B, NEW t, IsTree(t, B), t # <<>>, NEW u, IsUnder(t, u), IsOrdered(t, u),
         u[1] = 1 .. Len(t), NEW name \in Int, NEW last, IsWalk(t, name, last)
  PROVE  \A p \in 1 .. Len(t) :
           /\ last[1] \in u[t[p].left] => ~(name > t[p].name)
           /\ last[1] \in u[t[p].right] => name > t[p].name
  <1> DEFINE N == Len(t)
             q == last[1]
             to(p) == Toward(t, name, p)
             l(p) == t[p].left
             r(p) == t[p].right
  <1>1. N \in Nat /\ 1 \in 1 .. N
    BY DEF IsTree
  <1>2. \A p \in 1 .. N : (to(p) = 0 \/ to(p) \in p + 1 .. N) /\ to(p) \in 0 .. N
    BY TowardIs
  <1>3. q \in 1 .. N /\ to(q) = 0
    BY <1>1, WalkEnds
  <1>4. \A p \in 1 .. N : last[p] = IF to(p) = 0 THEN p ELSE last[to(p)]
    BY DEF IsWalk
  <1>5. u[0] = {} /\ \A p \in 1 .. N : u[p] = {p} \cup u[l(p)] \cup u[r(p)]
    BY DEF IsUnder
  <1>6. \A p \in 1 .. N : u[p] \subseteq 1 .. N
    BY <1>1 DEF IsUnder
  <1>7. \A p \in 1 .. N : /\ l(p) = 0 \/ l(p) \in p + 1 .. N
                          /\ r(p) = 0 \/ r(p) \in p + 1 .. N
    BY DEF IsTree
  <1>8. \A p \in 1 .. N : (\A s \in u[p] : s >= p) /\ (\A s \in u[p] : u[s] \subseteq u[p])
    BY UnderIs
  <1>9. \A p \in 1 .. N : \A s : ~(s \in u[l(p)] /\ s \in u[r(p)])
    BY UnderOne
  <1>10. \A p \in 1 .. N : to(p) = IF name > t[p].name THEN r(p) ELSE l(p)
    BY DEF Toward
  <1>11. u[1] = 1 .. N
    OBVIOUS
  <1> HIDE DEF N, q, to, l, r
  <1> DEFINE Inside == {p \in 1 .. N : last[p] \in u[p]}
  <1>12. ASSUME NEW p \in 1 .. N, \A s \in p + 1 .. N : s \in Inside PROVE p \in Inside
    <2>1. CASE to(p) = 0
      BY <1>4, <1>5, <2>1
    <2>2. CASE to(p) # 0
      <3>1. to(p) \in Inside /\ last[p] = last[to(p)]
        BY <1>2, <1>4, <1>12, <2>2
      <3>2. u[to(p)] \subseteq u[p]
        BY <1>5, <1>10
      <3> QED
        BY <3>1, <3>2
    <2> QED
      BY <2>1, <2>2
  <1>13. 1 .. N \subseteq Inside
    <2> HIDE DEF Inside
    <2> QED
      BY <1>1, <1>12, DownInduction
  <1> DEFINE Good == {p \in 1 .. N : last[p] = q => \A s \in u[p] : q \in u[s] => last[s] = q}
  <1>14. ASSUME NEW p \in 1 .. N, \A s \in p + 1 .. N : s \in Good PROVE p \in Good
    <2> SUFFICES ASSUME last[p] = q, NEW s \in u[p], q \in u[s] PROVE last[s] = q
      OBVIOUS
    <2>1. s = p \/ s \in u[l(p)] \/ s \in u[r(p)]
      BY <1>5
    <2>2. ASSUME NEW c, c = l(p) \/ c = r(p), s \in u[c] PROVE last[s] = q
      <3>1. c \in p + 1 .. N
        BY <1>5, <1>7, <2>2
      <3>2. c \in 1 .. N /\ c > p
        BY <1>1, <3>1
      <3>3. s \in 1 .. N /\ s >= c /\ u[s] \subseteq u[c]
        BY <1>6, <1>8, <2>2, <3>2
      <3>4. q \in u[c] /\ q >= s
        BY <1>8, <3>3
      <3>5. to(p) # 0
        <4> SUFFICES ASSUME to(p) = 0 PROVE FALSE
          OBVIOUS
        <4>1. q = p
          BY <1>4
        <4> QED
          BY <1>1, <3>2, <3>3, <3>4, <4>1
      <3>6. to(p) \in p + 1 .. N /\ last[to(p)] = q
        BY <1>2, <1>4, <3>5
      <3>7. to(p) \in Good /\ q \in u[to(p)]
        BY <1>1, <1>13, <1>14, <3>6
      <3>8. to(p) = c
        BY <1>9, <1>10, <2>2, <3>4, <3>7
      <3> QED
        BY <2>2, <3>6, <3>7, <3>8
    <2> QED
      BY <2>1, <2>2
  <1>15. 1 .. N \subseteq Good
    <2> HIDE DEF Good
    <2> QED
      BY <1>1, <1>14, DownInduction
  <1>16. \A s \in 1 .. N : q \in u[s] => last[s] = q
    <2>1. 1 \in Good /\ last[1] = q
      BY <1>1, <1>15 DEF q
    <2> QED
      BY <1>11, <2>1
  <1>17. ASSUME NEW p \in 1 .. N, q \in u[l(p)] \/ q \in u[r(p)]
         PROVE  q \in u[to(p)]
    <2>1. q \in u[p] /\ last[p] = q
      BY <1>5, <1>16, <1>17
    <2>2. q # p
      <3>1. PICK c : (c = l(p) \/ c = r(p)) /\ q \in u[c]
        BY <1>17
      <3>2. c \in p + 1 .. N
        BY <1>5, <1>7, <3>1
      <3>3. c \in 1 .. N /\ c > p
        BY <1>1, <3>2
      <3>4. q >= c
        BY <1>8, <3>1, <3>3
      <3> QED
        BY <1>1, <1>3, <3>3, <3>4
    <2>3. to(p) # 0 /\ last[to(p)] = q
      BY <1>4, <2>1, <2>2
    <2>4. to(p) \in 1 .. N
      BY <1>1, <1>2, <2>3
    <2> QED
      BY <1>13, <2>3, <2>4
  <1>18. \A p \in 1 .. N : /\ q \in u[l(p)] => ~(name > t[p].name)
                           /\ q \in u[r(p)] => name > t[p].name
    BY <1>9, <1>10, <1>17
  <1> QED
    BY <1>18 DEF N, q, l, r

\* A node hung where the walk for its name ends keeps a search tree in order.
LEMMA OrderExtends ==
  ASSUME NEW B, NEW t, IsTree(t, B), t # <<>>, IsSearchTree(t), NEW name \in Int, NEW b \in B,
         NEW last, IsWalk(t, name, last), NEW v, IsTree(v, B),
         Extends(v, t, last[1], name, Node(name, b))
  PROVE  IsSearchTree(v)
  <1> DEFINE N == Len(t)
             q == last[1]
             new == Node(name, b)
  <1>1. PICK u : IsUnder(t, u) /\ IsOrdered(t, u) /\ u[1] = 1 .. N
    BY DEF IsSearchTree, Root
  <1>2. N \in Nat /\ 1 \in 1 .. N
    BY DEF IsTree
  <1>3. q \in 1 .. N /\ Toward(t, name, q) = 0
    BY <1>2, WalkEnds
  <1>4. /\ Len(v) = N + 1 /\ v[N + 1] = new
        /\ \A p \in 1 .. N :
             /\ v[p].name = t[p].name
             /\ v[p].left = IF p = q /\ ~(name > t[p].name) THEN N + 1 ELSE t[p].left
             /\ v[p].right = IF p = q /\ name > t[p].name THEN N + 1 ELSE t[p].right
    BY DEF Extends
  <1>5. new.name = name /\ new.left = 0 /\ new.right = 0
    BY DEF Node
  <1>6. u[0] = {} /\ \A p \in 1 .. N : u[p] = {p} \cup u[t[p].left] \cup u[t[p].right]
    BY <1>1 DEF IsUnder
  <1>7. \A p \in 0 .. N : u[p] \subseteq 1 .. N
    BY <1>1 DEF IsUnder
  <1>8. \A p \in 1 .. N : /\ t[p].left = 0 \/ t[p].left \in p + 1 .. N
                          /\ t[p].right = 0 \/ t[p].right \in p + 1 .. N
    BY DEF IsTree
  <1>9. \A p \in 1 .. N : \A s \in u[p] : s >= p
    BY <1>1, UnderIs
  <1>10. \A p \in 1 .. N : /\ q \in u[t[p].left] => ~(name > t[p].name)
                           /\ q \in u[t[p].right] => name > t[p].name
    BY <1>1, WalkPasses
  <1>11. \A p \in 1 .. N : /\ \A s \in u[t[p].left] : t[s].name <= t[p].name
                           /\ \A s \in u[t[p].right] : t[s].name > t[p].name
    BY <1>1 DEF IsOrdered
  <1>12. \A p \in 1 .. N : t[p].name \in Int
    <2>1. \A p \in 1 .. N : t[p] \in NodesOf(B)
      BY DEF IsTree
    <2> QED
      BY <2>1 DEF NodesOf
  <1>13. IF name > t[q].name THEN t[q].right = 0 ELSE t[q].left = 0
    BY <1>3 DEF Toward
  <1>14. Root(v) = 1
    BY <1>2, <1>4 DEF Root
  <1> HIDE DEF N, q, new
  <1> DEFINE more(p) == IF q \in u[p] THEN {N + 1} ELSE {}
             w == [p \in 0 .. N + 1 |-> IF p = N + 1 THEN {N + 1} ELSE u[p] \cup more(p)]
  <1>15. w \in [0 .. N + 1 -> SUBSET (1 .. N + 1)]
    <2>1. ASSUME NEW p \in 0 .. N + 1
          PROVE  (IF p = N + 1 THEN {N + 1} ELSE u[p] \cup more(p)) \in SUBSET (1 .. N + 1)
      BY <1>2, <1>7
    <2> HIDE DEF more
    <2> QED
      BY <2>1
  <1>16. w[N + 1] = {N + 1} /\ w[0] = {} /\ \A p \in 0 .. N : w[p] = u[p] \cup more(p)
    <2>1. N + 1 \in 0 .. N + 1 /\ 0 \in 0 .. N /\ \A p \in 0 .. N : p \in 0 .. N + 1 /\ p # N + 1
      BY <1>2
    <2>2. \A p \in 0 .. N : w[p] = u[p] \cup more(p)
      <3> HIDE DEF more
      <3> QED
        BY <2>1
    <2>3. w[N + 1] = {N + 1}
      <3> HIDE DEF more
      <3> QED
        BY <2>1
    <2>4. w[0] = {}
      BY <1>6, <2>1, <2>2
    <2> QED
      BY <2>2, <2>3, <2>4
  <1> HIDE DEF w
  <1>17. ASSUME NEW p \in 1 .. N
         PROVE  /\ w[v[p].left] = u[t[p].left]
                     \cup (IF p = q THEN IF name > t[p].name THEN {} ELSE {N + 1}
                           ELSE more(t[p].left))
                /\ w[v[p].right] = u[t[p].right]
                     \cup (IF p = q THEN IF name > t[p].name THEN {N + 1} ELSE {}
                           ELSE more(t[p].right))
    <2>1. t[p].left \in 0 .. N /\ t[p].right \in 0 .. N
      BY <1>2, <1>8
    <2>2. CASE p = q
      <3>1. ASSUME NEW c, c = t[p].left \/ c = t[p].right PROVE q \notin u[c]
        <4>1. CASE c = 0
          BY <1>6, <4>1
        <4>2. CASE c # 0
          <5>1. c \in p + 1 .. N
            BY <1>8, <3>1, <4>2
          <5>2. c \in 1 .. N /\ c > q
            BY <1>2, <2>2, <5>1
          <5>3. q \in u[c] => q >= c
            BY <1>9, <5>2
          <5> QED
            BY <1>2, <1>3, <5>2, <5>3
        <4> QED
          BY <4>1, <4>2
      <3>2. more(t[p].left) = {} /\ more(t[p].right) = {}
        BY <3>1
      <3>3. w[t[p].left] = u[t[p].left] /\ w[t[p].right] = u[t[p].right]
        <4>1. /\ w[t[p].left] = u[t[p].left] \cup more(t[p].left)
              /\ w[t[p].right] = u[t[p].right] \cup more(t[p].right)
          <5> HIDE DEF more
          <5> QED
            BY <1>16, <2>1
        <4> HIDE DEF more
        <4> QED
          BY <3>2, <4>1
      <3>4. CASE name > t[p].name
        <4>1. t[p].right = 0 /\ v[p].right = N + 1 /\ v[p].left = t[p].left
          BY <1>4, <1>13, <2>2, <3>4
        <4> QED
          BY <1>6, <1>16, <2>2, <3>3, <3>4, <4>1
      <3>5. CASE ~(name > t[p].name)
        <4>1. t[p].left = 0 /\ v[p].left = N + 1 /\ v[p].right = t[p].right
          BY <1>4, <1>13, <2>2, <3>5
        <4> QED
          BY <1>6, <1>16, <2>2, <3>3, <3>5, <4>1
      <3> QED
        BY <3>4, <3>5
    <2>3. CASE p # q
      <3>1. v[p].left = t[p].left /\ v[p].right = t[p].right
        BY <1>4, <2>3
      <3> HIDE DEF more
      <3> QED
        BY <1>16, <2>1, <2>3, <3>1
    <2> QED
      BY <2>2, <2>3
  <1>18. ASSUME NEW p \in 1 .. N PROVE w[p] = {p} \cup w[v[p].left] \cup w[v[p].right]
    <2>1. p \in 0 .. N
      BY <1>2
    <2>2. w[p] = u[p] \cup more(p)
      BY <1>16, <2>1
    <2>3. u[p] = {p} \cup u[t[p].left] \cup u[t[p].right]
      BY <1>6
    <2> QED
      BY <1>17, <2>2, <2>3
  <1>19. w[N + 1] = {N + 1} \cup w[v[N + 1].left] \cup w[v[N + 1].right]
    BY <1>4, <1>5, <1>16
  <1>20. \A p \in 1 .. N + 1 : p \in 1 .. N \/ p = N + 1
    BY <1>2
  <1>21. IsUnder(v, w)
    BY <1>4, <1>15, <1>16, <1>18, <1>19, <1>20 DEF IsUnder
  <1>22. ASSUME NEW p \in 1 .. N
         PROVE  /\ \A s \in w[v[p].left] : v[s].name <= v[p].name
                /\ \A s \in w[v[p].right] : v[s].name > v[p].name
    <2>1. t[p].left \in 0 .. N /\ t[p].right \in 0 .. N
      BY <1>2, <1>8
    <2>2. u[t[p].left] \subseteq 1 .. N /\ u[t[p].right] \subseteq 1 .. N
      BY <1>7, <2>1
    <2>3. v[N + 1].name = name /\ v[p].name = t[p].name /\ t[p].name \in Int
      BY <1>4, <1>5, <1>12
    <2>4. ASSUME NEW s \in w[v[p].left] PROVE v[s].name <= v[p].name
      <3>1. CASE s \in u[t[p].left]
        BY <1>4, <1>11, <2>2, <3>1
      <3>2. CASE s \notin u[t[p].left]
        <4>1. s = N + 1
          BY <1>17, <3>2
        <4>2. ~(name > t[p].name)
          BY <1>10, <1>17, <3>2
        <4> QED
          BY <2>3, <4>1, <4>2
      <3> QED
        BY <3>1, <3>2
    <2>5. ASSUME NEW s \in w[v[p].right] PROVE v[s].name > v[p].name
      <3>1. CASE s \in u[t[p].right]
        BY <1>4, <1>11, <2>2, <3>1
      <3>2. CASE s \notin u[t[p].right]
        <4>1. s = N + 1
          BY <1>17, <3>2
        <4>2. name > t[p].name
          BY <1>10, <1>17, <3>2
        <4> QED
          BY <2>3, <4>1, <4>2
      <3> QED
        BY <3>1, <3>2
    <2> QED
      BY <2>4, <2>5
  <1>23. w[v[N + 1].left] = {} /\ w[v[N + 1].right] = {}
    BY <1>4, <1>5, <1>16
  <1>24. IsOrdered(v, w)
    BY <1>4, <1>20, <1>22, <1>23 DEF IsOrdered
  <1>25. w[Root(v)] = 1 .. Len(v)
    <2>1. 1 \in 0 .. N /\ 1 .. N + 1 = 1 .. N \cup {N + 1}
      BY <1>2
    <2>2. q \in u[1] /\ u[1] = 1 .. N
      BY <1>1, <1>3 DEF N
    <2> QED
      BY <1>4, <1>14, <1>16, <2>1, <2>2
  <1> QED
    BY <1>21, <1>24, <1>25 DEF IsSearchTree

\* The empty tree is a search tree.
LEMMA EmptyTree == ASSUME NEW B PROVE IsTree(<<>>, B) /\ IsSearchTree(<<>>)
  <1> DEFINE u == [p \in 0 .. 0 |-> {}]
  <1>1. Len(<<>>) = 0 /\ 1 .. 0 = {} /\ 0 \in 0 .. 0
    OBVIOUS
  <1>2. IsTree(<<>>, B)
    BY <1>1 DEF IsTree
  <1>3. u[0] = {} /\ u \in [0 .. 0 -> SUBSET {}]
    OBVIOUS
  <1> HIDE DEF u
  <1>4. IsUnder(<<>>, u) /\ IsOrdered(<<>>, u) /\ u[Root(<<>>)] = 1 .. Len(<<>>)
    BY <1>1, <1>3 DEF IsUnder, IsOrdered, Root
  <1> QED
    BY <1>2, <1>4 DEF IsSearchTree

\* Inserting keeps a search tree.
LEMMA InsertOrdered ==
  ASSUME NEW B, NEW t, IsTree(t, B), IsSearchTree(t), NEW name \in Int, NEW b \in B
  PROVE  IsSearchTree(Insert(t, Node(name, b)))
  <1> DEFINE new == Node(name, b)
             v == Insert(t, new)
  <1>0. new.name = name /\ new.left = 0 /\ new.right = 0
    BY DEF Node
  <1>1. CASE t = <<>>
    <2>1. IsTree(v, B) /\ Len(v) = 1 /\ v[1] = new
      BY <1>1, FirstNode
    <2> HIDE DEF v, new
    <2> DEFINE u == [p \in 0 .. 1 |-> IF p = 0 THEN {} ELSE {1}]
    <2>2. u[0] = {} /\ u[1] = {1} /\ u \in [0 .. 1 -> SUBSET (1 .. 1)] /\ 1 .. 1 = {1}
      OBVIOUS
    <2>3. Root(v) = 1
      BY <2>1 DEF Root
    <2> HIDE DEF u
    <2>4. v[1].left = 0 /\ v[1].right = 0
      BY <1>0, <2>1
    <2>5. IsUnder(v, u) /\ IsOrdered(v, u) /\ u[Root(v)] = 1 .. Len(v)
      BY <2>1, <2>2, <2>3, <2>4 DEF IsUnder, IsOrdered
    <2> QED
      BY <2>5 DEF IsSearchTree, v, new
  <1>2. CASE t # <<>>
    <2> HIDE DEF new
    <2>1. PICK last : IsWalk(t, name, last)
      BY WalkExists
    <2>2. v = Append(Hang(t, last[1], name), new)
      BY <1>0, <1>2, <2>1, InsertIs
    <2>3. 1 \in 1 .. Len(t)
      BY <1>2 DEF IsTree
    <2>4. last[1] \in 1 .. Len(t)
      BY <2>1, <2>3, WalkEnds
    <2>5. Extends(v, t, last[1], name, new) /\ IsTree(v, B)
      BY <2>2, <2>4, HangIs DEF new
    <2> HIDE DEF v
    <2> QED
      BY <1>2, <2>1, <2>5, OrderExtends DEF v, new
  <1> QED
    BY <1>1, <1>2

\* Each node of a set once, in the order of the names.
Lists(s, U, t) ==
  /\ s \in Seq(U) /\ \A r \in U : \E i \in 1 .. Len(s) : s[i] = r
  /\ \A i, j \in 1 .. Len(s) : i < j => s[i] # s[j] /\ t[s[i]].name <= t[s[j]].name

\* What is in order before and after a node is so together with it.
LEMMA ListsJoin ==
  ASSUME NEW a, NEW b, NEW p, NEW U, NEW V, NEW t, Lists(a, U, t), Lists(b, V, t),
         t[p].name \in Int,
         \A x \in U : x # p /\ t[x].name \in Int /\ t[x].name <= t[p].name,
         \A y \in V : y # p /\ t[y].name \in Int /\ t[p].name < t[y].name
  PROVE  Lists(a \o <<p>> \o b, {p} \cup U \cup V, t)
  <1> DEFINE W == {p} \cup U \cup V
             s == a \o <<p>> \o b
             k == Len(a)
             m == Len(b)
  <1>1. k \in Nat /\ m \in Nat /\ (\A i \in 1 .. k : a[i] \in U) /\ (\A i \in 1 .. m : b[i] \in V)
    BY DEF Lists
  <1>2. a \in Seq(W) /\ b \in Seq(W) /\ <<p>> \in Seq(W) /\ p \in W
    <2>1. a \in Seq(U) /\ b \in Seq(V) /\ U \subseteq W /\ V \subseteq W /\ p \in W
      BY DEF Lists
    <2> HIDE DEF W
    <2> QED
      BY <2>1
  <1> HIDE DEF W
  <1>3. s \in Seq(W) /\ Len(s) = k + 1 + m
    BY <1>2
  <1>4. \A i \in 1 .. k : s[i] = a[i]
    BY <1>1, <1>2
  <1>5. s[k + 1] = p
    BY <1>1, <1>2
  <1>6. \A i \in 1 .. m : s[k + 1 + i] = b[i]
    BY <1>1, <1>2
  <1> HIDE DEF s, k, m
  <1>7. ASSUME NEW r \in W PROVE \E i \in 1 .. Len(s) : s[i] = r
    <2>1. CASE r = p
      <3>1. k + 1 \in 1 .. Len(s)
        BY <1>1, <1>3
      <3> QED
        BY <1>5, <2>1, <3>1
    <2>2. CASE r \in U
      <3>1. PICK i \in 1 .. k : a[i] = r
        BY <2>2 DEF Lists, k
      <3>2. i \in 1 .. Len(s)
        BY <1>1, <1>3
      <3> QED
        BY <1>4, <3>1, <3>2
    <2>3. CASE r \in V
      <3>1. PICK i \in 1 .. m : b[i] = r
        BY <2>3 DEF Lists, m
      <3>2. k + 1 + i \in 1 .. Len(s)
        BY <1>1, <1>3
      <3> QED
        BY <1>6, <3>1, <3>2
    <2> QED
      BY <2>1, <2>2, <2>3 DEF W
  <1>8. ASSUME NEW i \in 1 .. Len(s), NEW j \in 1 .. Len(s), i < j
        PROVE  s[i] # s[j] /\ t[s[i]].name <= t[s[j]].name
    <2>1. CASE j \in 1 .. k
      <3>1. i \in 1 .. k
        BY <1>1, <1>8, <2>1
      <3>2. a[i] # a[j] /\ t[a[i]].name <= t[a[j]].name
        BY <1>8, <2>1, <3>1 DEF Lists, k
      <3> QED
        BY <1>4, <2>1, <3>1, <3>2
    <2>2. CASE j = k + 1
      <3>1. i \in 1 .. k
        BY <1>1, <1>8, <2>2
      <3> QED
        BY <1>1, <1>4, <1>5, <2>2, <3>1
    <2>3. CASE j > k + 1
      <3> DEFINE n == j - (k + 1)
      <3>1. n \in 1 .. m /\ j = k + 1 + n
        BY <1>1, <1>3, <2>3
      <3>2. s[j] = b[n] /\ b[n] \in V
        <4> HIDE DEF n
        <4> QED
          BY <1>1, <1>6, <3>1
      <3>3. CASE i \in 1 .. k
        <4>1. s[i] = a[i] /\ a[i] \in U
          BY <1>1, <1>4, <3>3
        <4>2. /\ t[a[i]].name <= t[p].name /\ t[p].name < t[b[n]].name
              /\ t[a[i]].name \in Int /\ t[b[n]].name \in Int
          BY <3>2, <4>1
        <4>3. t[a[i]].name < t[b[n]].name
          BY <4>2
        <4> HIDE DEF n
        <4> QED
          BY <3>2, <4>1, <4>2, <4>3
      <3>4. CASE i = k + 1
        <4> HIDE DEF n
        <4> QED
          BY <1>5, <3>2, <3>4
      <3>5. CASE i > k + 1
        <4> DEFINE l == i - (k + 1)
        <4>1. l \in 1 .. m /\ i = k + 1 + l /\ l < n
          BY <1>1, <1>3, <1>8, <3>5
        <4> HIDE DEF l, n
        <4>2. s[i] = b[l]
          BY <1>6, <4>1
        <4>3. b[l] # b[n] /\ t[b[l]].name <= t[b[n]].name
          BY <3>1, <4>1 DEF Lists, m
        <4> QED
          BY <3>2, <4>2, <4>3
      <3>6. i \in 1 .. k \/ i = k + 1 \/ i > k + 1
        BY <1>1
      <3> QED
        BY <3>3, <3>4, <3>5, <3>6
    <2>4. j \in 1 .. k \/ j = k + 1 \/ j > k + 1
      BY <1>1
    <2> QED
      BY <2>1, <2>2, <2>3, <2>4
  <1>9. Lists(s, W, t)
    BY <1>3, <1>7, <1>8 DEF Lists
  <1> QED
    BY <1>9 DEF s, W

\* What Inorder() gathers below each node.
IsInorder(t, w) ==
  /\ w[0] = <<>>
  /\ \A p \in 1 .. Len(t) : w[p] = w[t[p].left] \o <<p>> \o w[t[p].right]
  /\ Inorder(t) = w[Root(t)]

\* Inorder() gathers something.
LEMMA InorderExists ==
  ASSUME NEW B, NEW t, IsTree(t, B)
  PROVE  \E w : IsInorder(t, w)
  <1> DEFINE N == Len(t)
             S == Seq(Nat)
             at(p, f) == IF p = 0 THEN <<>> ELSE f[t[p].left] \o <<p>> \o f[t[p].right]
             value == [pf \in (0 .. N) \X [0 .. N -> S] |-> at(pf[1], pf[2])]
             Body(h) == [p \in 0 .. Len(t) |->
                           IF p = 0 THEN <<>> ELSE h[t[p].left] \o <<p>> \o h[t[p].right]]
             within == CHOOSE h : h = Body(h)
  <1>1. N \in Nat /\ <<>> \in S
    BY DEF IsTree
  <1>2. \A p \in 1 .. N : /\ t[p].left = 0 \/ t[p].left \in p + 1 .. N
                          /\ t[p].right = 0 \/ t[p].right \in p + 1 .. N
    BY DEF IsTree
  <1>3. \A p \in 1 .. N : t[p].left \in 0 .. N /\ t[p].right \in 0 .. N
    BY <1>1, <1>2
  <1>4. ASSUME NEW h PROVE Body(h) = [p \in 0 .. N |-> at(p, h)]
    OBVIOUS
  <1> HIDE DEF N, Body, within
  <1>5. ASSUME NEW p \in 0 .. N, NEW f \in [0 .. N -> S] PROVE at(p, f) \in S
    <2>1. CASE p = 0
      BY <1>1, <2>1
    <2>2. CASE p # 0
      <3>1. p \in 1 .. N /\ p \in Nat
        BY <1>1, <2>2
      <3>2. f[t[p].left] \in S /\ f[t[p].right] \in S
        <4> HIDE DEF S
        <4> QED
          BY <1>3, <3>1
      <3>3. f[t[p].left] \o <<p>> \o f[t[p].right] \in S
        BY <3>1, <3>2
      <3> QED
        BY <2>2, <3>3
    <2> QED
      BY <2>1, <2>2
  <1>6. value \in [(0 .. N) \X [0 .. N -> S] -> S]
    <2> HIDE DEF S, at
    <2> QED
      BY <1>5
  <1>7. \A p \in 0 .. N : \A f \in [0 .. N -> S] : value[<<p, f>>] = at(p, f)
    <2> HIDE DEF S, at
    <2> QED
      OBVIOUS
  <1>8. LooksOn(value, N, S)
    <2> SUFFICES ASSUME NEW p \in 0 .. N, NEW f \in [0 .. N -> S], NEW g \in [0 .. N -> S],
                        p # 0 => f[0] = g[0] /\ \A q \in p + 1 .. N : f[q] = g[q]
                 PROVE  value[<<p, f>>] = value[<<p, g>>]
      BY DEF LooksOn
    <2>1. at(p, f) = at(p, g)
      <3> HIDE DEF value, S
      <3>1. CASE p = 0
        BY <3>1
      <3>2. CASE p # 0
        <4>1. p \in 1 .. N
          BY <1>1, <3>2
        <4>2. f[t[p].left] = g[t[p].left] /\ f[t[p].right] = g[t[p].right]
          BY <1>2, <3>2, <4>1
        <4> QED
          BY <4>2
      <3> QED
        BY <3>1, <3>2
    <2> HIDE DEF value, at, S
    <2> QED
      BY <1>7, <2>1
  <1>9. PICK f \in [0 .. N -> S] : IsRecursive(f, value, 0 .. N)
    <2> HIDE DEF value, S
    <2> QED
      BY <1>1, <1>6, <1>8, DownRecursion
  <1>10. f = Body(f)
    <2>1. \A p \in 0 .. N : f[p] = at(p, f)
      <3> HIDE DEF value, at, S
      <3> QED
        BY <1>7, <1>9 DEF IsRecursive
    <2>2. f = [p \in 0 .. N |-> f[p]]
      OBVIOUS
    <2> HIDE DEF value, at, S
    <2> QED
      BY <1>4, <2>1, <2>2
  <1>11. within = Body(within)
    <2> HIDE DEF value, at, S
    <2> QED
      BY <1>10 DEF within
  <1>12. \A p \in 0 .. N : within[p] = at(p, within)
    <2>1. within = [p \in 0 .. N |-> at(p, within)]
      <3> HIDE DEF value, at, S
      <3> QED
        BY <1>4, <1>11
    <2> HIDE DEF value, at, S
    <2> QED
      BY <2>1
  <1>13. within[0] = <<>>
    <2> HIDE DEF value, S
    <2>1. 0 \in 0 .. N
      BY <1>1
    <2> QED
      BY <1>12, <2>1
  <1>14. ASSUME NEW p \in 1 .. N
         PROVE  within[p] = within[t[p].left] \o <<p>> \o within[t[p].right]
    <2> HIDE DEF value, S
    <2>1. p \in 0 .. N /\ p # 0
      BY <1>1
    <2> QED
      BY <1>12, <2>1
  <1>15. Inorder(t) = within[Root(t)]
    BY DEF Inorder, within, Body
  <1>16. IsInorder(t, within)
    <2> HIDE DEF at, value
    <2> QED
      BY <1>13, <1>14, <1>15 DEF IsInorder, N
  <1> QED
    BY <1>16

\* A search tree is traversed in order, every node once.
LEMMA InorderLists ==
  ASSUME NEW B, NEW t, IsTree(t, B), IsSearchTree(t)
  PROVE  Lists(Inorder(t), 1 .. Len(t), t)
  <1> DEFINE N == Len(t)
  <1>1. PICK u : IsUnder(t, u) /\ IsOrdered(t, u) /\ u[Root(t)] = 1 .. N
    BY DEF IsSearchTree
  <1>2. PICK w : IsInorder(t, w)
    BY InorderExists
  <1>3. N \in Nat
    BY DEF IsTree
  <1>4. \A p \in 1 .. N : /\ t[p].left = 0 \/ t[p].left \in p + 1 .. N
                          /\ t[p].right = 0 \/ t[p].right \in p + 1 .. N
    BY DEF IsTree
  <1>5. \A p \in 1 .. N : t[p].name \in Int
    <2>1. \A p \in 1 .. N : t[p] \in NodesOf(B)
      BY DEF IsTree
    <2> QED
      BY <2>1 DEF NodesOf
  <1>6. u[0] = {} /\ \A p \in 1 .. N : /\ u[p] \subseteq 1 .. N
                                       /\ u[p] = {p} \cup u[t[p].left] \cup u[t[p].right]
    BY <1>1, <1>3 DEF IsUnder
  <1>7. \A p \in 1 .. N : \A r \in u[p] : r >= p
    BY <1>1, UnderIs
  <1>8. w[0] = <<>> /\ Inorder(t) = w[Root(t)]
        /\ \A p \in 1 .. N : w[p] = w[t[p].left] \o <<p>> \o w[t[p].right]
    BY <1>2 DEF IsInorder
  <1>9. \A p \in 1 .. N : /\ \A r \in u[t[p].left] : t[r].name <= t[p].name
                          /\ \A r \in u[t[p].right] : t[r].name > t[p].name
    BY <1>1 DEF IsOrdered
  <1> HIDE DEF N
  <1>10. Lists(w[0], u[0], t)
    BY <1>6, <1>8 DEF Lists
  <1> DEFINE Good == {p \in 1 .. N : Lists(w[p], u[p], t)}
  <1>11. ASSUME NEW p \in 1 .. N, \A q \in p + 1 .. N : q \in Good PROVE p \in Good
    <2>1. Lists(w[t[p].left], u[t[p].left], t) /\ Lists(w[t[p].right], u[t[p].right], t)
      <3>1. \A q \in p + 1 .. N : Lists(w[q], u[q], t)
        BY <1>11
      <3> QED
        BY <1>4, <1>10, <3>1
    <2>2. ASSUME NEW c, c = t[p].left \/ c = t[p].right, NEW x \in u[c]
          PROVE  x # p /\ x \in 1 .. N
      <3>1. c \in p + 1 .. N
        BY <1>4, <1>6, <2>2
      <3>2. c \in 1 .. N /\ c > p
        BY <1>3, <3>1
      <3>3. x >= c /\ x \in 1 .. N
        BY <1>6, <1>7, <3>2
      <3> QED
        BY <1>3, <3>2, <3>3
    <2>3. \A x \in u[t[p].left] : x # p /\ t[x].name \in Int /\ t[x].name <= t[p].name
      BY <1>5, <1>9, <2>2
    <2>4. \A y \in u[t[p].right] : y # p /\ t[y].name \in Int /\ t[p].name < t[y].name
      BY <1>5, <1>9, <2>2
    <2>5. t[p].name \in Int
      BY <1>5
    <2>6. Lists(w[t[p].left] \o <<p>> \o w[t[p].right],
                {p} \cup u[t[p].left] \cup u[t[p].right], t)
      <3> HIDE DEF Good
      <3> QED
        BY <2>1, <2>3, <2>4, <2>5, ListsJoin
    <2> QED
      BY <1>6, <1>8, <2>6
  <1>12. 1 .. N \subseteq Good
    <2> HIDE DEF Good
    <2> QED
      BY <1>3, <1>11, DownInduction
  <1>13. Root(t) = 0 \/ Root(t) \in 1 .. N
    BY DEF IsTree, Root, N
  <1>14. Lists(w[Root(t)], u[Root(t)], t)
    BY <1>10, <1>12, <1>13
  <1> QED
    BY <1>1, <1>8, <1>14 DEF N

-----------------------------------------------------------------------------
(* The lists that the grammar builds.                                       *)

\* A sequence has its values.
LEMMA SequenceIs ==
  ASSUME NEW s, IsSequence(s)
  PROVE  s \in Seq({s[i] : i \in 1 .. Len(s)}) /\ DOMAIN s = 1 .. Len(s)
  <1> DEFINE S == {s[i] : i \in 1 .. Len(s)}
             N == Len(s)
  <1>1. N \in Nat /\ s = [i \in 1 .. N |-> s[i]] /\ \A i \in 1 .. N : s[i] \in S
    BY DEF IsSequence
  <1> HIDE DEF S, N
  <1>2. s \in Seq(S) /\ DOMAIN s = 1 .. N
    BY <1>1
  <1> QED
    BY <1>2 DEF S, N

\* The tails of a sequence that is put together from its end.
LEMMA Tails ==
  ASSUME NEW S, NEW s \in Seq(S), NEW i \in 1 .. Len(s)
  PROVE  SubSeq(s, i, Len(s)) = IF i = Len(s) THEN <<s[i]>>
                                ELSE <<s[i]>> \o SubSeq(s, i + 1, Len(s))
  <1> DEFINE N == Len(s)
             a == SubSeq(s, i, N)
             b == SubSeq(s, i + 1, N)
             c == <<s[i]>> \o b
  <1>1. N \in Nat /\ i \in Nat /\ i >= 1 /\ i <= N
    OBVIOUS
  <1>2. /\ a \in Seq(S) /\ Len(a) = N - i + 1
        /\ \A k \in 1 .. N - i + 1 : a[k] = s[i + k - 1]
    BY <1>1
  <1>3. CASE i = N
    <2>1. Len(a) = 1 /\ a[1] = s[i]
      BY <1>1, <1>2, <1>3
    <2>2. a = <<s[i]>>
      <3> HIDE DEF a
      <3> QED
        BY <1>2, <2>1
    <2> QED
      BY <1>3, <2>2
  <1>4. CASE i # N
    <2>1. /\ b \in Seq(S) /\ Len(b) = N - i
          /\ \A k \in 1 .. N - i : b[k] = s[i + k]
      BY <1>1, <1>4
    <2>2. s[i] \in S
      BY <1>1
    <2> HIDE DEF a, b, N
    <2>3. c \in Seq(S) /\ Len(c) = N - i + 1 /\ c[1] = s[i]
          /\ \A k \in 2 .. N - i + 1 : c[k] = b[k - 1]
      BY <1>1, <2>1, <2>2
    <2>4. ASSUME NEW k \in 1 .. N - i + 1 PROVE c[k] = a[k]
      <3>1. CASE k = 1
        <4>1. a[k] = s[i + k - 1] /\ i + k - 1 = i
          BY <1>1, <1>2, <3>1
        <4> QED
          BY <2>3, <3>1, <4>1
      <3>2. CASE k # 1
        <4>1. k \in 2 .. N - i + 1 /\ k - 1 \in 1 .. N - i /\ i + (k - 1) = i + k - 1
          BY <1>1, <3>2
        <4> QED
          BY <1>2, <2>1, <2>3, <4>1
      <3> QED
        BY <3>1, <3>2
    <2> HIDE DEF c
    <2>5. a = c
      BY <1>2, <2>3, <2>4
    <2> QED
      BY <1>4, <2>5 DEF a, c, b, N
  <1> QED
    BY <1>3, <1>4

\* A sequence that is put together from its end.
LEMMA FromTheEnd ==
  ASSUME NEW S, NEW s \in Seq(S), s # <<>>, NEW from,
         \A i \in 1 .. Len(s) : from[i] = IF i = Len(s) THEN <<s[i]>> ELSE <<s[i]>> \o from[i + 1]
  PROVE  from[1] = s
  <1> DEFINE N == Len(s)
             Good == {i \in 1 .. N : from[i] = SubSeq(s, i, N)}
  <1>1. N \in Nat /\ 1 \in 1 .. N
    OBVIOUS
  <1>2. ASSUME NEW i \in 1 .. N, \A j \in i + 1 .. N : j \in Good PROVE i \in Good
    <2>1. SubSeq(s, i, N) = IF i = N THEN <<s[i]>> ELSE <<s[i]>> \o SubSeq(s, i + 1, N)
      BY Tails
    <2>2. i # N => i + 1 \in i + 1 .. N
      BY <1>1
    <2> HIDE DEF N
    <2> QED
      BY <1>2, <2>1, <2>2 DEF N
  <1>3. 1 .. N \subseteq Good
    <2> HIDE DEF Good
    <2> QED
      BY <1>1, <1>2, DownInduction
  <1>4. from[1] = SubSeq(s, 1, N)
    BY <1>1, <1>3
  <1>5. SubSeq(s, 1, N) = s
    OBVIOUS
  <1> QED
    BY <1>4, <1>5

\* The grammar's recursion gives the options in the order in which they stand.
LEMMA OptionsKept ==
  ASSUME NEW S, NEW os \in Seq(S), os # <<>>
  PROVE  options(os) = os /\ transopts(os) = os
  <1> DEFINE N == Len(os)
             Body(h) == [i \in 1 .. Len(os) |->
                           IF i = Len(os) THEN <<os[i]>> ELSE <<os[i]>> \o h[i + 1]]
             from == CHOOSE h : h = Body(h)
             h0 == [i \in 1 .. N |-> SubSeq(os, i, N)]
  <1>1. h0 = Body(h0)
    <2>1. ASSUME NEW i \in 1 .. N
          PROVE  SubSeq(os, i, N) = IF i = N THEN <<os[i]>> ELSE <<os[i]>> \o h0[i + 1]
      <3>1. i # N => i + 1 \in 1 .. N
        OBVIOUS
      <3>2. i # N => h0[i + 1] = SubSeq(os, i + 1, N)
        BY <3>1
      <3>3. SubSeq(os, i, N) = IF i = N THEN <<os[i]>> ELSE <<os[i]>> \o SubSeq(os, i + 1, N)
        BY Tails
      <3> HIDE DEF h0, N
      <3> QED
        BY <3>2, <3>3
    <2> QED
      BY <2>1
  <1>2. from = Body(from)
    <2> HIDE DEF Body, h0
    <2> QED
      BY <1>1
  <1> HIDE DEF from
  <1>3. \A i \in 1 .. Len(os) : from[i] = IF i = Len(os) THEN <<os[i]>> ELSE <<os[i]>> \o from[i + 1]
    BY <1>2
  <1>4. from[1] = os
    <2> HIDE DEF Body
    <2> QED
      BY <1>3, FromTheEnd
  <1>5. options(os) = from[1]
    BY DEF options, option_append, from
  <1>6. transopts(os) = from[1]
    BY DEF transopts, list_cons, from
  <1> QED
    BY <1>4, <1>5, <1>6

\* The options of a mapping are those of its arrows, one after the other.
LEMMA MapoptsFlattened ==
  ASSUME NEW items, IsSequence(items), items # <<>>
  PROVE  mapopts(items) = FlattenSeq([i \in DOMAIN items |-> mapopt(items[i])])
  <1> DEFINE N == Len(items)
             seqs == [i \in DOMAIN items |-> mapopt(items[i])]
             S == UNION {{<<items[i][2], items[i][3]>>, <<items[i][3], items[i][2]>>} : i \in 1 .. N}
             Body(h) == [i \in 1 .. Len(items) |->
                           IF i = 1 THEN mapopt(items[i]) ELSE h[i - 1] \o mapopt(items[i])]
             upto == CHOOSE h : h = Body(h)
  <1>1. N \in Nat /\ DOMAIN items = 1 .. N
    BY SequenceIs DEF IsSequence
  <1>2. ASSUME NEW i \in 1 .. N PROVE mapopt(items[i]) \in Seq(S)
    <2> DEFINE a == <<items[i][2], items[i][3]>>
               b == <<items[i][3], items[i][2]>>
    <2>1. a \in S /\ b \in S
      OBVIOUS
    <2>2. mapopt(items[i]) = <<a>> \/ mapopt(items[i]) = <<a, b>>
      BY DEF mapopt
    <2> HIDE DEF a, b, S
    <2>3. <<a>> \in Seq(S) /\ <<a, b>> \in Seq(S)
      BY <2>1
    <2> HIDE DEF N, Body, upto
    <2> QED
      BY <2>2, <2>3, Zenon
  <1>3. seqs \in Seq(Seq(S)) /\ Len(seqs) = N /\ \A i \in 1 .. N : seqs[i] = mapopt(items[i])
    <2> HIDE DEF N, S
    <2> QED
      BY <1>1, <1>2
  <1>4. items \in Seq({items[i] : i \in 1 .. Len(items)})
    BY SequenceIs
  <1>5. N # 0
    BY <1>4
  <1> HIDE DEF seqs, S, N
  <1>6. PICK f \in [0 .. Len(seqs) -> Seq(S)] : IsFlattening(f, seqs)
    BY <1>3, FlattenUpto
  <1>7. /\ f[0] = <<>> /\ FlattenSeq(seqs) = f[N]
        /\ \A i \in 1 .. N : f[i] = f[i - 1] \o mapopt(items[i])
    BY <1>3, <1>6 DEF IsFlattening
  <1>8. ASSUME NEW i \in 1 .. N, i = 1 PROVE f[i] = mapopt(items[i])
    <2>1. f[1] = f[0] \o mapopt(items[1])
      <3>1. 1 \in 1 .. N /\ 1 - 1 = 0
        BY <1>8
      <3>2. f[1] = f[1 - 1] \o mapopt(items[1])
        BY <1>7, <3>1
      <3> QED
        BY <3>1, <3>2
    <2> QED
      BY <1>2, <1>7, <1>8, <2>1, ConcatEmptySeq
  <1> DEFINE h0 == [i \in 1 .. N |-> f[i]]
  <1>9. h0 = Body(h0)
    <2>1. ASSUME NEW i \in 1 .. N
          PROVE  f[i] = IF i = 1 THEN mapopt(items[i]) ELSE h0[i - 1] \o mapopt(items[i])
      <3>1. i # 1 => i - 1 \in 1 .. N
        BY <1>1
      <3>2. i # 1 => h0[i - 1] = f[i - 1]
        BY <3>1
      <3> HIDE DEF h0
      <3> QED
        BY <1>7, <1>8, <3>2
    <2> QED
      BY <2>1 DEF N
  <1>10. upto = Body(upto)
    <2> HIDE DEF Body, h0
    <2> QED
      BY <1>9
  <1> HIDE DEF upto, h0
  <1>11. \A i \in 1 .. N : upto[i] = IF i = 1 THEN mapopt(items[i]) ELSE upto[i - 1] \o mapopt(items[i])
    BY <1>10 DEF N
  <1> DEFINE e == [i \in 0 .. N |-> IF i = 0 THEN f[0] ELSE upto[i]]
             T == {i \in Nat : i <= N => (i # 0 => upto[i] = f[i])}
  <1>12. 0 \in T
    OBVIOUS
  <1>13. ASSUME NEW i \in Nat, i \in T PROVE i + 1 \in T
    <2> SUFFICES ASSUME i + 1 <= N PROVE upto[i + 1] = f[i + 1]
      OBVIOUS
    <2>1. i + 1 \in 1 .. N /\ (i + 1) - 1 = i /\ i <= N /\ (i + 1 = 1 <=> i = 0)
      BY <1>1
    <2>2. upto[i + 1] = IF i + 1 = 1 THEN mapopt(items[i + 1]) ELSE upto[i] \o mapopt(items[i + 1])
      BY <1>11, <2>1
    <2>3. f[i + 1] = f[i] \o mapopt(items[i + 1])
      BY <1>7, <2>1
    <2> QED
      BY <1>8, <1>13, <2>1, <2>2, <2>3
  <1>14. Nat \subseteq T
    <2> HIDE DEF T
    <2> QED
      BY <1>12, <1>13, SetInduction
  <1>15. upto[N] = f[N]
    BY <1>1, <1>5, <1>14
  <1>16. mapopts(items) = upto[N]
    BY DEF mapopts, upto, N
  <1> QED
    BY <1>7, <1>15, <1>16 DEF seqs

-----------------------------------------------------------------------------
(* Look-ups.                                                                *)

\* A set of numbers that is not empty has a least one.
LEMMA MinIs ==
  ASSUME NEW I, I \subseteq Nat, I # {}
  PROVE  Min(I) \in I /\ \A i \in I : Min(I) <= i
  <1> DEFINE T == {n \in Nat : \A i \in I : ~(i < n)}
  <1>1. SUFFICES \E m \in I : \A i \in I : m <= i
    BY DEF Min
  <1> SUFFICES ASSUME \A m \in I : \E i \in I : ~(m <= i) PROVE FALSE
    OBVIOUS
  <1>2. 0 \in T
    OBVIOUS
  <1>3. ASSUME NEW n \in Nat, n \in T PROVE n + 1 \in T
    <2>1. n \notin I
      BY <1>3
    <2> QED
      BY <1>3, <2>1
  <1>4. Nat \subseteq T
    <2> HIDE DEF T
    <2> QED
      BY <1>2, <1>3, SetInduction
  <1>5. PICK i \in I : TRUE
    OBVIOUS
  <1>6. i + 1 \in T
    BY <1>4
  <1> QED
    BY <1>6

\* The least one is given by that.
LEMMA MinUnique ==
  ASSUME NEW I, I \subseteq Nat, NEW m \in I, \A i \in I : m <= i
  PROVE  Min(I) = m
  <1> DEFINE k == Min(I)
  <1>0. I # {}
    OBVIOUS
  <1>1. k \in I /\ \A i \in I : k <= i
    BY <1>0, MinIs
  <1> HIDE DEF k
  <1>2. k <= m /\ m <= k /\ k \in Nat /\ m \in Nat
    BY <1>1
  <1>3. k = m
    BY <1>2
  <1> QED
    BY <1>3 DEF k

\* A look-up finds the first of the name, if there is one.
LEMMA LookupIs ==
  ASSUME NEW S, NEW list \in Seq(S), NEW n
  PROVE  /\ Lookup(list, n) \in 0 .. Len(list)
         /\ Lookup(list, n) # 0 => list[Lookup(list, n)].name = n
         /\ \A i \in 1 .. Len(list) : list[i].name = n =>
               Lookup(list, n) # 0 /\ Lookup(list, n) <= i
  <1> DEFINE I == {i \in DOMAIN list : list[i].name = n}
             N == Len(list)
  <1>1. N \in Nat /\ DOMAIN list = 1 .. N /\ I \subseteq Nat /\ I \subseteq 1 .. N
    OBVIOUS
  <1>2. Lookup(list, n) = IF I = {} THEN 0 ELSE Min(I)
    BY DEF Lookup
  <1>3. I # {} => Min(I) \in I /\ \A i \in I : Min(I) <= i
    <2> HIDE DEF I
    <2> QED
      BY <1>1, MinIs
  <1>4. CASE I = {}
    BY <1>1, <1>2, <1>4
  <1>5. CASE I # {}
    <2> DEFINE k == Min(I)
    <2>1. Lookup(list, n) = k /\ k \in I /\ \A i \in I : k <= i
      BY <1>2, <1>3, <1>5
    <2> HIDE DEF k, N
    <2> QED
      BY <1>1, <2>1
  <1> QED
    BY <1>4, <1>5

\* How a look-up in a list is with m in front of it.
InFront(new, list, m, n) ==
  LET p == Lookup(list, n)
  IN  /\ m.name = n => Lookup(new, n) = 1 /\ new[1] = m
      /\ m.name # n => IF p = 0 THEN Lookup(new, n) = 0
                       ELSE Lookup(new, n) = p + 1 /\ new[p + 1] = list[p]

\* What is put in front of a list hides what is there under its name, and moves the rest.
LEMMA LookupCons ==
  ASSUME NEW S, NEW list \in Seq(S), NEW m \in S, NEW n
  PROVE  InFront(<<m>> \o list, list, m, n)
  <1> DEFINE new == <<m>> \o list
             N == Len(list)
             p == Lookup(list, n)
             q == Lookup(new, n)
  <1>1. /\ N \in Nat /\ new \in Seq(S) /\ Len(new) = N + 1 /\ new[1] = m
        /\ \A i \in 1 .. N : new[i + 1] = list[i]
    OBVIOUS
  <1> HIDE DEF new
  <1>2. /\ p \in 0 .. N /\ (p # 0 => list[p].name = n)
        /\ \A i \in 1 .. N : list[i].name = n => p # 0 /\ p <= i
    BY LookupIs
  <1>3. /\ q \in 0 .. N + 1 /\ (q # 0 => new[q].name = n)
        /\ \A i \in 1 .. N + 1 : new[i].name = n => q # 0 /\ q <= i
    <2>1. /\ q \in 0 .. Len(new) /\ (q # 0 => new[q].name = n)
          /\ \A i \in 1 .. Len(new) : new[i].name = n => q # 0 /\ q <= i
      BY <1>1, LookupIs
    <2> QED
      BY <1>1, <2>1
  <1> HIDE DEF p, q, N
  <1>4. ASSUME m.name = n PROVE q = 1
    <2>1. 1 \in 1 .. N + 1 /\ new[1].name = n
      BY <1>1, <1>4
    <2> QED
      BY <1>1, <1>3, <2>1
  <1>5. ASSUME m.name # n PROVE IF p = 0 THEN q = 0 ELSE q = p + 1 /\ new[p + 1] = list[p]
    <2>1. q # 1
      BY <1>1, <1>3, <1>5
    <2>2. ASSUME q # 0 PROVE p # 0 /\ p <= q - 1
      <3>1. q - 1 \in 1 .. N /\ (q - 1) + 1 = q
        BY <1>1, <1>3, <2>1, <2>2
      <3>2. list[q - 1].name = n
        BY <1>1, <1>3, <2>2, <3>1
      <3> QED
        BY <1>2, <3>1, <3>2
    <2>3. ASSUME p # 0 PROVE q # 0 /\ q <= p + 1 /\ new[p + 1] = list[p]
      <3>1. p \in 1 .. N /\ p + 1 \in 1 .. N + 1
        BY <1>1, <1>2, <2>3
      <3> QED
        BY <1>1, <1>2, <1>3, <2>3, <3>1
    <2> QED
      BY <1>1, <1>2, <1>3, <2>2, <2>3
  <1> QED
    BY <1>1, <1>4, <1>5 DEF new, p, q, InFront

-----------------------------------------------------------------------------
(* The check.                                                               *)

\* The value at a node depends on the values at those before it.
LooksBack(value, N, S) ==
  \A p \in 1 .. N : \A f, g \in [1 .. N -> S] :
     (\A q \in 1 .. p - 1 : f[q] = g[q]) => value[<<p, f>>] = value[<<p, g>>]

\* A function of the nodes may be defined by what it is at the nodes within.
LEMMA UpRecursion ==
  ASSUME NEW N \in Nat, NEW S, S # {},
         NEW value \in [(1 .. N) \X [1 .. N -> S] -> S], LooksBack(value, N, S)
  PROVE  \E f \in [1 .. N -> S] : IsRecursive(f, value, 1 .. N)
  <1> DEFINE D == 1 .. N
             M == N + 1
             rank == [p \in D |-> p]
  <1>1. IsRank(rank, D, M) /\ M \in Nat
    BY DEF IsRank
  <1>2. ASSUME NEW p \in D, NEW f \in [D -> S], NEW g \in [D -> S],
               \A q \in D : rank[q] < rank[p] => f[q] = g[q]
        PROVE  value[<<p, f>>] = value[<<p, g>>]
    <2>1. \A q \in 1 .. p - 1 : q \in D /\ rank[q] < rank[p]
      OBVIOUS
    <2>2. \A q \in 1 .. p - 1 : f[q] = g[q]
      <3> HIDE DEF rank
      <3> QED
        BY <1>2, <2>1
    <2> QED
      BY <2>2 DEF LooksBack
  <1>3. LooksLower(value, D, S, rank)
    <2> HIDE DEF rank, D
    <2> QED
      BY <1>2 DEF LooksLower
  <1>4. value \in [D \X [D -> S] -> S]
    OBVIOUS
  <1> HIDE DEF rank, D, M
  <1>5. \E f \in [D -> S] : IsRecursive(f, value, D)
    BY <1>1, <1>3, <1>4, RankedRecursion
  <1> QED
    BY <1>5 DEF D

\* What holds of a node if it holds of those before it holds of all.
LEMMA UpInduction ==
  ASSUME NEW N \in Nat, NEW Good,
         \A p \in 1 .. N : (\A q \in 1 .. p - 1 : q \in Good) => p \in Good
  PROVE  1 .. N \subseteq Good
  <1> DEFINE D == 1 .. N
             rank == [p \in D |-> p]
  <1>1. rank \in [D -> Nat]
    OBVIOUS
  <1>2. ASSUME NEW p \in D, \A q \in D : rank[q] < rank[p] => q \in Good
        PROVE  p \in Good
    <2>1. \A q \in 1 .. p - 1 : q \in D /\ rank[q] < rank[p]
      OBVIOUS
    <2> HIDE DEF rank
    <2> QED
      BY <1>2, <2>1
  <1> HIDE DEF rank, D
  <1>3. \A p \in D : (\A q \in D : rank[q] < rank[p] => q \in Good) => p \in Good
    BY <1>2
  <1>4. D \subseteq Good
    BY <1>1, <1>3, RankedInduction
  <1> QED
    BY <1>4 DEF D

\* What the assumption on scripts says of the one that is read.
LEMMA ScriptIs ==
  ASSUME script \in Scripts
  PROVE  /\ Len(script.nodes) \in Nat /\ DOMAIN script.nodes = 1 .. Len(script.nodes)
         /\ \A n \in 1 .. Len(script.nodes) : NodeOK(script.nodes[n], n)
         /\ Len(script.decls) \in Nat /\ DOMAIN script.decls = 1 .. Len(script.decls)
         /\ \A i \in 1 .. Len(script.decls) : IsDecl(script.decls[i], script.nodes)
         /\ script.start \in Names \cup {None} /\ script.puts \in Nat
  <1>1. IsScript(script)
    BY ScriptsAssumption
  <1>2. /\ IsSequence(script.nodes) /\ IsSequence(script.decls)
        /\ \A n \in DOMAIN script.nodes : NodeOK(script.nodes[n], n)
        /\ \A i \in DOMAIN script.decls : IsDecl(script.decls[i], script.nodes)
        /\ script.start \in Names \cup {None} /\ script.puts \in Nat
    BY <1>1 DEF IsScript
  <1>3. Len(script.nodes) \in Nat /\ DOMAIN script.nodes = 1 .. Len(script.nodes)
    BY <1>2, SequenceIs DEF IsSequence
  <1>4. Len(script.decls) \in Nat /\ DOMAIN script.decls = 1 .. Len(script.decls)
    BY <1>2, SequenceIs DEF IsSequence
  <1> QED
    BY <1>2, <1>3, <1>4

\* What is reported of a node, by what is reported of its first parameter.
Reported(r, n, first) ==
  LET a == script.nodes[n]
  IN  CASE a.type = "symbol" ->
             IF Contains(r.body.params, a.data) THEN {}
             ELSE (IF rule_find(rules, a.data) = 0 THEN {n} ELSE {}) \cup first
        [] a.type = "mapping" ->
             (IF map_lookup(a.data) = 0 /\ trans_lookup(a.data) = 0 THEN {n} ELSE {}) \cup first
        [] OTHER -> {}
First(n) == script.nodes[n].params[1]
NoParams(n) == script.nodes[n].params = <<>>

\* The check recurs to the first parameter.
LEMMA UndefIs ==
  ASSUME script \in Scripts, NEW r, NEW n \in 1 .. Len(script.nodes)
  PROVE  undef_iter2(r, n) =
           Reported(r, n, IF NoParams(n) THEN {} ELSE undef_iter2(r, First(n)))
  <1> DEFINE N == Len(script.nodes)
             S == SUBSET (1 .. N)
             at(m, f) == Reported(r, m, IF NoParams(m) THEN {} ELSE f[First(m)])
             value == [mf \in (1 .. N) \X [1 .. N -> S] |-> at(mf[1], mf[2])]
             Body(h) == [m \in DOMAIN script.nodes |->
               LET a == script.nodes[m]
                   first == IF a.params = <<>> THEN {} ELSE h[a.params[1]]
               IN  CASE a.type = "symbol" ->
                          IF Contains(r.body.params, a.data) THEN {}
                          ELSE (IF rule_find(rules, a.data) = 0 THEN {m} ELSE {}) \cup first
                     [] a.type = "mapping" ->
                          (IF map_lookup(a.data) = 0 /\ trans_lookup(a.data) = 0 THEN {m} ELSE {})
                          \cup first
                     [] OTHER -> {}]
             within == CHOOSE h : h = Body(h)
  <1>1. N \in Nat /\ DOMAIN script.nodes = 1 .. N
    BY ScriptIs
  <1>2. ASSUME NEW m \in 1 .. N, ~NoParams(m) PROVE First(m) \in 1 .. m - 1
    <2>1. script.nodes[m].params \in Seq(1 .. m - 1) /\ script.nodes[m].params # <<>>
      BY <1>2, ScriptIs DEF NodeOK, NoParams
    <2> HIDE DEF N
    <2>2. script.nodes[m].params[1] \in 1 .. m - 1
      BY <2>1
    <2> QED
      BY <2>2 DEF First
  <1>3. ASSUME NEW h PROVE Body(h) = [m \in 1 .. N |-> at(m, h)]
    BY <1>1 DEF Reported, NoParams, First
  <1> HIDE DEF N, Body, within
  <1>4. ASSUME NEW m \in 1 .. N, NEW f \in [1 .. N -> S] PROVE at(m, f) \in S
    <2>1. (IF NoParams(m) THEN {} ELSE f[First(m)]) \in S
      <3>1. CASE NoParams(m)
        BY <3>1
      <3>2. CASE ~NoParams(m)
        <4>1. First(m) \in 1 .. N
          BY <1>1, <1>2, <3>2
        <4>2. f[First(m)] \in S
          <5> HIDE DEF S
          <5> QED
            BY <4>1
        <4> QED
          BY <3>2, <4>2
      <3> QED
        BY <3>1, <3>2
    <2>2. ASSUME NEW first \in S PROVE Reported(r, m, first) \in S
      BY DEF Reported
    <2> HIDE DEF S
    <2> QED
      BY <2>1, <2>2
  <1>5. value \in [(1 .. N) \X [1 .. N -> S] -> S]
    <2> HIDE DEF S, at
    <2> QED
      BY <1>4
  <1>6. \A m \in 1 .. N : \A f \in [1 .. N -> S] : value[<<m, f>>] = at(m, f)
    <2> HIDE DEF S, at
    <2> QED
      OBVIOUS
  <1>7. LooksBack(value, N, S)
    <2> SUFFICES ASSUME NEW m \in 1 .. N, NEW f \in [1 .. N -> S], NEW g \in [1 .. N -> S],
                        \A q \in 1 .. m - 1 : f[q] = g[q]
                 PROVE  value[<<m, f>>] = value[<<m, g>>]
      BY DEF LooksBack
    <2>1. ~NoParams(m) => f[First(m)] = g[First(m)]
      BY <1>2
    <2>2. at(m, f) = at(m, g)
      <3> HIDE DEF value, S
      <3> QED
        BY <2>1
    <2> HIDE DEF value, at, S
    <2> QED
      BY <1>6, <2>2
  <1>8. PICK f \in [1 .. N -> S] : IsRecursive(f, value, 1 .. N)
    <2>1. S # {}
      OBVIOUS
    <2> HIDE DEF value, S
    <2> QED
      BY <1>1, <1>5, <1>7, <2>1, UpRecursion
  <1>9. f = Body(f)
    <2>1. \A m \in 1 .. N : f[m] = at(m, f)
      <3> HIDE DEF value, at, S
      <3> QED
        BY <1>6, <1>8 DEF IsRecursive
    <2>2. f = [m \in 1 .. N |-> f[m]]
      OBVIOUS
    <2> HIDE DEF value, at, S
    <2> QED
      BY <1>3, <2>1, <2>2
  <1>10. within = Body(within)
    <2> HIDE DEF value, at, S
    <2> QED
      BY <1>9 DEF within
  <1>11. \A m \in 1 .. N : within[m] = at(m, within)
    <2>1. within = [m \in 1 .. N |-> at(m, within)]
      <3> HIDE DEF value, at, S
      <3> QED
        BY <1>3, <1>10
    <2> HIDE DEF value, at, S
    <2> QED
      BY <2>1
  <1>12. \A m : undef_iter2(r, m) = within[m]
    BY DEF undef_iter2, within, Body
  <1>13. n \in 1 .. N
    BY DEF N
  <1> HIDE DEF value, S
  <1>14. within[n] = Reported(r, n, IF NoParams(n) THEN {} ELSE within[First(n)])
    BY <1>11, <1>13
  <1> QED
    BY <1>12, <1>14

\* Within a node are itself and what is within its first parameter.
LEMMA WithinIs ==
  ASSUME script \in Scripts, NEW n \in 1 .. Len(script.nodes)
  PROVE  /\ n \in Within(n)
         /\ ~NoParams(n) => First(n) \in 1 .. n - 1 /\ Within(First(n)) \subseteq Within(n)
  <1> DEFINE N == Len(script.nodes)
             S == SUBSET (1 .. N)
             a(m) == script.nodes[m]
             inner(m) == UNION {ToSet(o) : o \in ToSet(a(m).options)}
             at(m, f) == {m} \cup (UNION {f[a(m).params[i]] : i \in DOMAIN a(m).params})
                             \cup (UNION {f[b] : b \in inner(m)})
             value == [mf \in (1 .. N) \X [1 .. N -> S] |-> at(mf[1], mf[2])]
             Body(h) == [m \in DOMAIN script.nodes |->
               LET aa == script.nodes[m]
               IN  {m} \cup (UNION {h[aa.params[i]] : i \in DOMAIN aa.params})
                       \cup (UNION {h[b] : b \in UNION {ToSet(o) : o \in ToSet(aa.options)}})]
             within == CHOOSE h : h = Body(h)
  <1>1. N \in Nat /\ DOMAIN script.nodes = 1 .. N
    BY ScriptIs
  <1>2. ASSUME NEW m \in 1 .. N
        PROVE  /\ \A i \in DOMAIN a(m).params : a(m).params[i] \in 1 .. m - 1
               /\ \A b \in inner(m) : b \in 1 .. m - 1
    <2>1. a(m).params \in Seq(1 .. m - 1) /\ a(m).options \in Seq(Seq(1 .. m - 1))
      BY ScriptIs DEF NodeOK
    <2> DEFINE ps == a(m).params
               os == a(m).options
               E == 1 .. m - 1
    <2>2. ps \in Seq(E) /\ os \in Seq(Seq(E))
      BY <2>1
    <2> HIDE DEF ps, os, E, N
    <2>3. \A i \in DOMAIN ps : ps[i] \in E
      BY <2>2
    <2>4. \A j \in DOMAIN os : os[j] \in Seq(E)
      BY <2>2
    <2>5. ASSUME NEW o \in Seq(E), NEW b \in ToSet(o) PROVE b \in E
      BY DEF ToSet
    <2>6. ASSUME NEW b \in inner(m) PROVE b \in E
      <3>1. PICK o \in ToSet(os) : b \in ToSet(o)
        BY DEF os
      <3>2. o \in Seq(E)
        BY <2>4, <3>1 DEF ToSet
      <3> QED
        BY <2>5, <3>1, <3>2
    <2> HIDE DEF inner
    <2> QED
      BY <2>3, <2>6 DEF ps, E
  <1>3. ASSUME NEW h PROVE Body(h) = [m \in 1 .. N |-> at(m, h)]
    BY <1>1
  <1>4. \A m \in 1 .. N : \A q \in 1 .. m - 1 : q \in 1 .. N
    BY <1>1
  <1> HIDE DEF N, Body, within, inner, a
  <1>5. ASSUME NEW m \in 1 .. N, NEW f \in [1 .. N -> S] PROVE at(m, f) \in S
    <2>1. \A i \in DOMAIN a(m).params : f[a(m).params[i]] \subseteq 1 .. N
      BY <1>2, <1>4
    <2>2. \A b \in inner(m) : f[b] \subseteq 1 .. N
      BY <1>2, <1>4
    <2> QED
      BY <2>1, <2>2
  <1>6. value \in [(1 .. N) \X [1 .. N -> S] -> S]
    <2> HIDE DEF S, at
    <2> QED
      BY <1>5
  <1>7. \A m \in 1 .. N : \A f \in [1 .. N -> S] : value[<<m, f>>] = at(m, f)
    <2> HIDE DEF S, at
    <2> QED
      OBVIOUS
  <1>8. LooksBack(value, N, S)
    <2> SUFFICES ASSUME NEW m \in 1 .. N, NEW f \in [1 .. N -> S], NEW g \in [1 .. N -> S],
                        \A q \in 1 .. m - 1 : f[q] = g[q]
                 PROVE  value[<<m, f>>] = value[<<m, g>>]
      BY DEF LooksBack
    <2>1. \A i \in DOMAIN a(m).params : f[a(m).params[i]] = g[a(m).params[i]]
      BY <1>2
    <2>2. \A b \in inner(m) : f[b] = g[b]
      BY <1>2
    <2>3. at(m, f) = at(m, g)
      <3> HIDE DEF value, S
      <3>1. {f[a(m).params[i]] : i \in DOMAIN a(m).params}
              = {g[a(m).params[i]] : i \in DOMAIN a(m).params}
        BY <2>1
      <3>2. {f[b] : b \in inner(m)} = {g[b] : b \in inner(m)}
        BY <2>2
      <3> QED
        BY <3>1, <3>2
    <2> HIDE DEF value, at, S
    <2> QED
      BY <1>7, <2>3
  <1>9. PICK f \in [1 .. N -> S] : IsRecursive(f, value, 1 .. N)
    <2>1. S # {}
      OBVIOUS
    <2> HIDE DEF value, S
    <2> QED
      BY <1>1, <1>6, <1>8, <2>1, UpRecursion
  <1>10. f = Body(f)
    <2>1. \A m \in 1 .. N : f[m] = at(m, f)
      <3> HIDE DEF value, at, S
      <3> QED
        BY <1>7, <1>9 DEF IsRecursive
    <2>2. f = [m \in 1 .. N |-> f[m]]
      OBVIOUS
    <2> HIDE DEF value, at, S
    <2> QED
      BY <1>3, <2>1, <2>2
  <1>11. within = Body(within)
    <2> HIDE DEF value, at, S
    <2> QED
      BY <1>10 DEF within
  <1>12. \A m \in 1 .. N : within[m] = at(m, within)
    <2>1. within = [m \in 1 .. N |-> at(m, within)]
      <3> HIDE DEF value, at, S
      <3> QED
        BY <1>3, <1>11
    <2> HIDE DEF value, at, S
    <2> QED
      BY <2>1
  <1>13. \A m : Within(m) = within[m]
    BY DEF Within, within, Body
  <1>14. n \in 1 .. N
    BY DEF N
  <1>15. n \in within[n] /\ \A i \in DOMAIN a(n).params : within[a(n).params[i]] \subseteq within[n]
    <2>1. within[n] = at(n, within)
      <3> HIDE DEF value, at, S
      <3> QED
        BY <1>12, <1>14
    <2> HIDE DEF value, S
    <2> QED
      BY <2>1
  <1>16. ASSUME ~NoParams(n) PROVE 1 \in DOMAIN a(n).params /\ First(n) = a(n).params[1]
    <2>1. a(n).params \in Seq(1 .. n - 1) /\ a(n).params # <<>>
      BY <1>16, ScriptIs DEF NodeOK, NoParams, a
    <2>2. 1 \in DOMAIN a(n).params
      BY <2>1
    <2> QED
      BY <2>2 DEF First, a
  <1> HIDE DEF value, at, S
  <1> QED
    BY <1>2, <1>13, <1>14, <1>15, <1>16

\* The rules, mappings and transformations that are found are those of the script.
Named(kinds, n) == \E i \in Declared(kinds) : script.decls[i].name = n
AllFound ==
  \A n \in Int : /\ rule_find(rules, n) # 0 <=> Named(RuleKinds, n)
                 /\ map_lookup(n) # 0 <=> Named({"mapping"}, n)
                 /\ trans_lookup(n) # 0 <=> Named({"xform"}, n)

\* A name is a mapping or a transformation.
LEMMA NamedEither ==
  ASSUME NEW n
  PROVE  Named({"mapping", "xform"}, n) <=> Named({"mapping"}, n) \/ Named({"xform"}, n)
  BY DEF Named, Declared

\* What is defined, if all is found that there is.
LEMMA DefinedIs ==
  ASSUME script \in Scripts, AllFound, NEW d, NEW n \in 1 .. Len(script.nodes)
  PROVE  LET a == script.nodes[n]
         IN  IsDefined(d, n) <=>
               /\ a.type = "symbol" => \/ Contains(d.body.formals, a.data)
                                       \/ rule_find(rules, a.data) # 0
               /\ a.type = "mapping" => map_lookup(a.data) # 0 \/ trans_lookup(a.data) # 0
  <1> DEFINE a == script.nodes[n]
  <1>1. a.data \in Int
    BY ScriptIs DEF NodeOK
  <1>2. /\ rule_find(rules, a.data) # 0 <=> Named(RuleKinds, a.data)
        /\ map_lookup(a.data) # 0 <=> Named({"mapping"}, a.data)
        /\ trans_lookup(a.data) # 0 <=> Named({"xform"}, a.data)
    <2> HIDE DEF a
    <2> QED
      BY <1>1 DEF AllFound
  <1>3. Named({"mapping", "xform"}, a.data) <=>
          Named({"mapping"}, a.data) \/ Named({"xform"}, a.data)
    BY NamedEither
  <1>4. IsDefined(d, n) <=> CASE a.type = "symbol" ->
                                   Contains(d.body.formals, a.data) \/ Named(RuleKinds, a.data)
                              [] a.type = "mapping" -> Named({"mapping", "xform"}, a.data)
                              [] OTHER -> TRUE
    BY DEF IsDefined, Named
  <1> HIDE DEF a
  <1>5. IsDefined(d, n) <=>
               /\ a.type = "symbol" => \/ Contains(d.body.formals, a.data)
                                       \/ rule_find(rules, a.data) # 0
               /\ a.type = "mapping" => map_lookup(a.data) # 0 \/ trans_lookup(a.data) # 0
    BY <1>2, <1>3, <1>4
  <1> QED
    BY <1>5 DEF a

\* What is reported within a node is not defined.
LEMMA ReportedIsUndefined ==
  ASSUME script \in Scripts, AllFound, NEW r, NEW d, r.body.params = d.body.formals
  PROVE  \A n \in 1 .. Len(script.nodes) : \A m \in undef_iter2(r, n) :
           m \in Within(n) /\ m \in 1 .. Len(script.nodes) /\ ~IsDefined(d, m)
  <1> DEFINE N == Len(script.nodes)
             Wrong(n) == {m \in Within(n) : m \in 1 .. N /\ ~IsDefined(d, m)}
             Good == {n \in 1 .. N : undef_iter2(r, n) \subseteq Wrong(n)}
  <1>1. N \in Nat
    BY ScriptIs
  <1>2. ASSUME NEW n \in 1 .. N, \A q \in 1 .. n - 1 : q \in Good PROVE n \in Good
    <2> DEFINE first == IF NoParams(n) THEN {} ELSE undef_iter2(r, First(n))
               a == script.nodes[n]
    <2>1. undef_iter2(r, n) = Reported(r, n, first)
      BY UndefIs
    <2>2. n \in Within(n)
          /\ (~NoParams(n) => First(n) \in 1 .. n - 1 /\ Within(First(n)) \subseteq Within(n))
      BY WithinIs
    <2>3. first \subseteq Wrong(n)
      <3>1. CASE NoParams(n)
        BY <3>1
      <3>2. CASE ~NoParams(n)
        <4>1. undef_iter2(r, First(n)) \subseteq Wrong(First(n))
          BY <1>2, <2>2, <3>2
        <4> QED
          BY <2>2, <3>2, <4>1
      <3> QED
        BY <3>1, <3>2
    <2>4. IsDefined(d, n) <=>
               /\ a.type = "symbol" => \/ Contains(d.body.formals, a.data)
                                       \/ rule_find(rules, a.data) # 0
               /\ a.type = "mapping" => map_lookup(a.data) # 0 \/ trans_lookup(a.data) # 0
      BY DefinedIs
    <2>5. ASSUME ~IsDefined(d, n) PROVE n \in Wrong(n)
      BY <2>2, <2>5
    <2>6. Reported(r, n, first) =
             CASE a.type = "symbol" ->
                    IF Contains(d.body.formals, a.data) THEN {}
                    ELSE (IF rule_find(rules, a.data) = 0 THEN {n} ELSE {}) \cup first
               [] a.type = "mapping" ->
                    (IF map_lookup(a.data) = 0 /\ trans_lookup(a.data) = 0 THEN {n} ELSE {}) \cup first
               [] OTHER -> {}
      BY DEF Reported
    <2> HIDE DEF first, a, Wrong
    <2>7. Reported(r, n, first) \subseteq Wrong(n)
      BY <2>3, <2>4, <2>5, <2>6
    <2> QED
      BY <2>1, <2>7
  <1>3. 1 .. N \subseteq Good
    <2> HIDE DEF Good
    <2> QED
      BY <1>1, <1>2, UpInduction
  <1> QED
    BY <1>3

\* If nothing is reported of a node, it is defined, and so is what a mapping is applied to.
LEMMA NothingReported ==
  ASSUME script \in Scripts, AllFound, NEW r, NEW d, r.body.params = d.body.formals,
         NEW n \in 1 .. Len(script.nodes), undef_iter2(r, n) = {}
  PROVE  /\ IsDefined(d, n)
         /\ script.nodes[n].type = "mapping" => First(n) \in 1 .. n - 1 /\ IsDefined(d, First(n))
  <1> DEFINE N == Len(script.nodes)
  <1>1. N \in Nat
    BY ScriptIs
  <1>2. ASSUME NEW m \in 1 .. N, undef_iter2(r, m) = {}
        PROVE  /\ IsDefined(d, m)
               /\ script.nodes[m].type = "mapping" /\ ~NoParams(m) => undef_iter2(r, First(m)) = {}
    <2> DEFINE first == IF NoParams(m) THEN {} ELSE undef_iter2(r, First(m))
               a == script.nodes[m]
    <2>1. Reported(r, m, first) = {}
      BY <1>2, UndefIs
    <2>2. IsDefined(d, m) <=>
               /\ a.type = "symbol" => \/ Contains(d.body.formals, a.data)
                                       \/ rule_find(rules, a.data) # 0
               /\ a.type = "mapping" => map_lookup(a.data) # 0 \/ trans_lookup(a.data) # 0
      BY DefinedIs
    <2>3. Reported(r, m, first) =
             CASE a.type = "symbol" ->
                    IF Contains(d.body.formals, a.data) THEN {}
                    ELSE (IF rule_find(rules, a.data) = 0 THEN {m} ELSE {}) \cup first
               [] a.type = "mapping" ->
                    (IF map_lookup(a.data) = 0 /\ trans_lookup(a.data) = 0 THEN {m} ELSE {}) \cup first
               [] OTHER -> {}
      BY DEF Reported
    <2> DEFINE t == a.type
    <2>4. ~NoParams(m) => first = undef_iter2(r, First(m))
      OBVIOUS
    <2> HIDE DEF first, a, t
    <2>5. IsDefined(d, m) /\ (a.type = "mapping" => first = {})
      BY <2>1, <2>2, <2>3
    <2> QED
      BY <2>4, <2>5 DEF a
  <1>3. ASSUME script.nodes[n].type = "mapping" PROVE ~NoParams(n) /\ First(n) \in 1 .. n - 1
    <2>1. ~NoParams(n)
      BY <1>3, ScriptIs DEF NodeOK, NoParams
    <2> QED
      BY <2>1, WithinIs
  <1>4. ASSUME script.nodes[n].type = "mapping" PROVE First(n) \in 1 .. N
    BY <1>1, <1>3, <1>4
  <1> QED
    BY <1>2, <1>3, <1>4

-----------------------------------------------------------------------------
(* The invariant.                                                           *)

RulesUpto(r) == {i \in Declared(RuleKinds) : i <= r}
Plain(r) == {i \in RulesUpto(r) : script.decls[i].k = "rule"}
Called(n, r) == {i \in RulesUpto(r) : script.decls[i].name = n}

\* Node p of tree t is the first of the declarations I, or there is none.
IsFirst(t, p, I) ==
  IF I = {} THEN p = 0 ELSE p # 0 /\ t[p].body = Written(script.decls[Min(I)])

\* The nodes are the rules that were read.
Holds(t, r) ==
  /\ \A i \in RulesUpto(r) : \E p \in 1 .. Len(t) : IsRuleOf(t[p], script.decls[i])
  /\ \A p \in 1 .. Len(t) : \E i \in RulesUpto(r) : IsRuleOf(t[p], script.decls[i])
\* Of each name the first is found.
Finds(t, r) == \A n \in Int : IsFirst(t, Find(t, n), Called(n, r))
\* The names that are found in a list are those that were read.
Listed(list, kind, r) ==
  \A n \in Int : Lookup(list, n) # 0 <=>
                  \E i \in Declared({kind}) : i <= r /\ script.decls[i].name = n

ScriptInv ==
  /\ script \in Scripts /\ pc \in {"read", "check", "run", "failed", "crashed", "done"}
  /\ read \in 0 .. Len(script.decls) /\ puts \in 0 .. script.puts
  /\ pc \notin {"read", "failed"} => read = Len(script.decls)
RulesInv ==
  /\ IsTree(rules, AllRuleBodies) /\ IsSearchTree(rules)
  /\ Holds(rules, read) /\ Finds(rules, read)
ListsInv ==
  /\ mappings \in Seq([name : Int, options : AllMapBodies])
  /\ transformations \in Seq([name : Int, options : AllXformBodies])
  /\ Listed(mappings, "mapping", read) /\ Listed(transformations, "xform", read)
Asked == IF script.start = None THEN Declared({"rule"})
         ELSE {i \in Declared(RuleKinds) : script.decls[i].name = script.start}
StartInv ==
  /\ initial_rule \in 0 .. Len(rules)
  /\ pc \in {"read", "check"} => IsFirst(rules, initial_rule, Plain(read))
  /\ pc \in {"run", "crashed"} => IsFirst(rules, initial_rule, Asked)
  /\ AtomsDefined
LoadInv == ScriptInv /\ RulesInv /\ ListsInv /\ StartInv /\ IsTree(vars, AllValues)

\* What is declared after all others is not the first, if there is another.
LEMMA MinAdd ==
  ASSUME NEW r \in Nat, NEW I, I \subseteq 1 .. r
  PROVE  Min(I \cup {r + 1}) = IF I = {} THEN r + 1 ELSE Min(I)
  <1> DEFINE J == I \cup {r + 1}
  <1>1. J \subseteq Nat /\ I \subseteq Nat
    OBVIOUS
  <1>2. CASE I = {}
    <2>1. r + 1 \in J /\ \A i \in J : r + 1 <= i
      BY <1>2
    <2>2. Min(J) = r + 1
      <3> HIDE DEF J
      <3> QED
        BY <1>1, <2>1, MinUnique
    <2> QED
      BY <1>2, <2>2
  <1>3. CASE I # {}
    <2> DEFINE k == Min(I)
    <2>1. k \in I /\ \A i \in I : k <= i
      BY <1>1, <1>3, MinIs
    <2> HIDE DEF k
    <2>2. k \in J /\ \A i \in J : k <= i
      BY <2>1
    <2>3. Min(J) = k
      <3> HIDE DEF J
      <3> QED
        BY <1>1, <2>2, MinUnique
    <2> QED
      BY <1>3, <2>3 DEF k
  <1> QED
    BY <1>2, <1>3

\* The next declaration.
LEMMA NextIs ==
  ASSUME ScriptInv, read < Len(script.decls)
  PROVE  /\ read \in Nat /\ read + 1 \in 1 .. Len(script.decls)
         /\ read + 1 \in 0 .. Len(script.decls) /\ IsDecl(Current, script.nodes)
         /\ \A kinds : Declared(kinds) \subseteq 1 .. Len(script.decls)
         /\ \A kinds : read + 1 \in Declared(kinds) <=> Current.k \in kinds
  <1>1. Len(script.decls) \in Nat /\ DOMAIN script.decls = 1 .. Len(script.decls)
    BY ScriptIs DEF ScriptInv
  <1>2. read \in Nat /\ read + 1 \in 1 .. Len(script.decls) /\ read + 1 \in 0 .. Len(script.decls)
    BY <1>1 DEF ScriptInv
  <1>3. IsDecl(Current, script.nodes)
    BY <1>2, ScriptIs DEF Current, ScriptInv
  <1> QED
    BY <1>1, <1>2, <1>3 DEF Declared, Current

\* The rules that were read after one more declaration.
LEMMA UptoNext ==
  ASSUME ScriptInv, read < Len(script.decls)
  PROVE  /\ RulesUpto(read) \subseteq 1 .. read
         /\ RulesUpto(read + 1) = RulesUpto(read) \cup
                                    (IF Current.k \in RuleKinds THEN {read + 1} ELSE {})
  <1>1. /\ read \in Nat /\ Declared(RuleKinds) \subseteq 1 .. Len(script.decls)
        /\ read + 1 \in Declared(RuleKinds) <=> Current.k \in RuleKinds
    BY NextIs
  <1>2. Len(script.decls) \in Nat
    BY ScriptIs DEF ScriptInv
  <1> QED
    BY <1>1, <1>2 DEF RulesUpto

\* A rule becomes a node with what is written of it.
LEMMA RuleNewIs ==
  ASSUME ScriptInv, read < Len(script.decls), Current.k \in RuleKinds
  PROVE  /\ rule_new(Current) = Node(Current.name, Written(Current))
         /\ Current.name \in Names /\ Current.name \in Int
         /\ Written(Current) \in AllRuleBodies
         /\ Written(Current) = [params |-> Current.body.formals, options |-> Current.body.options]
  <1>1. /\ read + 1 \in 1 .. Len(script.decls) /\ IsDecl(Current, script.nodes)
        /\ read + 1 \in Declared(RuleKinds)
    BY NextIs
  <1>2. Current.k # "error"
    BY DEF RuleKinds
  <1>3. Current.name \in Names /\ Current.name \in Int
    BY <1>1, <1>2, NamesAssumption DEF IsDecl
  <1>4. Written(Current) = [params |-> Current.body.formals, options |-> Current.body.options]
    BY DEF Written, RuleKinds
  <1>5. Current.body.options \in Seq(Seq(DOMAIN script.nodes)) /\ Current.body.options # <<>>
    BY <1>1 DEF IsDecl
  <1>6. options(Current.body.options) = Current.body.options
    BY <1>5, OptionsKept
  <1>7. Written(Current) \in AllRuleBodies
    <2>1. Written(script.decls[read + 1]) \in
            {Written(script.decls[i]) : i \in {j \in DOMAIN script.decls : script.decls[j].k \in RuleKinds}}
      BY <1>1 DEF Declared
    <2> QED
      BY <2>1 DEF AllRuleBodies, WrittenAs, Current, ScriptInv
  <1> QED
    BY <1>3, <1>4, <1>6, <1>7 DEF rule_new

\* The tree with the next rule in it holds what was read, and finds the first of each name.
LEMMA RulesGrow ==
  ASSUME ScriptInv, RulesInv, read < Len(script.decls), Current.k \in RuleKinds
  PROVE  LET u == Insert(rules, rule_new(Current))
         IN  /\ IsTree(u, AllRuleBodies) /\ IsSearchTree(u) /\ Len(u) = Len(rules) + 1
             /\ Holds(u, read + 1) /\ Finds(u, read + 1)
             /\ u[Len(rules) + 1].body = Written(Current)
             /\ \A p \in 1 .. Len(rules) : u[p].body = rules[p].body
             /\ \A n \in Int : Find(u, n) = IF Find(rules, n) # 0 THEN Find(rules, n)
                                          ELSE IF n = Current.name THEN Len(rules) + 1 ELSE 0
  <1> DEFINE N == Len(rules)
             name == Current.name
             b == Written(Current)
             u == Insert(rules, rule_new(Current))
  <1>1. /\ rule_new(Current) = Node(name, b) /\ name \in Int /\ b \in AllRuleBodies
        /\ b = [params |-> Current.body.formals, options |-> Current.body.options]
    BY RuleNewIs
  <1>2. u = Insert(rules, Node(name, b))
    BY <1>1
  <1>3. IsTree(rules, AllRuleBodies) /\ IsSearchTree(rules)
    BY DEF RulesInv
  <1> HIDE DEF name, b, u
  <1>4. /\ IsTree(u, AllRuleBodies) /\ Len(u) = N + 1
        /\ u[N + 1].name = name /\ u[N + 1].body = b
        /\ \A p \in 1 .. N : u[p].name = rules[p].name /\ u[p].body = rules[p].body
    BY <1>1, <1>2, <1>3, InsertGives
  <1>5. IsSearchTree(u)
    BY <1>1, <1>2, <1>3, InsertOrdered
  <1>6. \A n \in Int : Find(u, n) = IF Find(rules, n) # 0 THEN Find(rules, n)
                                  ELSE IF n = name THEN N + 1 ELSE 0
    BY <1>1, <1>2, <1>3, FindInsert
  <1>7. /\ read \in Nat /\ N \in Nat /\ RulesUpto(read) \subseteq 1 .. read
        /\ RulesUpto(read + 1) = RulesUpto(read) \cup {read + 1}
    BY <1>3, NextIs, UptoNext DEF IsTree
  <1>8. script.decls[read + 1] = Current
    BY DEF Current
  <1>9. IsRuleOf(u[N + 1], script.decls[read + 1])
    BY <1>1, <1>4, <1>8 DEF IsRuleOf, name
  <1>10. \A p \in 1 .. N : \A d : IsRuleOf(u[p], d) <=> IsRuleOf(rules[p], d)
    BY <1>4 DEF IsRuleOf
  <1> HIDE DEF N
  <1>11. N + 1 \in 1 .. N + 1 /\ \A p \in 1 .. N + 1 : p = N + 1 \/ p \in 1 .. N
    BY <1>7
  <1>12. \A p \in 1 .. N : p \in 1 .. N + 1
    BY <1>7
  <1>13. Holds(u, read + 1)
    <2>1. Holds(rules, read)
      BY DEF RulesInv
    <2>2. ASSUME NEW i \in RulesUpto(read + 1)
          PROVE  \E p \in 1 .. N + 1 : IsRuleOf(u[p], script.decls[i])
      <3>1. CASE i = read + 1
        BY <1>9, <1>11, <3>1
      <3>2. CASE i \in RulesUpto(read)
        <4>1. PICK p \in 1 .. N : IsRuleOf(rules[p], script.decls[i])
          BY <2>1, <3>2 DEF Holds, N
        <4> QED
          BY <1>10, <1>12, <4>1
      <3> QED
        BY <1>7, <3>1, <3>2
    <2>3. ASSUME NEW p \in 1 .. N + 1
          PROVE  \E i \in RulesUpto(read + 1) : IsRuleOf(u[p], script.decls[i])
      <3>1. CASE p = N + 1
        BY <1>7, <1>9, <3>1
      <3>2. CASE p \in 1 .. N
        <4>1. PICK i \in RulesUpto(read) : IsRuleOf(rules[p], script.decls[i])
          BY <2>1, <3>2 DEF Holds, N
        <4> QED
          BY <1>7, <1>10, <3>2, <4>1
      <3> QED
        BY <1>11, <3>1, <3>2
    <2> QED
      BY <1>4, <2>2, <2>3 DEF Holds, N
  <1>14. ASSUME NEW n \in Int PROVE IsFirst(u, Find(u, n), Called(n, read + 1))
    <2> DEFINE p == Find(rules, n)
               q == Find(u, n)
               I == Called(n, read)
    <2>1. IsFirst(rules, p, I)
      BY DEF RulesInv, Finds
    <2>2. p \in 0 .. N
      BY <1>3, FindIsNode DEF N
    <2>3. q = IF p # 0 THEN p ELSE IF n = name THEN N + 1 ELSE 0
      BY <1>6
    <2>4. I \subseteq 1 .. read
          /\ Called(n, read + 1) = IF n = name THEN I \cup {read + 1} ELSE I
      BY <1>7, <1>8 DEF Called, name
    <2>5. p \in 1 .. N => u[p].body = rules[p].body
      BY <1>4 DEF N
    <2>6. p # 0 => p \in 1 .. N
      BY <1>7, <2>2
    <2> HIDE DEF p, q, I
    <2>7. CASE n # name
      BY <2>1, <2>3, <2>4, <2>5, <2>6, <2>7 DEF IsFirst, q
    <2>8. CASE n = name
      <3>1. Min(I \cup {read + 1}) = IF I = {} THEN read + 1 ELSE Min(I)
        BY <1>7, <2>4, MinAdd
      <3>2. CASE I = {}
        <4>1. p = 0 /\ q = N + 1 /\ q # 0
          BY <1>7, <2>1, <2>3, <2>8, <3>2 DEF IsFirst
        <4>2. u[q].body = Written(script.decls[read + 1])
          BY <1>4, <1>8, <4>1 DEF b, N
        <4>3. Called(n, read + 1) # {} /\ Min(Called(n, read + 1)) = read + 1
          BY <2>4, <2>8, <3>1, <3>2
        <4> QED
          BY <4>1, <4>2, <4>3 DEF IsFirst, q
      <3>3. CASE I # {}
        <4>1. p # 0 /\ q = p /\ rules[p].body = Written(script.decls[Min(I)])
          BY <2>1, <2>3, <3>3 DEF IsFirst
        <4>2. Called(n, read + 1) # {} /\ Min(Called(n, read + 1)) = Min(I)
          BY <2>4, <2>8, <3>1, <3>3
        <4> QED
          BY <2>5, <2>6, <4>1, <4>2 DEF IsFirst, q
      <3> QED
        BY <3>2, <3>3
    <2> QED
      BY <2>7, <2>8 DEF q
  <1>15. Finds(u, read + 1)
    BY <1>14 DEF Finds
  <1> QED
    BY <1>4, <1>5, <1>6, <1>13, <1>15 DEF u, N, name, b

\* What is in a list is not changed by the next declaration if that is of another kind.
LEMMA ListedOther ==
  ASSUME ScriptInv, read < Len(script.decls), NEW list, NEW kind, Current.k # kind,
         Listed(list, kind, read)
  PROVE  Listed(list, kind, read + 1)
  <1>1. /\ read \in Nat /\ read + 1 \notin Declared({kind})
        /\ Declared({kind}) \subseteq 1 .. Len(script.decls)
    BY NextIs
  <1>2. Len(script.decls) \in Nat
    BY ScriptIs DEF ScriptInv
  <1>3. ASSUME NEW i \in Declared({kind}) PROVE i <= read + 1 <=> i <= read
    <2>1. i \in 1 .. Len(script.decls) /\ i # read + 1
      BY <1>1
    <2>2. i \in Nat
      BY <1>2, <2>1
    <2> QED
      BY <1>1, <2>1, <2>2
  <1> QED
    BY <1>3 DEF Listed

\* What the reading of a rule keeps.
LEMMA RuleKeeps ==
  ASSUME LoadInv, pc = "read", read < Len(script.decls), Current.k \in RuleKinds,
         EntersRule, Goes, initial_rule' \in 0 .. Len(rules'),
         IsFirst(rules', initial_rule', Plain(read + 1))
  PROVE  LoadInv'
  <1>1. ScriptInv /\ RulesInv /\ ListsInv /\ IsTree(vars, AllValues)
    BY DEF LoadInv
  <1>2. /\ rules' = Insert(rules, rule_new(Current)) /\ read' = read + 1
        /\ UNCHANGED <<mappings, transformations, pc, script, vars, puts>>
    BY DEF EntersRule, Goes, rule_insert
  <1>3. /\ IsTree(rules', AllRuleBodies) /\ IsSearchTree(rules')
        /\ Holds(rules', read + 1) /\ Finds(rules', read + 1)
    BY <1>1, <1>2, RulesGrow
  <1>4. ScriptInv'
    BY <1>1, <1>2, NextIs DEF ScriptInv
  <1>5. AllRuleBodies' = AllRuleBodies
    BY DEF AllRuleBodies, WrittenAs
  <1>6. Holds(rules, read)'
    BY <1>2, <1>3 DEF Holds, RulesUpto, Declared
  <1>7. Finds(rules, read)'
    BY <1>2, <1>3 DEF Finds, IsFirst, Called, RulesUpto, Declared
  <1>8. RulesInv'
    BY <1>3, <1>5, <1>6, <1>7 DEF RulesInv
  <1>9. Listed(mappings, "mapping", read + 1) /\ Listed(transformations, "xform", read + 1)
    <2>1. Current.k # "mapping" /\ Current.k # "xform"
      BY DEF RuleKinds
    <2> QED
      BY <1>1, <2>1, ListedOther DEF ListsInv
  <1>10. ListsInv'
    BY <1>1, <1>2, <1>9 DEF ListsInv, Listed, Declared
  <1>11. StartInv'
    BY <1>2 DEF StartInv, IsFirst, Plain, RulesUpto, Declared, AtomsDefined
  <1>12. IsTree(vars, AllValues)'
    BY <1>1, <1>2
  <1> QED
    BY <1>4, <1>8, <1>10, <1>11, <1>12 DEF LoadInv

\* The first plain rule is the start symbol after one more.
LEMMA PlainRuleKeeps ==
  ASSUME LoadInv, PlainRule
  PROVE  LoadInv'
  <1> DEFINE N == Len(rules)
             u == Insert(rules, rule_new(Current))
  <1>1. /\ pc = "read" /\ read < Len(script.decls) /\ Current.k = "rule" /\ EntersRule /\ Goes
        /\ rules' = u
        /\ initial_rule' = IF initial_rule = 0 THEN N + 1 ELSE initial_rule
    BY DEF PlainRule, Reads, EntersRule, rule_insert
  <1>2. ScriptInv /\ RulesInv /\ StartInv
    BY DEF LoadInv
  <1>3. Current.k \in RuleKinds
    BY <1>1 DEF RuleKinds
  <1>4. /\ Len(u) = N + 1 /\ u[N + 1].body = Written(Current)
        /\ \A p \in 1 .. N : u[p].body = rules[p].body
    BY <1>1, <1>2, <1>3, RulesGrow
  <1>5. /\ read \in Nat /\ RulesUpto(read) \subseteq 1 .. read
        /\ RulesUpto(read + 1) = RulesUpto(read) \cup {read + 1}
    BY <1>1, <1>2, <1>3, NextIs, UptoNext
  <1>6. Current = script.decls[read + 1]
    BY DEF Current
  <1> DEFINE I == Plain(read)
             J == Plain(read + 1)
  <1>7. I \subseteq 1 .. read /\ J = I \cup {read + 1}
    BY <1>1, <1>5, <1>6 DEF Plain
  <1>8. Min(J) = IF I = {} THEN read + 1 ELSE Min(I)
    <2> HIDE DEF I, J
    <2> QED
      BY <1>5, <1>7, MinAdd
  <1>9. initial_rule \in 0 .. N /\ IsFirst(rules, initial_rule, I) /\ N \in Nat
    BY <1>1, <1>2 DEF StartInv, RulesInv, IsTree
  <1> HIDE DEF u, N, I, J
  <1>10. initial_rule' \in 0 .. Len(rules')
    BY <1>1, <1>4, <1>9
  <1>11. J # {}
    BY <1>7
  <1>12. CASE I = {}
    <2>1. initial_rule = 0
      BY <1>9, <1>12 DEF IsFirst
    <2>2. initial_rule' = N + 1 /\ N + 1 # 0
      BY <1>1, <1>9, <2>1
    <2>3. rules'[initial_rule'].body = Written(script.decls[Min(J)])
      BY <1>1, <1>4, <1>6, <1>8, <1>12, <2>2
    <2> QED
      BY <1>1, <1>3, <1>10, <1>11, <2>2, <2>3, RuleKeeps DEF IsFirst, J
  <1>13. CASE I # {}
    <2>1. initial_rule # 0 /\ rules[initial_rule].body = Written(script.decls[Min(I)])
      BY <1>9, <1>13 DEF IsFirst
    <2>2. initial_rule' = initial_rule /\ initial_rule \in 1 .. N
      BY <1>1, <1>9, <2>1
    <2>3. rules'[initial_rule'].body = Written(script.decls[Min(J)])
      BY <1>1, <1>4, <1>8, <1>13, <2>1, <2>2
    <2> QED
      BY <1>1, <1>3, <1>10, <1>11, <2>1, <2>2, <2>3, RuleKeeps DEF IsFirst, J
  <1> QED
    BY <1>12, <1>13

\* The other rules do not begin the text.
LEMMA OtherRuleKeeps ==
  ASSUME LoadInv, ResourceRule \/ ParameterRule
  PROVE  LoadInv'
  <1> DEFINE N == Len(rules)
             u == Insert(rules, rule_new(Current))
  <1>1. /\ pc = "read" /\ read < Len(script.decls) /\ Current.k \in RuleKinds /\ Current.k # "rule"
        /\ EntersRule /\ Goes /\ rules' = u /\ initial_rule' = initial_rule
    BY DEF ResourceRule, ParameterRule, Reads, EntersRule, rule_insert, RuleKinds
  <1>2. ScriptInv /\ RulesInv /\ StartInv
    BY DEF LoadInv
  <1>4. Len(u) = N + 1 /\ \A p \in 1 .. N : u[p].body = rules[p].body
    BY <1>1, <1>2, RulesGrow
  <1>5. RulesUpto(read + 1) = RulesUpto(read) \cup {read + 1}
    BY <1>1, <1>2, UptoNext
  <1>6. Current = script.decls[read + 1]
    BY DEF Current
  <1>7. Plain(read + 1) = Plain(read)
    BY <1>1, <1>5, <1>6 DEF Plain
  <1>8. initial_rule \in 0 .. N /\ IsFirst(rules, initial_rule, Plain(read)) /\ N \in Nat
    BY <1>1, <1>2 DEF StartInv, RulesInv, IsTree
  <1> HIDE DEF u, N
  <1>9. initial_rule' \in 0 .. Len(rules')
    BY <1>1, <1>4, <1>8
  <1>10. IsFirst(rules', initial_rule', Plain(read + 1))
    <2>1. initial_rule # 0 => initial_rule \in 1 .. N
      BY <1>8
    <2> QED
      BY <1>1, <1>4, <1>7, <1>8, <2>1 DEF IsFirst
  <1> QED
    BY <1>1, <1>9, <1>10, RuleKeeps

\* What the reading of a mapping or a transformation keeps of rules and variables.
LEMMA ListKeeps ==
  ASSUME LoadInv, pc = "read", read < Len(script.decls), Current.k \notin RuleKinds, Goes,
         UNCHANGED <<rules, initial_rule>>, ListsInv'
  PROVE  LoadInv'
  <1>1. ScriptInv /\ RulesInv /\ StartInv /\ IsTree(vars, AllValues)
    BY DEF LoadInv
  <1>2. read' = read + 1 /\ UNCHANGED <<pc, script, vars, puts, rules, initial_rule>>
    BY DEF Goes
  <1>3. ScriptInv'
    BY <1>1, <1>2, NextIs DEF ScriptInv
  <1>4. RulesUpto(read + 1) = RulesUpto(read)
    BY <1>1, UptoNext
  <1>5. Holds(rules, read)'
    BY <1>1, <1>2, <1>4 DEF RulesInv, Holds, RulesUpto, Declared
  <1>6. \A n : Called(n, read + 1) = Called(n, read)
    BY <1>4 DEF Called
  <1>7. Finds(rules, read + 1)
    BY <1>1, <1>6 DEF RulesInv, Finds
  <1>8. Finds(rules, read)'
    BY <1>2, <1>7 DEF Finds, IsFirst, Called, RulesUpto, Declared
  <1>9. RulesInv'
    BY <1>1, <1>2, <1>5, <1>8 DEF RulesInv, AllRuleBodies, WrittenAs
  <1>10. IsFirst(rules, initial_rule, Plain(read + 1))
    BY <1>1, <1>4 DEF StartInv, Plain
  <1>11. StartInv'
    BY <1>1, <1>2, <1>10 DEF StartInv, IsFirst, Plain, RulesUpto, Declared, AtomsDefined
  <1> QED
    BY <1>1, <1>2, <1>3, <1>9, <1>11 DEF LoadInv

\* A list with what was read in front of it.
LEMMA ListedNext ==
  ASSUME ScriptInv, read < Len(script.decls), NEW S, NEW list \in Seq(S), NEW m \in S,
         NEW kind, Current.k = kind, m.name = Current.name, Listed(list, kind, read)
  PROVE  Listed(<<m>> \o list, kind, read + 1)
  <1> DEFINE longer == <<m>> \o list
  <1>1. read \in Nat /\ read + 1 \in Declared({kind})
        /\ Declared({kind}) \subseteq 1 .. Len(script.decls) /\ Len(script.decls) \in Nat
    BY NextIs, ScriptIs DEF ScriptInv
  <1>2. script.decls[read + 1] = Current
    BY DEF Current
  <1>3. ASSUME NEW n \in Int
        PROVE  Lookup(longer, n) # 0 <=>
                 \E i \in Declared({kind}) : i <= read + 1 /\ script.decls[i].name = n
    <2> DEFINE p == Lookup(list, n)
               q == Lookup(longer, n)
    <2>1. p \in Nat
      <3>1. p \in 0 .. Len(list)
        BY LookupIs
      <3> QED
        BY <3>1
    <2>2. /\ m.name = n => q = 1
          /\ m.name # n => IF p = 0 THEN q = 0 ELSE q = p + 1
      BY LookupCons DEF InFront
    <2>3. p # 0 <=> \E i \in Declared({kind}) : i <= read /\ script.decls[i].name = n
      BY DEF Listed
    <2> HIDE DEF p, q
    <2>4. q # 0 <=> m.name = n \/ p # 0
      BY <2>1, <2>2
    <2>5. (\E i \in Declared({kind}) : i <= read + 1 /\ script.decls[i].name = n)
            <=> (m.name = n \/ \E i \in Declared({kind}) : i <= read /\ script.decls[i].name = n)
      <3>1. ASSUME NEW i \in Declared({kind}) PROVE i <= read + 1 <=> (i <= read \/ i = read + 1)
        <4>1. i \in 1 .. Len(script.decls)
          BY <1>1
        <4>2. i \in Nat
          BY <1>1, <4>1
        <4> QED
          BY <1>1, <4>2
      <3> QED
        BY <1>1, <1>2, <3>1
    <2> QED
      BY <2>3, <2>4, <2>5 DEF q
  <1> QED
    BY <1>3 DEF Listed

\* The body of a mapping or a transformation is not empty.
LEMMA ListBody ==
  ASSUME ScriptInv, read < Len(script.decls), Current.k \in {"mapping", "xform"}
  PROVE  /\ IsSequence(Current.body) /\ Current.body # <<>>
         /\ Current.name \in Names /\ Current.name \in Int
         /\ Current.k = "mapping" => /\ mapopts(Current.body) = Written(Current)
                                     /\ Written(Current) \in AllMapBodies
         /\ Current.k = "xform" => /\ transopts(Current.body) = Written(Current)
                                   /\ Written(Current) \in AllXformBodies
  <1>1. IsDecl(Current, script.nodes) /\ read + 1 \in 1 .. Len(script.decls)
    BY NextIs
  <1>2. DOMAIN script.decls = 1 .. Len(script.decls) /\ script \in Scripts
    BY ScriptIs DEF ScriptInv
  <1>3. IsSequence(Current.body) /\ Current.body # <<>>
    BY <1>1 DEF IsDecl
  <1>4. Current.name \in Names /\ Current.name \in Int
    BY <1>1, NamesAssumption DEF IsDecl
  <1>5. ASSUME NEW kinds, Current.k \in kinds PROVE Written(Current) \in WrittenAs(kinds)
    <2>1. Written(script.decls[read + 1]) \in
            {Written(script.decls[i]) : i \in {j \in DOMAIN script.decls : script.decls[j].k \in kinds}}
      BY <1>1, <1>2, <1>5 DEF Current
    <2> QED
      BY <1>2, <2>1 DEF WrittenAs, Current
  <1>6. ASSUME Current.k = "mapping"
        PROVE  mapopts(Current.body) = Written(Current) /\ Written(Current) \in AllMapBodies
    <2>1. mapopts(Current.body) = FlattenSeq([i \in DOMAIN Current.body |-> mapopt(Current.body[i])])
      BY <1>3, MapoptsFlattened
    <2>2. Written(Current) = FlattenSeq([i \in DOMAIN Current.body |-> mapopt(Current.body[i])])
      BY <1>6 DEF Written, RuleKinds, mapopt
    <2> QED
      BY <1>5, <1>6, <2>1, <2>2 DEF AllMapBodies
  <1>7. ASSUME Current.k = "xform"
        PROVE  transopts(Current.body) = Written(Current) /\ Written(Current) \in AllXformBodies
    <2>1. Current.body \in Seq({Current.body[i] : i \in 1 .. Len(Current.body)})
      BY <1>3, SequenceIs
    <2>2. transopts(Current.body) = Current.body
      BY <1>3, <2>1, OptionsKept
    <2>3. Written(Current) = Current.body
      BY <1>7 DEF Written, RuleKinds
    <2> QED
      BY <1>5, <1>7, <2>2, <2>3 DEF AllXformBodies
  <1> QED
    BY <1>3, <1>4, <1>6, <1>7

\* A mapping is put in front of the others.
LEMMA MappingKeeps ==
  ASSUME LoadInv, Mapping
  PROVE  LoadInv'
  <1> DEFINE S == [name : Int, options : AllMapBodies]
             m == [name |-> Current.name, options |-> mapopts(Current.body)]
  <1>1. /\ pc = "read" /\ read < Len(script.decls) /\ Current.k = "mapping" /\ Goes
        /\ read' = read + 1 /\ UNCHANGED <<rules, initial_rule, transformations, script>>
        /\ mappings' = <<m>> \o mappings
    BY DEF Mapping, Reads, Goes
  <1>2. ScriptInv /\ ListsInv
    BY DEF LoadInv
  <1>3. Current.name \in Int /\ mapopts(Current.body) \in AllMapBodies
    BY <1>1, <1>2, ListBody
  <1>4. m \in S /\ m.name = Current.name
    BY <1>3
  <1>5. mappings \in Seq(S) /\ Listed(mappings, "mapping", read)
        /\ Listed(transformations, "xform", read)
    BY <1>2 DEF ListsInv
  <1> HIDE DEF S, m
  <1>6. Listed(<<m>> \o mappings, "mapping", read + 1)
    BY <1>1, <1>2, <1>4, <1>5, ListedNext
  <1>7. Listed(transformations, "xform", read + 1)
    BY <1>1, <1>2, <1>5, ListedOther
  <1>8. mappings' \in Seq(S)
    BY <1>1, <1>4, <1>5
  <1>9. ListsInv'
    <2>1. Listed(mappings, "mapping", read)'
      BY <1>1, <1>6, <1>7 DEF Listed, Declared
    <2>2. Listed(transformations, "xform", read)'
      BY <1>1, <1>6, <1>7 DEF Listed, Declared
    <2> QED
      BY <1>1, <1>2, <1>8, <2>1, <2>2 DEF ListsInv, S
  <1>10. Current.k \notin RuleKinds
    BY <1>1 DEF RuleKinds
  <1> QED
    BY <1>1, <1>9, <1>10, ListKeeps

\* So is a transformation.
LEMMA TransformationKeeps ==
  ASSUME LoadInv, Transformation
  PROVE  LoadInv'
  <1> DEFINE S == [name : Int, options : AllXformBodies]
             m == [name |-> Current.name, options |-> transopts(Current.body)]
  <1>1. /\ pc = "read" /\ read < Len(script.decls) /\ Current.k = "xform" /\ Goes
        /\ read' = read + 1 /\ UNCHANGED <<rules, initial_rule, mappings, script>>
        /\ transformations' = <<m>> \o transformations
    BY DEF Transformation, Reads, Goes
  <1>2. ScriptInv /\ ListsInv
    BY DEF LoadInv
  <1>3. Current.name \in Int /\ transopts(Current.body) \in AllXformBodies
    BY <1>1, <1>2, ListBody
  <1>4. m \in S /\ m.name = Current.name
    BY <1>3
  <1>5. transformations \in Seq(S) /\ Listed(mappings, "mapping", read)
        /\ Listed(transformations, "xform", read)
    BY <1>2 DEF ListsInv
  <1> HIDE DEF S, m
  <1>6. Listed(<<m>> \o transformations, "xform", read + 1)
    BY <1>1, <1>2, <1>4, <1>5, ListedNext
  <1>7. Listed(mappings, "mapping", read + 1)
    BY <1>1, <1>2, <1>5, ListedOther
  <1>8. transformations' \in Seq(S)
    BY <1>1, <1>4, <1>5
  <1>9. ListsInv'
    <2>1. Listed(mappings, "mapping", read)'
      BY <1>1, <1>6, <1>7 DEF Listed, Declared
    <2>2. Listed(transformations, "xform", read)'
      BY <1>1, <1>6, <1>7 DEF Listed, Declared
    <2> QED
      BY <1>1, <1>2, <1>8, <2>1, <2>2 DEF ListsInv, S
  <1>10. Current.k \notin RuleKinds
    BY <1>1 DEF RuleKinds
  <1> QED
    BY <1>1, <1>9, <1>10, ListKeeps

\* When all is read, all is found that there is.
LEMMA AllIsFound ==
  ASSUME LoadInv, read = Len(script.decls)
  PROVE  AllFound /\ RulesUpto(read) = Declared(RuleKinds)
  <1>1. ScriptInv /\ RulesInv /\ ListsInv
    BY DEF LoadInv
  <1>2. Len(script.decls) \in Nat /\ DOMAIN script.decls = 1 .. Len(script.decls)
    BY <1>1, ScriptIs DEF ScriptInv
  <1>3. ASSUME NEW kinds, NEW i \in Declared(kinds) PROVE i <= read
    <2>1. i \in 1 .. Len(script.decls)
      BY <1>2 DEF Declared
    <2> QED
      BY <1>2, <2>1
  <1>4. RulesUpto(read) = Declared(RuleKinds)
    BY <1>3 DEF RulesUpto
  <1>5. ASSUME NEW n \in Int PROVE rule_find(rules, n) # 0 <=> Named(RuleKinds, n)
    <2>1. IsFirst(rules, Find(rules, n), Called(n, read))
      BY <1>1 DEF RulesInv, Finds
    <2>2. Find(rules, n) # 0 <=> Called(n, read) # {}
      BY <2>1 DEF IsFirst
    <2>3. Called(n, read) # {} <=> Named(RuleKinds, n)
      BY <1>4 DEF Called, Named
    <2> QED
      BY <2>2, <2>3 DEF rule_find
  <1>6. ASSUME NEW n \in Int
        PROVE  /\ map_lookup(n) # 0 <=> Named({"mapping"}, n)
               /\ trans_lookup(n) # 0 <=> Named({"xform"}, n)
    BY <1>1, <1>3 DEF ListsInv, Listed, map_lookup, trans_lookup, Named
  <1> QED
    BY <1>4, <1>5, <1>6 DEF AllFound

\* The nodes that a rule's options consist of.
LEMMA AtomIs ==
  ASSUME ScriptInv, NEW r \in AllRules, NEW n \in Atoms(r)
  PROVE  /\ n \in 1 .. Len(script.nodes)
         /\ \E j \in DOMAIN r.body.options : \E k \in DOMAIN r.body.options[j] :
               n = r.body.options[j][k]
  <1>1. PICK j \in DOMAIN r.body.options : \E k \in DOMAIN r.body.options[j] :
               n = r.body.options[j][k]
    BY DEF Atoms, ToSet
  <1>2. PICK k \in DOMAIN r.body.options[j] : n = r.body.options[j][k]
    BY <1>1
  <1>3. DOMAIN script.decls = 1 .. Len(script.decls) /\ DOMAIN script.nodes = 1 .. Len(script.nodes)
    BY ScriptIs DEF ScriptInv
  <1>4. PICK i \in Declared(RuleKinds) : r = script.decls[i]
    BY DEF AllRules
  <1>5. IsDecl(r, script.nodes) /\ r.k \in RuleKinds
    BY <1>3, <1>4, ScriptIs DEF ScriptInv, Declared
  <1> DEFINE D == DOMAIN script.nodes
             os == r.body.options
  <1>6. os \in Seq(Seq(D))
    BY <1>5 DEF IsDecl
  <1> HIDE DEF D, os
  <1>7. j \in DOMAIN os /\ k \in DOMAIN os[j] /\ n = os[j][k]
    BY <1>2 DEF os
  <1>8. os[j] \in Seq(D)
    BY <1>6, <1>7
  <1>9. os[j][k] \in D
    BY <1>7, <1>8
  <1> QED
    BY <1>1, <1>3, <1>7, <1>9 DEF D

\* What is reported is reported of some node of an option of a rule of the script.
LEMMA ReportedOf ==
  ASSUME LoadInv, NEW m
  PROVE  m \in check_for_undefined <=>
           \E p \in 1 .. Len(rules) : \E j \in DOMAIN rules[p].body.options :
             \E k \in DOMAIN rules[p].body.options[j] :
               m \in undef_iter2(rules[p], rules[p].body.options[j][k])
  <1> DEFINE all == Inorder(rules)
  <1>1. Lists(all, 1 .. Len(rules), rules)
    BY InorderLists DEF LoadInv, RulesInv
  <1> HIDE DEF all
  <1>2. ToSet(all) = 1 .. Len(rules)
    <2>1. all \in Seq(1 .. Len(rules)) /\ \A r \in 1 .. Len(rules) : \E i \in 1 .. Len(all) : all[i] = r
      BY <1>1 DEF Lists
    <2>2. DOMAIN all = 1 .. Len(all) /\ \A i \in 1 .. Len(all) : all[i] \in 1 .. Len(rules)
      BY <2>1
    <2> QED
      BY <2>1, <2>2 DEF ToSet
  <1>3. m \in check_for_undefined <=> \E p \in 1 .. Len(rules) : m \in undef_iter0(rules[p])
    BY <1>2 DEF check_for_undefined, rule_inorder_traverse, all
  <1>4. ASSUME NEW r
        PROVE  m \in undef_iter0(r) <=>
                 \E j \in DOMAIN r.body.options : \E k \in DOMAIN r.body.options[j] :
                   m \in undef_iter2(r, r.body.options[j][k])
    BY DEF undef_iter0, undef_iter1
  <1> QED
    BY <1>3, <1>4

\* If nothing is reported, what the options consist of is defined.
LEMMA CheckedIsDefined ==
  ASSUME LoadInv, read = Len(script.decls), check_for_undefined = {}
  PROVE  \A r \in AllRules : \A n \in Atoms(r) :
            /\ IsDefined(r, n)
            /\ script.nodes[n].type = "mapping" => IsDefined(r, script.nodes[n].params[1])
  <1> SUFFICES ASSUME NEW r \in AllRules, NEW n \in Atoms(r)
               PROVE  /\ IsDefined(r, n)
                      /\ script.nodes[n].type = "mapping" => IsDefined(r, First(n))
    BY DEF First
  <1>1. ScriptInv /\ RulesInv /\ script \in Scripts
    BY DEF LoadInv, ScriptInv
  <1>2. AllFound /\ RulesUpto(read) = Declared(RuleKinds)
    BY AllIsFound
  <1>3. PICK i \in Declared(RuleKinds) : r = script.decls[i]
    BY DEF AllRules
  <1>4. PICK p \in 1 .. Len(rules) : IsRuleOf(rules[p], r)
    BY <1>1, <1>2, <1>3 DEF RulesInv, Holds
  <1>5. rules[p].body.params = r.body.formals /\ rules[p].body.options = r.body.options
    BY <1>4 DEF IsRuleOf
  <1>6. n \in 1 .. Len(script.nodes)
    BY <1>1, AtomIs
  <1>7. PICK j \in DOMAIN r.body.options : \E k \in DOMAIN r.body.options[j] : n = r.body.options[j][k]
    BY <1>1, AtomIs
  <1>8. undef_iter2(rules[p], n) = {}
    <2> SUFFICES ASSUME NEW m \in undef_iter2(rules[p], n) PROVE FALSE
      OBVIOUS
    <2>1. m \in check_for_undefined
      BY <1>5, <1>7, ReportedOf
    <2> QED
      BY <2>1
  <1> QED
    BY <1>1, <1>2, <1>5, <1>6, <1>8, NothingReported

\* What is not touched stays as it is.
LEMMA ListsSame ==
  ASSUME ListsInv, UNCHANGED <<script, read, mappings, transformations>>
  PROVE  ListsInv'
  <1>1. Listed(mappings, "mapping", read)'
    BY DEF ListsInv, Listed, Declared
  <1>2. Listed(transformations, "xform", read)'
    BY DEF ListsInv, Listed, Declared
  <1> QED
    BY <1>1, <1>2 DEF ListsInv

\* The same of the rules.
LEMMA RulesSame ==
  ASSUME RulesInv, UNCHANGED <<script, read, rules>>
  PROVE  RulesInv'
  <1>1. Holds(rules, read)'
    BY DEF RulesInv, Holds, RulesUpto, Declared
  <1>2. Finds(rules, read)'
    BY DEF RulesInv, Finds, IsFirst, Called, RulesUpto, Declared
  <1>3. IsTree(rules, AllRuleBodies)' /\ IsSearchTree(rules)'
    BY DEF RulesInv
  <1> QED
    BY <1>1, <1>2, <1>3 DEF RulesInv

\* What is defined depends on the script only.
LEMMA DefinedSame ==
  ASSUME UNCHANGED script
  PROVE  /\ AllRules' = AllRules
         /\ \A r, n : IsDefined(r, n)' <=> IsDefined(r, n)
  <1>1. \A kinds : Declared(kinds)' = Declared(kinds)
    BY DEF Declared
  <1>2. AllRules' = AllRules
    BY <1>1 DEF AllRules
  <1>3. ASSUME NEW r, NEW n PROVE IsDefined(r, n)' <=> IsDefined(r, n)
    BY <1>1 DEF IsDefined
  <1> QED
    BY <1>2, <1>3

\* So it stays the same.
LEMMA AtomsSame ==
  ASSUME AtomsDefined, UNCHANGED <<script, pc>>
  PROVE  AtomsDefined'
  BY DefinedSame DEF AtomsDefined

\* What a step keeps that only moves the control.
LEMMA MovesKeeps ==
  ASSUME LoadInv, NEW p, Moves(p), p \in {"check", "run", "failed", "crashed", "done"},
         p # "failed" => read = Len(script.decls), initial_rule' \in 0 .. Len(rules),
         p = "check" => IsFirst(rules, initial_rule', Plain(read)),
         p \in {"run", "crashed"} =>
           check_for_undefined = {} /\ read = Len(script.decls) /\ IsFirst(rules, initial_rule', Asked)
  PROVE  LoadInv'
  <1>1. ScriptInv /\ RulesInv /\ ListsInv /\ IsTree(vars, AllValues)
    BY DEF LoadInv
  <1>2. pc' = p /\ UNCHANGED <<script, read, rules, mappings, transformations, vars, puts>>
    BY DEF Moves
  <1>3. ScriptInv'
    BY <1>1, <1>2 DEF ScriptInv
  <1>4. RulesInv'
    BY <1>1, <1>2, RulesSame
  <1>5. ListsInv'
    BY <1>1, <1>2, ListsSame
  <1>6. p \in {"run", "crashed"} =>
          \A r \in AllRules : \A n \in Atoms(r) :
            /\ IsDefined(r, n)
            /\ script.nodes[n].type = "mapping" => IsDefined(r, script.nodes[n].params[1])
    BY CheckedIsDefined
  <1>7. AtomsDefined'
    BY <1>2, <1>6, DefinedSame DEF AtomsDefined
  <1>8. StartInv'
    <2>1. p = "check" => IsFirst(rules, initial_rule, Plain(read))'
      BY <1>2 DEF IsFirst, Plain, RulesUpto, Declared
    <2>2. p \in {"run", "crashed"} => IsFirst(rules, initial_rule, Asked)'
      BY <1>2 DEF IsFirst, Asked, Declared
    <2>3. (initial_rule \in 0 .. Len(rules))' /\ pc' # "read"
      BY <1>2
    <2> QED
      BY <1>2, <1>7, <2>1, <2>2, <2>3 DEF StartInv
  <1> QED
    BY <1>1, <1>2, <1>3, <1>4, <1>5, <1>8 DEF LoadInv

\* The value of a variable.
ValueOf(t, n) == IF Find(t, n) = 0 THEN None ELSE t[Find(t, n)].body

\* After an assignment the variable has the value, and the others have theirs.
LEMMA VarInsertIs ==
  ASSUME NEW t, IsTree(t, AllValues), NEW n \in Int, NEW v \in AllValues
  PROVE  LET u == var_insert(t, n, v)
         IN  /\ IsTree(u, AllValues)
             /\ \A m \in Int : ValueOf(u, m) = IF m = n THEN v ELSE ValueOf(t, m)
  <1> DEFINE p == Find(t, n)
             N == Len(t)
             u == var_insert(t, n, v)
  <1>1. N \in Nat
    BY DEF IsTree
  <1>2. \A m \in Int : /\ Find(t, m) \in 0 .. N
                       /\ Find(t, m) # 0 => t[Find(t, m)].name = m
    BY FindIsNode
  <1>3. \A m \in Int : Find(t, m) # 0 => Find(t, m) \in 1 .. N
    <2> HIDE DEF N
    <2> QED
      BY <1>1, <1>2
  <1>4. CASE p # 0
    <2>1. p \in 1 .. N
      BY <1>3, <1>4
    <2>2. IsUpdate(u, t, p, v)
      BY <1>4 DEF var_insert, IsUpdate
    <2> HIDE DEF p, u
    <2>0. IsTree(u, AllValues) /\ Updates(u, t, p, v)
      BY <2>1, <2>2, FindUpdate
    <2>3. /\ IsTree(u, AllValues) /\ u[p].body = v
          /\ \A r \in 1 .. N : r # p => u[r].body = t[r].body
          /\ \A m \in Int : Find(u, m) = Find(t, m)
      BY <2>0 DEF Updates
    <2> HIDE DEF N
    <2>4. ASSUME NEW m \in Int PROVE ValueOf(u, m) = IF m = n THEN v ELSE ValueOf(t, m)
      <3>1. Find(u, m) = Find(t, m) /\ Find(t, n) = p
        BY <2>3 DEF p
      <3>2. CASE m = n
        BY <1>4, <2>3, <3>1, <3>2 DEF ValueOf
      <3>3. CASE m # n
        <4>1. CASE Find(t, m) = 0
          BY <3>1, <3>3, <4>1 DEF ValueOf
        <4>2. CASE Find(t, m) # 0
          <5>1. Find(t, m) \in 1 .. N /\ t[Find(t, m)].name = m
            BY <1>2, <1>3, <4>2
          <5>2. t[p].name = n
            BY <1>2, <1>4, <3>1
          <5>3. Find(t, m) # p
            BY <3>3, <5>1, <5>2
          <5>4. u[Find(t, m)].body = t[Find(t, m)].body
            BY <2>3, <5>1, <5>3
          <5> QED
            BY <3>1, <3>3, <4>2, <5>4 DEF ValueOf
        <4> QED
          BY <4>1, <4>2
      <3> QED
        BY <3>2, <3>3
    <2> QED
      BY <2>3, <2>4 DEF u
  <1>5. CASE p = 0
    <2>1. u = Insert(t, Node(n, v))
      BY <1>5 DEF var_insert
    <2> HIDE DEF u
    <2>2. /\ IsTree(u, AllValues) /\ u[N + 1].body = v
          /\ \A r \in 1 .. N : u[r].body = t[r].body
      BY <2>1, InsertGives
    <2>3. \A m \in Int : Find(u, m) = IF Find(t, m) # 0 THEN Find(t, m)
                                    ELSE IF m = n THEN N + 1 ELSE 0
      BY <2>1, FindInsert
    <2> HIDE DEF N
    <2>4. ASSUME NEW m \in Int PROVE ValueOf(u, m) = IF m = n THEN v ELSE ValueOf(t, m)
      <3>1. CASE m = n
        <4>1. Find(u, m) = N + 1 /\ N + 1 # 0
          BY <1>1, <1>5, <2>3, <3>1
        <4> QED
          BY <2>2, <3>1, <4>1 DEF ValueOf
      <3>2. CASE m # n
        <4>1. Find(u, m) = Find(t, m)
          BY <2>3, <3>2
        <4>2. Find(t, m) # 0 => u[Find(t, m)].body = t[Find(t, m)].body
          BY <1>3, <2>2
        <4> QED
          BY <3>2, <4>1, <4>2 DEF ValueOf
      <3> QED
        BY <3>1, <3>2
    <2> QED
      BY <2>2, <2>4 DEF u
  <1> QED
    BY <1>4, <1>5

\* An assignment, by what it does to the variables.
LEMMA PutIs ==
  ASSUME LoadInv, NEW type \in {"string_t", "int_t"}, Put(type)
  PROVE  /\ IsTree(vars', AllValues) /\ puts \in Nat /\ puts' = puts + 1 /\ puts + 1 <= script.puts
         /\ UNCHANGED <<pc, script, read, rules, initial_rule, mappings, transformations>>
         /\ pc = "run"
         /\ \E n \in Names : \A m \in Int :
               ValueOf(vars', m) = IF m = n THEN Value(type) ELSE ValueOf(vars, m)
  <1>1. IsTree(vars, AllValues) /\ puts \in 0 .. script.puts /\ script.puts \in Nat
    BY ScriptIs DEF LoadInv, ScriptInv
  <1>2. puts \in Nat /\ puts < script.puts /\ puts' = puts + 1 /\ pc = "run"
        /\ UNCHANGED <<pc, script, read, rules, initial_rule, mappings, transformations>>
    BY <1>1 DEF Put
  <1>3. PICK n \in Names : vars' = var_insert(vars, n, Value(type))
    BY DEF Put
  <1>4. Value(type) \in AllValues /\ n \in Int
    BY <1>2, NamesAssumption DEF Value, AllValues
  <1> DEFINE v == Value(type)
  <1>5. /\ IsTree(vars', AllValues)
        /\ \A m \in Int : ValueOf(vars', m) = IF m = n THEN v ELSE ValueOf(vars, m)
    <2> HIDE DEF v
    <2>1. v \in AllValues /\ vars' = var_insert(vars, n, v)
      BY <1>3, <1>4 DEF v
    <2> QED
      BY <1>1, <1>4, <2>1, VarInsertIs
  <1>6. puts + 1 <= script.puts
    BY <1>1, <1>2
  <1> QED
    BY <1>2, <1>4, <1>5, <1>6

\* An assignment keeps the invariant.
LEMMA PutKeeps ==
  ASSUME LoadInv, NEW type \in {"string_t", "int_t"}, Put(type)
  PROVE  LoadInv'
  <1>1. /\ IsTree(vars', AllValues) /\ puts \in Nat /\ puts' = puts + 1 /\ puts + 1 <= script.puts
        /\ UNCHANGED <<pc, script, read, rules, initial_rule, mappings, transformations>>
    BY PutIs
  <1>2. ScriptInv /\ RulesInv /\ ListsInv /\ StartInv /\ script.puts \in Nat
    BY ScriptIs DEF LoadInv, ScriptInv
  <1>3. puts' \in 0 .. script.puts
    BY <1>1, <1>2
  <1>4. ScriptInv'
    BY <1>1, <1>2, <1>3 DEF ScriptInv
  <1>5. RulesInv'
    BY <1>1, <1>2, RulesSame
  <1>6. ListsInv'
    BY <1>1, <1>2, ListsSame
  <1>7. AtomsDefined'
    BY <1>1, <1>2, AtomsSame DEF StartInv
  <1>8. StartInv'
    BY <1>1, <1>2, <1>7 DEF StartInv, IsFirst, Plain, RulesUpto, Declared, Asked
  <1>9. IsTree(vars, AllValues)'
    BY <1>1
  <1> QED
    BY <1>4, <1>5, <1>6, <1>8, <1>9 DEF LoadInv

\* Nothing is read at first.
LEMMA LoadInit == Init => LoadInv
  <1> SUFFICES ASSUME Init PROVE LoadInv
    OBVIOUS
  <1>1. /\ script \in Scripts /\ read = 0 /\ pc = "read" /\ rules = <<>> /\ initial_rule = 0
        /\ vars = <<>> /\ mappings = <<>> /\ transformations = <<>> /\ puts = 0
    BY DEF Init
  <1>2. /\ Len(script.decls) \in Nat /\ DOMAIN script.decls = 1 .. Len(script.decls)
        /\ script.puts \in Nat
    BY <1>1, ScriptIs
  <1>3. ScriptInv
    BY <1>1, <1>2 DEF ScriptInv
  <1>4. \A kinds : \A i \in Declared(kinds) : ~(i <= 0)
    BY <1>2 DEF Declared
  <1>5. RulesUpto(0) = {}
    BY <1>4 DEF RulesUpto
  <1>6. IsTree(rules, AllRuleBodies) /\ IsSearchTree(rules) /\ IsTree(vars, AllValues)
    BY <1>1, EmptyTree
  <1>7. Len(rules) = 0
    BY <1>1
  <1>8. Holds(rules, read)
    BY <1>1, <1>5, <1>7 DEF Holds
  <1>9. Finds(rules, read)
    <2> SUFFICES ASSUME NEW n \in Int PROVE IsFirst(rules, Find(rules, n), Called(n, read))
      BY DEF Finds
    <2>1. Find(rules, n) \in 0 .. Len(rules)
      BY <1>6, FindIsNode
    <2>2. Find(rules, n) = 0
      BY <1>7, <2>1
    <2> QED
      BY <1>1, <1>5, <2>2 DEF IsFirst, Called
  <1>10. ASSUME NEW kind PROVE Listed(<<>>, kind, 0)
    <2> SUFFICES ASSUME NEW n \in Int PROVE Lookup(<<>>, n) = 0
      BY <1>4 DEF Listed
    <2>1. <<>> \in Seq({}) /\ Len(<<>>) = 0
      OBVIOUS
    <2>2. Lookup(<<>>, n) \in 0 .. Len(<<>>)
      BY <2>1, LookupIs
    <2> QED
      BY <2>1, <2>2
  <1>11. ListsInv
    BY <1>1, <1>10 DEF ListsInv
  <1>12. StartInv
    BY <1>1, <1>5, <1>7 DEF StartInv, IsFirst, Plain, AtomsDefined
  <1> QED
    BY <1>3, <1>6, <1>8, <1>9, <1>11, <1>12 DEF LoadInv, RulesInv

\* Each step keeps the invariant.
LEMMA LoadNext == LoadInv /\ [Next \/ Ended]_state => LoadInv'
  <1> SUFFICES ASSUME LoadInv, [Next \/ Ended]_state PROVE LoadInv'
    OBVIOUS
  <1>0. ScriptInv /\ RulesInv /\ StartInv /\ script.start \in Names \cup {None}
        /\ initial_rule \in 0 .. Len(rules)
    BY ScriptIs DEF LoadInv, ScriptInv, StartInv
  <1>1. CASE PlainRule
    BY <1>1, PlainRuleKeeps
  <1>2. CASE ResourceRule \/ ParameterRule
    BY <1>2, OtherRuleKeeps
  <1>3. CASE Mapping
    BY <1>3, MappingKeeps
  <1>4. CASE Transformation
    BY <1>4, TransformationKeeps
  <1>5. CASE SyntaxError
    <2>1. Moves("failed") /\ initial_rule' = initial_rule
      BY <1>5 DEF SyntaxError, Moves
    <2> QED
      BY <1>0, <2>1, MovesKeeps
  <1>6. CASE EndOfFile
    <2>1. read = Len(script.decls) /\ pc = "read" /\ initial_rule' = initial_rule
      BY <1>6 DEF EndOfFile
    <2>2. Moves("done") \/ Moves("check")
      BY <1>6 DEF EndOfFile
    <2>3. IsFirst(rules, initial_rule', Plain(read))
      BY <1>0, <2>1 DEF StartInv
    <2> QED
      BY <1>0, <2>1, <2>2, <2>3, MovesKeeps
  <1>7. CASE Undefined
    <2>1. Moves("failed") /\ initial_rule' = initial_rule
      BY <1>7 DEF Undefined
    <2> QED
      BY <1>0, <2>1, MovesKeeps
  <1>8. CASE NoSuchRule
    <2>1. Moves("failed") /\ initial_rule' = 0
      BY <1>8 DEF NoSuchRule
    <2>2. Len(rules) \in Nat
      BY <1>0 DEF RulesInv, IsTree
    <2>3. initial_rule' \in 0 .. Len(rules)
      BY <2>1, <2>2
    <2> QED
      BY <2>1, <2>3, MovesKeeps
  <1>9. ASSUME pc = "check"
        PROVE  /\ read = Len(script.decls) /\ IsFirst(rules, StartRule, Asked)
               /\ StartRule \in 0 .. Len(rules)
    <2>1. read = Len(script.decls)
      BY <1>0, <1>9 DEF ScriptInv
    <2>2. RulesUpto(read) = Declared(RuleKinds)
      BY <2>1, AllIsFound
    <2>3. CASE script.start = None
      <3>1. StartRule = initial_rule /\ IsFirst(rules, initial_rule, Plain(read))
        BY <1>0, <1>9, <2>3 DEF StartRule, StartInv
      <3>2. Plain(read) = Asked
        BY <2>2, <2>3 DEF Plain, Asked, Declared, RuleKinds
      <3> QED
        BY <1>0, <2>1, <3>1, <3>2
    <2>4. CASE script.start # None
      <3>1. script.start \in Int
        BY <1>0, <2>4, NamesAssumption
      <3>2. StartRule = Find(rules, script.start)
        BY <2>4 DEF StartRule, rule_find
      <3>3. IsFirst(rules, StartRule, Called(script.start, read))
        BY <1>0, <3>1, <3>2 DEF RulesInv, Finds
      <3>4. Called(script.start, read) = Asked
        BY <2>2, <2>4 DEF Called, Asked
      <3>5. StartRule \in 0 .. Len(rules)
        BY <1>0, <3>1, <3>2, FindIsNode DEF RulesInv
      <3> QED
        BY <2>1, <3>3, <3>4, <3>5
    <2> QED
      BY <2>3, <2>4
  <1>10. CASE NoStart
    <2>1. /\ pc = "check" /\ check_for_undefined = {} /\ Moves("crashed")
          /\ script.start = None /\ initial_rule' = initial_rule
      BY <1>10 DEF NoStart
    <2>2. StartRule = initial_rule
      BY <2>1 DEF StartRule
    <2> QED
      BY <1>0, <1>9, <2>1, <2>2, MovesKeeps
  <1>11. CASE Resolve
    <2>1. /\ pc = "check" /\ check_for_undefined = {} /\ Moves("run")
          /\ initial_rule' = StartRule
      BY <1>11 DEF Resolve
    <2> QED
      BY <1>0, <1>9, <2>1, MovesKeeps
  <1>12. CASE var_put
    BY <1>12, PutKeeps DEF var_put
  <1>13. CASE var_put_int
    BY <1>13, PutKeeps DEF var_put_int
  <1>14. CASE Resolved
    <2>1. Moves("done") /\ initial_rule' = initial_rule /\ read = Len(script.decls)
      BY <1>0, <1>14 DEF Resolved, ScriptInv
    <2> QED
      BY <1>0, <2>1, MovesKeeps
  <1>15. CASE UNCHANGED state
    <2>1. UNCHANGED <<pc, script, read, rules, initial_rule, mappings, transformations, vars, puts>>
      BY <1>15 DEF state
    <2>2. ScriptInv'
      BY <1>0, <2>1 DEF ScriptInv
    <2>3. RulesInv'
      BY <1>0, <2>1, RulesSame
    <2>4. ListsInv'
      BY <2>1, ListsSame DEF LoadInv
    <2>5. AtomsDefined'
      BY <1>0, <2>1, AtomsSame DEF StartInv
    <2>6. StartInv'
      BY <1>0, <2>1, <2>5 DEF StartInv, IsFirst, Plain, RulesUpto, Declared, Asked
    <2> QED
      BY <2>1, <2>2, <2>3, <2>4, <2>6 DEF LoadInv
  <1> QED
    BY <1>1, <1>2, <1>3, <1>4, <1>5, <1>6, <1>7, <1>8, <1>10, <1>11, <1>12, <1>13, <1>14, <1>15
       DEF Next, Ended

\* The invariant holds throughout.
THEOREM LoadInductive == Spec => []LoadInv
  BY LoadInit, LoadNext, PTL DEF Spec

-----------------------------------------------------------------------------
(* What holds of every script, and what the steps mean.                    *)

\* What is traversed: every rule that was read, once, in the order of the names.
LEMMA TraversedInOrder == LoadInv => TypeOK
  <1> SUFFICES ASSUME LoadInv PROVE TypeOK
    OBVIOUS
  <1> DEFINE all == rule_inorder_traverse(rules)
             N == Len(rules)
  <1>1. Lists(all, 1 .. N, rules)
    BY InorderLists DEF LoadInv, RulesInv, rule_inorder_traverse
  <1>2. Holds(rules, read)
    BY DEF LoadInv, RulesInv
  <1>3. RulesRead = RulesUpto(read)
    BY DEF RulesRead, RulesUpto
  <1> HIDE DEF all, N
  <1>4. all \in Seq(1 .. N) /\ DOMAIN all = 1 .. Len(all)
    BY <1>1 DEF Lists
  <1>5. /\ \A r \in 1 .. N : \E i \in DOMAIN all : all[i] = r
        /\ \A i \in DOMAIN all : all[i] \in 1 .. N
        /\ \A i, j \in DOMAIN all : i < j => all[i] # all[j] /\ rules[all[i]].name <= rules[all[j]].name
    <2>1. \A r \in 1 .. N : \E i \in DOMAIN all : all[i] = r
      BY <1>1, <1>4, ZenonT(60) DEF Lists
    <2>2. \A i \in DOMAIN all : all[i] \in 1 .. N
      <3> DEFINE U == 1 .. N
      <3>1. all \in Seq(U)
        BY <1>4
      <3> HIDE DEF U
      <3>2. \A i \in 1 .. Len(all) : all[i] \in U
        BY <3>1
      <3> QED
        BY <1>4, <3>2 DEF U
    <2>3. \A i, j \in DOMAIN all :
             i < j => all[i] # all[j] /\ rules[all[i]].name <= rules[all[j]].name
      BY <1>1, <1>4, ZenonT(60) DEF Lists
    <2> QED
      BY <2>1, <2>2, <2>3
  <1>6. \A i \in RulesRead : \E j \in DOMAIN all : IsRuleOf(rules[all[j]], script.decls[i])
    <2> SUFFICES ASSUME NEW i \in RulesRead
                 PROVE  \E j \in DOMAIN all : IsRuleOf(rules[all[j]], script.decls[i])
      OBVIOUS
    <2>1. PICK p \in 1 .. N : IsRuleOf(rules[p], script.decls[i])
      BY <1>2, <1>3 DEF Holds, N
    <2>2. PICK j \in DOMAIN all : all[j] = p
      BY <1>5
    <2> QED
      BY <2>1, <2>2
  <1>7. \A j \in DOMAIN all : \E i \in RulesRead : IsRuleOf(rules[all[j]], script.decls[i])
    BY <1>2, <1>3, <1>5 DEF Holds, N
  <1>8. /\ pc \in {"read", "check", "run", "failed", "crashed", "done"}
        /\ read \in 0..Len(script.decls) /\ puts \in 0..script.puts
    BY DEF LoadInv, ScriptInv
  <1> QED
    BY <1>5, <1>6, <1>7, <1>8 DEF TypeOK, all

\* The text begins with the rule that is asked for, the first of its name, and if
\* none is asked for with the first plain rule.
LEMMA StartsAsAsked == LoadInv => StartAsAsked
  <1> SUFFICES ASSUME LoadInv, pc \in {"run", "crashed"}
               PROVE  Read(initial_rule) = IF Asked = {} THEN None
                                           ELSE Written(script.decls[Min(Asked)])
    BY DEF StartAsAsked, Asked
  <1>1. IsFirst(rules, initial_rule, Asked)
    BY DEF LoadInv, StartInv
  <1> QED
    BY <1>1 DEF IsFirst, Read

\* What is reported is within a rule of the script and is not defined.
LEMMA ReportsAreTrue == LoadInv => NoFalseAlarm
  <1> SUFFICES ASSUME LoadInv, pc = "check", NEW m \in check_for_undefined
               PROVE  \E r \in AllRules : \E n \in UNION {Within(a) : a \in Atoms(r)} :
                         ~IsDefined(r, n)
    BY DEF NoFalseAlarm
  <1>1. ScriptInv /\ script \in Scripts /\ read = Len(script.decls)
    BY DEF LoadInv, ScriptInv
  <1>2. AllFound /\ RulesUpto(read) = Declared(RuleKinds)
    BY <1>1, AllIsFound
  <1>3. PICK p \in 1 .. Len(rules) : \E j \in DOMAIN rules[p].body.options :
               \E k \in DOMAIN rules[p].body.options[j] :
                 m \in undef_iter2(rules[p], rules[p].body.options[j][k])
    BY ReportedOf
  <1>4. PICK j \in DOMAIN rules[p].body.options : \E k \in DOMAIN rules[p].body.options[j] :
                 m \in undef_iter2(rules[p], rules[p].body.options[j][k])
    BY <1>3
  <1>5. PICK k \in DOMAIN rules[p].body.options[j] :
                 m \in undef_iter2(rules[p], rules[p].body.options[j][k])
    BY <1>4
  <1>6. Holds(rules, read)
    BY DEF LoadInv, RulesInv
  <1>7. PICK i \in Declared(RuleKinds) : IsRuleOf(rules[p], script.decls[i])
    BY <1>2, <1>6 DEF Holds
  <1> DEFINE d == script.decls[i]
             a == d.body.options[j][k]
  <1>8. d \in AllRules
    BY <1>7 DEF AllRules
  <1>9. rules[p].body.params = d.body.formals /\ rules[p].body.options = d.body.options
    BY <1>7 DEF IsRuleOf
  <1> HIDE DEF d
  <1>10. IsDecl(d, script.nodes)
    BY <1>1, ScriptIs DEF d, Declared
  <1>11. a \in Atoms(d)
    <2>1. d.k \in RuleKinds
      BY <1>7 DEF d, Declared
    <2>2. d.body.options \in Seq(Seq(DOMAIN script.nodes))
      BY <1>10, <2>1 DEF IsDecl
    <2>3. j \in DOMAIN d.body.options /\ k \in DOMAIN d.body.options[j]
      BY <1>9
    <2>4. d.body.options[j] \in ToSet(d.body.options) /\ a \in ToSet(d.body.options[j])
      BY <2>3 DEF ToSet
    <2> QED
      BY <2>4 DEF Atoms
  <1>12. a \in 1 .. Len(script.nodes)
    BY <1>1, <1>8, <1>11, AtomIs
  <1>13. m \in undef_iter2(rules[p], a)
    BY <1>5, <1>9
  <1> HIDE DEF a
  <1>14. m \in Within(a) /\ ~IsDefined(d, m)
    BY <1>1, <1>2, <1>9, <1>12, <1>13, ReportedIsUndefined
  <1> QED
    BY <1>8, <1>11, <1>14

\* TypeOK: the tree that rule_insert() builds is a search tree of the rules read.
THEOREM RulesInOrder == Spec => []TypeOK
  BY LoadInductive, TraversedInOrder, PTL

\* StartAsAsked: the text begins where it should.
THEOREM StartRight == Spec => []StartAsAsked
  BY LoadInductive, StartsAsAsked, PTL

\* NoFalseAlarm: a script is not rejected without a reason.
THEOREM AlarmsAreTrue == Spec => []NoFalseAlarm
  BY LoadInductive, ReportsAreTrue, PTL

\* AtomsDefined: a script that runs has no option of something undefined.
THEOREM WhatRunsIsDefined == Spec => []AtomsDefined
  <1>1. LoadInv => AtomsDefined
    BY DEF LoadInv, StartInv
  <1> QED
    BY <1>1, LoadInductive, PTL

\* What the trees and lists mean, by name.
RulesMean == [n \in Names |-> Read(rule_find(rules, n))]
MappingsMean == [n \in Names |-> ListRead(mappings, map_lookup(n))]
TransformationsMean == [n \in Names |-> ListRead(transformations, trans_lookup(n))]
VarsMean == [n \in Names |-> LET p == var_lookup(vars, n) IN IF p = 0 THEN None ELSE vars[p].body]

\* A rule or a variable means the value that is found.
LEMMA MeansValue ==
  \A n \in Names : RulesMean[n] = ValueOf(rules, n) /\ VarsMean[n] = ValueOf(vars, n)
  BY DEF RulesMean, VarsMean, Read, rule_find, var_lookup, ValueOf

\* A name means nothing if no rule of it is found.
LEMMA NoneIsNotFound ==
  ASSUME RulesInv, NEW n \in Int
  PROVE  ValueOf(rules, n) # None <=> Find(rules, n) # 0
  <1>1. IsTree(rules, AllRuleBodies)
    BY DEF RulesInv
  <1>2. Find(rules, n) \in 0 .. Len(rules)
    BY <1>1, FindIsNode
  <1>3. CASE Find(rules, n) # 0
    <2>1. Find(rules, n) \in 1 .. Len(rules)
      BY <1>2, <1>3
    <2>2. rules[Find(rules, n)] \in NodesOf(AllRuleBodies)
      BY <1>1, <2>1 DEF IsTree
    <2>3. rules[Find(rules, n)].body \in AllRuleBodies
      BY <2>2 DEF NodesOf
    <2> QED
      BY <1>3, <2>3, NoneAssumption DEF ValueOf
  <1> QED
    BY <1>3 DEF ValueOf

\* A rule that is read defines its name, unless that is defined already.
LEMMA RuleMeans ==
  ASSUME LoadInv, read < Len(script.decls), Current.k \in RuleKinds, EntersRule
  PROVE  /\ \A m \in Int : ValueOf(rules', m) =
                             IF ValueOf(rules, m) # None THEN ValueOf(rules, m)
                             ELSE IF m = Current.name THEN Written(Current) ELSE None
         /\ rules'[Len(rules) + 1].body = Written(Current)
         /\ \A p \in 1 .. Len(rules) : rules'[p].body = rules[p].body
         /\ Current.name \in Names /\ Written(Current) \in AllRuleBodies
  <1> DEFINE N == Len(rules)
             u == Insert(rules, rule_new(Current))
  <1>1. ScriptInv /\ RulesInv /\ rules' = u
    BY DEF LoadInv, EntersRule, rule_insert
  <1>2. /\ u[N + 1].body = Written(Current) /\ \A p \in 1 .. N : u[p].body = rules[p].body
        /\ \A n \in Int : Find(u, n) = IF Find(rules, n) # 0 THEN Find(rules, n)
                                       ELSE IF n = Current.name THEN N + 1 ELSE 0
    BY <1>1, RulesGrow
  <1>3. Current.name \in Names /\ Written(Current) \in AllRuleBodies
    BY <1>1, RuleNewIs
  <1>4. N \in Nat /\ IsTree(rules, AllRuleBodies)
    BY <1>1 DEF RulesInv, IsTree
  <1> HIDE DEF u
  <1>5. ASSUME NEW m \in Int
        PROVE  ValueOf(u, m) = IF ValueOf(rules, m) # None THEN ValueOf(rules, m)
                               ELSE IF m = Current.name THEN Written(Current) ELSE None
    <2>1. ValueOf(rules, m) # None <=> Find(rules, m) # 0
      BY <1>1, NoneIsNotFound
    <2>2. Find(rules, m) \in 0 .. N
      BY <1>4, FindIsNode
    <2>3. CASE Find(rules, m) # 0
      <3>1. Find(rules, m) \in 1 .. N /\ Find(u, m) = Find(rules, m)
        BY <1>2, <2>2, <2>3
      <3>2. u[Find(rules, m)].body = rules[Find(rules, m)].body
        BY <1>2, <3>1
      <3> QED
        BY <2>1, <2>3, <3>1, <3>2 DEF ValueOf
    <2>4. CASE Find(rules, m) = 0 /\ m = Current.name
      <3>1. Find(u, m) = N + 1 /\ N + 1 # 0
        BY <1>2, <1>4, <2>4
      <3> QED
        BY <1>2, <2>1, <2>4, <3>1 DEF ValueOf
    <2>5. CASE Find(rules, m) = 0 /\ m # Current.name
      <3>1. Find(u, m) = 0
        BY <1>2, <2>5
      <3> QED
        BY <2>1, <2>5, <3>1 DEF ValueOf
    <2> QED
      BY <2>3, <2>4, <2>5
  <1> QED
    BY <1>1, <1>2, <1>3, <1>5

\* What is not touched means what it meant.
LEMMA SameMeaning ==
  /\ UNCHANGED rules => UNCHANGED RulesMean
  /\ UNCHANGED mappings => UNCHANGED MappingsMean
  /\ UNCHANGED transformations => UNCHANGED TransformationsMean
  /\ UNCHANGED vars => UNCHANGED VarsMean
  /\ UNCHANGED <<rules, initial_rule>> => UNCHANGED Read(initial_rule)
  <1>1. UNCHANGED rules => UNCHANGED RulesMean
    BY DEF RulesMean, Read, rule_find
  <1>2. UNCHANGED mappings => UNCHANGED MappingsMean
    BY DEF MappingsMean, ListRead, map_lookup
  <1>3. UNCHANGED transformations => UNCHANGED TransformationsMean
    BY DEF TransformationsMean, ListRead, trans_lookup
  <1>4. UNCHANGED vars => UNCHANGED VarsMean
    BY DEF VarsMean, var_lookup
  <1>5. UNCHANGED <<rules, initial_rule>> => UNCHANGED Read(initial_rule)
    BY DEF Read
  <1> QED
    BY <1>1, <1>2, <1>3, <1>4, <1>5

\* At first nothing means anything.
LEMMA InitMeans == Init => Promise!Init
  <1> SUFFICES ASSUME Init PROVE Promise!Init
    OBVIOUS
  <1>1. LoadInv /\ rules = <<>> /\ vars = <<>> /\ mappings = <<>> /\ transformations = <<>>
        /\ initial_rule = 0 /\ pc = "read" /\ read = 0 /\ puts = 0
    BY LoadInit DEF Init
  <1>2. ASSUME NEW n \in Names PROVE Find(<<>>, n) = 0 /\ Lookup(<<>>, n) = 0
    <2>1. IsTree(<<>>, {}) /\ n \in Int
      BY EmptyTree, NamesAssumption
    <2>2. <<>> \in Seq({}) /\ Len(<<>>) = 0
      OBVIOUS
    <2>3. Find(<<>>, n) \in 0 .. Len(<<>>)
      BY <2>1, FindIsNode
    <2>4. Lookup(<<>>, n) \in 0 .. Len(<<>>)
      BY <2>2, LookupIs
    <2> QED
      BY <2>2, <2>3, <2>4
  <1>3. \A n \in Names : Read(rule_find(rules, n)) = None
    BY <1>1, <1>2 DEF Read, rule_find
  <1>4. \A n \in Names : /\ ListRead(mappings, map_lookup(n)) = None
                         /\ ListRead(transformations, trans_lookup(n)) = None
    BY <1>1, <1>2 DEF ListRead, map_lookup, trans_lookup
  <1>5. \A n \in Names : (LET p == var_lookup(vars, n) IN IF p = 0 THEN None ELSE vars[p].body) = None
    BY <1>1, <1>2 DEF var_lookup
  <1>6. Read(initial_rule) = None
    BY <1>1 DEF Read
  <1> QED
    BY <1>1, <1>3, <1>4, <1>5, <1>6 DEF Promise!Init, Promise!Nothing

\* What the phase of the promise is.
Phase == IF pc = "check" THEN "read" ELSE pc

\* A step of what is promised, or none.
Keeps == [Promise!Next]_(Promise!Everything)

\* A step that changes nothing of what is promised.
LEMMA StutterMeans ==
  ASSUME UNCHANGED <<script, read, rules, mappings, transformations, vars, puts, initial_rule>>,
         Phase' = Phase
  PROVE  Keeps
  <1>1. UNCHANGED <<RulesMean, MappingsMean, TransformationsMean, VarsMean, Read(initial_rule)>>
    BY SameMeaning
  <1>2. UNCHANGED <<script.decls, script.start, read, puts, Phase>>
    OBVIOUS
  <1>3. UNCHANGED (Promise!Everything)
    BY <1>1, <1>2 DEF Promise!Everything, Phase, RulesMean, MappingsMean, TransformationsMean, VarsMean
  <1> QED
    BY <1>3 DEF Keeps

IsUpdated(g, f, n, v) == g = [f EXCEPT ![n] = v]

\* A meaning that differs at one name is an update of it.
LEMMA MeaningUpdated ==
  ASSUME NEW f, NEW g, f = [m \in Names |-> f[m]], g = [m \in Names |-> g[m]],
         NEW n \in Names, NEW v, \A m \in Names : g[m] = IF m = n THEN v ELSE f[m]
  PROVE  IsUpdated(g, f, n, v)
  BY DEF IsUpdated

\* The text has a beginning where there is a rule.
LEMMA StartMeans ==
  ASSUME LoadInv
  PROVE  Read(initial_rule) = None <=> initial_rule = 0
  <1>1. IsTree(rules, AllRuleBodies) /\ initial_rule \in 0 .. Len(rules)
    BY DEF LoadInv, RulesInv, StartInv
  <1>2. ASSUME initial_rule # 0 PROVE rules[initial_rule].body \in AllRuleBodies
    <2>1. initial_rule \in 1 .. Len(rules)
      BY <1>1, <1>2 DEF IsTree
    <2>2. rules[initial_rule] \in NodesOf(AllRuleBodies)
      BY <1>1, <2>1 DEF IsTree
    <2> QED
      BY <2>2 DEF NodesOf
  <1> QED
    BY <1>2, NoneAssumption DEF Read

\* A declaration is read.
ReadsOne(kinds) ==
  /\ pc = "read" /\ read < Len(script.decls) /\ Current.k \in kinds
  /\ read' = read + 1 /\ UNCHANGED <<pc, script, vars, puts>>

\* The reading of a declaration, as it is promised.
LEMMA ReadsMeans ==
  ASSUME NEW kinds, ReadsOne(kinds)
  PROVE  Promise!Reads(kinds)
  <1>1. Phase = "read" /\ UNCHANGED Phase
    BY DEF ReadsOne, Phase
  <1>2. UNCHANGED <<script.decls, script.start, VarsMean, puts>>
    BY SameMeaning DEF ReadsOne
  <1>3. read < Len(script.decls) /\ Current.k \in kinds /\ read' = read + 1
    BY DEF ReadsOne
  <1> QED
    BY <1>1, <1>2, <1>3 DEF Promise!Reads, Promise!Current, Promise!Script, Current, Phase, VarsMean

\* The reading of a rule defines it.
LEMMA RuleDefines ==
  ASSUME LoadInv, PlainRule \/ ResourceRule \/ ParameterRule
  PROVE  Keeps
  <1> DEFINE name == Current.name
             new == Written(Current)
  <1>1. /\ ReadsOne({"rule", "resource", "param"}) /\ EntersRule
        /\ read < Len(script.decls) /\ Current.k \in RuleKinds
        /\ UNCHANGED <<mappings, transformations>>
        /\ IF initial_rule = 0 /\ Current.k = "rule"
           THEN initial_rule' = Len(rules) + 1 ELSE initial_rule' = initial_rule
    BY DEF PlainRule, ResourceRule, ParameterRule, Reads, RuleKinds, EntersRule, Goes, ReadsOne
  <1>2. /\ \A m \in Int : ValueOf(rules', m) = IF ValueOf(rules, m) # None THEN ValueOf(rules, m)
                                               ELSE IF m = name THEN new ELSE None
        /\ rules'[Len(rules) + 1].body = new
        /\ \A p \in 1 .. Len(rules) : rules'[p].body = rules[p].body
        /\ name \in Names /\ new \in AllRuleBodies
    BY <1>1, RuleMeans
  <1> HIDE DEF name, new
  <1>3. /\ \A m \in Names : RulesMean[m] = ValueOf(rules, m)
        /\ \A m \in Names : RulesMean'[m] = ValueOf(rules', m)
    <2>1. \A m \in Names : RulesMean'[m] = ValueOf(rules', m)
      BY DEF RulesMean, Read, rule_find, ValueOf
    <2> QED
      BY <2>1, MeansValue
  <1>4. \A m \in Names : RulesMean'[m] = IF RulesMean[m] # None THEN RulesMean[m]
                                         ELSE IF m = name THEN new ELSE None
    BY <1>2, <1>3, NamesAssumption
  <1>5. RulesMean = [m \in Names |-> RulesMean[m]] /\ RulesMean' = [m \in Names |-> RulesMean'[m]]
    BY DEF RulesMean
  <1>6. IF RulesMean[name] = None THEN IsUpdated(RulesMean', RulesMean, name, new)
        ELSE RulesMean' = RulesMean
    <2>1. CASE RulesMean[name] = None
      <3>1. \A m \in Names : RulesMean'[m] = IF m = name THEN new ELSE RulesMean[m]
        BY <1>4, <2>1
      <3>2. IsUpdated(RulesMean', RulesMean, name, new)
        BY <1>2, <1>5, <3>1, MeaningUpdated
      <3> QED
        BY <2>1, <3>2
    <2>2. CASE RulesMean[name] # None
      <3>1. \A m \in Names : RulesMean'[m] = RulesMean[m]
        BY <1>4, <2>2
      <3> QED
        BY <1>5, <2>2, <3>1
    <2> QED
      BY <2>1, <2>2
  <1>7. Read(initial_rule)' = IF Read(initial_rule) = None /\ Current.k = "rule" THEN new
                              ELSE Read(initial_rule)
    <2>1. initial_rule \in 0 .. Len(rules) /\ Len(rules) \in Nat
      BY DEF LoadInv, StartInv, RulesInv, IsTree
    <2>2. Read(initial_rule) = None <=> initial_rule = 0
      BY StartMeans
    <2>3. CASE initial_rule = 0 /\ Current.k = "rule"
      <3>1. initial_rule' = Len(rules) + 1 /\ initial_rule' # 0
        BY <1>1, <2>1, <2>3
      <3>2. Read(initial_rule)' = new
        BY <1>2, <3>1 DEF Read
      <3> QED
        BY <2>2, <2>3, <3>2
    <2>4. CASE ~(initial_rule = 0 /\ Current.k = "rule")
      <3>1. initial_rule' = initial_rule
        BY <1>1, <2>4
      <3>2. initial_rule # 0 => initial_rule \in 1 .. Len(rules)
        BY <2>1
      <3>3. initial_rule # 0 => rules'[initial_rule].body = rules[initial_rule].body
        BY <1>2, <3>2
      <3>4. Read(initial_rule)' = Read(initial_rule)
        BY <3>1, <3>3 DEF Read
      <3> QED
        BY <2>2, <2>4, <3>4
    <2> QED
      BY <2>3, <2>4
  <1>8. UNCHANGED <<MappingsMean, TransformationsMean>>
    BY <1>1, SameMeaning
  <1>9. Promise!Reads({"rule", "resource", "param"})
    BY <1>1, ReadsMeans
  <1>10. Promise!DefineRule
    BY <1>6, <1>7, <1>8, <1>9 DEF Promise!DefineRule, Promise!Defines, Promise!Current, Current,
       IsUpdated, RulesMean, MappingsMean, TransformationsMean, name, new
  <1> QED
    BY <1>10 DEF Keeps, Promise!Next

\* A list that a declaration was put in front of, as it is read by name.
LEMMA ListMeans ==
  ASSUME NEW B, NEW list \in Seq([name : Int, options : B]), NEW m0 \in [name : Int, options : B],
         NEW n \in Int
  PROVE  ListRead(<<m0>> \o list, Lookup(<<m0>> \o list, n)) =
           IF n = m0.name THEN m0.options ELSE ListRead(list, Lookup(list, n))
  <1> DEFINE S == [name : Int, options : B]
             new == <<m0>> \o list
             p == Lookup(list, n)
             q == Lookup(new, n)
  <1>1. list \in Seq(S) /\ m0 \in S
    OBVIOUS
  <1>2. InFront(new, list, m0, n) /\ p \in Nat
    <2> HIDE DEF S
    <2>1. InFront(<<m0>> \o list, list, m0, n)
      BY <1>1, LookupCons DEF S
    <2>2. Lookup(list, n) \in Nat
      BY <1>1, LookupIs DEF S
    <2> QED
      BY <2>1, <2>2
  <1>3. /\ m0.name = n => q = 1 /\ new[1] = m0
        /\ m0.name # n => IF p = 0 THEN q = 0 ELSE q = p + 1 /\ new[p + 1] = list[p]
    BY <1>2 DEF InFront
  <1> HIDE DEF p, q, new
  <1>4. p # 0 => p + 1 # 0
    BY <1>2
  <1>5. ListRead(new, q) = IF n = m0.name THEN m0.options ELSE ListRead(list, p)
    BY <1>3, <1>4 DEF ListRead
  <1> QED
    BY <1>5 DEF p, q, new

\* A mapping is in force from when it is read, and hides those of its name.
LEMMA MappingDefines ==
  ASSUME LoadInv, Mapping
  PROVE  Keeps
  <1> DEFINE name == Current.name
             new == Written(Current)
             m0 == [name |-> name, options |-> new]
  <1>1. /\ ReadsOne({"mapping"}) /\ read < Len(script.decls) /\ Current.k = "mapping" /\ ScriptInv
        /\ mappings' = <<[name |-> Current.name, options |-> mapopts(Current.body)]>> \o mappings
        /\ UNCHANGED <<rules, initial_rule, transformations>>
    BY DEF Mapping, Reads, Goes, LoadInv, ReadsOne
  <1>2. /\ mapopts(Current.body) = new /\ new \in AllMapBodies
        /\ name \in Names /\ name \in Int
    BY <1>1, ListBody
  <1>3. /\ mappings \in Seq([name : Int, options : AllMapBodies])
        /\ m0 \in [name : Int, options : AllMapBodies] /\ mappings' = <<m0>> \o mappings
    BY <1>1, <1>2 DEF LoadInv, ListsInv
  <1>4. m0.name = name /\ m0.options = new
    OBVIOUS
  <1> HIDE DEF name, new, m0
  <1>5. ASSUME NEW n \in Names
        PROVE  MappingsMean'[n] = IF n = name THEN new ELSE MappingsMean[n]
    <2>1. n \in Int
      BY NamesAssumption
    <2>2. ListRead(<<m0>> \o mappings, Lookup(<<m0>> \o mappings, n)) =
             IF n = m0.name THEN m0.options ELSE ListRead(mappings, Lookup(mappings, n))
      BY <1>3, <2>1, ListMeans
    <2>3. /\ MappingsMean[n] = ListRead(mappings, Lookup(mappings, n))
          /\ MappingsMean'[n] = ListRead(mappings', Lookup(mappings', n))
      BY DEF MappingsMean, map_lookup, ListRead
    <2> QED
      BY <1>3, <1>4, <2>2, <2>3
  <1>6. /\ MappingsMean = [n \in Names |-> MappingsMean[n]]
        /\ MappingsMean' = [n \in Names |-> MappingsMean'[n]]
    BY DEF MappingsMean
  <1>7. IsUpdated(MappingsMean', MappingsMean, name, new)
    BY <1>2, <1>5, <1>6, MeaningUpdated
  <1>8. UNCHANGED <<RulesMean, TransformationsMean, Read(initial_rule)>>
    BY <1>1, SameMeaning
  <1>9. Promise!Reads({"mapping"})
    BY <1>1, ReadsMeans
  <1>10. Promise!DefineMapping
    BY <1>7, <1>8, <1>9 DEF Promise!DefineMapping, Promise!Defines, Promise!Current, Current,
       IsUpdated, RulesMean, MappingsMean, TransformationsMean, name, new
  <1> QED
    BY <1>10 DEF Keeps, Promise!Next

\* So is a transformation.
LEMMA TransformationDefines ==
  ASSUME LoadInv, Transformation
  PROVE  Keeps
  <1> DEFINE name == Current.name
             new == Written(Current)
             m0 == [name |-> name, options |-> new]
  <1>1. /\ ReadsOne({"xform"}) /\ read < Len(script.decls) /\ Current.k = "xform" /\ ScriptInv
        /\ transformations' = <<[name |-> Current.name, options |-> transopts(Current.body)]>>
                              \o transformations
        /\ UNCHANGED <<rules, initial_rule, mappings>>
    BY DEF Transformation, Reads, Goes, LoadInv, ReadsOne
  <1>2. /\ transopts(Current.body) = new /\ new \in AllXformBodies
        /\ name \in Names /\ name \in Int
    BY <1>1, ListBody
  <1>3. /\ transformations \in Seq([name : Int, options : AllXformBodies])
        /\ m0 \in [name : Int, options : AllXformBodies]
        /\ transformations' = <<m0>> \o transformations
    BY <1>1, <1>2 DEF LoadInv, ListsInv
  <1>4. m0.name = name /\ m0.options = new
    OBVIOUS
  <1> HIDE DEF name, new, m0
  <1>5. ASSUME NEW n \in Names
        PROVE  TransformationsMean'[n] = IF n = name THEN new ELSE TransformationsMean[n]
    <2>1. n \in Int
      BY NamesAssumption
    <2>2. ListRead(<<m0>> \o transformations, Lookup(<<m0>> \o transformations, n)) =
             IF n = m0.name THEN m0.options
             ELSE ListRead(transformations, Lookup(transformations, n))
      BY <1>3, <2>1, ListMeans
    <2>3. /\ TransformationsMean[n] = ListRead(transformations, Lookup(transformations, n))
          /\ TransformationsMean'[n] = ListRead(transformations', Lookup(transformations', n))
      BY DEF TransformationsMean, trans_lookup, ListRead
    <2> QED
      BY <1>3, <1>4, <2>2, <2>3
  <1>6. /\ TransformationsMean = [n \in Names |-> TransformationsMean[n]]
        /\ TransformationsMean' = [n \in Names |-> TransformationsMean'[n]]
    BY DEF TransformationsMean
  <1>7. IsUpdated(TransformationsMean', TransformationsMean, name, new)
    BY <1>2, <1>5, <1>6, MeaningUpdated
  <1>8. UNCHANGED <<RulesMean, MappingsMean, Read(initial_rule)>>
    BY <1>1, SameMeaning
  <1>9. Promise!Reads({"xform"})
    BY <1>1, ReadsMeans
  <1>10. Promise!DefineTransformation
    BY <1>7, <1>8, <1>9 DEF Promise!DefineTransformation, Promise!Defines, Promise!Current, Current,
       IsUpdated, RulesMean, MappingsMean, TransformationsMean, name, new
  <1> QED
    BY <1>10 DEF Keeps, Promise!Next

\* An assignment gives the variable the value.
LEMMA PutAssigns ==
  ASSUME LoadInv, NEW type \in {"string_t", "int_t"}, Put(type)
  PROVE  Keeps
  <1>1. /\ UNCHANGED <<pc, script, read, rules, initial_rule, mappings, transformations>>
        /\ pc = "run" /\ puts' = puts + 1
        /\ \E n \in Names : \A m \in Int :
               ValueOf(vars', m) = IF m = n THEN Value(type) ELSE ValueOf(vars, m)
    BY PutIs
  <1>2. PICK n \in Names : \A m \in Int :
               ValueOf(vars', m) = IF m = n THEN Value(type) ELSE ValueOf(vars, m)
    BY <1>1
  <1>3. \A m \in Names : /\ VarsMean[m] = ValueOf(vars, m)
                         /\ VarsMean'[m] = ValueOf(vars', m)
    BY DEF VarsMean, var_lookup, ValueOf
  <1> DEFINE v == Value(type)
  <1>4. IsUpdated(VarsMean', VarsMean, n, v)
    <2> HIDE DEF v
    <2>1. \A m \in Names : VarsMean'[m] = IF m = n THEN v ELSE VarsMean[m]
      BY <1>2, <1>3, NamesAssumption DEF v
    <2>2. VarsMean = [m \in Names |-> VarsMean[m]] /\ VarsMean' = [m \in Names |-> VarsMean'[m]]
      BY DEF VarsMean
    <2> QED
      BY <2>1, <2>2, MeaningUpdated
  <1>5. UNCHANGED <<RulesMean, MappingsMean, TransformationsMean, Read(initial_rule)>>
    BY <1>1, SameMeaning
  <1>6. Phase = "run" /\ UNCHANGED <<Phase, script.decls, script.start, read>>
    BY <1>1 DEF Phase
  <1>7. Promise!Assign(n)
    BY <1>1, <1>4, <1>5, <1>6 DEF Promise!Assign, Promise!Script, IsUpdated, RulesMean, MappingsMean,
       TransformationsMean, VarsMean, Phase, Value
  <1> QED
    BY <1>7 DEF Keeps, Promise!Next

\* A step that only moves on changes neither the script nor what names mean.
LEMMA MovesMeans ==
  ASSUME NEW p, Moves(p)
  PROVE  /\ UNCHANGED <<script.decls, script.start, read, puts>>
         /\ UNCHANGED <<RulesMean, MappingsMean, TransformationsMean, VarsMean>>
         /\ UNCHANGED initial_rule => UNCHANGED Read(initial_rule)
         /\ Phase' = IF p = "check" THEN "read" ELSE p
  BY SameMeaning DEF Moves, Phase

\* The reading ends, well or not.
LEMMA EndMeans ==
  ASSUME pc \in {"read", "check"}, NEW p, Moves(p)
  PROVE  Promise!Ends
  <1>1. Phase = "read"
    BY DEF Phase
  <1>2. /\ UNCHANGED <<script.decls, script.start, read, puts>>
        /\ UNCHANGED <<RulesMean, MappingsMean, TransformationsMean, VarsMean>>
    BY MovesMeans
  <1> QED
    BY <1>1, <1>2 DEF Promise!Ends, Promise!Script, Phase, RulesMean, MappingsMean,
       TransformationsMean, VarsMean

\* A script with an error, or with an undefined name, is given up.
LEMMA GivesUp ==
  ASSUME LoadInv, SyntaxError \/ Undefined
  PROVE  Keeps
  <1>1. pc \in {"read", "check"} /\ Moves("failed") /\ UNCHANGED initial_rule
    BY DEF SyntaxError, Undefined, Reads, Moves
  <1>2. Phase' = "failed" /\ UNCHANGED Read(initial_rule)
    BY <1>1, MovesMeans
  <1>3. Promise!Ends
    BY <1>1, EndMeans
  <1>4. Promise!GiveUp
    BY <1>2, <1>3 DEF Promise!GiveUp, Phase
  <1> QED
    BY <1>4 DEF Keeps, Promise!Next

\* At the end of the file the check is next; a script without rules ends.
LEMMA EndOfFileMeans ==
  ASSUME LoadInv, EndOfFile
  PROVE  Keeps
  <1>1. CASE rules # <<>>
    <2>1. Moves("check") /\ UNCHANGED initial_rule /\ pc = "read"
      BY <1>1 DEF EndOfFile
    <2>2. Phase' = Phase
      BY <2>1, MovesMeans DEF Phase
    <2> QED
      BY <2>1, <2>2, StutterMeans DEF Moves
  <1>2. CASE rules = <<>>
    <2>1. Moves("done") /\ UNCHANGED initial_rule /\ pc = "read" /\ read = Len(script.decls)
      BY <1>2 DEF EndOfFile
    <2>2. \A n \in Names : RulesMean[n] = None
      <3>1. ASSUME NEW n \in Int PROVE Find(<<>>, n) = 0
        <4>1. IsTree(<<>>, {}) /\ Len(<<>>) = 0
          BY EmptyTree
        <4>2. Find(<<>>, n) \in 0 .. Len(<<>>)
          BY <4>1, FindIsNode
        <4> QED
          BY <4>1, <4>2
      <3> QED
        BY <1>2, <3>1, NamesAssumption DEF RulesMean, Read, rule_find
    <2>3. RulesMean = [n \in Names |-> None]
      BY <2>2 DEF RulesMean
    <2>4. Phase = "read" /\ Phase' = "done" /\ UNCHANGED Read(initial_rule)
      BY <2>1, MovesMeans DEF Phase
    <2>5. /\ UNCHANGED <<script.decls, script.start, read, puts>>
          /\ UNCHANGED <<RulesMean, MappingsMean, TransformationsMean, VarsMean>>
      BY <2>1, MovesMeans
    <2>6. Promise!Finish
      BY <2>1, <2>3, <2>4, <2>5 DEF Promise!Finish, Promise!Script, Promise!Nothing, Phase, RulesMean,
         MappingsMean, TransformationsMean, VarsMean
    <2> QED
      BY <2>6 DEF Keeps, Promise!Next
  <1> QED
    BY <1>1, <1>2

\* The script has run.
LEMMA ResolvedMeans ==
  ASSUME LoadInv, Resolved
  PROVE  Keeps
  <1>1. Moves("done") /\ UNCHANGED initial_rule /\ pc = "run"
    BY DEF Resolved
  <1>2. /\ UNCHANGED <<script.decls, script.start, read, puts>>
        /\ UNCHANGED <<RulesMean, MappingsMean, TransformationsMean, VarsMean, Read(initial_rule)>>
        /\ Phase = "run" /\ Phase' = "done"
    BY <1>1, MovesMeans DEF Phase
  <1>3. Promise!Finish
    BY <1>2 DEF Promise!Finish, Promise!Script, Phase, RulesMean, MappingsMean,
       TransformationsMean, VarsMean
  <1> QED
    BY <1>3 DEF Keeps, Promise!Next

\* The rule that the text begins with: the one asked for, or the one that was the
\* first plain one.
LEMMA StartRuleMeans ==
  ASSUME LoadInv
  PROVE  /\ Read(StartRule) = IF script.start = None THEN Read(initial_rule) ELSE RulesMean[script.start]
         /\ StartRule = 0 <=> Read(StartRule) = None
  <1>1. CASE script.start = None
    BY <1>1, StartMeans DEF StartRule
  <1>2. CASE script.start # None
    <2> DEFINE n == script.start
    <2>1. n \in Names
      BY <1>2, ScriptIs DEF LoadInv, ScriptInv
    <2>2. RulesMean[n] = ValueOf(rules, n) /\ n \in Int /\ RulesInv
      BY <2>1, MeansValue, NamesAssumption DEF LoadInv
    <2>3. ValueOf(rules, n) # None <=> Find(rules, n) # 0
      BY <2>2, NoneIsNotFound
    <2>4. StartRule = Find(rules, n)
      BY <1>2 DEF StartRule, rule_find
    <2>5. Read(StartRule) = ValueOf(rules, n)
      BY <2>4 DEF Read, ValueOf
    <2> QED
      BY <1>2, <2>2, <2>3, <2>4, <2>5
  <1> QED
    BY <1>1, <1>2

\* Where the text begins, or that it does not.
LEMMA CheckedBegins ==
  ASSUME LoadInv, Resolve \/ NoSuchRule \/ NoStart
  PROVE  Keeps
  <1> DEFINE p == IF StartRule # 0 THEN "run" ELSE IF script.start = None THEN "crashed" ELSE "failed"
             n == script.start
  <1>1. pc = "check" /\ Moves(p) /\ read = Len(script.decls)
    BY DEF Resolve, NoSuchRule, NoStart, LoadInv, ScriptInv
  <1>2. initial_rule' = StartRule
    BY DEF Resolve, NoSuchRule, NoStart, StartRule
  <1>3. rules' = rules
    BY <1>1 DEF Moves
  <1>4. Read(initial_rule)' = Read(StartRule)
    BY <1>2, <1>3 DEF Read
  <1>5. Read(initial_rule)' = IF script.start = None THEN Read(initial_rule) ELSE RulesMean[script.start]
    BY <1>4, StartRuleMeans
  <1>6. Phase' = IF Read(initial_rule)' # None THEN "run"
                 ELSE IF script.start = None THEN "crashed" ELSE "failed"
    <2>1. Phase' = p
      BY <1>1, MovesMeans
    <2> QED
      BY <1>4, <2>1, StartRuleMeans
  <1>7. Promise!Ends
    BY <1>1, EndMeans
  <1>8. Promise!Begin
    BY <1>1, <1>5, <1>6, <1>7 DEF Promise!Begin, Phase, RulesMean
  <1> QED
    BY <1>8 DEF Keeps, Promise!Next

\* Each step is one of those promised, or none.
LEMMA StepsMean ==
  ASSUME LoadInv, [Next \/ Ended]_state
  PROVE  Keeps
  <1>1. CASE PlainRule \/ ResourceRule \/ ParameterRule
    BY <1>1, RuleDefines
  <1>2. CASE Mapping
    BY <1>2, MappingDefines
  <1>3. CASE Transformation
    BY <1>3, TransformationDefines
  <1>4. CASE SyntaxError \/ Undefined
    BY <1>4, GivesUp
  <1>5. CASE EndOfFile
    BY <1>5, EndOfFileMeans
  <1>6. CASE Resolve \/ NoSuchRule \/ NoStart
    BY <1>6, CheckedBegins
  <1>7. CASE var_put \/ var_put_int
    BY <1>7, PutAssigns DEF var_put, var_put_int
  <1>8. CASE Resolved
    BY <1>8, ResolvedMeans
  <1>9. CASE Ended \/ UNCHANGED state
    BY <1>9, StutterMeans DEF Ended, state, Phase
  <1> QED
    BY <1>1, <1>2, <1>3, <1>4, <1>5, <1>6, <1>7, <1>8, <1>9 DEF Next

\* ImplementsMeaning: reading and running a script implements look-ups by name.
THEOREM LookupsImplemented == Spec => ImplementsMeaning
  <1>1. Init => Promise!Init
    BY InitMeans
  <1>2. LoadInv /\ [Next \/ Ended]_state => [Promise!Next]_(Promise!Everything)
    BY StepsMean DEF Keeps
  <1> QED
    BY <1>1, <1>2, LoadInductive, PTL DEF Spec, ImplementsMeaning, Promise!Spec
=============================================================================
