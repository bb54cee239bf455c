------------------------------ MODULE Recursion ------------------------------
(***************************************************************************)
(* Induction over the natural numbers, and the functions that are defined  *)
(* by it, stated of sets and of functions: no operator is a parameter.     *)
(***************************************************************************)
EXTENDS Naturals, SequencesExt, SequenceTheorems, WellFoundedInduction, TLAPS

\* A set that holds zero and the successors of its numbers holds all numbers:
\* else it lacks a least one, whose predecessor it has.
LEMMA SetInduction ==
  ASSUME NEW S, 0 \in S, \A n \in Nat : n \in S => n + 1 \in S
  PROVE  Nat \subseteq S
  <1> DEFINE R == {ss \in Nat \X Nat : ss[1] < ss[2]}
             T == Nat \ S
  <1> SUFFICES ASSUME T # {} PROVE FALSE
    OBVIOUS
  <1>1. IsWellFoundedOn(R, Nat)
    BY NatLessThanWellFounded DEF OpToRel
  <1>2. \A x, y \in Nat : y < x => <<y, x>> \in R
    OBVIOUS
  <1>3. T \subseteq Nat
    OBVIOUS
  <1> HIDE DEF R
  <1>4. \E x \in T : \A y \in T : ~ (<<y, x>> \in R)
    <2> HIDE DEF T
    <2> QED
      BY <1>1, <1>3, WFMin
  <1>5. PICK x \in T : \A y \in T : ~(y < x)
    BY <1>2, <1>3, <1>4
  <1>6. x # 0 /\ x \in Nat /\ x \notin S
    OBVIOUS
  <1>7. x - 1 \in Nat /\ x - 1 < x /\ (x - 1) + 1 = x
    BY <1>6
  <1>8. x - 1 \in S
    BY <1>5, <1>7
  <1> QED
    BY <1>6, <1>7, <1>8

\* A function on 0 .. N by what it is at zero and by a step to each number from
\* the number before it.
IsIterated(f, N, first, step) ==
  /\ f[0] = first
  /\ \A n \in 1 .. N : f[n] = step[<<n, f[n - 1]>>]

\* Whatever the first value and the step, there is such a function.
LEMMA RecursionExists ==
  ASSUME NEW N \in Nat, NEW S, NEW first \in S,
         NEW step \in [(1 .. N) \X S -> S]
  PROVE  \E f \in [0 .. N -> S] : IsIterated(f, N, first, step)
  <1> DEFINE Upto(f, m) == IsIterated(f, m, first, step)
             T == {m \in Nat : m <= N => \E f \in [0 .. m -> S] : Upto(f, m)}
  <1> USE DEF IsIterated
  <1>1. 0 \in T
    <2>1. [n \in 0 .. 0 |-> first] \in [0 .. 0 -> S]
      OBVIOUS
    <2>2. Upto([n \in 0 .. 0 |-> first], 0)
      OBVIOUS
    <2> HIDE DEF Upto
    <2> QED
      BY <2>1, <2>2
  <1>2. ASSUME NEW m \in Nat, m \in T PROVE m + 1 \in T
    <2> SUFFICES ASSUME m + 1 <= N
                 PROVE  \E f \in [0 .. m + 1 -> S] : Upto(f, m + 1)
      OBVIOUS
    <2>1. PICK f \in [0 .. m -> S] : Upto(f, m)
      BY <1>2
    <2> DEFINE new == step[<<m + 1, f[m]>>]
               g == [n \in 0 .. m + 1 |-> IF n = m + 1 THEN new ELSE f[n]]
    <2>2. new \in S
      <3>1. m + 1 \in 1 .. N /\ f[m] \in S
        OBVIOUS
      <3>2. <<m + 1, f[m]>> \in (1 .. N) \X S
        BY <3>1
      <3> QED
        BY <3>2
    <2>3. g \in [0 .. m + 1 -> S]
      <3> HIDE DEF new
      <3> QED
        BY <2>2
    <2>4. g[0] = first
      BY <2>1
    <2>5. ASSUME NEW n \in 1 .. m + 1 PROVE g[n] = step[<<n, g[n - 1]>>]
      <3>1. n - 1 \in 0 .. m /\ n \in 0 .. m + 1 /\ n - 1 # m + 1
            /\ n - 1 \in 0 .. m + 1
        OBVIOUS
      <3>2. g[n - 1] = f[n - 1]
        BY <3>1
      <3>3. CASE n = m + 1
        <4>1. n - 1 = m /\ g[n] = new
          BY <3>1, <3>3
        <4> QED
          BY <3>2, <3>3, <4>1
      <3>4. CASE n # m + 1
        <4>1. n \in 1 .. m /\ g[n] = f[n]
          BY <3>1, <3>4
        <4>2. f[n] = step[<<n, f[n - 1]>>]
          BY <2>1, <4>1
        <4> QED
          BY <3>2, <4>1, <4>2
      <3> QED
        BY <3>3, <3>4
    <2>6. Upto(g, m + 1)
      BY <2>4, <2>5
    <2> HIDE DEF Upto, g
    <2> QED
      BY <2>3, <2>6
  <1>3. Nat \subseteq T
    <2> HIDE DEF T
    <2> QED
      BY <1>1, <1>2, SetInduction
  <1>4. \E f \in [0 .. N -> S] : Upto(f, N)
    BY <1>3
  <1> QED
    BY <1>4

\* What the steps keep is kept throughout.
LEMMA RecursionKeeps ==
  ASSUME NEW N \in Nat, NEW S, NEW f, f[0] \in S,
         \A n \in 1 .. N : f[n - 1] \in S => f[n] \in S
  PROVE  \A n \in 0 .. N : f[n] \in S
  <1> DEFINE T == {n \in Nat : n <= N => f[n] \in S}
  <1>1. 0 \in T
    OBVIOUS
  <1>2. ASSUME NEW n \in Nat, n \in T PROVE n + 1 \in T
    <2> SUFFICES ASSUME n + 1 <= N PROVE f[n + 1] \in S
      OBVIOUS
    <2>1. n + 1 \in 1 .. N /\ (n + 1) - 1 = n /\ f[n] \in S
      BY <1>2
    <2> QED
      BY <2>1
  <1>3. Nat \subseteq T
    <2> HIDE DEF T
    <2> QED
      BY <1>1, <1>2, SetInduction
  <1> QED
    BY <1>3

\* If an element is good whenever all of lower rank are, all are.
LEMMA RankedInduction ==
  ASSUME NEW D, NEW rank \in [D -> Nat], NEW Good,
         \A p \in D : (\A q \in D : rank[q] < rank[p] => q \in Good) => p \in Good
  PROVE  D \subseteq Good
  <1> DEFINE T == {n \in Nat : \A p \in D : rank[p] < n => p \in Good}
  <1>1. 0 \in T
    OBVIOUS
  <1>2. ASSUME NEW n \in Nat, n \in T PROVE n + 1 \in T
    <2> SUFFICES ASSUME NEW p \in D, rank[p] < n + 1 PROVE p \in Good
      OBVIOUS
    <2>1. \A q \in D : rank[q] < rank[p] => rank[q] < n
      OBVIOUS
    <2> QED
      BY <1>2, <2>1
  <1>3. Nat \subseteq T
    <2> HIDE DEF T
    <2> QED
      BY <1>1, <1>2, SetInduction
  <1> SUFFICES ASSUME NEW p \in D PROVE p \in Good
    OBVIOUS
  <1>4. rank[p] + 1 \in T
    BY <1>3
  <1> QED
    BY <1>4

\* Ranks of the elements of a set, below N.
IsRank(rank, D, N) == rank \in [D -> Nat] /\ \A p \in D : rank[p] < N

\* The value at an element depends on the values at elements of lower rank only.
LooksLower(value, D, S, rank) ==
  \A p \in D : \A f, g \in [D -> S] :
     (\A q \in D : rank[q] < rank[p] => f[q] = g[q]) => value[<<p, f>>] = value[<<p, g>>]

IsRecursive(f, value, D) == \A p \in D : f[p] = value[<<p, f>>]

\* A function may be defined by recursion to elements of lower rank.
\* It is what is reached when all values are computed anew as often as there are ranks.
LEMMA RankedRecursion ==
  ASSUME NEW D, NEW S, S # {}, NEW N \in Nat, NEW rank, IsRank(rank, D, N),
         NEW value \in [D \X [D -> S] -> S], LooksLower(value, D, S, rank)
  PROVE  \E f \in [D -> S] : IsRecursive(f, value, D)
  <1>0. PICK any \in S : TRUE
    OBVIOUS
  <1> USE DEF IsRank, LooksLower, IsRecursive
  <1> DEFINE Fs == [D -> S]
             Again(f) == [p \in D |-> value[<<p, f>>]]
             step == [nf \in (1 .. N) \X Fs |-> Again(nf[2])]
             first == [p \in D |-> any]
  <1>1. \A f \in Fs : Again(f) \in Fs
    OBVIOUS
  <1>2. first \in Fs /\ step \in [(1 .. N) \X Fs -> Fs]
    <2>1. \A nf \in (1 .. N) \X Fs : Again(nf[2]) \in Fs
      <3> HIDE DEF Again, Fs
      <3> QED
        BY <1>1
    <2>2. first \in Fs
      OBVIOUS
    <2> HIDE DEF Again, Fs, first
    <2> QED
      BY <2>1, <2>2
  <1>3. PICK g \in [0 .. N -> Fs] : IsIterated(g, N, first, step)
    <2> HIDE DEF Fs, step, first
    <2> QED
      BY <1>2, RecursionExists
  <1> HIDE DEF first
  <1>4. ASSUME NEW n \in 1 .. N PROVE g[n] = Again(g[n - 1]) /\ g[n - 1] \in Fs
    <2>1. n - 1 \in 0 .. N
      OBVIOUS
    <2>2. g[n - 1] \in Fs
      BY <1>3, <2>1
    <2>3. <<n, g[n - 1]>> \in (1 .. N) \X Fs
      BY <2>2
    <2>4. g[n] = step[<<n, g[n - 1]>>]
      BY <1>3 DEF IsIterated
    <2> HIDE DEF Fs, Again
    <2> QED
      BY <2>2, <2>3, <2>4
  <1> DEFINE Settled == {n \in 0 .. N : \A p \in D : rank[p] < n => g[n][p] = value[<<p, g[n]>>]}
             f0 == [n \in Nat |-> n]
  <1>5. 0 \in Settled
    OBVIOUS
  <1>6. ASSUME NEW n \in 1 .. N, n - 1 \in Settled PROVE n \in Settled
    <2> SUFFICES ASSUME NEW p \in D, rank[p] < n PROVE g[n][p] = value[<<p, g[n]>>]
      <3>1. n \in 0 .. N
        OBVIOUS
      <3> QED
        BY <3>1
    <2> DEFINE a == g[n - 1]
               b == g[n]
    <2>1. a \in Fs /\ b = Again(a) /\ b \in Fs
      BY <1>1, <1>4
    <2>2. \A q \in D : rank[q] < n - 1 => a[q] = value[<<q, a>>]
      BY <1>6
    <2> HIDE DEF a, b
    <2>3. \A q \in D : rank[q] < rank[p] => a[q] = b[q]
      <3> SUFFICES ASSUME NEW q \in D, rank[q] < rank[p] PROVE a[q] = b[q]
        OBVIOUS
      <3>1. rank[q] < n - 1
        OBVIOUS
      <3> QED
        BY <2>1, <2>2, <3>1
    <2>4. value[<<p, a>>] = value[<<p, b>>]
      BY <2>1, <2>3, Zenon
    <2>5. b[p] = value[<<p, a>>]
      BY <2>1
    <2> QED
      BY <2>4, <2>5 DEF b
  <1>7. N \in Settled
    <2> HIDE DEF Settled
    <2>1. \A n \in 1 .. N : f0[n - 1] \in Settled => f0[n] \in Settled
      BY <1>6
    <2>2. f0[0] \in Settled /\ f0[N] = N
      BY <1>5
    <2> HIDE DEF f0
    <2>3. \A n \in 0 .. N : f0[n] \in Settled
      BY <2>1, <2>2, RecursionKeeps
    <2> QED
      BY <2>2, <2>3
  <1>8. g[N] \in Fs /\ \A p \in D : g[N][p] = value[<<p, g[N]>>]
    BY <1>3, <1>7
  <1> QED
    BY <1>8

\* FlattenSeq() joins the sequences one by one.
IsFlattening(f, seqs) ==
  /\ f[0] = <<>>
  /\ \A n \in 1 .. Len(seqs) : f[n] = f[n - 1] \o seqs[n]
  /\ FlattenSeq(seqs) = f[Len(seqs)]

\* Such a function exists for all sequences of sequences.
LEMMA FlattenUpto ==
  ASSUME NEW S, NEW seqs \in Seq(Seq(S))
  PROVE  \E f \in [0 .. Len(seqs) -> Seq(S)] : IsFlattening(f, seqs)
  <1> DEFINE N == Len(seqs)
             SS == Seq(S)
             step == [ns \in (1 .. N) \X SS |-> ns[2] \o seqs[ns[1]]]
             Body(h) == [i \in 1 .. N |-> IF i = 1 THEN seqs[i] ELSE h[i - 1] \o seqs[i]]
             g == CHOOSE h : h = Body(h)
  <1>1. N \in Nat /\ (\A n \in 1 .. N : seqs[n] \in SS) /\ <<>> \in SS
    OBVIOUS
  <1>2. step \in [(1 .. N) \X SS -> SS]
    <2> SUFFICES ASSUME NEW ns \in (1 .. N) \X SS PROVE ns[2] \o seqs[ns[1]] \in SS
      OBVIOUS
    <2> QED
      BY <1>1
  <1>3. \E f \in [0 .. N -> SS] : IsIterated(f, N, <<>>, step)
    <2> HIDE DEF step, N, SS
    <2> QED
      BY <1>1, <1>2, RecursionExists
  <1>4. PICK f \in [0 .. N -> SS] :
               f[0] = <<>> /\ \A n \in 1 .. N : f[n] = step[<<n, f[n - 1]>>]
    BY <1>3 DEF IsIterated
  <1>5. ASSUME NEW n \in 1 .. N PROVE f[n] = f[n - 1] \o seqs[n]
    <2>1. n - 1 \in 0 .. N
      BY <1>1
    <2>2. <<n, f[n - 1]>> \in (1 .. N) \X SS
      BY <2>1
    <2> QED
      BY <1>4, <2>2
  <1> DEFINE h0 == [i \in 1 .. N |-> f[i]]
  <1>6. h0 = Body(h0)
    <2>1. ASSUME NEW i \in 1 .. N
          PROVE  h0[i] = IF i = 1 THEN seqs[i] ELSE h0[i - 1] \o seqs[i]
      <3>1. CASE i = 1
        <4>1. f[1] = <<>> \o seqs[1] /\ seqs[1] \in Seq(S)
          <5>1. 1 \in 1 .. N /\ 1 - 1 = 0
            BY <1>1, <3>1
          <5>2. f[1] = f[1 - 1] \o seqs[1] /\ seqs[1] \in SS
            BY <1>1, <1>5, <5>1
          <5> QED
            BY <1>4, <5>1, <5>2
        <4>2. <<>> \o seqs[1] = seqs[1]
          BY <4>1, ConcatEmptySeq
        <4> QED
          BY <3>1, <4>1, <4>2
      <3>2. CASE i # 1
        <4>1. i - 1 \in 1 .. N
          BY <1>1, <3>2
        <4> QED
          BY <1>5, <3>2, <4>1
      <3> QED
        BY <3>1, <3>2
    <2> HIDE DEF N, SS, h0
    <2>2. h0 = [i \in 1 .. N |-> h0[i]]
      BY DEF h0
    <2> QED
      BY <2>1, <2>2
  <1>7. g = Body(g)
    <2> HIDE DEF Body
    <2> QED
      BY <1>6
  <1>8. CASE N = 0
    <2>1. seqs = <<>> /\ FlattenSeq(seqs) = <<>>
      BY <1>8 DEF FlattenSeq
    <2> QED
      BY <1>4, <1>8, <2>1 DEF IsFlattening
  <1>9. CASE N # 0
    <2>1. FlattenSeq(seqs) = g[N]
      BY <1>9 DEF FlattenSeq
    <2> HIDE DEF g
    <2> DEFINE e == [n \in 0 .. N |-> IF n = 0 THEN <<>> ELSE g[n]]
    <2>2. e[0] = <<>> /\ e[N] = g[N]
      BY <1>1, <1>9
    <2>3. ASSUME NEW n \in 1 .. N PROVE e[n] = e[n - 1] \o seqs[n]
      <3>1. n \in 0 .. N /\ n # 0 /\ n - 1 \in 0 .. N
        BY <1>1
      <3>2. g[n] = IF n = 1 THEN seqs[n] ELSE g[n - 1] \o seqs[n]
        BY <1>7
      <3>3. CASE n = 1
        <4>1. <<>> \o seqs[n] = seqs[n]
          BY <1>1, ConcatEmptySeq
        <4> QED
          BY <3>1, <3>2, <3>3, <4>1
      <3>4. CASE n # 1
        <4>1. n - 1 # 0
          BY <3>4
        <4>2. e[n] = g[n] /\ e[n - 1] = g[n - 1]
          BY <3>1, <4>1
        <4> QED
          BY <3>2, <3>4, <4>2
      <3> QED
        BY <3>3, <3>4
    <2> HIDE DEF e
    <2>4. \A n \in 0 .. N : e[n] \in SS
      <3>1. ASSUME NEW n \in 1 .. N, e[n - 1] \in SS PROVE e[n] \in SS
        <4>1. e[n] = e[n - 1] \o seqs[n] /\ seqs[n] \in SS
          BY <1>1, <2>3
        <4> QED
          BY <3>1, <4>1
      <3> HIDE DEF N, SS
      <3> QED
        BY <1>1, <2>2, <3>1, RecursionKeeps
    <2>5. e \in [0 .. N -> SS]
      <3> HIDE DEF SS, N
      <3> QED
        BY <2>4 DEF e
    <2> QED
      BY <2>1, <2>2, <2>3, <2>5 DEF IsFlattening
  <1> QED
    BY <1>8, <1>9
=============================================================================
