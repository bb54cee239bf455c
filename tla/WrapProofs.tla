----------------------------- MODULE WrapProofs -----------------------------
(***************************************************************************)
(* What print_wrapped() keeps for every text and every number of columns.  *)
(*                                                                         *)
(* Whether a line fits depends on the local variable `space' only through  *)
(* what was printed on the line; the invariant says how the two relate.    *)
(* That no word is lost is shown of Visible(), which goes through the text *)
(* by recursion, by induction over the length of the text (Recursion).     *)
(***************************************************************************)
EXTENDS Wrap, Recursion, SequenceTheorems, TLAPS

\* The space left and the characters on the line make up the columns, but for
\* the last one; a line at whose start the printing is is empty.
Tracks ==
  /\ space = Cols - 1 - col
  /\ start => col = 0 /\ words = 0
  /\ words > 1 => col <= Cols

IInv == TypeOK /\ Tracks
-----------------------------------------------------------------------------
\* The length of the next word is a number, and positive only for a word.
LEMMA WordLength ==
  ASSUME rest \in Seq(Int)
  PROVE  /\ NextwordLength \in Nat
         /\ NextwordLength > 0 => rest # <<>>
  BY DEF NextwordLength, IsWord

\* At first nothing is printed, and a line begins.
LEMMA InitIInv == Init => IInv
  <1> SUFFICES ASSUME Init PROVE IInv
    OBVIOUS
  <1>1. text \in Seq(Int)
    BY TextsAssumption DEF Init
  <1>2. <<>> \in Seq(Int)
    OBVIOUS
  <1>3. TypeOK
    <2>1. rest \in Seq(Int) /\ out \in Seq(Int)
      BY <1>1, <1>2 DEF Init
    <2>2. space \in Int /\ space < Cols /\ col \in Nat /\ words \in Nat
      BY ColsAssumption DEF Init
    <2>3. skipping \in BOOLEAN /\ start \in BOOLEAN
      BY DEF Init
    <2> QED
      BY <2>1, <2>2, <2>3 DEF TypeOK
  <1>4. Tracks
    BY ColsAssumption DEF Init, Tracks
  <1> QED
    BY <1>3, <1>4 DEF IInv

\* A skipped character leaves the line as it is or begins an empty one.
LEMMA SkipIInv == IInv /\ Skip => IInv'
  <1> SUFFICES ASSUME IInv, Skip PROVE IInv'
    OBVIOUS
  <1> USE ColsAssumption DEF IInv, Tracks
  <1>1. rest' \in Seq(Int) /\ skipping' \in BOOLEAN
    BY DEF TypeOK, Skip
  <1>2. CASE NewlineSkipped
    <2>1. out' \in Seq(Int)
      BY <1>2 DEF NewlineSkipped, TypeOK, Newline
    <2> QED
      BY <1>1, <1>2, <2>1 DEF NewlineSkipped, TypeOK
  <1>3. CASE BlankSkipped
    BY <1>1, <1>3 DEF BlankSkipped, TypeOK
  <1> QED
    BY <1>2, <1>3 DEF Skip

\* A word goes to a line that has space for it, or to a line of its own.
LEMMA PutWordIInv == IInv /\ PutWord => IInv'
  <1> SUFFICES ASSUME IInv, PutWord PROVE IInv'
    OBVIOUS
  <1> USE ColsAssumption
  <1> DEFINE n == NextwordLength
             line == IF Breaks THEN Append(out, Break) ELSE out
  <1>1. n \in Nat /\ (n > 0 => rest # <<>>)
    BY WordLength DEF IInv, TypeOK
  <1>2. rest' \in Seq(Int)
    BY <1>1 DEF PutWord, IInv, TypeOK
  <1>3. out' \in Seq(Int)
    <2>1. line \in Seq(Int)
      BY DEF IInv, TypeOK, Break
    <2>2. out' = IF n > 0 THEN Append(line, n) ELSE line
      BY DEF PutWord
    <2> QED
      BY <1>1, <2>1, <2>2
  <1>4. start' = FALSE /\ skipping' = FALSE
    BY DEF PutWord
  <1>5. CASE Breaks
    <2>1. /\ space' = Cols - 1 - (n + 1) /\ col' = n + 1
          /\ words' = IF n > 0 THEN 1 ELSE 0
      BY <1>1, <1>5 DEF PutWord, SpaceAfterWord
    <2>2. /\ space' \in Int /\ space' < Cols /\ col' \in Nat /\ words' \in Nat
          /\ space' = Cols - 1 - col' /\ ~(words' > 1)
      BY <1>1, <2>1
    <2> QED
      BY <1>2, <1>3, <1>4, <2>2 DEF IInv, TypeOK, Tracks
  <1>6. CASE ~Breaks
    <2>1. /\ space' = space - (n + 1) /\ col' = col + n + 1
          /\ words' = words + IF n > 0 THEN 1 ELSE 0
      BY <1>1, <1>6 DEF PutWord, SpaceAfterWord, IInv, TypeOK
    <2>2. n <= space \/ start
      BY <1>1, <1>6 DEF Breaks, IInv, TypeOK
    <2>3. words' > 1 => col' <= Cols
      BY <1>1, <2>1, <2>2 DEF IInv, TypeOK, Tracks
    <2>4. /\ space' \in Int /\ space' < Cols /\ col' \in Nat /\ words' \in Nat
          /\ space' = Cols - 1 - col'
      BY <1>1, <2>1 DEF IInv, TypeOK, Tracks
    <2> QED
      BY <1>2, <1>3, <1>4, <2>3, <2>4 DEF IInv, TypeOK, Tracks
  <1> QED
    BY <1>5, <1>6

\* print_wrapped()'s local variables agree with the line that it prints, at every step.
THEOREM Invariance == Spec => []IInv
  <1>1. IInv /\ [Next]_vars => IInv'
    <2> SUFFICES ASSUME IInv, [Next]_vars PROVE IInv'
      OBVIOUS
    <2>1. CASE Skip
      BY <2>1, SkipIInv
    <2>2. CASE PutWord
      BY <2>2, PutWordIInv
    <2>3. CASE Finished \/ UNCHANGED vars
      BY <2>3 DEF Finished, vars, IInv, TypeOK, Tracks
    <2> QED
      BY <2>1, <2>2, <2>3 DEF Next
  <1> QED
    BY InitIInv, <1>1, PTL DEF Spec

\* The variables of print_wrapped() keep their types.
THEOREM TypeCorrect == Spec => []TypeOK
  BY Invariance, PTL DEF IInv

\* A line of more than one word is within the columns.
THEOREM LineFitsAlways == Spec => []LineFits
  <1>1. IInv => LineFits
    BY ColsAssumption DEF IInv, TypeOK, Tracks, LineFits
  <1> QED
    BY Invariance, <1>1, PTL

\* A break is printed only before a word for which the line had no room.
THEOREM BreaksOnlyFullLinesAlways == Spec => BreaksOnlyFullLines
  <1> DEFINE Full == (Len(out') > Len(out) /\ out'[Len(out) + 1] = Break
                        => col + NextwordLength + 1 > Cols)
  <1>1. IInv /\ [Next]_vars => [Full]_vars
    <2> SUFFICES ASSUME IInv, Next, Len(out') > Len(out),
                        out'[Len(out) + 1] = Break
                 PROVE  col + NextwordLength + 1 > Cols
      BY DEF vars
    <2>1. PutWord /\ Breaks
      <3>1. ~Finished
        BY DEF Finished, vars
      <3>2. ~Skip
        BY DEF Skip, NewlineSkipped, BlankSkipped, Newline, Break, IInv, TypeOK
      <3>3. PutWord
        BY <3>1, <3>2 DEF Next
      <3>4. NextwordLength \in Nat
        BY WordLength DEF IInv, TypeOK
      <3> QED
        BY <3>3, <3>4 DEF PutWord, Break, IInv, TypeOK
    <2>2. NextwordLength \in Nat
      BY WordLength DEF IInv, TypeOK
    <2> QED
      BY <2>1, <2>2, ColsAssumption DEF Breaks, IInv, TypeOK, Tracks
  <1> QED
    BY Invariance, <1>1, PTL DEF Spec, BreaksOnlyFullLines
-----------------------------------------------------------------------------
\* Visible() looks at the items one by one, and keeps those that show.
LEMMA VisibleUpto ==
  ASSUME NEW items \in Seq(Int)
  PROVE  \E f \in [0 .. Len(items) -> Seq(Int)] :
           /\ f[0] = <<>>
           /\ \A n \in 1 .. Len(items) :
                f[n] = IF Shows(items[n]) THEN Append(f[n - 1], items[n])
                       ELSE f[n - 1]
           /\ Visible(items) = f[Len(items)]
  <1> DEFINE N == Len(items)
             SI == Seq(Int)
             step == [ns \in (1 .. N) \X SI |->
                        IF Shows(items[ns[1]]) THEN Append(ns[2], items[ns[1]])
                        ELSE ns[2]]
             Body(f) == [n \in 0 .. N |->
                           IF n = 0 THEN <<>>
                           ELSE IF Shows(items[n]) THEN Append(f[n - 1], items[n])
                           ELSE f[n - 1]]
  <1>1. N \in Nat /\ \A n \in 1 .. N : items[n] \in Int
    OBVIOUS
  <1>2. step \in [(1 .. N) \X SI -> SI]
    <2> SUFFICES ASSUME NEW ns \in (1 .. N) \X SI
                 PROVE  (IF Shows(items[ns[1]]) THEN Append(ns[2], items[ns[1]])
                         ELSE ns[2]) \in SI
      OBVIOUS
    <2>1. ns[2] \in SI /\ items[ns[1]] \in Int
      BY <1>1
    <2> QED
      BY <2>1
  <1>3. <<>> \in SI
    OBVIOUS
  <1>4. \E f \in [0 .. N -> SI] : IsIterated(f, N, <<>>, step)
    <2> HIDE DEF step, N, SI
    <2> QED
      BY <1>1, <1>2, <1>3, RecursionExists
  <1>5. PICK f \in [0 .. N -> SI] :
               f[0] = <<>> /\ \A n \in 1 .. N : f[n] = step[<<n, f[n - 1]>>]
    BY <1>4 DEF IsIterated
  <1>6. f = Body(f)
    <2>1. ASSUME NEW n \in 0 .. N PROVE f[n] = Body(f)[n]
      <3>1. CASE n = 0
        BY <1>5, <3>1
      <3>2. CASE n # 0
        <4>1. n \in 1 .. N /\ n - 1 \in 0 .. N
          BY <1>1, <3>2
        <4>2. <<n, f[n - 1]>> \in (1 .. N) \X SI
          BY <4>1
        <4>3. f[n] = step[<<n, f[n - 1]>>]
          BY <1>5, <4>1
        <4> QED
          BY <3>2, <4>2, <4>3
      <3> QED
        BY <3>1, <3>2
    <2>2. f = [n \in 0 .. N |-> f[n]]
      OBVIOUS
    <2> HIDE DEF N, SI
    <2> QED
      BY <2>1, <2>2
  <1> DEFINE g == CHOOSE h : h = Body(h)
  <1>7. g = Body(g)
    <2> HIDE DEF Body
    <2> QED
      BY <1>6
  <1>8. Visible(items) = g[N]
    BY DEF Visible
  <1> HIDE DEF g
  <1>9. /\ g[0] = <<>>
        /\ \A n \in 1 .. N : g[n] = IF Shows(items[n])
                                    THEN Append(g[n - 1], items[n])
                                    ELSE g[n - 1]
    <2>1. ASSUME NEW n \in 1 .. N
          PROVE  g[n] = IF Shows(items[n]) THEN Append(g[n - 1], items[n])
                        ELSE g[n - 1]
      <3>1. n \in 0 .. N /\ n # 0
        BY <1>1
      <3> QED
        BY <1>7, <3>1
    <2>2. 0 \in 0 .. N
      BY <1>1
    <2>3. g[0] = <<>>
      BY <1>7, <2>2
    <2> QED
      BY <2>1, <2>3
  <1>10. \A n \in 0 .. N : g[n] \in SI
    <2>1. ASSUME NEW n \in 1 .. N, g[n - 1] \in SI PROVE g[n] \in SI
      <3>1. g[n] = IF Shows(items[n]) THEN Append(g[n - 1], items[n])
                   ELSE g[n - 1]
        BY <1>9
      <3>2. items[n] \in Int
        BY <1>1
      <3>3. Append(g[n - 1], items[n]) \in SI
        BY <2>1, <3>2
      <3> QED
        BY <2>1, <3>1, <3>3
    <2> HIDE DEF N, SI
    <2> QED
      BY <1>1, <1>3, <1>9, <2>1, RecursionKeeps
  <1>11. g \in [0 .. N -> SI]
    <2>1. DOMAIN g = 0 .. N /\ g = [n \in 0 .. N |-> g[n]]
      BY <1>7
    <2> HIDE DEF SI, N
    <2> QED
      BY <1>10, <2>1
  <1> QED
    BY <1>8, <1>9, <1>11

\* Joining is associative.
LEMMA Associative ==
  ASSUME NEW s \in Seq(Int), NEW t \in Seq(Int), NEW u \in Seq(Int)
  PROVE  (s \o t) \o u = s \o (t \o u)
  BY ConcatAssociative

\* What Visible() has kept of an item.
Seen(item) == IF Shows(item) THEN <<item>> ELSE <<>>

\* What is visible of items is items, and of none it is none.
LEMMA VisibleType ==
  ASSUME NEW items \in Seq(Int) PROVE Visible(items) \in Seq(Int)
  <1> Len(items) \in 0 .. Len(items)
    OBVIOUS
  <1> QED
    BY VisibleUpto

\* Of nothing, nothing is visible.
LEMMA VisibleNone == Visible(<<>>) = <<>>
  <1> <<>> \in Seq(Int) /\ Len(<<>>) = 0
    OBVIOUS
  <1> QED
    BY VisibleUpto

\* An item at the end.
LEMMA VisibleAppend ==
  ASSUME NEW items \in Seq(Int), NEW item \in Int
  PROVE  Visible(Append(items, item)) = Visible(items) \o Seen(item)
  <1> DEFINE N == Len(items)
             longer == Append(items, item)
  <1>1. /\ N \in Nat /\ longer \in Seq(Int) /\ Len(longer) = N + 1
        /\ longer[N + 1] = item
        /\ \A n \in 1 .. N : longer[n] = items[n]
    OBVIOUS
  <1> HIDE DEF longer
  <1>2. PICK f \in [0 .. N -> Seq(Int)] :
          /\ f[0] = <<>>
          /\ \A n \in 1 .. N :
               f[n] = IF Shows(items[n]) THEN Append(f[n - 1], items[n])
                      ELSE f[n - 1]
          /\ Visible(items) = f[N]
    BY VisibleUpto
  <1>3. PICK g \in [0 .. Len(longer) -> Seq(Int)] :
          /\ g[0] = <<>>
          /\ \A n \in 1 .. Len(longer) :
               g[n] = IF Shows(longer[n]) THEN Append(g[n - 1], longer[n])
                      ELSE g[n - 1]
          /\ Visible(longer) = g[Len(longer)]
    BY <1>1, VisibleUpto
  <1> DEFINE T == {n \in Nat : n <= N => g[n] = f[n]}
  <1>4. Nat \subseteq T
    <2>1. 0 \in T
      BY <1>2, <1>3
    <2>2. ASSUME NEW n \in Nat, n \in T PROVE n + 1 \in T
      <3> SUFFICES ASSUME n + 1 <= N PROVE g[n + 1] = f[n + 1]
        OBVIOUS
      <3>1. /\ n + 1 \in 1 .. N /\ n + 1 \in 1 .. N + 1 /\ (n + 1) - 1 = n
            /\ g[n] = f[n]
        BY <1>1, <2>2
      <3> QED
        BY <1>1, <1>2, <1>3, <3>1
    <2> HIDE DEF T
    <2> QED
      BY <2>1, <2>2, SetInduction
  <1> HIDE DEF N
  <1>5. g[N] = f[N] /\ N + 1 \in 1 .. N + 1 /\ (N + 1) - 1 = N
    <2>1. N \in T
      BY <1>1, <1>4
    <2> QED
      BY <1>1, <2>1
  <1>6. Visible(longer) = IF Shows(item) THEN Append(f[N], item) ELSE f[N]
    BY <1>1, <1>3, <1>5
  <1>7. f[N] \in Seq(Int)
    BY <1>1
  <1>8. Append(f[N], item) = f[N] \o <<item>> /\ f[N] = f[N] \o <<>>
    BY <1>7, AppendIsConcat, ConcatEmptySeq
  <1> QED
    BY <1>2, <1>6, <1>8 DEF longer, Seen

\* An item at the front.
LEMMA VisibleHead ==
  ASSUME NEW items \in Seq(Int), items # <<>>
  PROVE  Visible(items) = Seen(Head(items)) \o Visible(Tail(items))
  <1> DEFINE N == Len(Tail(items))
             shorter == Tail(items)
             head == Head(items)
  <1>1. /\ N \in Nat /\ shorter \in Seq(Int) /\ Len(shorter) = N
        /\ Len(items) = N + 1 /\ items[1] = head /\ head \in Int
        /\ \A n \in 1 .. N : shorter[n] = items[n + 1] /\ shorter[n] \in Int
    OBVIOUS
  <1> HIDE DEF shorter, head, N
  <1>2. PICK f \in [0 .. N -> Seq(Int)] :
          /\ f[0] = <<>>
          /\ \A n \in 1 .. N :
               f[n] = IF Shows(shorter[n]) THEN Append(f[n - 1], shorter[n])
                      ELSE f[n - 1]
          /\ Visible(shorter) = f[N]
    BY <1>1, VisibleUpto
  <1>3. PICK g \in [0 .. N + 1 -> Seq(Int)] :
          /\ g[0] = <<>>
          /\ \A n \in 1 .. N + 1 :
               g[n] = IF Shows(items[n]) THEN Append(g[n - 1], items[n])
                      ELSE g[n - 1]
          /\ Visible(items) = g[N + 1]
    BY <1>1, VisibleUpto
  <1>4. Seen(head) \in Seq(Int)
    BY <1>1 DEF Seen
  <1> DEFINE T == {n \in Nat : n <= N => g[n + 1] = Seen(head) \o f[n]}
  <1>5. Nat \subseteq T
    <2>1. 0 \in T
      <3>1. 1 \in 1 .. N + 1 /\ g[1 - 1] = <<>>
        BY <1>1, <1>3
      <3>2. g[1] = IF Shows(head) THEN Append(<<>>, head) ELSE <<>>
        BY <1>1, <1>3, <3>1
      <3>3. g[1] = Seen(head)
        BY <1>1, <3>2 DEF Seen
      <3>4. Seen(head) \o f[0] = Seen(head)
        BY <1>2, <1>4, ConcatEmptySeq
      <3> QED
        BY <3>3, <3>4
    <2>2. ASSUME NEW n \in Nat, n \in T PROVE n + 1 \in T
      <3> SUFFICES ASSUME n + 1 <= N
                   PROVE  g[(n + 1) + 1] = Seen(head) \o f[n + 1]
        OBVIOUS
      <3> DEFINE item == shorter[n + 1]
      <3>1. /\ n + 1 \in 1 .. N /\ (n + 1) - 1 = n /\ n \in 0 .. N
            /\ (n + 1) + 1 \in 1 .. N + 1 /\ ((n + 1) + 1) - 1 = n + 1
        BY <1>1
      <3>6. g[n + 1] = Seen(head) \o f[n]
        <4>1. n <= N
          BY <1>1
        <4> QED
          BY <2>2, <4>1, Zenon
      <3>2. item = items[(n + 1) + 1] /\ item \in Int /\ f[n] \in Seq(Int)
        BY <1>1, <3>1
      <3>3. f[n + 1] = IF Shows(item) THEN Append(f[n], item) ELSE f[n]
        BY <1>2, <3>1
      <3>4. g[(n + 1) + 1] = IF Shows(item) THEN Append(g[n + 1], item)
                             ELSE g[n + 1]
        BY <1>3, <3>1, <3>2
      <3> HIDE DEF item
      <3>5. Append(Seen(head) \o f[n], item) = Seen(head) \o Append(f[n], item)
        <4>1. Seen(head) \o f[n] \in Seq(Int) /\ <<item>> \in Seq(Int)
          BY <1>4, <3>2
        <4>2. Append(Seen(head) \o f[n], item) = (Seen(head) \o f[n]) \o <<item>>
          BY <3>2, <4>1, AppendIsConcat
        <4>3. Append(f[n], item) = f[n] \o <<item>>
          BY <3>2, AppendIsConcat
        <4>4. (Seen(head) \o f[n]) \o <<item>> = Seen(head) \o (f[n] \o <<item>>)
          BY <1>4, <3>2, <4>1, Associative
        <4> QED
          BY <4>2, <4>3, <4>4
      <3> QED
        BY <3>1, <3>3, <3>4, <3>5, <3>6
    <2> HIDE DEF T
    <2> QED
      BY <2>1, <2>2, SetInduction
  <1>6. g[N + 1] = Seen(head) \o f[N]
    BY <1>1, <1>5
  <1> QED
    BY <1>2, <1>3, <1>6 DEF shorter, head

\* Words and line breaks of the text are printed once each and in order.
LEMMA PutKept ==
  ASSUME IInv, TextKept, PutWord PROVE TextKept'
  <1> DEFINE n == NextwordLength
             line == IF Breaks THEN Append(out, Break) ELSE out
  <1>1. n \in Nat /\ (n > 0 => rest # <<>> /\ n = Head(rest) /\ IsWord(n))
    BY WordLength DEF IInv, TypeOK, NextwordLength, IsWord
  <1>2. out \in Seq(Int) /\ line \in Seq(Int) /\ rest \in Seq(Int)
    BY DEF IInv, TypeOK, Break
  <1>3. Visible(line) = Visible(out)
    <2>1. Seen(Break) = <<>>
      BY DEF Seen, Shows, IsWord, Break, Newline
    <2>2. Break \in Int
      BY DEF Break
    <2>3. Visible(Append(out, Break)) = Visible(out)
      BY <1>2, <2>1, <2>2, VisibleAppend, VisibleType, ConcatEmptySeq, ZenonT(60)
    <2> QED
      BY <2>3
  <1>4. /\ out' = IF n > 0 THEN Append(line, n) ELSE line
        /\ rest' = IF n > 0 THEN Tail(rest) ELSE rest
        /\ text' = text
    BY DEF PutWord
  <1> HIDE DEF n, line
  <1>5. CASE n > 0
    <2>1. Tail(rest) \in Seq(Int)
      BY <1>1, <1>2, <1>5
    <2>2. Seen(n) \in Seq(Int)
      BY <1>1 DEF Seen
    <2>3. Visible(out') = Visible(out) \o Seen(n)
      BY <1>1, <1>2, <1>3, <1>4, <1>5, n \in Int, VisibleAppend
    <2>4. Visible(rest) = Seen(n) \o Visible(rest')
      BY <1>1, <1>2, <1>4, <1>5, VisibleHead
    <2>5. /\ Visible(out) \in Seq(Int) /\ Visible(rest') \in Seq(Int)
      BY <1>2, <1>4, <1>5, <2>1, VisibleType
    <2>6. (Visible(out) \o Seen(n)) \o Visible(rest')
            = Visible(out) \o (Seen(n) \o Visible(rest'))
      BY <2>2, <2>5, Associative
    <2> QED
      BY <1>4, <2>3, <2>4, <2>6 DEF TextKept
  <1>6. CASE ~(n > 0)
    BY <1>3, <1>4, <1>6 DEF TextKept
  <1> QED
    BY <1>5, <1>6

\* Blanks that are skipped are not visible, and a newline is printed.
LEMMA SkipKept ==
  ASSUME IInv, TextKept, Skip PROVE TextKept'
  <1> DEFINE h == Head(rest)
  <1>1. /\ out \in Seq(Int) /\ rest \in Seq(Int) /\ rest # <<>>
        /\ rest' = Tail(rest) /\ text' = text /\ ~IsWord(h)
    BY DEF IInv, TypeOK, Skip
  <1>2. h \in Int /\ Tail(rest) \in Seq(Int)
    BY <1>1
  <1>3. Visible(rest) = Seen(h) \o Visible(rest')
    BY <1>1, VisibleHead
  <1>4. Visible(out) \in Seq(Int) /\ Visible(rest') \in Seq(Int)
    BY <1>1, <1>2, VisibleType
  <1>5. CASE h = Newline
    <2>1. out' = Append(out, h)
      BY <1>5 DEF Skip, NewlineSkipped
    <2> HIDE DEF h
    <2>2. Visible(out') = Visible(out) \o Seen(h)
      <3>1. Visible(Append(out, h)) = Visible(out) \o Seen(h)
        BY <1>1, <1>2, VisibleAppend
      <3> QED
        BY <2>1, <3>1
    <2>3. Seen(h) \in Seq(Int)
      BY <1>2 DEF Seen
    <2>4. (Visible(out) \o Seen(h)) \o Visible(rest')
            = Visible(out) \o (Seen(h) \o Visible(rest'))
      BY <1>4, <2>3, Associative
    <2> QED
      BY <1>1, <1>3, <2>2, <2>4 DEF TextKept
  <1>6. CASE h # Newline
    <2>1. out' = out
      BY <1>6 DEF Skip, BlankSkipped
    <2>2. Seen(h) = <<>>
      BY <1>1, <1>6 DEF Seen, Shows
    <2>3. Visible(rest) = Visible(rest')
      BY <1>3, <1>4, <2>2, ConcatEmptySeq
    <2> QED
      BY <1>1, <2>1, <2>3 DEF TextKept
  <1> QED
    BY <1>5, <1>6

\* print_wrapped() prints every word and every newline of the text, in their order, and
\* changes nothing but the blanks: for every text and every number of columns.
THEOREM TextKeptAlways == Spec => []TextKept
  <1>1. Init => TextKept
    <2> SUFFICES ASSUME Init PROVE TextKept
      OBVIOUS
    <2>1. rest = text /\ out = <<>> /\ text \in Seq(Int)
      BY TextsAssumption DEF Init
    <2> QED
      BY <2>1, VisibleNone, VisibleType, ConcatEmptySeq DEF TextKept
  <1>2. IInv /\ TextKept /\ [Next]_vars => TextKept'
    <2> SUFFICES ASSUME IInv, TextKept, [Next]_vars PROVE TextKept'
      OBVIOUS
    <2>1. CASE Skip
      BY <2>1, SkipKept
    <2>2. CASE PutWord
      BY <2>2, PutKept
    <2>3. CASE Finished \/ UNCHANGED vars
      BY <2>3 DEF Finished, vars, TextKept
    <2> QED
      BY <2>1, <2>2, <2>3 DEF Next
  <1> QED
    BY <1>1, <1>2, Invariance, PTL DEF Spec
=============================================================================
