------------------------- MODULE SelectOptionProofs -------------------------
(***************************************************************************)
(* Theorems about SelectOption for every number of options, every width of *)
(* int and every number of calls.  All of them rest on IInv, which records *)
(* what the partial sums, the draw and the position of the walk have to do *)
(* with one another while no int has overflowed.                           *)
(***************************************************************************)
EXTENDS SelectOption, TLAPS

\* The partial sums of the first k options: each adds one weight to the one
\* before, so they grow by at least three.
PrefixUpTo(p, w, k) ==
  /\ p[0] = 0
  /\ \A i \in Options : i < k => p[i + 1] = p[i] + w[i]
  /\ \A i, j \in 0 .. k : i < j => p[i] + 3 <= p[j]

\* Between two calls, and wherever no pass over the options is under way.
AtRest == o = 0 /\ sum = 0 /\ prefix[0] = 0

\* While the weights are added up.
Summing == o \in Options /\ sum = prefix[o] /\ PrefixUpTo(prefix, randweight, o)

\* While the draw walks over the options.
Walking == /\ o \in Options
           /\ draw \in 0 .. sum - 1
           /\ ch = draw - prefix[o]
           /\ ch >= 0
           /\ \A i \in Options : i < o => draw > prefix[i + 1]

\* TypeOK is inductive only together with where `o' stands between passes.
TypeInv ==
  /\ TypeOK
  /\ pc \in {"idle", "old"} => o = 0
  /\ pc = "sum" => o \in Options

\* The two Boolean variables, and all the others.
Booleans == old_probability \in BOOLEAN /\ overflowed \in BOOLEAN

Others ==
  /\ randweight \in [Options -> Int]
  /\ last_choice \in Options \cup {-1}
  /\ pc \in {"idle", "old", "sum", "draw", "walk", "crashed"}
  /\ sum \in Int /\ ch \in Int /\ draw \in Int
  /\ o \in 0 .. NumOptions
  /\ prefix \in [0 .. NumOptions -> Int]
  /\ chosen \in Options \cup {-1}
  /\ calls \in 0 .. MaxCalls
  /\ pc \in {"idle", "old"} => o = 0
  /\ pc = "sum" => o \in Options

Sound ==
  /\ \A i \in Options : randweight[i] >= 3
  /\ pc \in {"idle", "old"} => AtRest
  /\ pc = "sum" => Summing
  /\ pc \in {"draw", "walk"} => sum = prefix[NumOptions] /\ PrefixUpTo(prefix, randweight, NumOptions)
  /\ pc = "draw" => o = 0
  /\ pc = "walk" => Walking
  /\ pc # "crashed"

IInv == TypeInv /\ (~overflowed => Sound)
-----------------------------------------------------------------------------
\* An int holds an integer, whatever was stored in it.
LEMMA WrapInt == \A x \in Int : Wrap(x) \in Int
  BY IntMaxAssumption DEF Wrap, Fits

\* A value that fits is stored as it is.
LEMMA WrapFits == \A x \in Int : Fits(x) => Wrap(x) = x
  BY DEF Wrap

\* incr_option_weight() yields an integer.
LEMMA IncrInt == \A w \in Int : IncrOptionWeight(w) \in Int
  <1> TAKE w \in Int
  <1>1. Wrap(w + 1) \in Int
    BY WrapInt
  <1>2. Wrap(3 * Wrap(w + 1)) \in Int
    BY <1>1, WrapInt
  <1> QED
    BY <1>2 DEF IncrOptionWeight, HalfOf

\* What growing does to a weight whose triple fits: the weight 1 of the option
\* just taken becomes 3, and a weight of 3 or more becomes 6 or more.
LEMMA IncrGrows ==
  \A w \in Int : w >= 1 /\ IncrFits(w) =>
    /\ IncrOptionWeight(w) >= 3
    /\ w = 1 => IncrOptionWeight(w) = 3
    /\ w >= 3 => IncrOptionWeight(w) >= 6
  <1> TAKE w \in Int
  <1> HAVE w >= 1 /\ IncrFits(w)
  <1>1. Fits(w + 1) /\ Fits(3 * (w + 1))
    BY IntMaxAssumption DEF Fits, IncrFits
  <1>2. Wrap(3 * Wrap(w + 1)) = 3 * (w + 1)
    BY <1>1, WrapFits
  <1>3. IncrOptionWeight(w) = (3 * (w + 1)) \div 2
    BY <1>2 DEF IncrOptionWeight, HalfOf
  <1> QED
    BY <1>3
-----------------------------------------------------------------------------
\* The types, the flags apart from the others.
LEMMA TypeParts == TypeInv <=> Booleans /\ Others
  BY DEF TypeInv, TypeOK, Booleans, Others

\* The initial values have their types.
LEMMA TypeInit == Init => TypeInv
  <1> SUFFICES ASSUME Init PROVE TypeInv
    OBVIOUS
  <1>1. Booleans
    BY Zenon DEF Init, Booleans
  <1>2. /\ randweight \in [Options -> Int]
        /\ prefix \in [0 .. NumOptions -> Int]
    BY DEF Init, NoPrefix
  <1>3. Others
    BY <1>2, OptionsAssumption, CallsAssumption DEF Init, Others, Options
  <1> QED
    BY <1>1, <1>3, TypeParts

\* The flags stay Boolean.
LEMMA BooleansStep == Booleans /\ [Next]_vars => Booleans'
  BY Zenon DEF Booleans, Next, Step, Finished, Call, OldChoice, SumWeight, Draw,
               Walk, NullOption, Take, vars

\* Every step keeps the numbers and lists of select_option() in their ranges.
LEMMA OthersStep == Others /\ [Next]_vars => Others'
  <1> SUFFICES ASSUME Others, [Next]_vars PROVE Others'
    OBVIOUS
  <1> USE OptionsAssumption, CallsAssumption DEF Options, Null
  <1>1. CASE SumWeight
    <2>1. o \in Options
      BY <1>1 DEF SumWeight, Others
    <2>2. sum' \in Int
      BY <1>1, <2>1, WrapInt DEF SumWeight, Others
    <2>3. prefix' \in [0 .. NumOptions -> Int]
      BY <1>1, <2>2 DEF SumWeight, Others
    <2> QED
      BY <1>1, <2>1, <2>2, <2>3 DEF SumWeight, Others
  <1>2. CASE Draw
    <2>1. ch' \in Int /\ draw' \in Int
      BY <1>2 DEF Draw, Others
    <2> QED
      BY <1>2, <2>1 DEF Draw, Others
  <1>3. CASE Walk
    <2>1. ch' \in Int
      BY <1>3, WrapInt DEF Walk, Others
    <2> QED
      BY <1>3, <2>1 DEF Walk, Others
  <1>4. CASE NullOption
    BY <1>4 DEF NullOption, locals, Others
  <1>5. CASE Take
    <2>1. o \in Options
      BY <1>5 DEF Take, Others
    <2>2. \A i \in Options : IncrOptionWeight(Lightened(o, i)) \in Int
      <3> TAKE i \in Options
      <3>1. randweight[i] \in Int
        BY DEF Others
      <3>2. Lightened(o, i) \in Int
        BY <3>1 DEF Lightened
      <3> QED
        BY <3>2, IncrInt
    <2>3. randweight' \in [Options -> Int]
      BY <1>5, <2>2 DEF Take
    <2>4. prefix' \in [0 .. NumOptions -> Int]
      BY <1>5 DEF Take, NoPrefix
    <2> QED
      BY <1>5, <2>1, <2>3, <2>4, SMTT(30) DEF Take, Others
  <1>6. ASSUME NEW choice \in Options, OldChoice(choice) PROVE Others'
    BY <1>6 DEF OldChoice, locals, Others
  <1>7. ASSUME NEW mode \in Modes, Call(mode) PROVE Others'
    BY <1>7 DEF Call, locals, Others
  <1>8. CASE UNCHANGED vars
    BY <1>8 DEF vars, locals, Others
  <1> QED
    BY <1>1, <1>2, <1>3, <1>4, <1>5, <1>6, <1>7, <1>8
       DEF Next, Step, Finished

\* Every step keeps the types.
LEMMA TypeStep == TypeInv /\ [Next]_vars => TypeInv'
  BY TypeParts, BooleansStep, OthersStep DEF TypeInv, TypeOK, Booleans, Others

\* Type correctness of select_option(), for every number of options.
THEOREM TypeCorrect == Spec => []TypeOK
  <1>1. TypeInv => TypeOK
    BY DEF TypeInv
  <1> QED
    BY <1>1, TypeInit, TypeStep, PTL DEF Spec
-----------------------------------------------------------------------------
\* At first the invariant holds.
LEMMA SoundInit == Init => IInv
  <1> SUFFICES ASSUME Init PROVE IInv
    OBVIOUS
  <1>1. \A i \in Options : randweight[i] = 4
    BY DEF Init
  <1>2. prefix[0] = 0
    BY OptionsAssumption DEF Init, NoPrefix
  <1>3. Sound
    BY <1>1, <1>2 DEF Init, Sound, AtRest
  <1> QED
    BY <1>3, TypeInit DEF IInv

\* Each step keeps the picture of the walk intact, unless it overflows an int.
LEMMA SoundStep == IInv /\ [Next]_vars => IInv'
  <1> SUFFICES ASSUME IInv, [Next]_vars, ~overflowed' PROVE Sound'
    BY TypeStep DEF IInv
  <1>0. Others /\ Others'
    BY TypeStep DEF IInv, TypeInv, TypeOK, Others
  <1>a. ~overflowed
    BY Zenon DEF Next, Step, Finished, Call, OldChoice, SumWeight, Draw, Walk,
                 NullOption, Take, vars
  <1>b. Sound
    BY <1>a DEF IInv
  <1> USE OptionsAssumption DEF Options, Null
  <1>1. CASE SumWeight
    <2>1. Summing /\ pc = "sum"
      BY <1>1, <1>b DEF SumWeight, Sound
    <2>2. randweight[o] \in Int /\ sum \in Int /\ o \in Options
      BY <1>0, <2>1 DEF Others, Summing
    <2>3. Fits(sum + randweight[o])
      BY <1>1 DEF SumWeight
    <2>4. sum' = sum + randweight[o]
      BY <1>1, <2>2, <2>3, WrapFits DEF SumWeight
    <2>5. prefix' = [prefix EXCEPT ![o + 1] = sum'] /\ randweight' = randweight
      BY <1>1 DEF SumWeight
    <2>6. PrefixUpTo(prefix', randweight', o + 1)
      <3>1. /\ prefix'[o + 1] = prefix[o] + randweight[o]
            /\ \A i \in 0 .. o : prefix'[i] = prefix[i]
        BY <1>0, <2>1, <2>2, <2>4, <2>5 DEF Others, Summing
      <3>2. \A i \in 0 .. o : prefix[i] \in Int
        <4>1. prefix \in [0 .. NumOptions -> Int]
          BY <1>0 DEF Others
        <4>2. \A i \in 0 .. o : i \in 0 .. NumOptions
          BY <2>2
        <4> QED
          BY <4>1, <4>2
      <3>3. PrefixUpTo(prefix, randweight, o) /\ randweight[o] >= 3
        BY <1>b, <2>1, <2>2 DEF Summing, Sound
      <3>4. \A i, j \in 0 .. o : i < j => prefix[i] + 3 <= prefix[j]
        BY <3>3 DEF PrefixUpTo
      <3>5. \A i \in 0 .. o : prefix[i] <= prefix[o]
        BY <2>2, <3>2, <3>4
      <3>6. \A i, j \in 0 .. o + 1 : i < j => prefix'[i] + 3 <= prefix'[j]
        BY <2>2, <3>1, <3>2, <3>3, <3>4, <3>5
      <3>7. prefix'[0] = 0
        BY <2>2, <3>1, <3>3 DEF PrefixUpTo
      <3>8. \A i \in Options : i < o + 1 => prefix'[i + 1] = prefix'[i] + randweight[i]
        BY <2>2, <3>1, <3>3 DEF PrefixUpTo
      <3> QED
        BY <2>5, <3>6, <3>7, <3>8 DEF PrefixUpTo
    <2>7. sum' = prefix'[o + 1]
      BY <1>0, <2>2, <2>5 DEF Others
    <2>8. \A i \in Options : randweight'[i] >= 3
      BY <1>b, <2>5 DEF Sound
    <2>9. CASE o + 1 = Null
      <3>1. pc' = "draw" /\ o' = 0
        BY <1>1, <2>9 DEF SumWeight
      <3> QED
        BY <2>6, <2>7, <2>8, <2>9, <3>1 DEF Sound
    <2>10. CASE o + 1 # Null
      <3>1. pc' = "sum" /\ o' = o + 1 /\ o' \in Options
        BY <1>1, <2>2, <2>10 DEF SumWeight
      <3>2. PrefixUpTo(prefix', randweight', o')
        BY <2>6, <3>1 DEF PrefixUpTo
      <3> QED
        BY <2>7, <2>8, <3>1, <3>2 DEF Sound, Summing
    <2> QED
      BY <2>9, <2>10
  <1>2. CASE Draw
    <2>1. prefix[NumOptions] \in Int /\ prefix[0] + 3 <= prefix[NumOptions] /\ prefix[0] = 0
      BY <1>0, <1>2, <1>b DEF Draw, Sound, PrefixUpTo, Others
    <2>2. o = 0 /\ sum = prefix[NumOptions] /\ PrefixUpTo(prefix, randweight, NumOptions)
      BY <1>2, <1>b DEF Draw, Sound
    <2>3. ch' \in 0 .. sum - 1 /\ draw' = ch'
      BY <1>2, <2>1, <2>2 DEF Draw
    <2>4. /\ pc' = "walk" /\ o' = o /\ sum' = sum /\ prefix' = prefix
          /\ randweight' = randweight
      BY <1>2 DEF Draw
    <2>5. Walking'
      BY <2>1, <2>2, <2>3, <2>4 DEF Walking
    <2> QED
      BY <1>b, <2>2, <2>4, <2>5 DEF Sound, PrefixUpTo
  <1>3. CASE Walk
    <2>1. /\ Walking /\ sum = prefix[NumOptions] /\ PrefixUpTo(prefix, randweight, NumOptions)
          /\ pc = "walk" /\ o \in Options /\ ch > randweight[o]
      BY <1>3, <1>b DEF Walk, Sound, Walking
    <2>2. /\ randweight[o] \in Int /\ ch \in Int /\ sum \in Int /\ draw \in Int
          /\ prefix \in [0 .. NumOptions -> Int]
      BY <1>0, <2>1 DEF Others
    <2>3. Fits(ch - randweight[o])
      BY <1>3, <1>a DEF Walk
    <2>4. ch' = ch - randweight[o]
      BY <1>3, <2>2, <2>3, WrapFits DEF Walk
    <2>5. /\ pc' = pc /\ o' = o + 1 /\ sum' = sum /\ prefix' = prefix
          /\ randweight' = randweight /\ draw' = draw
      BY <1>3 DEF Walk
    <2>6. prefix[o + 1] = prefix[o] + randweight[o]
      BY <2>1 DEF PrefixUpTo
    <2>7. ch = draw - prefix[o] /\ draw <= sum - 1
      BY <2>1, <2>2 DEF Walking
    <2>7a. prefix[o] \in Int /\ prefix[o + 1] \in Int
      BY <2>1, <2>2
    <2>8. draw > prefix[o + 1] /\ ch' = draw - prefix[o + 1] /\ ch' >= 0
      <3>1. ch > randweight[o]
        BY <2>1
      <3>2. draw - prefix[o] > randweight[o] /\ ch' = (draw - prefix[o]) - randweight[o]
        BY <2>4, <2>7, <3>1
      <3> QED
        BY <2>2, <2>6, <2>7a, <3>2
    <2>9. o + 1 \in Options
      BY <2>1, <2>2, <2>7, <2>8
    <2>10. \A i \in Options : i < o + 1 => draw > prefix[i + 1]
      BY <2>1, <2>8 DEF Walking
    <2>11. Walking'
      BY <2>1, <2>5, <2>8, <2>9, <2>10 DEF Walking
    <2> QED
      BY <1>b, <2>1, <2>5, <2>11 DEF Sound, PrefixUpTo
  <1>4. CASE NullOption
    BY <1>4, <1>b DEF NullOption, Sound, Walking
  <1>5. CASE Take
    <2>1. o \in Options
      BY <1>0, <1>5 DEF Take, Others
    <2>2. \A i \in Options : Lightened(o, i) \in Int /\ Lightened(o, i) >= 1
      <3> TAKE i \in Options
      <3>1. randweight[i] \in Int
        BY <1>0 DEF Others
      <3>2. randweight[i] >= 3
        BY <1>b DEF Sound
      <3> QED
        BY <3>1, <3>2 DEF Lightened
    <2>3. \A i \in Options : IncrFits(Lightened(o, i))
      BY <1>5 DEF Take
    <2>4. \A i \in Options : randweight'[i] >= 3
      BY <1>5, <2>2, <2>3, IncrGrows DEF Take
    <2>5. pc' = "idle" /\ o' = 0 /\ sum' = 0 /\ prefix'[0] = 0
      BY <1>5 DEF Take, NoPrefix
    <2> QED
      BY <2>4, <2>5 DEF Sound, AtRest
  <1>6. ASSUME NEW choice \in Options, OldChoice(choice) PROVE Sound'
    BY <1>6, <1>b DEF OldChoice, locals, Sound, AtRest
  <1>7. ASSUME NEW mode \in Modes, Call(mode) PROVE Sound'
    <2>1. AtRest /\ \A i \in Options : randweight[i] >= 3
      BY <1>7, <1>b DEF Call, Sound
    <2>2. /\ o' = o /\ sum' = sum /\ prefix' = prefix /\ randweight' = randweight
          /\ pc' \in {"old", "sum"}
      BY <1>7 DEF Call, locals
    <2>3. AtRest'
      BY <2>1, <2>2 DEF AtRest
    <2>4. Summing'
      BY <2>1, <2>2 DEF AtRest, Summing, PrefixUpTo
    <2> QED
      BY <2>1, <2>2, <2>3, <2>4 DEF Sound
  <1>8. CASE UNCHANGED vars
    BY <1>8, <1>b
       DEF vars, locals, Sound, AtRest, Summing, Walking, PrefixUpTo
  <1> QED
    BY <1>1, <1>2, <1>3, <1>4, <1>5, <1>6, <1>7, <1>8
       DEF Next, Step, Finished

\* The invariant holds at every step.
LEMMA Soundness == Spec => []IInv
  <1> QED
    BY SoundInit, SoundStep, PTL DEF Spec
-----------------------------------------------------------------------------
\* However long the option list is and however often it was used, the walk of
\* select_option() stops at an option, as long as no int overflowed.
THEOREM WalkStaysInListAlways == Spec => []WalkStaysInList
  <1>1. IInv => WalkStaysInList
    BY DEF IInv, WalkStaysInList, Sound, Walking, Options, Null
  <1> QED
    BY <1>1, Soundness, PTL

\* No option of a rule is ever starved: before each draw every option other
\* than the one chosen last has a value of random()%sum that selects it.
THEOREM EveryOtherSelectableAlways == Spec => []EveryOtherSelectable
  <1>1. IInv => EveryOtherSelectable
    <2> SUFFICES ASSUME IInv, pc = "draw", ~overflowed, NEW j \in Options
                 PROVE  DrawsFor(j) # {}
      BY DEF EveryOtherSelectable
    <2> USE OptionsAssumption DEF Options
    <2>1. Others /\ sum = prefix[NumOptions] /\ PrefixUpTo(prefix, randweight, NumOptions)
      BY TypeParts DEF IInv, Sound
    <2> DEFINE c == prefix[j] + 1
    <2>2. j + 1 <= NumOptions /\ j + 1 \in 0 .. NumOptions /\ j \in 0 .. NumOptions
      OBVIOUS
    <2>3. c \in 0 .. sum - 1
      <3>1. prefix[0] <= prefix[j]
        <4>1. \A i \in 0 .. NumOptions : prefix[i] \in Int
          BY <2>1 DEF Others
        <4>2. 0 < j => prefix[0] + 3 <= prefix[j]
          BY <2>1, <2>2 DEF PrefixUpTo
        <4>3. j = 0 \/ 0 < j
          OBVIOUS
        <4> QED
          BY <2>2, <4>1, <4>2, <4>3
      <3>2. prefix[j] + 3 <= prefix[NumOptions]
        BY <2>1, <2>2 DEF PrefixUpTo
      <3>3. prefix[0] = 0 /\ prefix[j] \in Int /\ sum \in Int
        BY <2>1, <2>2 DEF PrefixUpTo, Others
      <3>4. 0 <= prefix[j] /\ prefix[j] + 3 <= sum
        BY <2>1, <3>1, <3>2, <3>3
      <3> QED
        BY <3>3, <3>4
    <2>4. c <= prefix[j + 1]
      BY <2>1, <2>2, SMTT(30) DEF PrefixUpTo, Others
    <2>5. c > prefix[j]
      BY <2>1, <2>2 DEF Others
    <2>6. c \in DrawsFor(j)
      BY <2>3, <2>4, <2>5 DEF DrawsFor
    <2> QED
      BY <2>6
  <1> QED
    BY <1>1, Soundness, PTL

\* The option taken is the one whose drawn values include the draw, whatever
\* the history of the weights.
THEOREM TakesDrawnOptionAlways == Spec => []TakesDrawnOption
  <1>1. IInv => TakesDrawnOption
    <2> SUFFICES ASSUME IInv, pc = "walk", ~overflowed, o # Null,
                        ch <= randweight[o]
                 PROVE  draw \in DrawsFor(o)
      BY DEF TakesDrawnOption
    <2>1. Others /\ Sound
      BY TypeParts DEF IInv
    <2>2. Walking /\ o \in Options /\ PrefixUpTo(prefix, randweight, NumOptions)
      BY <2>1 DEF Sound, Walking
    <2>3. prefix[o + 1] = prefix[o] + randweight[o]
      <3>1. \A i \in Options : i < NumOptions => prefix[i + 1] = prefix[i] + randweight[i]
        BY <2>2 DEF PrefixUpTo
      <3> QED
        BY <2>2, <3>1, OptionsAssumption DEF Options
    <2>4. /\ prefix[o] \in Int /\ randweight[o] \in Int /\ draw \in Int
          /\ ch = draw - prefix[o]
      BY <2>1, <2>2, OptionsAssumption DEF Others, Options, Walking
    <2>5. draw <= prefix[o + 1]
      BY <2>3, <2>4
    <2>6. ASSUME o > 0 PROVE draw > prefix[o]
      <3>1. o - 1 \in Options /\ o - 1 < o /\ (o - 1) + 1 = o
        BY <2>2, <2>6, OptionsAssumption DEF Options
      <3>2. draw > prefix[(o - 1) + 1]
        BY <2>2, <3>1 DEF Walking
      <3> QED
        BY <3>1, <3>2
    <2> QED
      BY <2>2, <2>5, <2>6 DEF Walking, DrawsFor
  <1> QED
    BY <1>1, Soundness, PTL

\* Each choice leaves the chosen option lighter than all the others.
THEOREM AntiSerialityAlways == Spec => AntiSeriality
  <1>1. IInv /\ [Next]_vars =>
          [ (pc = "walk" /\ pc' = "idle" /\ ~overflowed') =>
              \A i \in Options \ {chosen'} :
                randweight'[i] >= randweight'[chosen'] + 3 ]_vars
    <2> SUFFICES ASSUME IInv, Next, pc = "walk", pc' = "idle", ~overflowed',
                        NEW i \in Options \ {chosen'}
                 PROVE  randweight'[i] >= randweight'[chosen'] + 3
      OBVIOUS
    <2>1. Take
      BY DEF Next, Step, Finished, Call, OldChoice, SumWeight, Draw, Walk,
             NullOption, vars, locals
    <2>2. Others /\ Sound /\ o \in Options
      <3>1. ~overflowed /\ o # Null
        BY <2>1, Zenon DEF Take
      <3>2. Others /\ Sound
        BY <3>1, TypeParts DEF IInv
      <3> QED
        BY <3>1, <3>2, OptionsAssumption DEF Others, Options, Null
    <2>3. /\ chosen' = o
          /\ \A k \in Options : randweight'[k] = IncrOptionWeight(Lightened(o, k))
          /\ \A k \in Options : IncrFits(Lightened(o, k))
      BY <2>1 DEF Take
    <2>4. /\ Lightened(o, o) = 1
          /\ Lightened(o, i) = randweight[i]
          /\ randweight[i] >= 3 /\ randweight[i] \in Int
      BY <2>2, <2>3 DEF Others, Sound, Lightened
    <2>5. randweight'[o] = 3
      BY <2>2, <2>3, <2>4, IncrGrows
    <2>6. randweight'[i] >= 6
      BY <2>3, <2>4, IncrGrows
    <2>7. randweight'[i] \in Int
      BY <2>3, <2>4, IncrInt
    <2> QED
      BY <2>3, <2>5, <2>6, <2>7
  <1> QED
    BY <1>1, Soundness, PTL DEF Spec, AntiSeriality
=============================================================================
