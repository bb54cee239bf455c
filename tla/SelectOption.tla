---------------------------- MODULE SelectOption ----------------------------
(***************************************************************************)
(* select_option() of src/src/resolve.c: how the resolver picks one option *)
(* of a rule.  It is called again and again on the same option list, whose *)
(* weights it rewrites; every call is taken one loop iteration at a time.  *)
(*                                                                         *)
(* Options are the positions 0..NumOptions-1 of the list; the pointer that *)
(* follows the last option's `next' is Null.  int arithmetic wraps the way *)
(* the -g build of src/src/Makefile.in compiles it (two's complement).     *)
(***************************************************************************)
EXTENDS Integers

CONSTANTS
  NumOptions,       \* option_length(rule->options)
  IntMax,           \* INT_MAX of the build
  Modes,            \* the enum resmode values that callers pass
  MaxCalls          \* bound on the number of calls of a behaviour

ASSUME OptionsAssumption == NumOptions \in Nat \ {0}
ASSUME IntMaxAssumption  == IntMax \in Nat /\ IntMax >= 4
ASSUME ModesAssumption   == Modes \subseteq {"plain", "unique", "enumerate", "pick"}
ASSUME CallsAssumption   == MaxCalls \in Nat

VARIABLES
  old_probability,  \* the -p switch of pb
  randweight,       \* Option.randweight of every option
  last_choice,      \* Rule.last_choice, -1 before the first old-style choice
  pc,               \* where select_option() is
  sum, ch, o,       \* its locals
  chosen,           \* the option the latest finished call returned
  calls,            \* calls begun, for MaxCalls
  draw,             \* auxiliary: the value ch was drawn with
  prefix,           \* auxiliary: prefix[i] is what `sum' was before option i
  overflowed        \* auxiliary: some int result so far did not fit

locals == <<sum, ch, o, draw, prefix>>
vars == <<old_probability, randweight, last_choice, pc, locals, chosen, calls,
          overflowed>>
-----------------------------------------------------------------------------
Options == 0 .. NumOptions - 1
Null    == NumOptions

Fits(x) == -IntMax - 1 <= x /\ x <= IntMax

\* What an int holds after the value x was stored in it.
Wrap(x) == IF Fits(x) THEN x
           ELSE ((x + IntMax + 1) % (2 * (IntMax + 1))) - IntMax - 1

\* C's x/2, which rounds towards zero.
HalfOf(x) == IF x >= 0 THEN x \div 2 ELSE -((-x) \div 2)

\* _incr_option_weight(): every option grows by about one half.
IncrOptionWeight(w) == HalfOf(Wrap(3 * Wrap(w + 1)))
IncrFits(w)         == Fits(3 * (w + 1))

\* The weight of option i once the chosen option j is made light.
Lightened(j, i) == IF i = j THEN 1 ELSE randweight[i]

NoPrefix == [i \in 0 .. NumOptions |-> 0]
-----------------------------------------------------------------------------
Init ==
  /\ old_probability \in BOOLEAN
  /\ randweight = [i \in Options |-> 4]       \* option_cons()
  /\ last_choice = -1                         \* rule_new()
  /\ pc = "idle"
  /\ sum = 0 /\ ch = 0 /\ o = 0 /\ draw = 0 /\ prefix = NoPrefix
  /\ chosen = -1
  /\ calls = 0
  /\ overflowed = FALSE

\* The resolver calls select_option(options, &last_choice, mode).
Call(mode) ==
  /\ pc = "idle"
  /\ calls < MaxCalls
  /\ calls' = calls + 1
  /\ pc' = IF old_probability /\ mode = "plain" THEN "old" ELSE "sum"
  /\ UNCHANGED <<old_probability, randweight, last_choice, locals, chosen,
                 overflowed>>

\* A slip: the position after the chosen one is remembered.
OldChoiceOffByOne(choice) ==
  /\ pc = "old"
  /\ ~(choice = last_choice /\ NumOptions > 1)
  /\ last_choice' = choice + 1
  /\ chosen' = choice
  /\ pc' = "idle"
  /\ UNCHANGED <<old_probability, randweight, locals, calls, overflowed>>

\* The old way: draw until the choice differs from the last one.  A rejected
\* draw changes nothing, so only the draw that ends the loop is a step.
OldChoice(choice) ==
  /\ pc = "old"
  /\ ~(choice = last_choice /\ NumOptions > 1)
  /\ last_choice' = choice
  /\ chosen' = choice
  /\ pc' = "idle"
  /\ UNCHANGED <<old_probability, randweight, locals, calls, overflowed>>

\* A slip: the last option is left out of the sum.
SumStopsShort ==
  /\ pc = "sum"
  /\ sum' = Wrap(sum + randweight[o])
  /\ overflowed' = (overflowed \/ ~Fits(sum + randweight[o]))
  /\ prefix' = [prefix EXCEPT ![o + 1] = sum']
  /\ IF o + 2 = Null THEN pc' = "draw" /\ o' = 0
                     ELSE pc' = "sum"  /\ o' = o + 1
  /\ UNCHANGED <<old_probability, randweight, last_choice, ch, draw, chosen,
                 calls>>

\* One step of option_map(_sum_option_weights).
SumWeight ==
  /\ pc = "sum"
  /\ sum' = Wrap(sum + randweight[o])
  /\ overflowed' = (overflowed \/ ~Fits(sum + randweight[o]))
  /\ prefix' = [prefix EXCEPT ![o + 1] = sum']
  /\ IF o + 1 = Null THEN pc' = "draw" /\ o' = 0
                     ELSE pc' = "sum"  /\ o' = o + 1
  /\ UNCHANGED <<old_probability, randweight, last_choice, ch, draw, chosen,
                 calls>>

\* ch = sum ? random()%sum : 0.  random() is a long in 0..2^31-1, so the
\* remainder by a negative sum is not negative either.
Draw ==
  /\ pc = "draw"
  /\ ch' \in IF sum = 0 THEN {0}
             ELSE 0 .. (IF sum > 0 THEN sum ELSE -sum) - 1
  /\ draw' = ch'
  /\ pc' = "walk"
  /\ UNCHANGED <<old_probability, randweight, last_choice, sum, o, prefix,
                 chosen, calls, overflowed>>

\* A slip: the walk forgets to take the weights it passes off the draw.
WalkKeepsDraw ==
  /\ pc = "walk"
  /\ o # Null
  /\ ch > randweight[o]
  /\ o' = o + 1
  /\ UNCHANGED <<old_probability, randweight, last_choice, pc, sum, ch, draw,
                 prefix, chosen, calls, overflowed>>

\* A slip: the walk moves on before it takes the weight off, not after.
WalkMovesFirst ==
  /\ pc = "walk"
  /\ o # Null
  /\ ch > randweight[o]
  /\ ch' = IF o + 1 = Null THEN ch ELSE ch - randweight[o + 1]
  /\ o' = o + 1
  /\ UNCHANGED <<old_probability, randweight, last_choice, pc, sum, draw,
                 prefix, chosen, calls, overflowed>>

\* A slip: the draw is not reduced and the walk starts over at the list's end.
WalkInCircles ==
  /\ pc = "walk"
  /\ o # Null
  /\ ch > randweight[o]
  /\ o' = IF o + 1 = Null THEN 0 ELSE o + 1
  /\ UNCHANGED <<old_probability, randweight, last_choice, pc, sum, ch, draw,
                 prefix, chosen, calls, overflowed>>

\* One iteration of while(ch > o->randweight).
Walk ==
  /\ pc = "walk"
  /\ o # Null
  /\ ch > randweight[o]
  /\ ch' = Wrap(ch - randweight[o])
  /\ overflowed' = (overflowed \/ ~Fits(ch - randweight[o]))
  /\ o' = o + 1
  /\ UNCHANGED <<old_probability, randweight, last_choice, pc, sum, draw,
                 prefix, chosen, calls>>

\* The loop condition reads o->randweight through a null pointer.
NullOption ==
  /\ pc = "walk"
  /\ o = Null
  /\ pc' = "crashed"
  /\ UNCHANGED <<old_probability, randweight, last_choice, locals, chosen,
                 calls, overflowed>>

\* A slip: the option taken keeps its weight and grows with the others.
TakeWithoutReset ==
  /\ pc = "walk"
  /\ o # Null
  /\ ch <= randweight[o]
  /\ randweight' = [i \in Options |-> IncrOptionWeight(randweight[i])]
  /\ overflowed' = (overflowed \/ \E i \in Options : ~IncrFits(randweight[i]))
  /\ chosen' = o
  /\ pc' = "idle"
  /\ sum' = 0 /\ ch' = 0 /\ o' = 0 /\ draw' = 0 /\ prefix' = NoPrefix
  /\ UNCHANGED <<old_probability, last_choice, calls>>

\* The walk stops: the option found is made light, then all options grow.
Take ==
  /\ pc = "walk"
  /\ o # Null
  /\ ch <= randweight[o]
  /\ randweight' = [i \in Options |-> IncrOptionWeight(Lightened(o, i))]
  /\ overflowed' = (overflowed \/ \E i \in Options : ~IncrFits(Lightened(o, i)))
  /\ chosen' = o
  /\ pc' = "idle"
  /\ sum' = 0 /\ ch' = 0 /\ o' = 0 /\ draw' = 0 /\ prefix' = NoPrefix
  /\ UNCHANGED <<old_probability, last_choice, calls>>

\* The program ends, or was ended by the bad read.
Finished ==
  /\ pc = "crashed" \/ (pc = "idle" /\ calls = MaxCalls)
  /\ UNCHANGED vars

Step == SumWeight \/ Draw \/ Walk \/ NullOption \/ Take
          \/ \E choice \in Options : OldChoice(choice)

Next == Step \/ (\E mode \in Modes : Call(mode)) \/ Finished

Spec     == Init /\ [][Next]_vars
FairSpec == Spec /\ WF_vars(Step)
-----------------------------------------------------------------------------
TypeOK ==
  /\ old_probability \in BOOLEAN
  /\ randweight \in [Options -> Int]
  /\ last_choice \in Options \cup {-1}
  /\ pc \in {"idle", "old", "sum", "draw", "walk", "crashed"}
  /\ sum \in Int /\ ch \in Int /\ draw \in Int
  /\ o \in 0 .. NumOptions
  /\ prefix \in [0 .. NumOptions -> Int]
  /\ chosen \in Options \cup {-1}
  /\ calls \in 0 .. MaxCalls
  /\ overflowed \in BOOLEAN

\* As long as no int has overflowed, the walk over the options never runs off
\* the end of the list: `o' is dereferenced only while it is an option.
WalkStaysInList == ~overflowed => ~(pc = "walk" /\ o = Null)

\* The drawn values that stand for option j.  The walk compares with `>' and
\* the draws start at 0: the first option of several has one value more than
\* its weight, the last one value less, each other as many as its weight.
DrawsFor(j) == { c \in 0 .. sum - 1 : (j > 0 => c > prefix[j]) /\ c <= prefix[j + 1] }

\* However the weights have moved, every option but the one chosen last can be
\* drawn: none is starved, not even the last one of the list, which is a value
\* short.  (Whether the one chosen last can be drawn too is NeverTwice.)
EveryOtherSelectable ==
  (pc = "draw" /\ ~overflowed) =>
    \A j \in Options : j # chosen => DrawsFor(j) # {}

\* The walk stops at the option that the value drawn before the walk began
\* stands for, whatever the weights before that option have become.
TakesDrawnOption ==
  (pc = "walk" /\ ~overflowed /\ o # Null /\ ch <= randweight[o]) =>
    draw \in DrawsFor(o)

\* The manual, doc/dada.texi:388: "If a rule has several options, the same
\* option will never be chosen twice in immediate succession."
NeverTwice ==
  [][ (pc \in {"old", "walk"} /\ pc' = "idle" /\ NumOptions > 1) =>
        chosen' # chosen ]_vars

\* Counteracting seriality: the option just chosen is left lighter than every
\* other one, by a margin that survives the walk's off-by-one.
AntiSeriality ==
  [][ (pc = "walk" /\ pc' = "idle" /\ ~overflowed') =>
        \A i \in Options \ {chosen'} :
          randweight'[i] >= randweight'[chosen'] + 3 ]_vars

\* A call that was begun returns an option, unless the arithmetic overflowed.
CallReturns == (pc \notin {"idle", "crashed"}) ~> (pc = "idle" \/ overflowed)
=============================================================================
