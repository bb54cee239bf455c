------------------------------ MODULE OwnerInv ------------------------------
(***************************************************************************)
(* Who answers for a text: the invariant behind NoSharedText and           *)
(* HeldTextsLive.  Besides the waiting functions, the variables and the    *)
(* result in flight, a cell of the operand stack may own its text; one     *)
(* that PUSHV pushed has it on loan from the variable, until an operator   *)
(* has freed it or the variable gets another one.                          *)
(***************************************************************************)
EXTENDS CodeTyping

\* Only while a block of code is on top and goes on is a text on loan from a
\* variable, or a variable left with a text that was freed.
BlockRuns == kont # <<>> /\ Frame.kind = "code" /\ focus.at = "next"

Lent(ints)  == IF BlockRuns THEN {k \in DOMAIN Here(ints).stack : Here(ints).stack[k].of # NoVar}
               ELSE {}
Spent(ints) == IF BlockRuns THEN Here(ints).spent ELSE {}

LentCells(ints) == {Frame.base + k : k \in Lent(ints)}
OwnCells(ints)  ==
  {j \in DOMAIN mem.stack : mem.stack[j].type = "string_t"} \ LentCells(ints)

\* Whoever answers for texts: waiting functions, variables, cells, and the caller
\* that has not yet taken a result.
AFrame(i) == <<"frame", i>>
AVar(n)   == <<"var", n>>
ACell(j)  == <<"cell", j>>
Flight    == <<"flight">>

Holders(ints) ==
  {AFrame(i) : i \in DOMAIN kont} \cup {AVar(n) : n \in TextVars}
    \cup {ACell(j) : j \in OwnCells(ints)} \cup {Flight}

ListOf(h) ==
  CASE h[1] = "frame"  -> OwnedBy(kont[h[2]])
    [] h[1] = "var"    -> <<mem.vars[h[2]].v>>
    [] h[1] = "cell"   -> <<mem.stack[h[2]].v>>
    [] h[1] = "flight" -> InFlight

TextsOf(h) == Texts(ListOf(h))

\* A text has one holder, which has it once.
Apart(ints) ==
  /\ \A h \in Holders(ints) : OnceEach(ListOf(h))
  /\ \A h, g \in Holders(ints) : h # g => TextsOf(h) \cap TextsOf(g) = {}

\* It can still be read and freed, unless a block is about to replace it.
Live(p) == mem.heap[p].state = "live"

HeldLive(ints) ==
  /\ \A h \in Holders(ints) \ {AVar(n) : n \in Spent(ints)} : \A p \in TextsOf(h) : Live(p)
  /\ mem.heap[Undefined].state = "constant"

\* A cell on loan is what its variable holds, and the variable lends it once.
Loans(ints) ==
  /\ \A k \in Lent(ints) :
       /\ Here(ints).stack[k].of \in DOMAIN mem.vars \ Spent(ints)
       /\ mem.stack[Frame.base + k] = mem.vars[Here(ints).stack[k].of]
  /\ \A k, l \in Lent(ints) : k # l => Here(ints).stack[k].of # Here(ints).stack[l].of

\* Nobody who could free one of these texts returns before the frame at this level.
Safe(ps, level, ints) ==
  \A p \in Texts(ps) :
    /\ Live(p)
    /\ \A h \in Holders(ints) : p \in TextsOf(h) => h \in {AFrame(i) : i \in 1 .. level - 1}

\* The actual parameters that a waiting function may still copy.
ActualsSafe(ints) ==
  /\ \A i \in DOMAIN kont : "env" \in DOMAIN kont[i] => Safe(kont[i].env.cooked, i, ints)
  /\ focus.at = "atom" => Safe(focus.env.cooked, Len(kont) + 1, ints)

OwnerInv(ints) ==
  /\ CarefulWith(script, ints)
  /\ mem.fault # "stale"
  /\ NoFault => Apart(ints) /\ HeldLive(ints) /\ Loans(ints) /\ ActualsSafe(ints)

\* The inductive invariant of the resolver: in any state of a run, whatever is
\* in progress, types, operand stack and texts are in order.
TextInv ==
  /\ TypeInv /\ WaitInv
  /\ \E ints \in SUBSET VarNames(script) : StackInv(ints) /\ OwnerInv(ints)
=============================================================================
