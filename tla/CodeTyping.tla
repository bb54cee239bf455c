----------------------------- MODULE CodeTyping -----------------------------
(***************************************************************************)
(* What exec_stream() takes for granted about a block of code, as a        *)
(* condition on the block alone: nothing in pb checks it.                  *)
(*                                                                         *)
(* In front of every instruction the cells that the block has pushed are   *)
(* described: whether a cell holds an integer for certain, and whether it  *)
(* is the very text of a variable (`of'), which PUSHV does not copy.       *)
(* `spent' has the variables whose texts an operator has freed since.      *)
(***************************************************************************)
EXTENDS ResolverInv

NoVar == ""

OwnCell(type) == [type |-> type, of |-> NoVar]
Points      == [stack : Seq([type : {"int", "any"}, of : STRING]), spent : SUBSET STRING]
AtEntry     == [stack |-> <<>>, spent |-> {}]

\* How many cells an instruction takes off the stack, and the cells that stay.
Pops(op) == IF op \in Operators THEN 2 ELSE IF op \in {"SET", "EMIT"} THEN 1 ELSE 0
Rest(instr, pt)  == SubSeq(pt.stack, 1, Len(pt.stack) - Pops(instr.op))
Taken(instr, pt) == SubSeq(pt.stack, Len(pt.stack) + 1 - Pops(instr.op), Len(pt.stack))

AreInts(cells) == \A i \in DOMAIN cells : cells[i].type = "int"
Lenders(cells) == {cells[i].of : i \in DOMAIN cells} \ {NoVar}

\* What a push leaves on top.
Pushed(instr, pt, ints) ==
  CASE instr.op = "PUSH" /\ instr.type = "int_t" -> OwnCell("int")
    [] instr.op = "PUSHV" /\ instr.name \in ints -> OwnCell("int")
    [] instr.op = "PUSHV" /\ instr.name \notin ints -> [type |-> "any", of |-> instr.name]
    [] instr.op \in Operators /\ AreInts(Taken(instr, pt)) -> OwnCell("int")
    [] OTHER                                     -> OwnCell("any")

\* A text that a variable no longer holds is the cell's own.
Released(cells, name) ==
  [i \in DOMAIN cells |-> IF cells[i].of = name THEN OwnCell(cells[i].type) ELSE cells[i]]

After(instr, pt, ints) ==
  CASE instr.op = "SET"  -> [stack |-> Released(Rest(instr, pt), instr.name),
                             spent |-> pt.spent \ {instr.name}]
    [] instr.op = "EMIT" -> [pt EXCEPT !.stack = Rest(instr, pt)]
    [] OTHER -> [stack |-> Append(Rest(instr, pt), Pushed(instr, pt, ints)),
                 spent |-> pt.spent \cup Lenders(Taken(instr, pt))]

\* The description in front of every instruction, and after the last.
Typing(code, ints) ==
  LET pt[i \in 0 .. Len(code)] == IF i = 0 THEN AtEntry ELSE After(code[i], pt[i - 1], ints)
  IN  pt

\* The cells that the instruction takes are there, and integers where it counts
\* on integers: an operator but `+', and a variable that is to hold integers.
Fits(instr, pt, ints) ==
  /\ Len(pt.stack) >= Pops(instr.op)
  /\ instr.op \in Operators \ {"ADD"} => AreInts(Taken(instr, pt))
  /\ instr.op = "SET" /\ instr.name \in ints => AreInts(Taken(instr, pt))
  /\ instr.op = "EMIT" => Len(pt.stack) = 1

IsTyping(pt, code, ints) ==
  /\ pt[0] = AtEntry
  /\ \A i \in 0 .. Len(code) : pt[i] \in Points
  /\ \A i \in 1 .. Len(code) :
       pt[i] = After(code[i], pt[i - 1], ints) /\ Fits(code[i], pt[i - 1], ints)
  /\ pt[Len(code)].stack = <<>>

Blocks(s) == {n \in NodeNumbers(s) : s.nodes[n].type = "code"}

\* The variables that the blocks of a script name.
VarNames(s) ==
  {instr.name : instr \in {i \in UNION {ToSet(s.nodes[n].code) : n \in Blocks(s)} :
                             i.op \in {"SET", "PUSHV"}}}

\* Every block is well-typed if these variables hold integers only; a definition
\* outside of the blocks gives a variable a text.
TypedWith(s, ints) ==
  /\ \A n \in Blocks(s) : IsTyping(Typing(s.nodes[n].code, ints), s.nodes[n].code, ints)
  /\ \A n \in NodeNumbers(s) :
       s.nodes[n].type \in {"var_def", "var_conddef"} => s.nodes[n].data \notin ints

WellTyped(s) == \E ints \in SUBSET VarNames(s) : TypedWith(s, ints)

\* Nobody frees, takes away or hands out a text that a variable still needs: it
\* is pushed once, goes back to its variable or is replaced there, before the
\* block ends or a rule is invoked.
Careful(instr, pt, ints) ==
  /\ instr.op = "PUSHV" /\ instr.name \notin ints =>
       instr.name \notin {NoVar} \cup pt.spent \cup Lenders(pt.stack)
  /\ instr.op = "SET" => Lenders(Taken(instr, pt)) \subseteq {instr.name}
  /\ instr.op \in {"INVOKE", "EMIT"} => pt.spent = {} /\ Lenders(pt.stack) = {}

IsCareful(pt, code, ints) ==
  /\ \A i \in 1 .. Len(code) : Careful(code[i], pt[i - 1], ints)
  /\ pt[Len(code)].spent = {}

CarefulWith(s, ints) ==
  /\ TypedWith(s, ints)
  /\ \A n \in Blocks(s) : IsCareful(Typing(s.nodes[n].code, ints), s.nodes[n].code, ints)

CarefulScript(s) == \E ints \in SUBSET VarNames(s) : CarefulWith(s, ints)
-----------------------------------------------------------------------------
\* The invariant.  A block that is not on top waits for the rule it invokes, and
\* so does one that is handed a text; one on top goes on or is handed a text.
InvokeDue(f) == f.done < Len(CodeOf(f)) /\ CodeOf(f)[f.done + 1].op = "INVOKE"

WaitsAt(i) ==
  kont[i].kind = "code" =>
    /\ kont[i].done <= Len(CodeOf(kont[i]))
    /\ i < Len(kont) \/ focus.at = "return" => InvokeDue(kont[i])
    /\ i = Len(kont) => focus.at \in {"next", "return"}

WaitInv == \A i \in 1 .. Len(kont) : WaitsAt(i)

\* What is known of the cells that a block has on the stack, and the height up
\* to which they reach.
TypingAt(i, ints) == Typing(CodeOf(kont[i]), ints)[kont[i].done]
CellsOf(i, ints)  == TypingAt(i, ints).stack
Height(i, ints)   == kont[i].base + Len(CellsOf(i, ints))

\* The same of the block that runs.
Here(ints) == Typing(CodeOf(Frame), ints)[Frame.done]

Innermost(i) == i \in CodeFrames /\ \A k \in CodeFrames : k <= i
Outermost(i) == i \in CodeFrames /\ \A k \in CodeFrames : i <= k
Within(i, j) == /\ i \in CodeFrames /\ j \in CodeFrames /\ i < j
                /\ \A k \in CodeFrames : k <= i \/ j <= k

\* Every block begins where the one around it has left off; the innermost ends
\* at the top of the stack.
HeightsMeet(ints) ==
  /\ \A i \in CodeFrames : Innermost(i) => Len(mem.stack) = Height(i, ints)
  /\ \A i, j \in CodeFrames : Within(i, j) => kont[j].base = Height(i, ints)
  /\ \A i, j \in CodeFrames : i < j => kont[j].base >= Height(i, ints)
  /\ \A i \in CodeFrames : Len(mem.stack) >= Height(i, ints)
  /\ \A i \in CodeFrames : Outermost(i) => kont[i].base = 0
  /\ CodeFrames = {} => mem.stack = <<>>

\* The cells and the variables that should hold integers do.
IntsAreInts(ints) ==
  /\ \A i \in CodeFrames : \A k \in DOMAIN CellsOf(i, ints) :
       CellsOf(i, ints)[k].type = "int" => mem.stack[kont[i].base + k].type = "int_t"
  /\ \A name \in ints \cap DOMAIN mem.vars : mem.vars[name].type = "int_t"

StackInv(ints) ==
  /\ TypedWith(script, ints)
  /\ mem.fault # "underflow"
  /\ NoFault => HeightsMeet(ints) /\ IntsAreInts(ints)
=============================================================================
