------------------------------ MODULE Machine ------------------------------
(***************************************************************************)
(* src/src/machine.c: the stack machine that runs the code blocks of a     *)
(* script.  INVOKE, which calls back into the resolver, and EMIT, which    *)
(* ends the block, are completed by the module Resolver.                   *)
(***************************************************************************)
EXTENDS Memory

CONSTANT StackSize      \* STACK_SIZE, the cells of the static stack

ASSUME StackAssumption == StackSize \in Nat \ {0}

Push(m, cell) ==
  IF Len(m.stack) = StackSize THEN Fail(m, "overflow")
  ELSE [m EXCEPT !.stack = Append(@, cell)]

\* A slip: the cells that were pushed first are popped first.
PopOldest(m, n) ==
  IF Len(m.stack) < n THEN Fail(m, "underflow")
  ELSE [m EXCEPT !.stack = SubSeq(@, n + 1, Len(@))]

\* The n-th cell from the top, and the memory once n cells were popped.
Cell(m, n) == m.stack[Len(m.stack) + 1 - n]
Pop(m, n) ==
  IF Len(m.stack) < n THEN Fail(m, "underflow")
  ELSE [m EXCEPT !.stack = SubSeq(@, 1, Len(@) - n)]

\* C's division, which rounds towards zero, and the remainder that goes with it.
Magnitude(a)    == IF a < 0 THEN -a ELSE a
Quotient(a, b)  == LET q == Magnitude(a) \div Magnitude(b)
                   IN  IF (a < 0) = (b < 0) THEN q ELSE -q
Remainder(a, b) == a - b * Quotient(a, b)

\* What an operator can leave for the integers a and b, a pushed before b; it
\* is nothing when the processor traps the division.
Results(op, a, b) ==
  CASE op = "ADD"     -> {a + b}
    [] op = "SUB"     -> {a + b}
    [] op = "MUL"     -> {a * b}
    [] op = "DIV"     -> IF b = 0 THEN {} ELSE {Quotient(a, b)}
    [] op = "MOD"     -> IF b = 0 THEN {} ELSE {Remainder(a, b)}
    [] op = "RANDOM"  -> {a + r : r \in 0 .. Magnitude(b - a + 1) - 1}
    [] op = "LESSER"  -> {IF a < b THEN a ELSE b}
    [] op = "GREATER" -> {IF a > b THEN a ELSE b}

Operators == {"ADD", "SUB", "MUL", "DIV", "MOD", "RANDOM", "LESSER", "GREATER"}

\* itoa() for an integer operand of a concatenation; a text is taken as it is.
AsText(m, cell) == IF cell.type = "int_t" THEN Alloc(m, Numeral(cell.v)) ELSE m
TextOf(m, cell) == IF cell.type = "int_t" THEN Newest(m) ELSE cell.v

\* concat() of strfunc.c.
Concat(m, a, b) ==
  LET readA == IF a = Null THEN m ELSE Read(m, a)
      readB == IF b = Null THEN readA ELSE Read(readA, b)
  IN  IF a = Null /\ b = Null THEN m
      ELSE Alloc(readB, TextAt(m, a) \o TextAt(m, b))

\* A slip: the operands in the order they are popped.
JoinSwapped(m, left, right) ==
  LET m0 == AsText(m, right)
      m1 == AsText(m0, left)
      s0 == TextOf(m0, right)
      s1 == TextOf(m1, left)
      m2 == Concat(m1, s0, s1)
  IN  Free(Free(Push(m2, StrCell(Newest(m2))), s0), s1)

\* ADD with a text operand: both operands become texts and are freed once
\* joined, whoever else holds them.
Join(m, left, right) ==
  LET m0 == AsText(m, right)
      m1 == AsText(m0, left)
      s0 == TextOf(m0, right)
      s1 == TextOf(m1, left)
      m2 == Concat(m1, s1, s0)
      s  == IF s0 = Null /\ s1 = Null THEN Null ELSE Newest(m2)
  IN  Free(Free(Push(m2, StrCell(s)), s0), s1)

\* Any other operator pushes nothing for a text operand.
Operate(m, op) ==
  LET left   == Cell(m, 2)
      right  == Cell(m, 1)
      popped == Pop(m, 2)
  IN  IF Len(m.stack) < 2 THEN {popped}
      ELSE IF left.type = "int_t" /\ right.type = "int_t"
        THEN IF Results(op, left.v, right.v) = {} THEN {Fail(popped, "trap")}
             ELSE {Push(popped, IntCell(r)) : r \in Results(op, left.v, right.v)}
      ELSE IF op = "ADD" THEN {Join(popped, left, right)}
      ELSE {popped}

\* A slip: the cell stays on the stack.
SetKeeps(m, name) ==
  IF m.stack = <<>> THEN Pop(m, 1) ELSE VarPut(m, name, Cell(m, 1))

\* SET pops a cell, without copying its text, into a variable.
Set(m, name) ==
  IF m.stack = <<>> THEN Pop(m, 1) ELSE VarPut(Pop(m, 1), name, Cell(m, 1))

\* PUSHV pushes what the variable holds, without copying its text.
PushVar(m, name) ==
  IF name \in DOMAIN m.vars THEN Push(m, m.vars[name]) ELSE Fail(m, "null")

\* PUSH copies a literal text.
PushLiteral(m, instr) ==
  IF instr.type = "int_t" THEN Push(m, IntCell(instr.i))
  ELSE LET copied == Alloc(m, Text(instr.word)) IN Push(copied, StrCell(Newest(copied)))

\* exec_instr(), for the instructions that neither call nor return.
ExecInstr(m, instr) ==
  CASE instr.op = "SET"   -> {Set(m, instr.name)}
    [] instr.op = "PUSHV" -> {PushVar(m, instr.name)}
    [] instr.op = "PUSH"  -> {PushLiteral(m, instr)}
    [] instr.op \in Operators -> Operate(m, instr.op)

\* A slip: the result stays on the stack.
EmitPeeks(m) ==
  IF m.stack = <<>> THEN Pop(m, 1) ELSE AsText(m, Cell(m, 1))

\* EMIT pops the block's result: an integer as a new text, a text as it is.
Emit(m) ==
  IF m.stack = <<>> THEN Pop(m, 1) ELSE AsText(Pop(m, 1), Cell(m, 1))
Emitted(m) ==
  IF m.stack = <<>> THEN Null ELSE TextOf(Emit(m), Cell(m, 1))
=============================================================================
