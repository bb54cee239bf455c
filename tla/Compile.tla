------------------------------ MODULE Compile ------------------------------
(***************************************************************************)
(* Embedded code, from the characters between the braces to instructions:  *)
(* the scanner with its longest matches, the parser that yacc makes of the *)
(* grammar and its precedences, and the lists that the actions put together.*)
(* A character is a string of length one, a token [t, v], an instruction   *)
(* [op, v]; what is on the parser's stack is [s, v], where v is a token's  *)
(* text or a list of instructions.                                         *)
(***************************************************************************)
EXTENDS Integers, SequencesExt, FiniteSetsExt

CONSTANTS
  Letters, Digits,   \* the characters of identifiers and numbers
  Programs,          \* what is compiled: sequences of statements
  Spacings           \* which operators stand between blanks: "all", "minus" or "none"

VARIABLES
  pc,        \* "parse", "accept" or "error"
  program,   \* the statements that the text was written from
  spacing,   \* and how it was written
  text,      \* the characters that are left
  la,        \* the lookahead token, or NoToken
  stack      \* the parser's stack

vars == <<pc, program, spacing, text, la, stack>>

-----------------------------------------------------------------------------
(* The scanner.                                                            *)

Token(t, v) == [t |-> t, v |-> v]
NoToken == Token("none", <<>>)
Blank == " "
Operators == {"..", "<<", ">>", "+", "-", "*", "/", "%"}
Signs == {<<".", ".">>, <<"<", "<">>, <<">", ">">>}
         \cup {<<c>> : c \in {"+", "-", "*", "/", "%", "(", ")", "=", ";", "@", "}"}}
\* Words that begin with a percent sign are tokens of the grammar of atoms.  The
\* scanner does not know that it is within braces, where no rule has a use for them.
Keywords ==
  {<<"%", "e">>, <<"%", "E">>, <<"%", "n">>, <<"%", "N">>,
   <<"%", "n", "u", "m">>, <<"%", "c", "o", "n", "d">>, <<"%", "e", "n", "u", "m">>,
   <<"%", "p", "i", "c", "k">>, <<"%", "t", "r", "a", "n", "s">>,
   <<"%", "e", "x", "i", "s", "t", "s">>, <<"%", "r", "e", "p", "e", "a", "t">>,
   <<"%", "u", "n", "i", "q", "u", "e">>, <<"%", "r", "e", "s", "o", "u", "r", "c", "e">>}
SignToken(w) == CASE w = <<".", ".">> -> ".." [] w = <<"<", "<">> -> "<<"
                  [] w = <<">", ">">> -> ">>" [] OTHER -> w[1]

AllIn(w, S) == ToSet(w) \subseteq S
IsInteger(w) == \/ w # <<>> /\ AllIn(w, Digits)
                \/ Len(w) > 1 /\ w[1] = "-" /\ AllIn(Tail(w), Digits)
IsIdent(w) == w # <<>> /\ w[1] \in Letters /\ AllIn(w, Letters \cup Digits \cup {"-"})
IsLiteral(w) == /\ Len(w) > 1 /\ w[1] = "\"" /\ w[Len(w)] = "\""
                /\ "\"" \notin ToSet(SubSeq(w, 2, Len(w) - 1))
IsToken(w) == IsInteger(w) \/ IsIdent(w) \/ IsLiteral(w) \/ w \in Signs \cup Keywords
TokenOf(w) == CASE w \in Signs -> Token(SignToken(w), <<>>)
                [] w \in Keywords -> Token("KEYWORD", w)
                [] IsInteger(w) -> Token("INTEGER", w)
                [] IsIdent(w)   -> Token("IDENT", w)
                [] OTHER        -> Token("LITERAL", SubSeq(w, 2, Len(w) - 1))

\* yylex(): the longest match from here on.
yylex ==
  /\ pc = "parse" /\ la = NoToken
  /\ LET blanks == SelectInSeq(text, LAMBDA c : c # Blank) - 1
         rest == SubSeq(text, blanks + 1, Len(text))
         N == {n \in 1..Len(rest) : IsToken(SubSeq(rest, 1, n))}
     IN  /\ N # {}
         /\ la' = TokenOf(SubSeq(rest, 1, Max(N)))
         /\ text' = SubSeq(rest, Max(N) + 1, Len(rest))
  /\ UNCHANGED <<pc, program, spacing, stack>>

-----------------------------------------------------------------------------
(* The instructions.                                                       *)

Instr(op, v) == [op |-> op, v |-> v]
OpCode(t) == CASE t = "+" -> "ADD" [] t = "-" -> "SUB" [] t = "*" -> "MUL"
               [] t = "/" -> "DIV" [] t = "%" -> "MOD" [] t = ".." -> "RANDOM"
               [] t = "<<" -> "LESSER" [] t = ">>" -> "GREATER"
\* A slip: the second list is hung to the first instruction, not the last.
icatFirst(a, b) == IF a = <<>> THEN b ELSE <<a[1]>> \o b
icat(a, b) == a \o b

-----------------------------------------------------------------------------
(* The parser.  What is on top of the stack, and below it, tells the state. *)

Entry(s, v) == [s |-> s, v |-> v]
At(i) == IF i < Len(stack) THEN stack[Len(stack) - i].s ELSE "{"
Top == At(0)
Value(i) == stack[Len(stack) - i].v

\* A slip: the two lines of the precedences exchanged.
PrecSwapped(t) == CASE t = ".." -> 1 [] t \in {"<<", ">>"} -> 2
                    [] t \in {"-", "+"} -> 4 [] t \in {"*", "/", "%"} -> 3

\* %left T_ELLIPSIS, then << and >>, then - and +, then * / %
Prec(t) == CASE t = ".." -> 1 [] t \in {"<<", ">>"} -> 2
             [] t \in {"-", "+"} -> 3 [] t \in {"*", "/", "%"} -> 4
BeforeOperand == Operators \cup {"(", "="}
BeforeStatement == {"{", ";"}
\* An expression is complete on top: an operator goes on with it, unless the
\* operation before it binds as tightly.
Shiftable(t) ==
  CASE t \in {"INTEGER", "LITERAL", "(", "@"} -> Top \in BeforeOperand
    [] t = "IDENT" -> Top \in BeforeOperand \cup BeforeStatement \cup {"@"}
    [] t = "="     -> Top \in BeforeStatement \/ (Top = "IDENT" /\ At(1) \in BeforeStatement)
    [] t \in Operators -> Top = "expr" /\ (At(1) \in Operators => Prec(t) > Prec(At(1)))
    [] t = ")"     -> Top = "expr" /\ At(1) = "("
    [] t = ";"     -> Top = "imperatives"
    [] OTHER       -> FALSE

Shift == /\ pc = "parse" /\ la # NoToken /\ Shiftable(la.t)
         /\ stack' = Append(stack, Entry(la.t, la.v)) /\ la' = NoToken
         /\ UNCHANGED <<pc, program, spacing, text>>

\* A production that can be applied: its n entries on top become one of kind s.
Handle(applies, n, s, v) == IF applies THEN {[n |-> n, s |-> s, v |-> v]} ELSE {}

\* expr: T_INTEGER, T_LITERAL, T_IDENT, T_DEREF T_IDENT, '(' expr ')'
Terms ==
  Handle(Top = "INTEGER", 1, "expr", <<Instr("PUSHI", Value(0))>>)
  \cup Handle(Top = "LITERAL", 1, "expr", <<Instr("PUSHS", Value(0))>>)
  \cup Handle(Top = "IDENT" /\ At(1) \in BeforeOperand, 1, "expr", <<Instr("PUSHV", Value(0))>>)
  \cup Handle(Top = "IDENT" /\ At(1) = "@", 2, "expr", <<Instr("INVOKE", Value(0))>>)
  \cup Handle(Top = ")", 3, "expr", Value(1))

\* expr: expr '+' expr and the like, once no operator that binds tighter follows.
Operations ==
  Handle(/\ Top = "expr" /\ At(1) \in Operators
         /\ la.t \in {")", ";", "}"} \/ (la.t \in Operators /\ ~Shiftable(la.t)),
         3, "expr", icat(Value(2), icat(Value(0), <<Instr(OpCode(At(1)), <<>>)>>)))

\* imperative: T_IDENT '=' expr, '=' expr
\* imperatives: nothing, imperative, imperatives ';' imperative
Statements ==
  LET ends == Top = "expr" /\ At(1) = "=" /\ la.t \in {";", "}"}
  IN  Handle(ends /\ At(2) = "IDENT", 3, "imperative", icat(Value(0), <<Instr("SET", Value(2))>>))
      \cup Handle(ends /\ At(2) # "IDENT", 2, "imperative", icat(Value(0), <<Instr("EMIT", <<>>)>>))
      \cup Handle(stack = <<>> /\ la.t \in {";", "}"}, 0, "imperatives", <<>>)
      \cup Handle(Top = "imperative" /\ Len(stack) = 1, 1, "imperatives", Value(0))
      \cup Handle(Top = "imperative" /\ Len(stack) > 1, 3, "imperatives", icat(Value(2), Value(0)))

Handles == Terms \cup Operations \cup Statements

Reduce == /\ pc = "parse"
          /\ \E h \in Handles :
               stack' = Append(SubSeq(stack, 1, Len(stack) - h.n), Entry(h.s, h.v))
          /\ UNCHANGED <<pc, program, spacing, text, la>>

Accept == /\ pc = "parse" /\ la.t = "}" /\ Top = "imperatives" /\ pc' = "accept"
          /\ UNCHANGED <<program, spacing, text, la, stack>>

\* yyparse() can go neither way: "syntax error".
Error == /\ pc = "parse" /\ la # NoToken /\ ~Shiftable(la.t) /\ Handles = {}
         /\ ~(la.t = "}" /\ Top = "imperatives")
         /\ pc' = "error" /\ UNCHANGED <<program, spacing, text, la, stack>>

-----------------------------------------------------------------------------
(* How the manual has programs written: C's precedence, all operators left- *)
(* associative.  An expression is [k, v], or [k, a, b] with an operator k.  *)

Tightness(k) == CASE k \in {"*", "/", "%"} -> 12 [] k \in {"+", "-"} -> 11
                  [] k \in {"<<", ">>"} -> 10 [] k = ".." -> 9 [] OTHER -> 15
Spelt(k) == CASE k = ".." -> <<".", ".">> [] k = "<<" -> <<"<", "<">>
              [] k = ">>" -> <<">", ">">> [] OTHER -> <<k>>
RECURSIVE Write(_, _), Postfix(_), Uses(_, _)
Write(e, blanks) ==
  LET In(c, bracketed) == IF bracketed THEN <<"(">> \o Write(c, blanks) \o <<")">>
                          ELSE Write(c, blanks)
      blank == IF blanks = "all" \/ (e.k = "-" /\ blanks = "minus") THEN <<Blank>> ELSE <<>>
  IN  CASE e.k \in {"INTEGER", "IDENT"} -> e.v
        [] e.k = "LITERAL" -> <<"\"">> \o e.v \o <<"\"">>
        [] e.k = "@"       -> <<"@">> \o e.v
        [] OTHER -> In(e.a, Tightness(e.a.k) < Tightness(e.k))
                      \o blank \o Spelt(e.k) \o blank
                      \o In(e.b, Tightness(e.b.k) <= Tightness(e.k))
WriteStatement(s, blanks) == s.to \o <<"=">> \o Write(s.e, blanks)
WriteProgram(p, blanks) ==
  FlattenSeq([i \in DOMAIN p |-> (IF i = 1 THEN <<>> ELSE <<";">>) \o WriteStatement(p[i], blanks)])
    \o <<"}">>
Uses(e, k) == e.k = k \/ (e.k \in Operators /\ (Uses(e.a, k) \/ Uses(e.b, k)))

Postfix(e) ==
  CASE e.k = "INTEGER" -> <<Instr("PUSHI", e.v)>>
    [] e.k = "LITERAL" -> <<Instr("PUSHS", e.v)>>
    [] e.k = "IDENT"   -> <<Instr("PUSHV", e.v)>>
    [] e.k = "@"       -> <<Instr("INVOKE", e.v)>>
    [] OTHER -> Postfix(e.a) \o Postfix(e.b) \o <<Instr(OpCode(e.k), <<>>)>>
Meant(p) ==
  FlattenSeq([i \in DOMAIN p |->
     Append(Postfix(p[i].e), IF p[i].to = <<>> THEN Instr("EMIT", <<>>) ELSE Instr("SET", p[i].to))])

-----------------------------------------------------------------------------
Init == /\ program \in Programs /\ spacing \in Spacings
        /\ text = WriteProgram(program, spacing)
        /\ pc = "parse" /\ la = NoToken /\ stack = <<>>

Next == yylex \/ Shift \/ Reduce \/ Accept \/ Error
Ended == pc \in {"accept", "error"} /\ UNCHANGED vars
Spec == Init /\ [][Next \/ Ended]_vars

-----------------------------------------------------------------------------
\* A hyphen next to a digit or a letter belongs to a number or to an identifier:
\* a minus sign needs its blanks.
ClearMinus == spacing # "none" \/ \A i \in DOMAIN program : ~Uses(program[i].e, "-")

\* A percent sign before a name that begins with e, n, E or N, or with another
\* keyword, belongs to a keyword.
ClearPercent ==
  LET written == WriteProgram(program, spacing)
  IN  \A i \in DOMAIN written : \A k \in Keywords : ~IsPrefix(k, SubSeq(written, i, Len(written)))

\* A program whose minus and percent signs are clear is accepted, and the
\* instructions of a block are those that the manual's precedences mean: the terms
\* in their order, every operator after both of its operands, the statements one
\* after the other.
CompiledAsMeant ==
  /\ pc = "error" => ~(ClearMinus /\ ClearPercent)
  /\ pc = "accept" /\ ClearMinus /\ ClearPercent =>
       stack = <<Entry("imperatives", Meant(program))>>

\* Whatever is on the parser's stack, the instructions of an expression leave one
\* operand and never reach below where they began; a statement leaves none.
Effect(i) == CASE i.op \in {"PUSHI", "PUSHS", "PUSHV", "INVOKE"} -> 1 [] OTHER -> -1
Depth(code, n) == FoldLeft(LAMBDA d, i : d + Effect(i), 0, SubSeq(code, 1, n))
OneOperandEach ==
  \A j \in DOMAIN stack :
    LET code == stack[j].v
    IN  stack[j].s \in {"expr", "imperative", "imperatives"} =>
          /\ \A n \in DOMAIN code : /\ Depth(code, n) >= 0
                                   /\ Effect(code[n]) = -1 /\ code[n].op \notin {"SET", "EMIT"} =>
                                        Depth(code, n - 1) >= 2
          /\ Depth(code, Len(code)) = IF stack[j].s = "expr" THEN 1 ELSE 0
=============================================================================
