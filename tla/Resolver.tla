------------------------------ MODULE Resolver ------------------------------
(***************************************************************************)
(* src/src/resolve.c: the recursive resolver of pb, with the machine it    *)
(* calls for code blocks and that calls it back for INVOKE.                *)
(*                                                                         *)
(* The C stack is explicit: `kont' holds one frame for every C function    *)
(* that waits for the result of a call, and `focus' says what is to happen *)
(* next: resolve an atom, go on with the top frame, or hand a result to    *)
(* it.  Which option select_option() takes is free here; that it can take  *)
(* each of them is shown in SelectOption.                                  *)
(*                                                                         *)
(* A script is the rule base the parser leaves behind:                     *)
(*   start  the name of the initial rule                                   *)
(*   rules  for a name its formal parameters and its options, every option *)
(*          a sequence of nodes                                            *)
(*   nodes  the nodes, by number: type, data (for a literal its one word), *)
(*          params (numbers), and count, options or code where they apply  *)
(*   maps   for the name of a mapping or transformation what it makes of a *)
(*          text that one of its patterns matches                          *)
(*   output the texts the script should produce; read by properties only;  *)
(*          {} if they need only be sentences of its grammar               *)
(***************************************************************************)
EXTENDS Machine, FiniteSets

CONSTANTS
  Scripts,        \* the scripts that are run
  MaxDepth,       \* bound on the waiting calls of a behaviour
  MaxReps         \* bound on the rounds of a `*' or `+'

ASSUME DepthAssumption == MaxDepth \in Nat /\ MaxDepth >= 2
ASSUME RepsAssumption  == MaxReps \in Nat

VARIABLES
  script,         \* the rule base
  cdrFirst,       \* whether the compiler evaluates list_cons()'s second argument first
  mem,            \* texts, variables and operand stack
  last,           \* Node.last_choice of every inline choice
  focus,          \* what happens next
  kont            \* the C functions that wait, the innermost last

vars == <<script, cdrFirst, mem, last, focus, kont>>
-----------------------------------------------------------------------------
NoEnv == [formal |-> <<>>, cooked |-> <<>>]

\* What can be in `focus'.
Atom(n, env) == [at |-> "atom", node |-> n, env |-> env]
GoOn         == [at |-> "next"]
Return(p)    == [at |-> "return", text |-> p]
Cooked(ps)   == [at |-> "cooked", texts |-> ps]
Finish       == [at |-> "done"]

Running == mem.fault = "none"
Frame   == kont[Len(kont)]
Below   == SubSeq(kont, 1, Len(kont) - 1)

\* The frame on top of kont is of this kind and this is to happen to it.
Turn(at, kind) == Running /\ focus.at = at /\ kont # <<>> /\ Frame.kind = kind

Node == script.nodes[focus.node]

\* An atom of this type is to be resolved.
IsAtom(type) == Running /\ focus.at = "atom" /\ Node.type = type

IsRule(name)  == name \in DOMAIN script.rules
Formals(name) == IF IsRule(name) THEN script.rules[name].formal ELSE <<>>

\* A text read as a name; only one-word texts can be names.
NameIn(text) == IF Len(text) = 1 THEN text[1] ELSE "no name"

\* The node types that the parser gives no data.
Dataless == {"deref", "silence", "star", "plus", "repeat_const"}

\* The atoms that resolve their subnode first and wait for its text; those that
\* may do so; those that do so again and again.
Wrapping  == {"mapping", "deref", "var_def", "silence"}
Rounds    == {"star", "plus", "repeat_const", "repeat_var"}
NodeTypes == {"literal", "symbol", "choice", "var_ref", "var_conddef", "code"}
               \cup Wrapping \cup Rounds

\* What the parser's actions build: nodes whose parts are nodes, blocks of
\* instructions that the machine knows, and a rule to start with.
NodeNumbers(s) == DOMAIN s.nodes

IsInstruction(instr) ==
  /\ instr.op \in {"SET", "PUSHV", "PUSH", "INVOKE", "EMIT"} \cup Operators
  /\ instr.op = "PUSH" => instr.type \in {"int_t", "string_t"}
  /\ instr.op = "PUSH" /\ instr.type = "int_t" => instr.i \in Int

IsNode(node, numbers) ==
  /\ node.type \in NodeTypes
  /\ node.params \in Seq(numbers)
  /\ node.type \in Wrapping \cup Rounds \cup {"var_conddef"} => node.params # <<>>
  /\ node.count \in Int
  /\ node.options \in Seq(Seq(numbers))
  /\ node.code \in Seq({instr \in ToSet(node.code) : IsInstruction(instr)})

IsScript(s) ==
  /\ \A n \in NodeNumbers(s) : IsNode(s.nodes[n], NodeNumbers(s))
  /\ s.start \in DOMAIN s.rules
  /\ \A name \in DOMAIN s.rules :
       /\ s.rules[name].formal \in Seq(STRING)
       /\ s.rules[name].options \in Seq(Seq(NodeNumbers(s)))

ASSUME ScriptsAssumption == \A s \in Scripts : IsScript(s)

\* param_indexof(): the first position of a name, 0 when it is not there.
Position(formal, name) ==
  IF \E i \in DOMAIN formal : formal[i] = name
  THEN CHOOSE i \in DOMAIN formal :
         formal[i] = name /\ \A j \in 1 .. i - 1 : formal[j] # name
  ELSE 0

\* A copy of the actual parameter at a position.
CopyActual(m, env, i) ==
  IF i > Len(env.cooked) THEN Alloc(m, <<"(parameter off end of list)">>)
  ELSE Strdup(m, env.cooked[i])
-----------------------------------------------------------------------------
\* Calls and returns.  Each leaves script, cdrFirst and, where it is not said
\* otherwise, last alone.
Same == UNCHANGED <<script, cdrFirst, last>>

Call(m, frame, next) ==
  /\ Len(kont) < MaxDepth
  /\ mem' = m /\ kont' = Append(kont, frame) /\ focus' = next /\ Same

\* The top frame goes on, changed.
Continue(m, frame, next) ==
  mem' = m /\ kont' = Append(Below, frame) /\ focus' = next /\ Same

\* The function whose atom is in focus returns; it had not called yet.
Answer(m, p) == mem' = m /\ focus' = Return(p) /\ UNCHANGED kont /\ Same

\* The function of the top frame returns.
Leave(m, p) == mem' = m /\ kont' = Below /\ focus' = Return(p) /\ Same

OptionFrame(atoms, env) ==
  [kind |-> "option", todo |-> atoms, acc |-> Null, env |-> env]

\* _resolve_rule(): nothing for a rule that is not there; otherwise the actual
\* parameters come first.
ArgsFrame(params, env) ==
  [kind |-> "args", params |-> params, env |-> env,
   texts |-> [i \in DOMAIN params |-> Null], left |-> Len(params)]

InvokeOn(m, below, name, params, env) ==
  /\ mem' = m /\ Same
  /\ IF IsRule(name)
     THEN /\ Len(below) + 2 <= MaxDepth
          /\ kont' = below \o <<[kind |-> "rule", name |-> name, cooked |-> <<>>],
                                ArgsFrame(params, env)>>
          /\ focus' = GoOn
     ELSE kont' = below /\ focus' = Return(Null)
-----------------------------------------------------------------------------
Init ==
  /\ script \in Scripts
  /\ cdrFirst \in BOOLEAN
  /\ mem = NewMemory
  /\ last = [n \in DOMAIN script.nodes |-> -1]
  /\ focus = GoOn
  /\ kont = <<[kind |-> "rule", name |-> script.start, cooked |-> <<>>],
              ArgsFrame(<<>>, NoEnv)>>

Literal ==
  /\ IsAtom("literal")
  /\ LET m == Alloc(mem, Text(Node.data)) IN Answer(m, Newest(m))

\* A symbol that names a formal parameter stands for the actual one.
Parameter ==
  /\ IsAtom("symbol")
  /\ Position(focus.env.formal, Node.data) # 0
  /\ LET m == CopyActual(mem, focus.env, Position(focus.env.formal, Node.data))
     IN  Answer(m, Newest(m))

\* Any other symbol is a rule.
Symbol ==
  /\ IsAtom("symbol")
  /\ Position(focus.env.formal, Node.data) = 0
  /\ InvokeOn(mem, kont, Node.data, Node.params, focus.env)

Enter(type) ==
  /\ IsAtom(type)
  /\ Call(mem, [kind |-> type, node |-> focus.node, env |-> focus.env],
          Atom(Node.params[1], focus.env))

\* apply_mapping() and apply_xform(): a text no pattern matches stays as it is.
Map ==
  /\ Turn("return", "mapping")
  /\ LET name == script.nodes[Frame.node].data
         p    == focus.text
         m    == Read(mem, p)
         text == TextAt(m, p)
     IN  IF name \notin DOMAIN script.maps THEN Leave(mem, p)
         ELSE IF text \in DOMAIN script.maps[name]
           THEN LET mapped == Alloc(m, script.maps[name][text])
                IN  Leave(Free(mapped, p), Newest(mapped))
         ELSE Leave(m, p)

\* The text of the subnode is the name of the rule to resolve.
Dereference ==
  /\ Turn("return", "deref")
  /\ LET m == Read(mem, focus.text)
     IN  InvokeOn(m, Below, NameIn(TextAt(m, focus.text)), <<>>, Frame.env)

\* The value of a definition is put in the variable; the result is a copy.
Define ==
  /\ Turn("return", "var_def") \/ Turn("return", "var_conddef")
  /\ LET p == IF Frame.kind = "var_def" /\ focus.text = Null
              THEN Undefined ELSE focus.text
         m == Strdup(VarPut(mem, script.nodes[Frame.node].data, StrCell(p)), p)
     IN  Leave(m, Newest(m))

\* `var << atom': the atom is resolved only if the variable is not set.
CondDef ==
  /\ IsAtom("var_conddef")
  /\ IF VarFetched(mem, Node.data) # Null
     THEN LET m == Strdup(VarFetch(mem, Node.data), VarFetched(mem, Node.data))
          IN  Answer(m, Newest(m))
     ELSE Call(mem, [kind |-> "var_conddef", node |-> focus.node, env |-> focus.env],
               Atom(Node.params[1], focus.env))

\* A slip: the variable's own text is handed out.
VarRefBorrows ==
  /\ IsAtom("var_ref")
  /\ Answer(VarFetch(mem, Node.data), VarFetched(mem, Node.data))

\* `$var': a copy of the variable's text, or exit(1).
VarRef ==
  /\ IsAtom("var_ref")
  /\ LET p == VarFetched(mem, Node.data)
         m == IF p = Null THEN Fail(mem, "exit")
              ELSE Strdup(VarFetch(mem, Node.data), p)
     IN  Answer(m, Newest(m))

\* A slip: the silenced text is handed on.
SilenceReturnsText ==
  /\ Turn("return", "silence")
  /\ Leave(Free(mem, focus.text), focus.text)

\* `?atom': the text is thrown away.
Silence ==
  /\ Turn("return", "silence")
  /\ Leave(Free(mem, focus.text), Null)
-----------------------------------------------------------------------------
\* `*', `+' and %repeat.  `left' is the number of rounds still to come, or for
\* `*' and `+', whose rounds end at random, the number still allowed.
Loop(left, random, first) ==
  [kind |-> "loop", node |-> focus.node, env |-> focus.env, acc |-> Null,
   left |-> left, random |-> random, first |-> first]

Star == IsAtom("star") /\ Call(mem, Loop(MaxReps, TRUE, FALSE), GoOn)

\* A slip: `+' takes its first round only if chance has it so.
PlusAsStar == IsAtom("plus") /\ Call(mem, Loop(MaxReps, TRUE, TRUE), GoOn)

\* `+' resolves its subnode once, then falls through to `*'.
Plus ==
  /\ IsAtom("plus")
  /\ Call(mem, Loop(MaxReps, TRUE, TRUE), Atom(Node.params[1], focus.env))

RepeatConst == IsAtom("repeat_const") /\ Call(mem, Loop(Node.count, FALSE, FALSE), GoOn)

\* atoi(): the number a text starts with, 0 if it starts with none.
NumberIn(text) ==
  IF \E i \in -9 .. 99 : text = Numeral(i)
  THEN CHOOSE i \in -9 .. 99 : text = Numeral(i) ELSE 0

RepeatVar ==
  /\ IsAtom("repeat_var")
  /\ LET p == VarFetched(mem, Node.data)
         m == IF p = Null THEN Fail(mem, "exit") ELSE Read(VarFetch(mem, Node.data), p)
     IN  Call(m, Loop(NumberIn(TextAt(m, p)), FALSE, FALSE), GoOn)

Round ==
  /\ Turn("next", "loop")
  /\ Frame.left > 0
  /\ Continue(mem, [Frame EXCEPT !.left = @ - 1],
              Atom(script.nodes[Frame.node].params[1], Frame.env))

EndLoop ==
  /\ Turn("next", "loop")
  /\ Frame.random \/ Frame.left <= 0
  /\ Leave(mem, Frame.acc)

\* The text of a round is joined to those before it.
Accumulate ==
  /\ Turn("return", "loop")
  /\ LET m == Dstrcat(mem, Frame.acc, focus.text)
     IN  IF Frame.first
         THEN Continue(mem, [Frame EXCEPT !.acc = focus.text, !.first = FALSE], GoOn)
         ELSE Continue(m, [Frame EXCEPT !.acc = Newest(m)], GoOn)

\* `[a | b]': any option but the last one chosen here, unless it is the only one.
Choice ==
  /\ IsAtom("choice")
  /\ Len(kont) < MaxDepth
  /\ \E c \in DOMAIN Node.options :
       /\ ~(c = last[focus.node] /\ Len(Node.options) > 1)
       /\ last' = [last EXCEPT ![focus.node] = c]
       /\ kont' = Append(kont, OptionFrame(Node.options[c], focus.env))
  /\ focus' = GoOn
  /\ UNCHANGED <<script, cdrFirst, mem>>

\* resolve_option(): the atoms of an option one after another.
NextAtom ==
  /\ Turn("next", "option")
  /\ Frame.todo # <<>>
  /\ Continue(mem, [Frame EXCEPT !.todo = Tail(@)], Atom(Head(Frame.todo), Frame.env))

AddText ==
  /\ Turn("return", "option")
  /\ LET m == Dstrcat(mem, Frame.acc, focus.text)
     IN  Continue(m, [Frame EXCEPT !.acc = Newest(m)], GoOn)

EndOption ==
  /\ Turn("next", "option")
  /\ Frame.todo = <<>>
  /\ Leave(mem, Frame.acc)
-----------------------------------------------------------------------------
\* resolve_params(): the parameter that comes next, in the order in which the
\* compiler evaluates the arguments of list_cons().
NextArg == IF cdrFirst THEN Frame.left ELSE Len(Frame.params) + 1 - Frame.left

WithArg(p) == [Frame EXCEPT !.texts[NextArg] = p, !.left = @ - 1]

\* A parameter whose name is a formal parameter of the rule that calls is
\* replaced by the actual one, whatever kind of node it is; a node without data
\* has no name to compare.
CascadeArg ==
  /\ Turn("next", "args")
  /\ Frame.left > 0
  /\ LET n == Frame.params[NextArg]
         i == Position(Frame.env.formal, script.nodes[n].data)
         m == IF script.nodes[n].type \in Dataless THEN Fail(mem, "null")
              ELSE CopyActual(mem, Frame.env, i)
     IN  /\ script.nodes[n].type \in Dataless \/ i # 0
         /\ Continue(m, WithArg(Newest(m)), GoOn)

\* Any other parameter is resolved with the formal parameters of the rule it
\* invokes and, as their values, the resolved parameters of that invocation.
NestedArg ==
  /\ Turn("next", "args")
  /\ Frame.left > 0
  /\ LET n == Frame.params[NextArg]
     IN  /\ script.nodes[n].type \notin Dataless
         /\ Position(Frame.env.formal, script.nodes[n].data) = 0
         /\ Len(kont) + 2 <= MaxDepth
         /\ kont' = kont \o <<[kind |-> "nested", node |-> n],
                              ArgsFrame(script.nodes[n].params, Frame.env)>>
         /\ focus' = GoOn
  /\ UNCHANGED mem /\ Same

ResolveArg ==
  /\ Turn("cooked", "nested")
  /\ mem' = mem
  /\ kont' = Below
  /\ focus' = Atom(Frame.node, [formal |-> Formals(script.nodes[Frame.node].data),
                                cooked |-> focus.texts])
  /\ Same

TakeArg == Turn("return", "args") /\ Continue(mem, WithArg(focus.text), GoOn)

EndArgs ==
  /\ Turn("next", "args")
  /\ Frame.left = 0
  /\ mem' = mem /\ kont' = Below /\ focus' = Cooked(Frame.texts) /\ Same

\* A slip: the parameters are freed before the option that uses them is resolved.
FreeActualsEarly ==
  /\ Turn("cooked", "rule")
  /\ Len(kont) < MaxDepth
  /\ \E c \in DOMAIN script.rules[Frame.name].options :
       kont' = Append(kont,
                 OptionFrame(script.rules[Frame.name].options[c],
                       [formal |-> Formals(Frame.name), cooked |-> focus.texts]))
  /\ mem' = FreeAll(mem, focus.texts) /\ focus' = GoOn /\ Same

\* The parameters are there: an option is selected and resolved.
SelectOption ==
  /\ Turn("cooked", "rule")
  /\ Len(kont) < MaxDepth
  /\ \E c \in DOMAIN script.rules[Frame.name].options :
       kont' = Below \o
         <<[Frame EXCEPT !.cooked = focus.texts],
           OptionFrame(script.rules[Frame.name].options[c],
                       [formal |-> Formals(Frame.name), cooked |-> focus.texts])>>
  /\ mem' = mem /\ focus' = GoOn /\ Same

\* list_free(cooked, free_car_destructor).
EndRule ==
  /\ Turn("return", "rule")
  /\ Leave(FreeAll(mem, Frame.cooked), focus.text)
-----------------------------------------------------------------------------
\* exec_stream().  `base' is the height of the stack the block was entered with.
Code ==
  /\ IsAtom("code")
  /\ Call(mem, [kind |-> "code", node |-> focus.node, done |-> 0,
                base |-> Len(mem.stack)], GoOn)

CodeOf(frame) == script.nodes[frame.node].code
InstrDue      == CodeOf(Frame)[Frame.done + 1]
InstrDone     == [Frame EXCEPT !.done = @ + 1]

\* The block that runs has an instruction left, and its operation is one of these.
Due(ops) ==
  /\ Turn("next", "code")
  /\ Frame.done < Len(CodeOf(Frame))
  /\ InstrDue.op \in ops

Exec ==
  /\ Due({"SET", "PUSHV", "PUSH"} \cup Operators)
  /\ \E m \in ExecInstr(mem, InstrDue) : Continue(m, InstrDone, GoOn)

\* `@rule' in an expression: the resolver is entered again, without parameters.
Invoke ==
  /\ Due({"INVOKE"})
  /\ InvokeOn(mem, kont, InstrDue.name, <<>>, NoEnv)

Invoked ==
  /\ Turn("return", "code")
  /\ Continue(Push(mem, StrCell(focus.text)), InstrDone, GoOn)

\* A result ends the block, unless it is a null pointer.
EmitResult ==
  /\ Due({"EMIT"})
  /\ IF Emitted(mem) = Null THEN Continue(Emit(mem), InstrDone, GoOn)
     ELSE Leave(Emit(mem), Emitted(mem))

EndCode ==
  /\ Turn("next", "code")
  /\ Frame.done = Len(CodeOf(Frame))
  /\ Leave(mem, Null)
-----------------------------------------------------------------------------
\* use_rtn() of pb.c prints the text of the initial rule.
Output ==
  /\ Running /\ focus.at = "return" /\ kont = <<>>
  /\ mem' = Read(mem, focus.text)
  /\ focus' = [at |-> "done", text |-> focus.text]
  /\ UNCHANGED kont /\ Same

\* The program has printed, has failed, or has come to the bound MaxDepth.
Finished ==
  /\ ~Running \/ focus.at = "done" \/ Len(kont) + 2 > MaxDepth
  /\ UNCHANGED vars

ResolveAtom ==
  \/ Literal \/ Parameter \/ Symbol
  \/ \E type \in Wrapping : Enter(type)
  \/ Map \/ Dereference \/ Define \/ CondDef \/ VarRef \/ Silence
  \/ Star \/ Plus \/ RepeatConst \/ RepeatVar \/ Round \/ EndLoop \/ Accumulate
  \/ Choice

ResolveRule ==
  \/ NextAtom \/ AddText \/ EndOption
  \/ CascadeArg \/ NestedArg \/ ResolveArg \/ TakeArg \/ EndArgs
  \/ SelectOption \/ EndRule

RunCode == Code \/ Exec \/ Invoke \/ Invoked \/ EmitResult \/ EndCode

Next == ResolveAtom \/ ResolveRule \/ RunCode \/ Output \/ Finished

Spec == Init /\ [][Next]_vars
-----------------------------------------------------------------------------
\* The texts that a frame answers for: nobody else is to free them.
OwnedBy(frame) ==
  CASE frame.kind \in {"option", "loop"} -> <<frame.acc>>
    [] frame.kind = "rule"               -> frame.cooked
    [] frame.kind = "args"               -> frame.texts
    [] OTHER                             -> <<>>

TextVars == {n \in DOMAIN mem.vars : mem.vars[n].type = "string_t"}

\* The texts that a function has returned and its caller has not taken yet.
InFlight ==
  CASE focus.at = "return" -> <<focus.text>>
    [] focus.at = "cooked" -> focus.texts
    [] OTHER               -> <<>>

\* What a sequence of pointers points to, the constant apart.
Texts(ps) == ToSet(ps) \ {Null, Undefined}

FrameTexts(i) == Texts(OwnedBy(kont[i]))
VarText(n)    == Texts(<<mem.vars[n].v>>)

Held == (UNION {FrameTexts(i) : i \in DOMAIN kont})
          \cup (UNION {VarText(n) : n \in TextVars}) \cup Texts(InFlight)

CodeFrames == {i \in DOMAIN kont : kont[i].kind = "code"}
Stale(p)   == p # Null /\ mem.heap[p].state = "freed"

TypeOK ==
  /\ script \in Scripts /\ cdrFirst \in BOOLEAN
  /\ \A p \in Pointers(mem) : mem.heap[p].state \in {"live", "freed", "constant"}
  /\ mem.fault \in {"none", "null", "stale", "bad free", "overflow", "underflow",
                    "trap", "exit"}
  /\ \A n \in DOMAIN last : last[n] = -1 \/ last[n] \in DOMAIN script.nodes[n].options
  /\ focus.at \in {"atom", "next", "return", "cooked", "done"}
  /\ Len(kont) <= MaxDepth
  /\ Held \subseteq Pointers(mem)

\* The resolver runs to its end: nothing is read or freed that is not there,
\* the operand stack neither runs dry nor over.
NoFault == mem.fault = "none"

\* No text has two owners among the waiting functions, the variables and the
\* result in flight, each of which will free or hand out what it holds.
OnceEach(ps) ==
  \A i, j \in DOMAIN ps : i # j => ps[i] # ps[j] \/ ps[i] \in {Null, Undefined}

NoSharedText ==
  NoFault =>
    /\ \A i \in DOMAIN kont : OnceEach(OwnedBy(kont[i]))
    /\ OnceEach(InFlight)
    /\ \A i, j \in DOMAIN kont : i # j => FrameTexts(i) \cap FrameTexts(j) = {}
    /\ \A n, k \in TextVars : n # k => VarText(n) \cap VarText(k) = {}
    /\ \A i \in DOMAIN kont, n \in TextVars : FrameTexts(i) \cap VarText(n) = {}
    /\ \A i \in DOMAIN kont : FrameTexts(i) \cap Texts(InFlight) = {}
    /\ \A n \in TextVars : VarText(n) \cap Texts(InFlight) = {}

\* Nothing that is held was freed, except by the block of code that is running,
\* which frees the text of a variable before it puts another one there.  The
\* actual parameters live as long as anything can refer to them.
HeldTextsLive ==
  /\ CodeFrames = {} => \A p \in Held : ~Stale(p)
  /\ \A f \in ToSet(kont) :
       "env" \in DOMAIN f => \A p \in ToSet(f.env.cooked) : ~Stale(p)
  /\ focus.at = "atom" => \A p \in ToSet(focus.env.cooked) : ~Stale(p)

\* As long as a variable is set, its text can be read; a running block of code
\* may be about to replace it.
VariablesReadable ==
  CodeFrames = {} => \A n \in TextVars : ~Stale(mem.vars[n].v)

\* A block of code gives the operand stack back as high as it found it, also
\* when it is left early and when it runs amid another block's expression.
StackBalanced ==
  NoFault =>
    /\ \A i \in CodeFrames :
         /\ Len(mem.stack) >= kont[i].base
         /\ i = Len(kont) /\ kont[i].done = Len(CodeOf(kont[i])) =>
              Len(mem.stack) = kont[i].base
    /\ CodeFrames = {} => mem.stack = <<>>

\* A block of code never touches the operands of the expression it runs amid.
OuterOperandsKept ==
  [][ \A i \in CodeFrames : \A j \in 1 .. kont[i].base :
        Len(mem'.stack) >= j /\ mem'.stack[j] = mem.stack[j] ]_vars

\* What is printed is what the documentation says the script produces.
OutputAsDocumented ==
  (focus.at = "done" /\ NoFault /\ script.output # {}) =>
    TextAt(mem, focus.text) \in script.output
=============================================================================
