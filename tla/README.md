# The Dada Engine: specifications and proofs

The Dada Engine produces random text from a recursive transition network. A
script (`*.pb`) is a grammar whose rules also hold variables, parameters,
mappings and small blocks of imperative code. The program `pb` reads a script,
checks it and resolves its start symbol into one text; `dada` runs `pb` on the
output of the C preprocessor. This directory holds TLA+ modules for the parts
of `src/src` and of the bundled regular expression library `src/regex` that decide what is printed, the
TLC configurations that check them on small instances, and proofs about them that TLAPS checks.

## 1. The system

| part | code | state | operations |
|---|---|---|---|
| option selection | `resolve.c` `select_option` | a weight for every option of every rule, `last_choice`, the switch `-p` | choose an option; change all weights of the rule |
| resolver | `resolve.c` | the C call stack; `last_choice` of every inline choice; the texts under construction | one case per node type; `resolve_option`, `resolve_params`, `_resolve_rule` |
| machine | `machine.c` | one static stack of 1024 cells | `SET`, `EMIT`, `PUSHV`, `INVOKE`, `PUSH`, eight operators |
| texts and variables | `strfunc.c`, `dstring.c`, `variables.c` | the heap; a binary tree from names to a text or an int | `strdup`, `concat`, `dstrcat`, `var_put`, `var_put_int`, `var_fetch` |
| rule base | `rtn.c`, `ptrlist.c` | a tree of rules, lists of options, atoms, parameters | cons, append, find, map over |
| mappings, transformations | `map.c`, `transform.c` | two global lists of regular expressions with what to do on a match | `apply_mapping`, `apply_xform`, `regex_subst` |
| static check | `check.c` | a counter of errors | walk over all rules, exit if a symbol is undefined |
| lexer and parser | `lexer.x`, `parser.y` | line number, the rule under construction, `initial_rule` | tokens to nodes and instructions |
| word wrapping | `wrap.c` | columns left, at the start of a line or not | print a text |
| `dada` | `dada.c`, `dada.in` | two children, one pipe | start the preprocessor and `pb`, wait for both |
| `pb` | `pb.c` | the options of the command line | parse, check, resolve, print |
| not used by `pb` | `dict.c`, `resstack.c`, `emit_*.c`, `pbc.c`, `lextest.c` | | |
| regular expressions | `regex/` (Henry Spencer's, bundled) | the strip of a compiled expression; sets of states; groups | `regcomp`, `regexec`, `regfree` |

**How the parts interact.** The parser calls the constructors of `rtn.c`,
`map.c` and `transform.c` and compiles expressions to lists of instructions;
`yyparse()` ends by calling `check_rtn()` and then `use_rtn()` in `pb.c`, which calls
`resolve_rule()` on `initial_rule` and prints the result. From there on
everything is one deep recursion. `resolve_atom()` calls itself for subnodes,
`_resolve_rule()` for symbols, and `exec_stream()` for code; the instruction
`INVOKE` calls `resolve_rule()` again, so that blocks of code run amid the
expressions of others, all of them on the one static operand stack. Variables,
weights and `last_choice` are global and changed at any depth. Texts are handed
from callee to caller as bare pointers, and the caller joins and frees them.

**What is hard here.** Nothing runs concurrently except the processes of
`dada`; the difficulty is re-entry. While a function waits for the result of
a call, that call may change the variables, the stack, the weights and the heap
that the function goes on to use. Who owns a text is written down nowhere.
The order in which C evaluates the arguments of a call is open, and one
such call, `list_cons(resolve_atom(..), resolve_params(..))`, has effects in both
arguments. Counters and weights have no bound. The tests of the repository are
scripts whose output somebody reads, each run with one random seed.

**What makes each part correct.**

* Option selection: at every moment each option but the one chosen last can be
  chosen, and the draw decides which; a choice makes the chosen option lighter than the others; the
  loops over the list stay in it and end.
* Resolver: every text has one owner; what is held can be read; parameters
  outlive their uses; each node type returns what the manual says; a script
  without variables yields sentences of its grammar.
* Machine: a block leaves the operand stack as it found it and never touches the
  operands of the block it interrupts.
* Rule base, variables: the trees and lists are maps from names: each declaration and
  assignment takes effect under its own name and nowhere else; the text begins with the rule asked for, or the first plain one.
* Embedded code: the instructions are those that the precedences of the manual mean.
* Mappings: the length that the first pass computes is the length the second
  pass writes; every match is replaced; one text comes out, and the other blocks are freed.
* Regular expressions: what is found is the leftmost longest match, with groups that fit it; a wrong
  pattern is refused with the right error.
* Static check: a script that passes does not meet an undefined symbol.
* Word wrapping: a line is no longer than the columns unless one word is; every
  word is printed once, in order.
* `dada`: both children end and are waited for, whatever fails.

## 2. The modules

| module | models | built on |
|---|---|---|
| `SelectOption` | `select_option()`, one step per iteration of its loops | |
| `SelectOptionProofs` | the theorems about it | `SelectOption`, `TLAPS` |
| `Memory` | heap, texts, variables: operators from a memory to a memory | |
| `Machine` | the instructions of `exec_instr()` | `Memory` |
| `Resolver` | the resolver and `exec_stream()`: the state machine of the whole evaluation | `Machine` |
| `Derivation` | abstract: a leftmost derivation in a context-free grammar | |
| `ResolverRefinement` | the mapping under which `Resolver` implements `Derivation` | `Resolver`, `Derivation` |
| `ResolverInv` | which values the resolver's variables can have: the inductive type invariant | `Resolver` |
| `CodeTyping` | what `exec_stream()` takes for granted about a block of code; the invariant of the operand stack | `ResolverInv` |
| `OwnerInv` | who answers for a text, and which texts are on loan; the invariant of ownership, and the whole invariant `TextInv` | `CodeTyping` |
| `MCResolver` | the scripts that are checked | `ResolverRefinement`, `OwnerInv` |
| `ResolverProofs` | lemmas about the operations of `Memory` and `Machine`; the resolver's types; it implements `Derivation` | `ResolverInv`, `ResolverRefinement`, `Recursion` |
| `OwnerProofs` | the operand stack; the owners of texts | `ResolverProofs`, `OwnerInv` |
| `Recursion` | induction over the natural numbers and along a rank, and functions defined by recursion, as facts about sets and functions | `TLAPS` |
| `RegComp` | `regcomp()`: a pattern becomes a strip of operators | |
| `RegExec` | `regexec()`: a text is run through a strip | `RegComp` |
| `RegLang` | reference: what an expression matches, by structure, and how it is written | `RegComp` |
| `Regex` | the library as its callers use it, and its properties | `RegExec`, `RegLang` |
| `MCRegex` | the expressions, texts and wrong patterns that are checked | `Regex` |
| `Subst` | `apply_mapping()`, `regex_subst()`, `apply_xform()`, one step per call of the library, which is a parameter | |
| `SubstRegex` | the same with `regcomp()` and `regexec()` of `regex/`: what is substituted, which option is taken | `Subst`, `RegExec`, `RegLang` |
| `MCSubst` | the texts, mappings and transformations that are checked | `SubstRegex` |
| `SubstProofs` | the theorems about `Subst` | `Subst`, `Recursion` |
| `SearchTree` | the binary trees of rules and of variables: insertion, search, traversal | |
| `Load` | what the parser does with declarations, `check_rtn()`, `use_rtn()`, the tree of variables | `SearchTree` |
| `Meaning` | abstract: a script as tables from names to declarations and values | |
| `MCLoad` | the scripts that are checked | `Load` |
| `LoadProofs` | lemmas about search trees; the theorems about `Load` | `Load`, `Recursion` |
| `Compile` | scanner, grammar and code generation of `{...}` blocks | |
| `MCCompile` | the programs that are checked | `Compile` |
| `Wrap` | `print_wrapped()`, one step per skipped character or printed word | |
| `WrapProofs` | the theorems about it | `Wrap`, `Recursion` |
| `MCWrap` | the texts that are checked | `Wrap` |
| `Pipeline` | the launcher, the preprocessor and `pb` as processes, with the pipe between them | |
| `PipelineProofs` | the theorems about it | `Pipeline`, `TLAPS` |

Operators whose comment begins with "A slip" are faulty variants of the
definition that follows them; no specification uses them. They serve to see that
each property is able to fail.

### SelectOption

A behaviour is a sequence of calls of `select_option()` on one option list. The
variables `sum`, `ch`, `o` are the locals, `randweight` is
`Option.randweight`, `pc` says where the function is. `SumWeight` is a step of
`option_map(_sum_option_weights)`, `Draw` is `random()%sum`, `Walk` is an
iteration of `while(ch>o->randweight)`, `NullOption` is that condition
evaluated at the end of the list, `Take` is the rest of the function with the
growth of all weights. `OldChoice` is the other branch, taken with `-p`;
the redraws it may make have no effect and are not steps. Every int operation
wraps at `IntMax`, as it does without optimisation (`CFLAGS = -g`), and the
auxiliary `overflowed` remembers that one did. `prefix` (the partial sums) and
`draw` (the value drawn, before the walk reduces it) are auxiliary too.

### Memory and Machine

A text is a sequence of words, a pointer the index of a heap cell, a freed cell
is never reused. So every wrong free or read is seen at the moment it happens
and not when its bytes are overwritten. Undefined behaviour does not go on: the
first occurrence is recorded in `fault` (`null`; `stale` when what was freed is read or freed again;
`bad free` of a string constant; `underflow`, `overflow`, `trap`, or `exit` for the program's own `exit(1)`) and
the machine stops. Ownership is as in the code, borrowed pointers included:
`PUSHV` pushes the variable's own text, `SET` stores the popped pointer, `ADD`
frees both operands, `EMIT` returns the popped pointer. An integer that a
function turns into text gets a cell of its own. Cells that are lost without
being freed (the name of a dereference, the text of an overwritten variable) stay
live: the program leaks and nothing here says otherwise.

### Resolver

The C stack is the variable `kont`: one frame for every function that waits for
a call.

| frame | the function, and what it waits for |
|---|---|
| `rule` | `_resolve_rule`: its parameters, then its option; `cooked` is freed at the end |
| `args` | `resolve_params`: one frame stands for the recursion over the list; `texts` is the list built so far |
| `nested` | the inner `resolve_params()` at resolve.c:199, before `resolve_atom()` is called with its result |
| `option` | `resolve_option` with `resolve_iterator`: `acc` is `result`, `todo` the rest of the atoms |
| `loop` | `star`, `plus`, `repeat_const`, `repeat_var` |
| `mapping`, `deref`, `var_def`, `var_conddef`, `silence` | `resolve_atom`: its subnode |
| `code` | `exec_stream`, `done` the number of instructions that were carried out; `base` (auxiliary) the height of the operand stack at entry |

`focus` says what happens next: an atom to resolve together with the formal and
actual parameters it is resolved under (`env`), a result that goes to the top
frame, a list of cooked parameters, or nothing but to go on with the top frame.
One action corresponds to one case of `resolve_atom()` before its call or to the
code after it. `cdrFirst` is the order of evaluation that a build has for the
arguments of `list_cons()`; both orders are checked.

Which option a rule takes is free in `Resolver`. So it has every behaviour that `SelectOption` allows, and few that it does not: whenever a rule is evaluated, every
option but the one it took last can be drawn (`EveryOtherSelectable`, proved). That one can be drawn as well, contrary to the manual (`select_repeat`), but not with `-p`.
`last_choice` of inline choices is modelled.

### Derivation and its refinement

`Derivation` is the manual's view of a grammar. A state is the words settled (`out`) and
the items still to be expanded (`rest`); a step settles the leftmost literal
or replaces the leftmost item by one of its productions. For `bar*` these are
nothing and `bar bar*`, for `bar+` it is `bar bar*`, as the manual's examples have
it. `ResolverRefinement` maps `out` to the texts gathered by the waiting frames
from the outermost in, and `rest` to what the frames have yet to do from
the innermost out. That a frame is popped, a result handed on, a text joined or an argument
list begun is a stutter. The mapping is defined for literals, rules without parameters,
inline choices and repetitions (`IsGrammar`); of the scripts that are checked `Recursion` and `Stars` are of this kind.

### RegComp, RegExec, RegLang and Regex

`RegComp` translates `regcomp.c` function by function. The parser `struct parse` is a record that every
function takes and returns; `in` is what is left of the pattern, and an error empties it. A strip is a sequence
of records of an operator and an operand, with the relative offsets of the code. Where a function of the code goes on with
its parser, a small operator takes the one before it as its argument (`EndSet(Closing(Trailing(Terms(...))))` is `p_bracket()`). `repeat()`
expands bounds by copying, `INSERT` and `AHEAD` mend the offsets, and `findmust()` picks the mandatory string. Storage of the strip, the hash of
sets and the categories of characters, which no function reads, are left out; the names of collating elements are those of one character.

`RegExec` translates `engine.c` and `regexec.c`. `step()` takes a set of states through one character or
one event (beginning of line, end of word, ...), `fast()` tells whether there is a match, `slow()` where the longest
one ends, `dissect()` and `backref()` what the groups matched. The macros of the two representations of sets are
`Shift`, `SET1`, `ISSET` and `Moved`: with `small` the set is bits of a long whose shifts are those of an
int. `IntBits` and `LongBits` are constants for this reason, and because `OP()` depends on them too.

`RegLang` has nothing of the code in it. An expression is a tree; `EndsAt` says by induction on it where a match may
end and what the groups may be then; `Render` writes it as a basic or an extended pattern. `Regex` compiles
an expression's rendering and compares what the library answers with `EndsAt`. The actions are the calls of a user:
`Regcomp` (`RegcompRaw` for patterns that no expression renders to), `Regexec`, `Regfree`.

### Subst

A job is a text and a mapping or transformation. `CompileKey` and then `NextOption` or `TakeOption` are an iteration of
`mapopt_match()` or `transopt_match()`, `CompileFrom` and `Measure` the start of `regex_subst()`, `MeasureOne` an
iteration of its first pass, `Compose` and `ComposeOne` the second pass. `re` is the compiled expression in use, made by
`Regcomp` and searched for by `Regexec`. These are constants of `Subst`, since nothing in `map.c` and `transform.c` depends on how matches are found; the configurations
give them the values `regcomp()` of `RegComp` and `regexec()` of `RegExec`. Of the library `Subst` assumes that a match lies within the text (`LibraryAssumption`), which TLC
evaluates for these two. An expression that could not be compiled finds nothing. `live` is the set of allocated blocks: there are never more than two. `d` copies a
prefix with `strncpy()`, which does not terminate it; what the block held before is `junk`.
If the second pass finds nothing, the code copies as much as a `regmatch_t` says that nobody wrote: `Compose` then takes any
prefix.

### SearchTree, Load and Meaning

`Load` reads a script declaration by declaration. `PlainRule`, `ResourceRule`, `ParameterRule`, `Mapping` and
`Transformation` are the actions of the grammar. A tree is the sequence of its nodes in the order of their allocation, and `left` and `right`
are positions in it or 0, as they are pointers in the code (`SearchTree`); `rule_insert()`, `rule_find()` and `rule_inorder_traverse()` recur along them. The
nodes of a script's atoms are numbered in the order in which the parser builds them, so that what is within a node has smaller numbers;
`check_for_undefined` is the set of the nodes that are reported. `read` is the number of declarations that were read. A script that ends goes to `check_rtn()` and then to `use_rtn()`, which
fails, crashes (a script of which no rule can start) or runs; while it runs, variables are put in their tree.
Names are numbers, in the order of `strcmp()`.

`Meaning` is a script as its author sees it: its declarations in their order, and tables from names to rules, mappings,
transformations and values. Each step is tied to what is read or put: `DefineRule`, `DefineMapping` and `DefineTransformation` take the next
declaration and enter what is written in it (`Written`) under its name, a rule only if the name has none; `Assign` gives one variable
the value of this assignment; `Begin` chooses the rule that is asked for or else the first plain one, and whether the script runs, fails or crashes. The
counters `read` and `puts` belong to the state of `Meaning`, so that no declaration and no assignment can pass as a stutter. `Load` implements it under the refinement
mapping that looks every name up, by the code's own functions; only the end of the file, before the check, is a stutter.

### Compile

A program is a sequence of assignments and emissions, written as text with as few parentheses as the manual's
precedences need, in three spacings. `yylex` takes the longest token from the text: a minus sign may begin a number, a hyphen may be part
of a name, and a percent sign may begin a keyword (`Keywords`), which no expression has a use for. `Shift`, `Reduce`,
`Accept` and `Error` are what the parser that yacc generates does: the conditions are read off the grammar,
whose states are small enough to be told by the two topmost entries of the stack. A reduction yields the list of
instructions its action in `parser.y` builds with `icat()`.

### Wrap

A text is a sequence of words, given by their lengths, and of blanks and newlines. `Skip` is an
iteration of the loop that skips whitespace and prints the newlines it meets; `PutWord` is what
follows that loop: perhaps a line break, then the word and a blank. When the loop runs into the
end of the text the word is empty but the blank is printed all the same; `skipping` tells this case
from the end of the outer loop. `space` and `start` are the locals; `out`, `col` and `words` record
what was printed, and no guard reads them.

### Pipeline

Two launchers are in the repository: the shell script that `dada.in` becomes, which is installed, and the
older `dada.c` (with its copy `dada_pipe.c`), which the Makefile does not build. `launcher` says which one runs.
For each end of the pipe the model keeps the processes that hold it open. A read
from the empty pipe blocks as long as anybody can write to it, a write to the full pipe
as long as anybody can read from it. In `dada.c` each child closes the
duplicate it made and keeps the end it has no use for; in the shell's pipeline it does not. Each
`pipe()`, `fork()` and `execvp()` may fail, the preprocessor may give up at any time, and `pb` may
end at a syntax error in any chunk. How the shell sets up a pipeline is not in the
repository: its part of `SetUp`, `ForkCpp` and `Exec` is what any shell does. The preprocessor is external too.

## 3. What is checked

| run | question | instance | outcome |
|---|---|---|---|
| `select` | does selection work, over its whole history? | 3 options, 7-bit ints, modes plain and unique, `-p` or not, 6 calls | holds |
| `resolver_sane` | ownership, stack discipline, documented output; is the output a sentence of the grammar? | seven scripts and two recursive grammars, both argument orders | holds |
| `resolver_footnotes` | can a variable that is set be read? | `FOOTNOTE` of `plain.pbi` | violated |
| `select_repeat` | is an option never chosen twice in succession? | 3 options, without `-p`, 2 calls | violated |
| `load` | are look-ups those of a table, where does the text begin, is the check sound? | all sequences of up to 4 declarations over 3 names; rule bodies with every node the check may mistake; 4 assignments | holds |
| `compile` | does code mean what the manual says? | all trees of depth two over the 8 operators, all leaves, blocks of 3 statements; 3 spacings | holds |
| `subst` | do both passes agree, are all matches replaced, is one text left? | texts of up to 4 letters, 8 patterns, 3 replacements, keys and patterns of substitutions alike or not, all commands, all ranges | holds |
| `subst_caret` | does the result fit the block? | `^a` replaced by `xx` in `aab` | violated |
| `regex` | is the match the leftmost longest one, and are the groups and errors right? | about a thousand expressions, three dozen other patterns, most of them wrong, 25 searches of texts of up to 3 letters and a few others | holds |
| `wrap` | do lines fit, and is the text kept? | all texts of up to 6 items, words of 1, 2, 3 and 5 characters, 4 columns | holds |
| `pipeline` | do the processes end, and is the whole script read? | both launchers, 4 chunks, a pipe for 2 | holds |
| `pipeline_dada` | does `dada.c` come to its exit? | 1 chunk | violated |

**Properties of `SelectOption`.** `WalkStaysInList`: unless an int has overflowed the walk never
follows `next` off the list. This rests on the draw being less than the sum that the walk
takes apart again. `EveryOtherSelectable`: before each draw, for each option but the one taken last
there is a value that ends the walk there; the loop compares with `>`
although draws start at 0, which gives the first option one value more than its weight and the last
one fewer (`DrawsFor`), and the property says that this never costs an option all its values. The odds are thus not quite the weights.
`TakesDrawnOption`: the walk stops at an option that the value drawn is one of. `AntiSeriality`: after a
call the chosen option is lighter than every other by at least three. That makes a repetition unlikely and does not exclude it:
`NeverTwice`, which `select_repeat` refutes.
`CallReturns`: a call that began returns, unless the arithmetic overflowed.

**Properties of `Resolver`.** `NoFault`: no undefined behaviour, no underflow of the operand
stack. `NoSharedText`: no two of the waiting frames, variables and results
in flight own the same text. `HeldTextsLive`: none of them holds a freed one (while a
block of code runs, a variable may: `res = res + "foo"` frees the text of `res`
before it sets it), and the actual parameters that frames refer to
are not freed. `StackBalanced`: a block leaves the stack as high as it found it. `TextInv` is the
inductive invariant of the proofs (section 4), which contains the resolver's types.
`OuterOperandsKept`: no step changes a cell below the base of a running block.
`OutputAsDocumented`: what is printed is one of the texts which the manual
leads the script's author to expect. The expected texts are written with each
script in `MCResolver`; the resolver's actions do not read them. `ImplementsDerivation`: on a script without variables and parameters every step is one of a leftmost derivation, or a stutter.

**Properties of `Regex`.** `LeftmostLongest`: there is an answer if and only if there is a match, in spite of the mandatory
string, of the two matchers and of the trial of back references; it begins at the first place where a match begins and ends at the last
where one from there ends. `GroupsTogether`: what the groups are said to have matched they can all have
matched in one and the same match. `ParserExact`: every expression is accepted, and a wrong
pattern gives the first error that applies. `StripLinked`: loops and choices are linked both ways and nest.

**Properties of `Subst`.** `FitsBuffer`: what the second pass writes fits the block that the first pass measured.
`SubstitutesAll`: if the pattern is found in the text, the result is the text with each match replaced, from the left, each the
longest. `FirstOption`: the option that is carried out is the first whose key matches. `OneText`: a text that is handed
in is freed or handed back, and nothing else stays allocated. `RangeExact`: `l`, `u` and `d` change the range that the manual's
addresses mean and nothing else. `MovesOn`: each step moves on to a later part of the code or, in a loop, to a later
option or offset; with deadlock checked, every application ends.

**Properties of `Load`.** `TypeOK` says besides the types that the tree of rules is in order and holds every rule that was
read. `ImplementsMeaning` is the refinement. `StartAsAsked`: the rule that is resolved is the
one asked for with `-s`, else the first that is plain. The manual says something else of scripts whose first rule that is no resource has parameters (see below). `NoFalseAlarm`: a script that the check refuses has an
undefined name in some rule. `AtomsDefined`: in a script that runs, the symbols and mappings an option consists of are
defined, and what a mapping is applied to.

**Properties of `Compile`.** `CompiledAsMeant`: the instructions of a program are the postfix form of the tree it was written
from, and no program is refused whose minus signs stand clear of digits and letters and whose percent signs stand clear of
what would make them keywords (`ClearMinus`, `ClearPercent`). `OneOperandEach`: at every moment the instructions of an
expression on the parser's stack leave one operand and never reach below it, those of a statement none.

**Properties of `Wrap`.** `LineFits`: a line, its trailing blank included, is within the columns unless
it has one word only. `BreaksOnlyFullLines`: a break is added only where the next word
would not have fitted. `TextKept`: the words and newlines of the text are printed once each, in order.
`Ends`: the printing ends.

**Properties of `Pipeline`.** `WholeScript`: `pb` resolves a script only when the preprocessor has ended and all it wrote
was read. `AllReaped`: a launcher that exits after its two waits leaves no child. `PipelineEnds`: under the shell, the
launcher and both children end, whatever fails. It is stated for the shell only, and `CHECK_DEADLOCK` is off, because `dada.c` does get
stuck: see `pipeline_dada`.

**Scripts.** They are test scripts of `scripts/test` and examples of the manual, each
reduced to two alternatives a choice. Between them they use every node type, every
instruction but `SUB`, a rule with two parameters, cascading parameters, an invoked rule that runs a
block amid the invoking expression, and an early `EMIT`. Some exclusions matter, because the program is wrong there
(see below): `-` is not used, nor an operator other than `+` on texts, nor a formal parameter in a call that is itself a
parameter. A text variable is not an operand of `+` unless the result is
assigned to the same variable, and is not emitted. The
atom of `var << atom` does not set `var` itself: it would overwrite a choice
that was already remembered, which the manual neither promises nor excludes.

**Bounds.** `MaxCalls` (calls per behaviour) lets the weights rise from 4 to the overflow of a
7-bit int; the proof covers every number. `MaxDepth` bounds the frames: 11 cuts off
no behaviour of the seven scripts (14 yields the same states); the two
recursive grammars are cut there, deep enough for `output` to be entered twice
within itself. `MaxReps` bounds the rounds of `*` and `+`: 2 rounds tell joining
from replacing. `StackSize` is 4 instead of 1024, more than the expressions need. `Wrap` has words that fill a line but for the blank (3 of 4 columns) and words longer
than a line, and six items are enough for two full lines with separators between and after them. In `Pipeline`
the script has more chunks than the pipe holds, so that the writer blocks.
`Regex`: pairs of pieces, each piece with each kind of repetition, a group or a choice of them
with a piece after it, one repetition inside another, brackets of every kind, anchors and word boundaries, flags one
at a time; a text of three letters tells the first match from the longest and the last pass
of a loop from the one before. Int and long have 32 bits. `Subst`: four letters hold two matches with something between and after them,
and one pattern matches the empty text; patterns that begin with `^` are left to `subst_caret`, since they do not fit. `d` begins at the
start of the text there, because the prefix it would keep is not terminated. `Load`: with four declarations a name can be declared
three times next to another in either subtree. `Compile`: two operators on either side of a third meet every pair of
precedences in both orders.
A behaviour that reaches `MaxDepth` stutters. Deadlock is checked in every run but those of `Pipeline`; where a program
has ended its specification stutters.

**Fairness.** `FairSpec` of `SelectOption` assumes weak fairness of `Step`, the next step of a
call that has begun: `select_option()` is sequential code with nothing to wait for.
`OldChoice` takes one step for what in the code is a loop that ends with probability one.
`Call` has no fairness: a rule need not be evaluated again. No liveness is stated of the
resolver: a recursive script need not end. `Wrap` assumes weak fairness of its one sequential program. `Regex`, `Subst`, `Load` and `Compile` state no
fairness: they are sequential and state safety only; that they end is seen by `MovesOn` and by the absence of deadlock. `Pipeline`
assumes it of each process by itself, as the scheduler of the system provides it; a blocked process
is one that has no enabled step. That `pb` prints in finite time (`PbPrint`) is part of this assumption.

### Disagreements with the documentation

Each of these is shown by a run of its own on an input that reaches it:

* `ADD` frees the texts of variables: after `FOOTNOTE(..)` the variable `tx`
  points to freed memory (`resolver_footnotes`).
* `dada.c` never ends: `pb` inherits the writing end of the pipe it reads from (`pipeline_dada`).
* The two passes of `regex_subst()` search with different flags (`map.c:120`, `map.c:134`), and the second
  writes past the block that the first measured (`subst_caret`).
* An option may be chosen twice in succession unless `-p` is given (`resolve.c:241`, dada.texi:388, `select_repeat`).

Further ones were met while modelling; the models contain them, the properties of the passing runs are stated beside them or their instances
avoid them, and there is no run that shows them by itself.

* If a pattern of `s` or of a `subst` mapping is not found, though the key is, the second pass copies a prefix whose length was never
  written and drops the rest (`map.c:128`), while the manual (dada.texi:623) has nothing to replace. The run `subst` reaches this; `SubstitutesAll` leaves it out.
* A first rule with parameters is not the start symbol (`parser.y:157`), although dada.texi:194 excepts resource rules only;
  a script that has none but those and resource rules is resolved from a null pointer (`pb.c:43`, `NoStart` in `Load`). The run `load` reaches both.
* `((foo*2)-1)/bar`, an example of the manual (dada.texi:751), is a syntax error, because `-1` is a number (`lexer.x:24`); `x-1` is one identifier.
  `x%n` is a syntax error, because `%n` is a keyword (`lexer.x:66`); so is any name after `%` that begins with n, N, e or E, or with
  another keyword (`cond`, `unique`, ...), unless there is a blank between. The run `compile` reaches both; `CompiledAsMeant` leaves them out.
* The weights of options are not bounded. An option that was not chosen in 47 evaluations of its
  rule, which is certain to exist if the rule has more options than that, overflows a 32-bit int,
  and `select_option()` may read a null pointer (`resolve.c:217`). The run `select` reaches the overflow with 7-bit ints, and
  its properties are stated up to there.
* `SUB` adds (`machine.c:130`). An operator other than `+` pushes nothing if an operand is a text, and the next
  pop reads below the stack (`machine.c:136`).
* The parameters of a call which is itself a parameter are resolved again under the formal
  parameters of the rule it calls (`resolve.c:193`). A literal argument that reads like a formal parameter is replaced by it
  (`resolve.c:181`); inline choices do see parameters although the manual excludes them (dada.texi:466).
* `{= v}` returns the text of `v` itself, which the caller frees. `unique` (`rtn.h:44`) has no effect (`resolve.c:224`).
* The check looks at the first parameter of a call only and not into choices, dereferences, definitions and repetitions (`check.c:35`).
* A match of nothing ends both passes of `regex_subst()`, and what follows it is lost (`map.c:132`).
* `d` allots one byte too few and does not terminate the prefix it keeps (`transform.c:65`). An `s` with a pattern that is none makes
  the text a null pointer, and one with fewer than two literals reads one (`transform.c:72`, where a FIXME says so).
* Where long is longer than int, `regexec()` shifts ints in sets that are longs, and the operators from 16 on come back from the strip
  with other bits (`regexec.c:66`, `regex2.h:103`): no choices, no `?` and no word boundaries, and states
  beyond the 32nd are lost. With `LongBits` above `IntBits` the model does the same.
* `backref()` takes the first end of a choice for that of a nested one, and does not restore `lastpos` (`engine.c:627`), so that
  `\(b*\)*b\1` does not end; `dissect()` mixes the passes of a loop whose last one is empty; two word boundaries next to each
  other, and a line that ends at the end of the text with `REG_NEWLINE`, may be missed or seen where they are not.
  Expressions of these kinds are left out of `MCRegex`.

## 4. What is proved

`SelectOptionProofs` proves for every `NumOptions > 0`, every `IntMax >= 4`, every set of
modes and every bound on calls, from the four assumptions on constants in `SelectOption`:

| theorem | statement |
|---|---|
| `TypeCorrect` | `Spec => []TypeOK` |
| `WalkStaysInListAlways` | `Spec => []WalkStaysInList` |
| `EveryOtherSelectableAlways` | `Spec => []EveryOtherSelectable` |
| `TakesDrawnOptionAlways` | `Spec => []TakesDrawnOption` |
| `AntiSerialityAlways` | `Spec => AntiSeriality` |

None of the invariants is inductive. `WalkStaysInList` needs that at the end of the
list the draw is used up, so one has to know what `ch` is at every moment:
`draw` minus the sum of the weights passed. A sum over a function is recursive, so the
partial sums are kept by the auxiliary variable `prefix`, which `SumWeight` fills as the code
adds the weights. The invariant is `IInv == TypeInv /\ (~overflowed => Sound)`, where `Sound` says
that every weight is at least 3 (it is 4 at first, and `(1+1)*3/2 = 3` or more after a call),
that `prefix` holds the partial sums up to `o` while summing and all of them
afterwards, that the draw is less than the sum, and that in the walk
`ch = draw - prefix[o]`, positive unless `o` is the first option. With it
`ch > randweight[o]` at the last option contradicts `draw < sum`, and an option `j` is selected by
the value `prefix[j] + 1`, which is within the range because weights are at least 3.
The proof takes the actions one by one; `overflowed` lets each integer operation be treated as
exact in the case that matters. `AntiSeriality` follows from the lower bound on the
weights of the options not taken.

`WrapProofs` proves for every set of texts without adjacent words and every number of columns but 0
(which switches wrapping off):

| theorem | statement |
|---|---|
| `TypeCorrect` | `Spec => []TypeOK` |
| `LineFitsAlways` | `Spec => []LineFits` |
| `BreaksOnlyFullLinesAlways` | `Spec => BreaksOnlyFullLines` |
| `TextKeptAlways` | `Spec => []TextKept` |

`print_wrapped()` decides by `space`, the properties speak of what is on the line. The invariant `Tracks` links them:
`space = Cols - 1 - col`, a line at whose start the printing is is empty, and a line of several words fits.
`TextKept` compares the words printed and those left with the words of the text. `Visible` drops the blanks by recursion, so that what it makes of two
texts joined is shown by induction over the length (`VisibleAppend`, `VisibleHead`); then a step appends to `out` what it takes from `rest`, or nothing but blanks. The library's induction theorems take an operator
as a parameter, which the installed provers cannot instantiate. `Recursion` states what is needed of sets and functions instead: a set with 0 and the
successors of its numbers holds all of them (`SetInduction`, from the least number principle); a step function can be iterated (`RecursionExists`); what the step keeps holds throughout (`RecursionKeeps`).

`PipelineProofs` proves for both launchers, every capacity of the pipe but 0 and every number of chunks, from
the assumptions on constants in `Pipeline`:

| theorem | statement |
|---|---|
| `TypeCorrect` | `Spec => []TypeOK` |
| `WholeScriptAlways` | `Spec => []WholeScript` |
| `AllReapedAlways` | `Spec => []AllReaped` |

`pb` takes an empty pipe without writers for the end of the script, so the invariant has to say who can still write:
`HoldsEnd`, the launcher until it has started the preprocessor, and the preprocessor as long as it runs. `SeenEnd` keeps
what `pb` saw (no preprocessor runs or will be started, the pipe is empty), `Conserved` says that what was written is in the
pipe or was read, and `Order` at which place of the launcher which child has been started or waited for.
There is one lemma for each action; the theorems need no fairness.

The proofs about the resolver rest on a chain of three invariants, types, stack and owners, each using those before it; the refinement needs the types and an invariant of its own. They hold for every set of scripts
that the parser can build (`ScriptsAssumption`: nodes have the parts their type needs, instructions are those of the machine, there
is a rule to start with), every `StackSize` but 0, every `MaxDepth >= 2` (which the first call needs) and every `MaxReps`, in both
orders of evaluation of arguments.

| theorem | statement | module |
|---|---|---|
| `TypesHold` | `Spec => []TypeInv` | `ResolverProofs` |
| `TypeCorrect` | `Spec => []TypeOK` | `ResolverProofs` |
| `CodeHolds` | `Spec /\ WellTyped(script) => []CodeInv` | `OwnerProofs` |
| `StackStaysBalanced` | `Spec /\ WellTyped(script) => []StackBalanced` | `OwnerProofs` |
| `OuterOperandsStay` | `Spec /\ WellTyped(script) => OuterOperandsKept` | `OwnerProofs` |
| `NeverUnderflows` | `Spec /\ WellTyped(script) => [](mem.fault # "underflow")` | `OwnerProofs` |
| `OwnersHold` | `Spec /\ CarefulScript(script) => []TextInv` | `OwnerProofs` |
| `TextsHaveOneOwner` | `Spec /\ CarefulScript(script) => []NoSharedText` | `OwnerProofs` |
| `HeldTextsStay` | `Spec /\ CarefulScript(script) => [](NoFault => HeldTextsLive)` | `OwnerProofs` |
| `VariablesStayReadable` | `Spec /\ CarefulScript(script) => [](NoFault => VariablesReadable)` | `OwnerProofs` |
| `NeverUsesFreed` | `Spec /\ CarefulScript(script) => [](mem.fault # "stale")` | `OwnerProofs` |
| `ResolverDerives` | `Spec => ImplementsDerivation` | `ResolverProofs` |

*Types.* `TypeInv` says for every kind of waiting call what it holds, that pointers are into the heap, and (`ChainAt`) that
`resolve_params()` waits on top of a rule or of a nested call and has a parameter left while one is being resolved: without the last
part `Frame.left - 1` may be negative. A step does one of a few things to the calls (`Answer`, `Leave`, `Continue`, `Call`, `InvokeOn`); a
lemma for each carries the types over, and the lemma of an action shows that the action gives it what it asks for.
`TypeCorrect` does not say that the operand stack keeps to its array: `push` of the model ends in the fault `overflow` where that of `machine.c:25` writes on, so nothing would be shown.

*Operand stack.* Nothing in `pb` checks a block of code: an operator pops two cells and pushes nothing for most texts, so that balance depends
on the types of the operands, which depend on the variables. `CodeTyping` computes for a block alone a description of the cells in front of every instruction
(`Typing`); a block is well-typed if every instruction fits its description and nothing is left at the end, given a set of variables, fixed for the
script, that hold integers only. The invariant (`WaitInv`, `StackInv`) says that the real stack always is what the descriptions say: every
block that waits for an `INVOKE` has its cells between its base and the base of the next block within it, the innermost reaches to the top, and
cells and variables that should hold integers do. `StackBalanced` alone is not inductive, since it says nothing of a block in the middle. A step outside of
the blocks is mild (it leaves stack and variables alone) or defines a variable outside of that set; a step of a block goes from one description to the next.

*Ownership.* `PUSHV` pushes the variable's own text and `ADD` frees its operands, so that between `PUSHV x` and `SET x` a text has an owner that does not
know it was freed. `NoSharedText` and `HeldTextsLive` therefore speak of blocks only as a whole, and are far from inductive. `OwnerInv` counts the
cells of the operand stack among the holders of texts, except those that are on loan from a variable (`Lent`), and knows which variables a block has freed the text
of (`Spent`); both are read off the block's description. Its parts: `Apart`, no two holders have the same text; `HeldLive`, what is held is live except by
spent variables; `Loans`, a cell on loan holds what its variable holds and a variable lends once; `ActualsSafe`, the actual parameters a waiting
function may still copy are live and held by nobody who could return, and free them, before that function does. Faults are admitted by the parts
(`NoFault =>`), because after one the C program has no defined behaviour to speak of.
The steps outside of the blocks hand one list of texts from those who return to one holder (`HandOne`); the steps of a block, and a definition, are
instances of `PassOn`: who keeps a text, and who gets one from whom. For this a block must be careful (`Careful`): a text variable is pushed once and
set again, or its text goes into the same variable, before the block ends or invokes a rule. This excludes programs that do go wrong.
`x + "foo"` emitted, or assigned to another variable, leaves `x` without its text: this is what `FOOTNOTE` does.

*Refinement.* `ResolverDerives` has no hypothesis about the script: on one that is no grammar the mapping is constant, and on a grammar, of any size and with any recursion, every step is `Settle`, `Expand`
or a stutter of `Derivation`. `Settled` joins what each waiting function has gathered, from the outermost in, and `ToDerive` what each has still to do, from the innermost out; both are
`FlattenSeq` of a sequence with one part for each function, which is recursive, so there are lemmas (by `Recursion`) on how the joined sequence changes with its last or first part (`JoinMore`). A step concerns only
the top `k` functions: `Before` and `BeforeTwo` write both sequences as the parts below and those of the top, and the `After...` lemmas do so after a step. A literal settles its words.
The selection of a rule's option, a symbol without a rule, an inline choice, `+`, and a repetition that begins another round or ends expand the first item. The call of a rule, its end, and the beginning of `*` or `%repeat` are stutters. A returned text moves from the result in flight into the text of the function that waits for it, which is a stutter.
The invariant `GrammarInv` says that on a grammar only options, repetitions, rules and the lists of (no) parameters wait, that no formal parameter is bound, that a `+` in its first round has no text yet, and that
texts are made of the script's words. With `TypeInv` this excludes every other action of the resolver (`NoCode`, `NoParameter`, `NoArg`, `NoOtherFunction`).

The other hypotheses of these theorems are about the script a run begins with. TLC evaluates them on the instances: the nine scripts of `resolver_sane` are careful, the
footnotes are well-typed but not careful (assumptions of `MCResolver`). So the theorems say of `resolver_footnotes` that its stack is balanced and nothing of its texts.
`TextInv` itself is an invariant of `resolver_sane`.

`LoadProofs` proves, for every set of names that are integers and every set of scripts that the parser can build (`ScriptsAssumption`: what is
within a node was built before it, a mapping has a parameter, rules have options, lists are not empty), with no bound on the declarations,
the depth of nodes or the assignments:

| theorem | statement |
|---|---|
| `LoadInductive` | `Spec => []LoadInv` |
| `RulesInOrder` | `Spec => []TypeOK` |
| `StartRight` | `Spec => []StartAsAsked` |
| `AlarmsAreTrue` | `Spec => []NoFalseAlarm` |
| `WhatRunsIsDefined` | `Spec => []AtomsDefined` |
| `LookupsImplemented` | `Spec => ImplementsMeaning` |

*Trees.* Nodes are only ever hung below older ones, so a child has a greater number than its parent (`IsTree`). This is the rank that makes the recursion of
`Find`, `Insert` and `Inorder` end: `RankedRecursion` turns each of them into a function with the equations of the code (`WalkExists`, `FindExists`, `InorderExists`), and
`DownInduction` proves facts of all nodes from the leaves up. `FindInsert` says what a search finds after an insertion: what it found before, and if
it found nothing, the new node if it has the name. This needs no order: the search goes where the insertion went, because the two compare in the same way, except at
a node of the same name, where the search stops. Therefore the first rule of a name stays the one that is found, although the second hangs below it.
The traversal is another matter. That it is in order and meets every node once rests on `IsSearchTree`: names to the left are not greater, names to
the right are, and every node is below the root. `WalkPasses` shows that the place where a walk ends lies on the side of every node above it to which the
name belongs; so the invariant survives (`InsertOrdered`), also with equal names, and gives `InorderLists`.

*Reading.* None of the properties is inductive. `LoadInv` says that the tree holds exactly the rules read so far (`Holds`) and that of each name a search finds
the one declared first (`Finds`), that the names in each list are those read (`Listed`), and that the start symbol is the first plain rule so far; each step
of the parser moves this by one declaration. With it the names that a script declares are those that are found when all is read (`AllIsFound`), and what the recursive check reports, which is an
induction over the nodes (`UndefIs`, `ReportedIsUndefined`, `NothingReported`), can be compared with what is declared. `WhatRunsIsDefined` speaks of all rules, also of
those that another hides: this is where `check_for_undefined()` needs that the traversal meets every node.

*Refinement.* A rule that is read is a `DefineRule`, also when it is hidden; that the beginning of the text changes with it exactly if the rule is plain and there was
none is what `StartMeans` is for. A mapping or transformation that is read is in front of its list, so that its name finds it and the others find what they found (`ListMeans`).
`Put` is an `Assign` of the value that is put, by `FindInsert` for a new variable and `FindUpdate` for one that is there. `Resolve`, `NoSuchRule` and `NoStart` are the three
outcomes of `Begin` (`StartRuleMeans`). `options()`, `transopts()` and `mapopts()` give the bodies as they are written (`OptionsKept`, `MapoptsFlattened`). Each table is shown to be
the old one updated at one name (`MeaningUpdated`), or the same.

`SubstProofs` proves, for all texts, functions with any number of options, and every library of regular expressions whose matches lie within the text:

| theorem | statement | of every job |
|---|---|---|
| `EveryStepMovesOn` | `Spec => MovesOn` | |
| `OneTextIsLeft` | `Spec => []OneText` | `PatternsCompile` |
| `RangesAreExact` | `Spec => RangeExact` | `RangesWithin` |
| `ResultFits` | `Spec => []FitsBuffer` | `MatchesAnywhere` |
| `FirstFoundIsTaken` | `Spec => []FirstFound` | |
| `EachMatchIsReplaced` | `Spec => []EachReplaced` | |

The hypotheses in the last column are what the code does not look at: an `s` whose pattern is none returns a null pointer, addresses are reduced modulo the length
without a check, and the two passes search with different flags. `MCSubst` assumes them of its jobs, so TLC evaluates them there;
the job of `subst_caret` does not satisfy `MatchesAnywhere`, and the run shows what comes of it.
`Inv` is the common invariant: which parts of the function are in use (`JobInv`), the variables of `regex_subst()` (`SubInv`), that the match at hand is what the
pattern finds at the offset at hand (`SearchInv`), and which blocks are allocated, by whether there is a result (`ResultInv`, `HeapInv`).
`FitsBuffer` needs more, since the length is worked out by one loop and used up by another. `IsGrowth` says by how much the part of the text from an offset on grows when its
matches are replaced. Such a function exists (`GrowthExists`, by `RankedRecursion`: a match that is not empty leaves less to search), and it takes away no more than there is (`GrowthBounded`).
With it both loops can be described at any moment (`Agrees`): the first has added the growth up to its offset, the second has composed so much text, and at the end of
the first the length is that of the text plus the growth of all of it. An empty match ends both loops in the same place.

`FirstFound` and `EachReplaced` are `FirstOption` and `SubstitutesAll` in terms of what the library finds, rather than of what an expression means: the option that is carried out is
the first whose key `Regexec` finds in the text; and what `regex_subst()` returns, if the pattern is found at all, is the text in which what is found is
replaced, and what is then found in the text after it, up to an empty match. `AllReplaced` says this by recursion on what is left of the text
(`AllReplacedExists`, again by `RankedRecursion`), and `ComposedInv` that at every moment the result so far, with what becomes of the rest, is the whole.
If the pattern is not found the code copies as much of the text as an uninitialised variable says, so nothing is claimed.

**Model-checked only.**

* `CallReturns`, `Ends`, `MovesOn` with the absence of deadlock, and `PipelineEnds`: liveness is outside what the installed provers do.
* `NoFault` and `OutputAsDocumented` are statements about given scripts: a script may divide by zero, push more than the stack holds, read a variable
  that was never set, or add to the text of an undefined definition (`bad free`); of the faults only `underflow` and `stale` are excluded in general.
* Everything about `RegComp`, `RegExec`, `RegLang` and `Compile`, which declare RECURSIVE operators because the code they translate
  recurses over patterns, strips and grammar; and `SubstitutesAll` and `FirstOption` in `SubstRegex`, which say what an expression means (what they come to for the library as a parameter is proved, `EachMatchIsReplaced` and `FirstFoundIsTaken`).

## 5. What is not modelled, and abstractions

* Ints of scripts are unbounded in `Machine`: their overflow is the script author's
  affair. The option weights, which no author sees, wrap.
* `new_str_var()` and `new_int_var()` lack a `return` (`variables.c:21`). The model takes the
  outcome of the `-g` build, in which the pointer is still in the result register.
* In `Resolver` a mapping is a function from texts to texts, names of rules and mappings are unique, and variables are a function:
  `Subst` and `Load` model what stands behind these.
* `atom->mode` is never initialised (`rtn.c:11`). It matters with `-p` only, and there it decides
  between the two ways of choosing; `SelectOption` takes both.
* Allocation does not fail. Output, tracing, dumping and the command line are left out.
* The scripts of `Resolver` are what the parser builds and `check_rtn()` accepts; `check_rtn()` does not look into
  choices, and one script has an undefined symbol there.
* Of the lexer and parser: the grammar of atoms (its precedences, and the nodes it builds, which are the input of
  `Resolver`), comments, line numbers and the quotes of literals. The generated tables are taken to be correct.
* Of `regex/`: `REG_STARTEND`, `REG_PEND`, names of several characters in `[. .]`, `regerror()`, the growth of the strip. Assertions are compiled
  out, as they are unless `REDEBUG` is defined (`utils.h:53`).
* `cookstr()`, `dump.c`, the dictionary and the resolution stack (nothing in `pb` calls them), the emitters and `pbc.c` (not
  built), the loop over the options of the command line, which sets globals.

## 6. Plan

Done: `SelectOption`, `Wrap` and `Pipeline` with proofs; `Memory`, `Machine`, `Resolver`, with proofs of
types, operand stack and ownership; `Derivation` and a proof that `Resolver` implements it; the regular expressions; `Subst` with proofs of what
does not depend on what matches; `Load` with `Meaning`, with proofs of all its properties; `Compile`.

To come, the most useful first:

1. Theorems: which scripts never free the constant `"undefined"`, so that `bad free` can be excluded as well; what is provable
   of `Compile` once its recursion is over functions, as that of `Load` is.
2. The grammar of atoms: precedences of `?`, `>`, `*`, `+` and `<<`, against the nodes the manual describes.
3. `cookstr()`, and the options of the command line.
