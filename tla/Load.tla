-------------------------------- MODULE Load --------------------------------
(***************************************************************************)
(* Reading a script.  The parser's actions enter rules in a search tree and *)
(* mappings and transformations in lists; at the end use_rtn() checks what *)
(* was read, decides where the text begins and resolves it, in the course  *)
(* of which variables are put in a tree of their own.                      *)
(* Names are numbers, in the order of strcmp().  A script is a record:     *)
(*   nodes  the nodes of its rules, in the order in which they are built:  *)
(*          those that are within a node come before it                    *)
(*   decls  the declarations, in the order of the file                     *)
(*   start  the rule asked for with -s, or None                            *)
(*   puts   how many assignments are tried once it runs                    *)
(* A declaration has k, name and body; the body of a rule has formals and  *)
(* options, an option is a sequence of nodes, and a node has type, data,   *)
(* params and options.  The body of a mapping is a sequence of triples     *)
(* <<arrow, key, out>>, that of a transformation is of pairs <<key, command>>. *)
(***************************************************************************)
EXTENDS SearchTree, SequencesExt, FiniteSetsExt

CONSTANTS Names, Scripts, None

VARIABLES
  pc,                \* "read", "check", "run", "failed", "crashed" or "done"
  script,
  read,              \* how many declarations were read
  rules,             \* the tree of rules
  initial_rule,      \* a rule of the tree, or 0
  mappings,          \* the last one first
  transformations,
  vars,              \* the tree of variables
  puts               \* assignments so far

state == <<pc, script, read, rules, initial_rule, mappings, transformations, vars, puts>>

RuleKinds == {"rule", "resource", "param"}
NodeOK(a, n) ==
  /\ a.data \in Int /\ a.params \in Seq(1..(n - 1)) /\ a.options \in Seq(Seq(1..(n - 1)))
  /\ a.type = "mapping" => a.params # <<>>
IsSequence(s) == Len(s) \in Nat /\ s = [i \in 1..Len(s) |-> s[i]]
IsDecl(d, nodes) ==
  /\ d.k \in RuleKinds \cup {"mapping", "xform", "error"}
  /\ d.k # "error" => d.name \in Names
  /\ d.k \in RuleKinds => /\ d.body.formals \in Seq(Int)
                          /\ d.body.options \in Seq(Seq(DOMAIN nodes)) \ {<<>>}
  /\ d.k \in {"mapping", "xform"} => IsSequence(d.body) /\ d.body # <<>>
IsScript(s) ==
  /\ IsSequence(s.nodes) /\ \A n \in DOMAIN s.nodes : NodeOK(s.nodes[n], n)
  /\ IsSequence(s.decls) /\ \A i \in DOMAIN s.decls : IsDecl(s.decls[i], s.nodes)
  /\ s.start \in Names \cup {None} /\ s.puts \in Nat

ASSUME NamesAssumption   == Names \subseteq Int /\ None \notin Names
\* What the parser can build.
ASSUME ScriptsAssumption == \A s \in Scripts : IsScript(s)

Init == /\ script \in Scripts /\ read = 0 /\ pc = "read"
        /\ rules = <<>> /\ initial_rule = 0 /\ vars = <<>>
        /\ mappings = <<>> /\ transformations = <<>> /\ puts = 0

-----------------------------------------------------------------------------
(* The lists that the grammar's recursive rules put together.              *)

\* options: option '|' options: the rest is there before the first is put in front.
option_append(a, b) == a \o b
options(os) ==
  LET from[i \in 1..Len(os)] ==
        IF i = Len(os) THEN <<os[i]>> ELSE option_append(<<os[i]>>, from[i + 1])
  IN  from[1]

\* mapopts: mapopts mapopt: the options of a pair of arrows, after the others.
mapopt(item) ==
  IF item[1] = "M" THEN <<<<item[2], item[3]>>>>
  ELSE <<<<item[2], item[3]>>, <<item[3], item[2]>>>>
mapopts(items) ==
  LET upto[i \in 1..Len(items)] ==
        IF i = 1 THEN mapopt(items[i]) ELSE upto[i - 1] \o mapopt(items[i])
  IN  upto[Len(items)]

\* transopts: transopt transopts
list_cons(a, l) == <<a>> \o l
transopts(os) ==
  LET from[i \in 1..Len(os)] ==
        IF i = Len(os) THEN <<os[i]>> ELSE list_cons(os[i], from[i + 1])
  IN  from[1]

-----------------------------------------------------------------------------
(* The trees and lists of declarations.                                     *)

rule_new(d) == Node(d.name, [params |-> d.body.formals, options |-> options(d.body.options)])
\* A rule of a name that is there already goes to the left of it.
rule_insertLeft(tree, new) == InsertLeft(tree, new)
rule_insert(tree, new) == Insert(tree, new)

rule_find(tree, name) == Find(tree, name)
rule_inorder_traverse(tree) == Inorder(tree)

\* A slip: the list is gone through to its end.
LookupLast(list, name) ==
  LET I == {i \in DOMAIN list : list[i].name = name}
  IN  IF I = {} THEN 0 ELSE Max(I)

\* map_lookup() and trans_lookup(): the place of the first of a list, or 0.
Lookup(list, name) ==
  LET I == {i \in DOMAIN list : list[i].name = name}
  IN  IF I = {} THEN 0 ELSE Min(I)
map_lookup(name)   == Lookup(mappings, name)
trans_lookup(name) == Lookup(transformations, name)

-----------------------------------------------------------------------------
(* The parser's actions.                                                    *)

Current == script.decls[read + 1]
Reads(k) == pc = "read" /\ read < Len(script.decls) /\ Current.k = k
Goes == read' = read + 1 /\ UNCHANGED <<pc, script, vars, puts>>
EntersRule == /\ rules' = rule_insert(rules, rule_new(Current))
              /\ UNCHANGED <<mappings, transformations>>

\* A slip: the rules are looked at after the insertion, when there is one.
PlainRuleOnlyFirst ==
  /\ Reads("rule") /\ EntersRule
  /\ initial_rule' = IF rules = <<>> THEN 1 ELSE initial_rule
  /\ Goes

\* The first plain rule is the start symbol.
PlainRule ==
  /\ Reads("rule") /\ EntersRule
  /\ initial_rule' = IF initial_rule = 0 THEN Len(rules) + 1 ELSE initial_rule
  /\ Goes
ResourceRule  == Reads("resource") /\ EntersRule /\ Goes /\ UNCHANGED initial_rule
ParameterRule == Reads("param") /\ EntersRule /\ Goes /\ UNCHANGED initial_rule

Mapping ==
  /\ Reads("mapping")
  /\ mappings' = <<[name |-> Current.name, options |-> mapopts(Current.body)]>> \o mappings
  /\ Goes /\ UNCHANGED <<rules, initial_rule, transformations>>

Transformation ==
  /\ Reads("xform")
  /\ transformations' = <<[name |-> Current.name, options |-> transopts(Current.body)]>>
                        \o transformations
  /\ Goes /\ UNCHANGED <<rules, initial_rule, mappings>>

\* yyparse() gives up; main() ends.
SyntaxError ==
  /\ Reads("error") /\ pc' = "failed"
  /\ UNCHANGED <<script, read, rules, initial_rule, mappings, transformations, vars, puts>>

\* The end of the file: use_rtn(), which does nothing if there are no rules.
Moves(p) ==
  pc' = p /\ UNCHANGED <<script, read, rules, mappings, transformations, vars, puts>>
EndOfFile == /\ pc = "read" /\ read = Len(script.decls)
             /\ Moves(IF rules = <<>> THEN "done" ELSE "check") /\ UNCHANGED initial_rule

-----------------------------------------------------------------------------
(* check_rtn(), and where the text begins.                                  *)

\* A slip: the names of parameters are not excepted.
undef_iter2All(r, n) ==
  LET within[m \in DOMAIN script.nodes] ==
        LET a == script.nodes[m]
            first == IF a.params = <<>> THEN {} ELSE within[a.params[1]]
        IN  CASE a.type = "symbol" -> (IF rule_find(rules, a.data) = 0 THEN {m} ELSE {}) \cup first
              [] a.type = "mapping" ->
                   (IF map_lookup(a.data) = 0 /\ trans_lookup(a.data) = 0 THEN {m} ELSE {}) \cup first
              [] OTHER -> {}
  IN  within[n]

\* The nodes that are reported, of node n of rule r: of parameters only the first
\* is looked at, and nothing within the other kinds of node.
undef_iter2(r, n) ==
  LET within[m \in DOMAIN script.nodes] ==
        LET a == script.nodes[m]
            first == IF a.params = <<>> THEN {} ELSE within[a.params[1]]
        IN  CASE a.type = "symbol" ->
                   IF Contains(r.body.params, a.data) THEN {}
                   ELSE (IF rule_find(rules, a.data) = 0 THEN {m} ELSE {}) \cup first
              [] a.type = "mapping" ->
                   (IF map_lookup(a.data) = 0 /\ trans_lookup(a.data) = 0 THEN {m} ELSE {}) \cup first
              [] OTHER -> {}
  IN  within[n]
\* A slip: node_map() stops before the last node.
undef_iter1ButLast(r, o) == UNION {undef_iter2(r, o[i]) : i \in DOMAIN o \ {Len(o)}}
undef_iter1(r, o) == UNION {undef_iter2(r, o[i]) : i \in DOMAIN o}
undef_iter0(r) == UNION {undef_iter1(r, r.body.options[i]) : i \in DOMAIN r.body.options}
check_for_undefined == UNION {undef_iter0(rules[p]) : p \in ToSet(rule_inorder_traverse(rules))}

Undefined == /\ pc = "check" /\ check_for_undefined # {}
             /\ Moves("failed") /\ UNCHANGED initial_rule

StartRule == IF script.start = None THEN initial_rule ELSE rule_find(rules, script.start)

\* 'rule "%s" does not exist.'
NoSuchRule == /\ pc = "check" /\ check_for_undefined = {}
              /\ script.start # None /\ StartRule = 0
              /\ Moves("failed") /\ initial_rule' = 0

\* No plain rule was read: resolve_rule() is given a null pointer.
NoStart == /\ pc = "check" /\ check_for_undefined = {}
           /\ script.start = None /\ StartRule = 0
           /\ Moves("crashed") /\ UNCHANGED initial_rule

Resolve == /\ pc = "check" /\ check_for_undefined = {} /\ StartRule # 0
           /\ Moves("run") /\ initial_rule' = StartRule

-----------------------------------------------------------------------------
(* The tree of variables.  new_str_var() and new_int_var() have no return  *)
(* statement; built as the Makefile has it, without optimisation, they     *)
(* return the new node.                                                     *)

\* A variable that is there already gets the new value, and keeps its place.
var_insert(tree, name, v) ==
  LET p == Find(tree, name)
  IN  IF p # 0 THEN [tree EXCEPT ![p].body = v]
      ELSE Insert(tree, Node(name, v))
var_lookup(tree, key) == Find(tree, key)

Value(type) == [type |-> type, value |-> puts]
Put(type) ==
  /\ pc = "run" /\ puts < script.puts
  /\ \E n \in Names : vars' = var_insert(vars, n, Value(type))
  /\ puts' = puts + 1
  /\ UNCHANGED <<pc, script, read, rules, initial_rule, mappings, transformations>>
var_put     == Put("string_t")
var_put_int == Put("int_t")

Resolved == pc = "run" /\ Moves("done") /\ UNCHANGED initial_rule

Ended == pc \in {"failed", "crashed", "done"} /\ UNCHANGED state

Next == \/ PlainRule \/ ResourceRule \/ ParameterRule \/ Mapping \/ Transformation
        \/ SyntaxError \/ EndOfFile \/ Undefined \/ NoSuchRule \/ NoStart \/ Resolve
        \/ var_put \/ var_put_int \/ Resolved

Spec == Init /\ [][Next \/ Ended]_state

-----------------------------------------------------------------------------
Declared(kinds) == {i \in DOMAIN script.decls : script.decls[i].k \in kinds}
RulesRead == {i \in Declared(RuleKinds) : i <= read}
IsRuleOf(r, d) ==
  r.name = d.name /\ r.body = [params |-> d.body.formals, options |-> d.body.options]

\* The tree of rules is a search tree that holds every rule that was read, also
\* those that another one hides: what is traversed is in order, each rule is met
\* once, and they are those that were read.
TypeOK ==
  /\ pc \in {"read", "check", "run", "failed", "crashed", "done"}
  /\ read \in 0..Len(script.decls) /\ puts \in 0..script.puts
  /\ LET all == rule_inorder_traverse(rules)
     IN  /\ \A i, j \in DOMAIN all :
              i < j => all[i] # all[j] /\ rules[all[i]].name <= rules[all[j]].name
         /\ \A i \in RulesRead : \E j \in DOMAIN all : IsRuleOf(rules[all[j]], script.decls[i])
         /\ \A j \in DOMAIN all : \E i \in RulesRead : IsRuleOf(rules[all[j]], script.decls[i])

-----------------------------------------------------------------------------
(* What the declarations mean, by name.                                     *)

\* dada.texi: "foo" <-> "bar" is equivalent to "foo" -> "bar" "bar" -> "foo".
Written(d) ==
  CASE d.k \in RuleKinds -> [params |-> d.body.formals, options |-> d.body.options]
    [] d.k = "mapping" ->
         FlattenSeq([i \in DOMAIN d.body |->
            LET x == d.body[i] IN IF x[1] = "M" THEN <<<<x[2], x[3]>>>>
                                  ELSE <<<<x[2], x[3]>>, <<x[3], x[2]>>>>])
    [] OTHER -> d.body

WrittenAs(kinds) ==
  UNION {{Written(s.decls[i]) : i \in {j \in DOMAIN s.decls : s.decls[j].k \in kinds}}
           : s \in Scripts}

Read(p) == IF p = 0 THEN None ELSE rules[p].body
ListRead(list, i) == IF i = 0 THEN None ELSE list[i].options

AllRuleBodies == WrittenAs(RuleKinds)
AllMapBodies == WrittenAs({"mapping"})
AllXformBodies == WrittenAs({"xform"})
AllValues == [type : {"string_t", "int_t"}, value : Nat]

ASSUME NoneAssumption ==
  /\ None \notin AllRuleBodies /\ None \notin AllMapBodies
  /\ None \notin AllXformBodies /\ None \notin AllValues

Promise == INSTANCE Meaning WITH
  phase  <- IF pc = "check" THEN "read" ELSE pc,
  decls  <- script.decls,
  asked  <- script.start,
  rules  <- [n \in Names |-> Read(rule_find(rules, n))],
  maps   <- [n \in Names |-> ListRead(mappings, map_lookup(n))],
  xforms <- [n \in Names |-> ListRead(transformations, trans_lookup(n))],
  start  <- Read(initial_rule),
  vars   <- [n \in Names |-> LET p == var_lookup(vars, n) IN IF p = 0 THEN None ELSE vars[p].body]

\* Reading and running a script implements lookups by name.  Each declaration
\* that is read is found under its name, as it is written, unless it is a rule and
\* there is one of the name; each assignment gives its variable that value and
\* type; and nothing else changes what any name means, whatever the shape of the
\* trees and the order of the lists.
ImplementsMeaning == Promise!Spec

\* Where the text begins: the first rule read that is neither a resource nor has
\* parameters, or the first of the name that is asked for.  A script without such
\* a rule does not run.  This is not what dada.texi says ("the first rule read that
\* is not defined as a resource rule"): one with parameters is passed over.
StartAsAsked ==
  pc \in {"run", "crashed"} =>
    LET I == IF script.start = None THEN Declared({"rule"})
             ELSE {i \in Declared(RuleKinds) : script.decls[i].name = script.start}
    IN  Read(initial_rule) = IF I = {} THEN None ELSE Written(script.decls[Min(I)])

-----------------------------------------------------------------------------
(* The check for undefined names.                                           *)

IsDefined(r, n) ==
  LET a == script.nodes[n]
      named(kinds) == \E i \in Declared(kinds) : script.decls[i].name = a.data
  IN  CASE a.type = "symbol"  -> Contains(r.body.formals, a.data) \/ named(RuleKinds)
        [] a.type = "mapping" -> named({"mapping", "xform"})
        [] OTHER -> TRUE
\* A node and all that is within it, among the parameters or the options.
Within(n) ==
  LET within[m \in DOMAIN script.nodes] ==
        LET a == script.nodes[m]
        IN  {m} \cup (UNION {within[a.params[i]] : i \in DOMAIN a.params})
                \cup (UNION {within[b] : b \in UNION {ToSet(o) : o \in ToSet(a.options)}})
  IN  within[n]
Atoms(r) == UNION {ToSet(o) : o \in ToSet(r.body.options)}
AllRules == {script.decls[i] : i \in Declared(RuleKinds)}

\* A script is rejected as having undefined names only if it has one, wherever
\* the definitions stand and however deep the name.
NoFalseAlarm ==
  (pc = "check" /\ check_for_undefined # {}) =>
     \E r \in AllRules : \E n \in UNION {Within(m) : m \in Atoms(r)} : ~IsDefined(r, n)

\* Once a script runs, what its options consist of is defined, also in rules
\* that cannot be reached, and so is all that a mapping is applied to.  (What
\* stands within other nodes, or after the first parameter, is not checked.)
AtomsDefined ==
  pc \in {"run", "crashed"} =>
    \A r \in AllRules : \A n \in Atoms(r) :
      /\ IsDefined(r, n)
      /\ script.nodes[n].type = "mapping" => IsDefined(r, script.nodes[n].params[1])
=============================================================================
