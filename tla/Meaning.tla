------------------------------ MODULE Meaning ------------------------------
(***************************************************************************)
(* What reading and running a script promises, as lookups by name.  Each   *)
(* declaration that is read is in force under its name: of the rules of one*)
(* name the first, of mappings and transformations the last; each          *)
(* assignment gives its variable a value, the last of which is in force.   *)
(* The first plain rule is where the text begins, unless another rule is   *)
(* asked for.                                                              *)
(***************************************************************************)
EXTENDS Naturals, Sequences

CONSTANTS
  Names, None,
  Written(_)   \* what a declaration gives its name

VARIABLES
  phase,       \* "read", "run", "failed", "crashed" or "done"
  decls,       \* the declarations, in the order of the file
  asked,       \* the rule asked for, or None
  read, puts,  \* how many declarations were read, and assignments made
  rules, maps, xforms, start, vars

Everything == <<phase, decls, asked, read, puts, rules, maps, xforms, start, vars>>
Script == <<decls, asked>>
Nothing == [n \in Names |-> None]

Init == /\ phase = "read" /\ read = 0 /\ puts = 0 /\ start = None
        /\ rules = Nothing /\ maps = Nothing /\ xforms = Nothing /\ vars = Nothing

Current == decls[read + 1]
Reads(kinds) == /\ phase = "read" /\ read < Len(decls) /\ Current.k \in kinds
                /\ read' = read + 1 /\ UNCHANGED <<phase, Script, puts, vars>>
Defines(f) == [f EXCEPT ![Current.name] = Written(Current)]

\* A rule of a name that is there already changes nothing, but that it may be the
\* first plain one.
DefineRule ==
  /\ Reads({"rule", "resource", "param"})
  /\ rules' = IF rules[Current.name] = None THEN Defines(rules) ELSE rules
  /\ start' = IF start = None /\ Current.k = "rule" THEN Written(Current) ELSE start
  /\ UNCHANGED <<maps, xforms>>

DefineMapping ==
  Reads({"mapping"}) /\ maps' = Defines(maps) /\ UNCHANGED <<rules, xforms, start>>

DefineTransformation ==
  Reads({"xform"}) /\ xforms' = Defines(xforms) /\ UNCHANGED <<rules, maps, start>>

\* The end of the reading, for good or not.
Ends == /\ phase = "read"
        /\ UNCHANGED <<Script, read, puts, rules, maps, xforms, vars>>

\* There is an error, or an undefined name.
GiveUp == Ends /\ phase' = "failed" /\ UNCHANGED start

\* A rule that is asked for is the start symbol, or the script is refused.
Begin ==
  /\ Ends /\ read = Len(decls)
  /\ start' = IF asked = None THEN start ELSE rules[asked]
  /\ phase' = IF start' # None THEN "run" ELSE IF asked = None THEN "crashed" ELSE "failed"

Assign(n) ==
  /\ phase = "run" /\ puts' = puts + 1
  /\ \E type \in {"string_t", "int_t"} :
        vars' = [vars EXCEPT ![n] = [type |-> type, value |-> puts]]
  /\ UNCHANGED <<phase, Script, read, rules, maps, xforms, start>>

\* A script without rules does not begin.
Finish ==
  /\ phase = "run" \/ (phase = "read" /\ read = Len(decls) /\ rules = Nothing)
  /\ phase' = "done"
  /\ UNCHANGED <<Script, read, puts, rules, maps, xforms, start, vars>>

Next == \/ DefineRule \/ DefineMapping \/ DefineTransformation
        \/ GiveUp \/ Begin \/ Finish \/ \E n \in Names : Assign(n)

Spec == Init /\ [][Next]_Everything
============================================================================
