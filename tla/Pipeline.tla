------------------------------ MODULE Pipeline ------------------------------
(***************************************************************************)
(* How a script gets from the preprocessor to pb: the launcher starts both *)
(* with a pipe between them and waits.  Two launchers are in the source,   *)
(* src/src/dada.c and the shell script src/dada.in, whose pipeline the     *)
(* shell runs.  They differ in the ends of the pipe that the children keep *)
(* open, and in what is done when a child cannot be started.               *)
(*                                                                         *)
(* A script is a number of chunks, as many as the preprocessor writes.     *)
(***************************************************************************)
EXTENDS Integers

CONSTANTS
  Launchers,        \* the launchers that are run
  Capacity,         \* the chunks that the pipe holds
  Chunks            \* the chunks of the preprocessed script

ASSUME LaunchersAssumption == Launchers \subseteq {"dada.c", "sh"}
ASSUME CapacityAssumption  == Capacity \in Nat \ {0}
ASSUME ChunksAssumption    == Chunks \in Nat

VARIABLES
  launcher,         \* who starts the two
  pc,               \* where each of the three processes is
  readers, writers, \* the processes that hold an end of the pipe open
  pipe,             \* the chunks in the pipe
  sent, got         \* the chunks written by the preprocessor and read by pb

vars == <<launcher, pc, readers, writers, pipe, sent, got>>
-----------------------------------------------------------------------------
Processes == {"parent", "pb", "cpp"}
Children  == {"pb", "cpp"}

\* A child that has ended is a zombie until it is waited for.
Alive(p) == pc[p] \notin {"none", "zombie", "reaped", "exited", "died"}

Goto(p, where) == pc' = [pc EXCEPT ![p] = where]

Init ==
  /\ launcher \in Launchers
  /\ pc = [p \in Processes |-> IF p = "parent" THEN "pipe" ELSE "none"]
  /\ readers = {} /\ writers = {}
  /\ pipe = 0 /\ sent = 0 /\ got = 0

\* A slip: the pipe is left open by a process that ends.
EndKeepsPipe(p, as) == Goto(p, as) /\ UNCHANGED <<readers, writers>>

\* A process ends; the system closes what it held open.
End(p, as) ==
  /\ Goto(p, as)
  /\ readers' = readers \ {p}
  /\ writers' = writers \ {p}
-----------------------------------------------------------------------------
\* The parent.
MakePipe ==
  /\ pc["parent"] = "pipe"
  /\ \/ /\ Goto("parent", "fork pb")
        /\ readers' = {"parent"} /\ writers' = {"parent"}
     \/ End("parent", "died")
  /\ UNCHANGED <<launcher, pipe, sent, got>>

\* A child inherits both ends of the pipe.
Fork(child, next) ==
  /\ pc' = [pc EXCEPT !["parent"] = next, ![child] = "setup"]
  /\ readers' = readers \cup {child}
  /\ writers' = writers \cup {child}

\* SIGHUP ends pb if it has not ended yet.
PbHungUp == IF Alive("pb") THEN [pc EXCEPT !["pb"] = "zombie"] ELSE pc

ForkPb ==
  /\ pc["parent"] = "fork pb"
  /\ Fork("pb", "fork cpp") \/ End("parent", "died")
  /\ UNCHANGED <<launcher, pipe, sent, got>>

\* When the second fork fails dada.c kills the first child; the shell does not.
ForkCpp ==
  /\ pc["parent"] = "fork cpp"
  /\ \/ Fork("cpp", "close")
     \/ /\ launcher = "dada.c"
        /\ pc' = [PbHungUp EXCEPT !["parent"] = "died"]
        /\ readers' = {} /\ writers' = {}
     \/ /\ launcher = "sh"
        /\ End("parent", "died")
  /\ UNCHANGED <<launcher, pipe, sent, got>>

CloseEnds ==
  /\ pc["parent"] = "close"
  /\ Goto("parent", "wait")
  /\ readers' = readers \ {"parent"}
  /\ writers' = writers \ {"parent"}
  /\ UNCHANGED <<launcher, pipe, sent, got>>

\* A slip: the parent waits only once.
WaitOnce(child) ==
  /\ pc["parent"] = "wait"
  /\ pc[child] = "zombie"
  /\ pc' = [pc EXCEPT !["parent"] = "exited", ![child] = "reaped"]
  /\ UNCHANGED <<launcher, readers, writers, pipe, sent, got>>

\* wait(NULL), twice.
Wait(child) ==
  /\ pc["parent"] \in {"wait", "wait again"}
  /\ pc[child] = "zombie"
  /\ pc' = [pc EXCEPT
       !["parent"] = IF @ = "wait" THEN "wait again" ELSE "exited",
       ![child]    = "reaped"]
  /\ UNCHANGED <<launcher, readers, writers, pipe, sent, got>>
-----------------------------------------------------------------------------
\* The children.  In dada.c each closes its own duplicate and keeps the end it
\* does not use; in the shell's pipeline it keeps the end it uses.
SetupKeepsBoth(p) ==
  /\ pc[p] = "setup"
  /\ Goto(p, "exec")
  /\ UNCHANGED <<launcher, readers, writers, pipe, sent, got>>

SetUp(p) ==
  /\ pc[p] = "setup"
  /\ Goto(p, "exec")
  /\ writers' = IF launcher = "sh" /\ p = "pb"  THEN writers \ {p} ELSE writers
  /\ readers' = IF launcher = "sh" /\ p = "cpp" THEN readers \ {p} ELSE readers
  /\ UNCHANGED <<launcher, pipe, sent, got>>

\* The program is there, or it is not.
Exec(p) ==
  /\ pc[p] = "exec"
  /\ \/ Goto(p, "run") /\ UNCHANGED <<readers, writers>>
     \/ /\ launcher = "dada.c" /\ p = "cpp"
        /\ Goto(p, "kill") /\ UNCHANGED <<readers, writers>>
     \/ /\ ~(launcher = "dada.c" /\ p = "cpp")
        /\ End(p, "zombie")
  /\ UNCHANGED <<launcher, pipe, sent, got>>

\* "You stay out of this; you're dead."
KillPb ==
  /\ pc["cpp"] = "kill"
  /\ pc' = [PbHungUp EXCEPT !["cpp"] = "zombie"]
  /\ readers' = readers \ {"cpp", "pb"}
  /\ writers' = writers \ {"cpp", "pb"}
  /\ UNCHANGED <<launcher, pipe, sent, got>>

\* The preprocessor blocks while the pipe is full.
CppWrite ==
  /\ pc["cpp"] = "run"
  /\ sent < Chunks /\ pipe < Capacity /\ readers # {}
  /\ sent' = sent + 1 /\ pipe' = pipe + 1
  /\ UNCHANGED <<launcher, pc, readers, writers, got>>

\* It is done, or gives up, or writes to a pipe that nobody can read.
CppEnd ==
  /\ pc["cpp"] = "run"
  /\ End("cpp", "zombie")
  /\ UNCHANGED <<launcher, pipe, sent, got>>

\* A chunk may hold a syntax error, at which yyparse() returns.
PbRead ==
  /\ pc["pb"] = "run"
  /\ pipe > 0
  /\ pipe' = pipe - 1 /\ got' = got + 1
  /\ \/ UNCHANGED <<pc, readers, writers>>
     \/ End("pb", "zombie")
  /\ UNCHANGED <<launcher, sent>>

\* A slip: an empty pipe is taken for the end of the script.
EmptyIsEof ==
  /\ pc["pb"] = "run"
  /\ pipe = 0
  /\ Goto("pb", "resolve")
  /\ UNCHANGED <<launcher, readers, writers, pipe, sent, got>>

\* The script ends where the pipe is empty and nobody can write to it.
PbEof ==
  /\ pc["pb"] = "run"
  /\ pipe = 0 /\ writers = {}
  /\ Goto("pb", "resolve")
  /\ UNCHANGED <<launcher, readers, writers, pipe, sent, got>>

\* pb has printed what the script produced, or complained.
PbPrint ==
  /\ pc["pb"] = "resolve"
  /\ End("pb", "zombie")
  /\ UNCHANGED <<launcher, pipe, sent, got>>

Parent == MakePipe \/ ForkPb \/ ForkCpp \/ CloseEnds
            \/ \E child \in Children : Wait(child)
Pb     == SetUp("pb") \/ Exec("pb") \/ PbRead \/ PbEof \/ PbPrint
Cpp    == SetUp("cpp") \/ Exec("cpp") \/ KillPb \/ CppWrite \/ CppEnd

Next == Parent \/ Pb \/ Cpp

Spec     == Init /\ [][Next]_vars
FairSpec == Spec /\ WF_vars(Parent) /\ WF_vars(Pb) /\ WF_vars(Cpp)
-----------------------------------------------------------------------------
TypeOK ==
  /\ launcher \in Launchers
  /\ pc["parent"] \in {"pipe", "fork pb", "fork cpp", "close", "wait",
                       "wait again", "exited", "died"}
  /\ pc["pb"]  \in {"none", "setup", "exec", "run", "resolve", "zombie", "reaped"}
  /\ pc["cpp"] \in {"none", "setup", "exec", "run", "kill", "zombie", "reaped"}
  /\ readers \cup writers \subseteq {p \in Processes : Alive(p)}
  /\ pipe \in 0 .. Capacity
  /\ sent \in 0 .. Chunks /\ got \in 0 .. Chunks

\* pb resolves a script only when the preprocessor has ended and everything it
\* wrote was read.
WholeScript ==
  pc["pb"] = "resolve" => ~Alive("cpp") /\ got = sent

\* When the launcher exits after its two waits, no child of it is left.
AllReaped ==
  pc["parent"] = "exited" => \A child \in Children : pc[child] = "reaped"

Ended == pc["parent"] \in {"exited", "died"}

\* The shell's pipeline ends, whatever fails and whoever ends first, and leaves
\* no process behind that still runs.
PipelineEnds == (launcher = "sh") => <>[](Ended /\ \A p \in Children : ~Alive(p))

\* dada.c: "wait for processes to finish": the launcher comes to its exit.
LauncherEnds == <>Ended
=============================================================================
