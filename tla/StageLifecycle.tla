--------------------------- MODULE StageLifecycle ---------------------------
(***************************************************************************)
(* What the durable stage ledger promises to every other component,        *)
(* without leases, clocks, error categories or workers: a stage identity   *)
(* is opened once, is taken over in turns, every turn is settled at most   *)
(* once, and a stopped or finished identity is opened again only by the    *)
(* two repair operations that exist for it.  Before the runtime is         *)
(* activated a cutover import may write outcomes, but never over a         *)
(* finished identity.  StageAttempts implements this module.               *)
(***************************************************************************)
EXTENDS Naturals

CONSTANTS Attempts      \* stage identities: (document, stage, workflow)

VARIABLES phase,        \* where each identity stands
          turn,         \* the last turn in which it was worked on; 0: never
          activated     \* the cutover is over and workers may run

vars == <<phase, turn, activated>>

Phases   == {"absent", "open", "owned", "done", "stopped"}
Outcomes == {"open", "done", "stopped"}

Init == /\ phase = [a \in Attempts |-> "absent"]
        /\ turn = [a \in Attempts |-> 0]
        /\ activated = FALSE

Open(a) == /\ phase[a] = "absent"
           /\ phase' = [phase EXCEPT ![a] = "open"]
           /\ UNCHANGED <<turn, activated>>

\* A new turn: the first worker of an open identity, or the successor of a
\* worker that disappeared.
TakeOver(a) == /\ activated
               /\ phase[a] \in {"open", "owned"}
               /\ phase' = [phase EXCEPT ![a] = "owned"]
               /\ turn'[a] > turn[a]
               /\ turn' = [turn EXCEPT ![a] = turn'[a]]
               /\ UNCHANGED activated

\* The owner of the current turn ends it.
Settle(a, p) == /\ phase[a] = "owned"
                /\ phase' = [phase EXCEPT ![a] = p]
                /\ UNCHANGED <<turn, activated>>

\* A reviewed retry plan reopens stopped identities, all of them together.
Reopen(S) == /\ \A a \in S : phase[a] = "stopped"
             /\ phase' = [a \in Attempts |-> IF a \in S THEN "open" ELSE phase[a]]
             /\ UNCHANGED <<turn, activated>>

\* A finished identity whose local artifact was lost is done again.
Redo(a) == /\ phase[a] = "done"
           /\ phase' = [phase EXCEPT ![a] = "open"]
           /\ UNCHANGED <<turn, activated>>

\* The cutover import may write any outcome except over a finished identity.
Import(a, p) == /\ ~activated
                /\ phase[a] # "done"
                /\ phase' = [phase EXCEPT ![a] = p]
                /\ UNCHANGED <<turn, activated>>

Activate == ~activated /\ activated' = TRUE /\ UNCHANGED <<phase, turn>>

Next == \/ \E a \in Attempts : Open(a) \/ Redo(a) \/ TakeOver(a)
        \/ \E a \in Attempts, p \in Outcomes : Settle(a, p) \/ Import(a, p)
        \/ \E S \in SUBSET Attempts : Reopen(S)
        \/ Activate

Spec == Init /\ [][Next]_vars
=============================================================================
