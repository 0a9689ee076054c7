------------------------------- MODULE Daemon -------------------------------
(***************************************************************************)
(* What the services of `augmentagent serve` share: the wall clock they    *)
(* read, and the restarts that kill all their tasks at once.  What is      *)
(* written to SQLite or to a file survives a restart; every local does not.*)
(* Each service module says what a restart does to its own tasks.          *)
(***************************************************************************)
EXTENDS Integers

CONSTANTS
    MaxNow,        \* bound on the clock
    MaxRestarts    \* bound on restarts

ASSUME DaemonAssumption ==
    /\ MaxNow \in Nat
    /\ MaxRestarts \in Nat

VARIABLES
    now,
    restarts

daemonVars == <<now, restarts>>

DaemonInit ==
    /\ now = 0
    /\ restarts = 0

DaemonTypes ==
    /\ now \in 0 .. MaxNow
    /\ restarts \in 0 .. MaxRestarts

Tick ==
    /\ now < MaxNow
    /\ now' = now + 1
    /\ UNCHANGED restarts

Restarts ==
    /\ restarts < MaxRestarts
    /\ restarts' = restarts + 1
    /\ UNCHANGED now

=============================================================================
