------------------------------ MODULE SendOnce ------------------------------
(***************************************************************************)
(* What the approval queue promises about a reply, whoever clicks what: it *)
(* waits, possibly under an armed schedule; it is launched at most once;   *)
(* from then on it can only be confirmed or failed, it never waits again   *)
(* and nobody discards it; and at most one message of it is delivered,     *)
(* never before the launch and never after it was confirmed.               *)
(***************************************************************************)
CONSTANTS Action, Draft

VARIABLES
    phase,    \* where the owner finds the reply
    out       \* the drafts of the reply the recipient got

vars == <<phase, out>>

Phase == {"open", "armed", "launched", "confirmed", "failed", "closed"}

TypeOK == phase \in [Action -> Phase] /\ out \in [Action -> SUBSET Draft]

Init ==
    /\ phase = [a \in Action |-> "open"]
    /\ out = [a \in Action |-> {}]

Move(a, from, to) ==
    /\ phase[a] \in from
    /\ phase' = [phase EXCEPT ![a] = to]
    /\ UNCHANGED out

Arm(a)     == Move(a, {"open"}, "armed")
Disarm(a)  == Move(a, {"armed"}, "open")
Close(a)   == Move(a, {"open", "armed"}, "closed")
Launch(a)  == Move(a, {"open", "armed"}, "launched")
Fail(a)    == Move(a, {"launched"}, "failed")
Confirm(a) == out[a] # {} /\ Move(a, {"launched"}, "confirmed")

Deliver(a) ==
    /\ phase[a] \in {"launched", "failed"}
    /\ out[a] = {}
    /\ \E d \in Draft : out' = [out EXCEPT ![a] = {d}]
    /\ UNCHANGED phase

Next ==
    \E a \in Action :
        \/ Arm(a) \/ Disarm(a) \/ Close(a) \/ Launch(a) \/ Fail(a) \/ Confirm(a) \/ Deliver(a)

Spec == Init /\ [][Next]_vars

=============================================================================
