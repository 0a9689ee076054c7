----------------------------- MODULE CardPromise -----------------------------
(***************************************************************************)
(* What the approval cards promise of an action, whatever cards, forms and *)
(* sweeps there are: a click starts work on an open action and on no other.*)
(* An approval asks the platform, once, and writes down its answer, a skip *)
(* rejects or gives way, a redraft opens anew, whatever the action has     *)
(* become meanwhile.  Nothing else closes an action but the command that   *)
(* could not show it.                                                      *)
(***************************************************************************)
EXTENDS Naturals

CONSTANTS Action, Hand, Nobody

VARIABLES
    status,   \* where each action stands
    raising,  \* actions whose command has yet to show them
    work,     \* what each click does, and to which action
    out       \* how often the platform took each

vars == <<status, raising, work, out>>

Idle == [doing |-> "idle", on |-> Nobody]
Starts == {"asking", "skipping", "redrafting"}
Answers == {"accepted", "refused"}

TypeOK ==
    /\ status \in [Action -> {"none", "pending", "sent", "rejected", "error"}]
    /\ raising \subseteq Action
    /\ work \in [Hand -> {Idle} \cup [doing : Starts \cup Answers, on : Action]]
    /\ out \in [Action -> Nat]

Init ==
    /\ status = [a \in Action |-> "none"] /\ raising = {}
    /\ work = [h \in Hand |-> Idle] /\ out = [a \in Action |-> 0]

Put(a, s) == status' = [status EXCEPT ![a] = s]

Compose(a) ==
    /\ status[a] = "none" /\ Put(a, "pending")
    /\ raising' = raising \cup {a}
    /\ UNCHANGED <<work, out>>

(* The command shows the action, or closes it.                             *)
Raise(a) ==
    /\ a \in raising /\ raising' = raising \ {a}
    /\ status' = status \/ Put(a, "error")
    /\ UNCHANGED <<work, out>>

Start(h) ==
    /\ work[h] = Idle
    /\ \E doing \in Starts, a \in Action :
          /\ status[a] = "pending"
          /\ work' = [work EXCEPT ![h] = [doing |-> doing, on |-> a]]
    /\ UNCHANGED <<status, raising, out>>

(* A refusal may hide that the platform took the draft.                    *)
Answer(h) ==
    /\ work[h].doing = "asking"
    /\ \E answer \in Answers :
          /\ work' = [work EXCEPT ![h].doing = answer]
          /\ \E took \in {answer = "accepted", TRUE} :
                out' = [out EXCEPT ![work[h].on] = IF took THEN @ + 1 ELSE @]
    /\ UNCHANGED <<status, raising>>

Outcome ==
    [accepted |-> "sent", refused |-> "error", skipping |-> "rejected", redrafting |-> "pending"]

Finish(h) ==
    /\ work[h].doing \in DOMAIN Outcome
    /\ Put(work[h].on, Outcome[work[h].doing])
    /\ work' = [work EXCEPT ![h] = Idle]
    /\ UNCHANGED <<raising, out>>

(* No draft was made, or a skip came after something else.                 *)
GiveUp(h) ==
    /\ \/ work[h].doing = "redrafting"
       \/ work[h].doing = "skipping" /\ status[work[h].on] # "pending"
    /\ work' = [work EXCEPT ![h] = Idle]
    /\ UNCHANGED <<status, raising, out>>

Die ==
    /\ work' = [h \in Hand |-> Idle]
    /\ UNCHANGED <<status, raising, out>>

Next ==
    \/ \E a \in Action : Compose(a) \/ Raise(a)
    \/ \E h \in Hand : Start(h) \/ Answer(h) \/ Finish(h) \/ GiveUp(h)
    \/ Die

Spec == Init /\ [][Next]_vars

=============================================================================
