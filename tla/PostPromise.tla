----------------------------- MODULE PostPromise -----------------------------
(***************************************************************************)
(* What the scheduled posts promise, whatever a pass is made of: a post    *)
(* waits; the engine takes up waiting posts and no others; a post taken up *)
(* is let go, goes back to waiting, or is tried, and a try ends as posted  *)
(* or failed.  What the engine has not taken up changes by the owner's     *)
(* hand alone, and by nobody's once it is cancelled, posted or failed.     *)
(***************************************************************************)
EXTENDS Naturals

CONSTANT Post

VARIABLES
    found,   \* where the owner finds a post
    hold,    \* what the engine has of it: nothing, the post, an answer
    out,     \* how often the platform took it
    lost     \* how often the engine lost what it had

vars == <<found, hold, out, lost>>

Found == {"none", "waiting", "cancelled", "posted", "failed"}
Tried == {"sent", "refused"}
Hold == {"free", "taken"} \cup Tried

TypeOK ==
    /\ found \in [Post -> Found] /\ hold \in [Post -> Hold]
    /\ out \in [Post -> Nat] /\ lost \in [Post -> Nat]

Init ==
    /\ found = [p \in Post |-> "none"] /\ hold = [p \in Post |-> "free"]
    /\ out = [p \in Post |-> 0] /\ lost = [p \in Post |-> 0]

Move(p, from, to) ==
    /\ found[p] = from
    /\ found' = [found EXCEPT ![p] = to]
    /\ UNCHANGED <<hold, out, lost>>

Queue(p)  == Move(p, "none", "waiting")
Cancel(p) == Move(p, "waiting", "cancelled")

(* A list is made when nothing is held.                                    *)
Take(posts) ==
    /\ \A p \in Post : hold[p] = "free"
    /\ \A p \in posts : found[p] = "waiting"
    /\ hold' = [p \in Post |-> IF p \in posts THEN "taken" ELSE "free"]
    /\ UNCHANGED <<found, out, lost>>

(* A post taken up goes back to the queue, even one cancelled meanwhile.   *)
Return(p) ==
    /\ hold[p] = "taken" /\ found[p] \in {"waiting", "cancelled"}
    /\ found' = [found EXCEPT ![p] = "waiting"]
    /\ hold' = [hold EXCEPT ![p] = "free"]
    /\ UNCHANGED <<out, lost>>

(* A refusal may hide that the platform took the post.                     *)
Try(p, answer) ==
    /\ hold[p] = "taken" /\ found[p] \in {"waiting", "cancelled"}
    /\ hold' = [hold EXCEPT ![p] = answer]
    /\ \E taken \in {answer = "sent", TRUE} :
          out' = [out EXCEPT ![p] = IF taken THEN @ + 1 ELSE @]
    /\ UNCHANGED <<found, lost>>

Settle(p) ==
    /\ hold[p] \in Tried
    /\ found' = [found EXCEPT ![p] = IF hold[p] = "sent" THEN "posted" ELSE "failed"]
    /\ hold' = [hold EXCEPT ![p] = "free"]
    /\ UNCHANGED <<out, lost>>

(* Posts are let go; an answer is let go only by losing it.                *)
LetGo(posts, struck) ==
    /\ struck \subseteq posts
    /\ \A p \in posts : hold[p] # "free" /\ (hold[p] \in Tried => p \in struck)
    /\ hold' = [p \in Post |-> IF p \in posts THEN "free" ELSE hold[p]]
    /\ lost' = [p \in Post |-> IF p \in struck THEN lost[p] + 1 ELSE lost[p]]
    /\ UNCHANGED <<found, out>>

Next ==
    \/ \E p \in Post : \/ Queue(p) \/ Cancel(p) \/ Return(p) \/ Settle(p)
                       \/ \E answer \in Tried : Try(p, answer)
    \/ \E posts \in SUBSET Post : \/ Take(posts)
                                  \/ \E struck \in SUBSET posts : LetGo(posts, struck)

Spec == Init /\ [][Next]_vars

=============================================================================
