----------------------------- MODULE ReplySafety -----------------------------
(***************************************************************************)
(* What the claim protocol of ReplyAction promises, and the strengthening  *)
(* that makes the promises inductive.                                      *)
(***************************************************************************)
EXTENDS ReplyAction

-----------------------------------------------------------------------------
(* Locals.                                                                 *)

\* Labels at which a process works on a row.
Busy == Label \ {"idle", "flagging", "firing"}

\* The locals a task reads at a label were set on the way to it.
LocalInv ==
    /\ \A a \in Action : draftId[a] \in Draft
    /\ \A p \in Proc :
          /\ pc[p] \in Busy => act[p] \in Action
          /\ pc[p] \in {"approving", "arming", "claiming", "sending", "accepted"} => snap[p] \in Draft
          /\ pc[p] = "arming" => plan[p] \in Time
          /\ pc[p] \in {"redrafted", "refreshed"} => fresh[p] \in Draft

-----------------------------------------------------------------------------
(* The claim.                                                              *)

\* While a task is sending a reply, its row stays in `sending`: nothing
\* resolves, re-arms or fails the row under a live send, the stuck-claim sweep
\* included (STUCK_SENDING_GRACE against SEND_DRAFT_TIMEOUT).
ClaimIsHeld == \A p \in Proc : InSend(p) => status[act[p]] = "sending"

\* No two tasks ever send for the same row: Approve clicks, Send Now and the
\* engine exclude one another.
OneSender == \A p, q \in Proc : InSend(p) /\ InSend(q) /\ act[p] = act[q] => p = q

\* The engine flags as interrupted only rows whose sender is gone.
OnlyOrphansFlagged ==
    \A a \in stuck : status[a] = "sending" /\ \A p \in Proc : InSend(p) => act[p] # a

\* Why it does: a live send is over before its row looks stuck.
SendMeetsDeadline ==
    \A p \in Proc : InSend(p) =>
        now <= deadline[p] /\ deadline[p] <= updatedAt[act[p]] + SendTimeout

\* Clocks of rows run behind the wall clock: what lets a late RepointDraft
\* postpone the stuck verdict, never hasten it.
RowClocks == tickNow <= now /\ \A a \in Action : updatedAt[a] <= now

ClaimInv == ClaimIsHeld /\ OneSender /\ OnlyOrphansFlagged /\ SendMeetsDeadline /\ RowClocks

-----------------------------------------------------------------------------
(* Delivery.                                                               *)

MayDeliver(a) == sentFor[a] # {} \/ \E d \in Draft : <<a, d>> \in wire

\* A reply that went out, or still may, is on record as sending, sent or
\* failed: never as skipped, cancelled, superseded, expired or waiting.
DeliveredIsOnRecord ==
    \A a \in Action : MayDeliver(a) => status[a] \in {"sending", "sent", "error"}

\* A row says `sent` only if Gmail accepted a draft of it.
SentWasDelivered == \A a \in Action : status[a] = "sent" => sentFor[a] # {}

\* However clicks, ticks, timeouts and restarts interleave, the recipient gets
\* at most one message per row.
AtMostOneMessage ==
    \A a \in Action : \A d, e \in sentFor[a] : d = e

\* Who can still cause a delivery of row a: its sender before Gmail accepts, a
\* request nobody waits for, or nobody once there was a delivery.
DeliveryInv ==
    /\ DeliveredIsOnRecord
    /\ SentWasDelivered
    /\ AtMostOneMessage
    /\ \A p \in Proc : pc[p] = "accepted" => sentFor[act[p]] # {}
    /\ \A p \in Proc : pc[p] \in {"claimed", "sending"} => ~MayDeliver(act[p])
    /\ \A p \in Proc, d \in Draft : InSend(p) => <<act[p], d>> \notin wire
    /\ \A a \in Action, d \in Draft : <<a, d>> \in wire => sentFor[a] = {}
    /\ \A a \in Action, d, e \in Draft : <<a, d>> \in wire /\ <<a, e>> \in wire => d = e

\* A send that was claimed from a schedule and failed, timed out or was
\* interrupted carries the exempt stamp: the generic retry tick leaves it alone.
ScheduledSendsAreExempt ==
    \A a \in Action :
        status[a] = "error" /\ claimedFrom[a] = "scheduled" => retryCount[a] = Exempt

-----------------------------------------------------------------------------
(* Schedules.                                                              *)

\* The engine sends only under the arming it put on its due list and checked
\* for replies, however often the row was disarmed and armed again meanwhile.
EngineSendsWhatItJudged ==
    [][pc[Engine] = "guarded" /\ pc'[Engine] = "claimed"
        => statusAt[act[Engine]] = dueArmed[act[Engine]]]_vars

\* Why it does: a row that left its listed arming comes back due later than the
\* tick's clock.
Judged(a) == a \in due \/ (pc[Engine] = "guarded" /\ act[Engine] = a)

JudgementInv ==
    /\ \A a \in Action : Judged(a) =>
          statusAt[a] = dueArmed[a] \/ status[a] # "scheduled" \/ scheduledAt[a] > tickNow
    /\ pc[Engine] \in {"idle", "flagging"} => due = {}

\* "a reply the owner sent BEFORE deliberately arming the schedule never
\* cancels it" (scheduled_actions_for_reconcile).
EarlierReplyNeverCancels ==
    [][\A a \in Action : status[a] = "scheduled" /\ status'[a] = "superseded"
        => seenReply[a] >= statusAt[a]]_vars

-----------------------------------------------------------------------------
(* Drafts.                                                                 *)

\* An armed schedule points at a draft Gmail still has: Revise, Skip and Cancel
\* never leave the engine to fire at a deleted draft, as long as the store takes
\* the repoint.
ArmedDraftIsLive == \A a \in Action : status[a] = "scheduled" => gmail[draftId[a]] = "live"

\* "the row already points at the replacement, so nothing can send the old
\* one" (run_revise): no send of the draft a Revise is about to delete.
NothingSendsTheOldDraft ==
    \A p, q \in Proc :
        pc[p] = "retiring" /\ pc[q] \in {"sending", "accepted"} /\ act[p] = act[q]
            => snap[q] # snap[p]

-----------------------------------------------------------------------------
(* Progress.                                                               *)

\* No claim is held forever: the sender finishes or the engine flags the row.
ClaimsEnd == \A a \in Action : status[a] = "sending" ~> status[a] # "sending"

\* No schedule is forgotten: an armed row is sent, failed or taken back.
SchedulesEnd == \A a \in Action : status[a] = "scheduled" ~> status[a] # "scheduled"

=============================================================================
