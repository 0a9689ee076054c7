----------------------------- MODULE ReplyAction -----------------------------
(***************************************************************************)
(* The life of a Gmail reply from its approval card to Gmail, as driven by *)
(* the daemon: the Discord approver (`ReplyApprover` in main.rs, one tokio *)
(* task per click), the `ScheduledSendEngine`, the sweeps, the outbound    *)
(* observer and the bulk commands.  All of them work on the rows of        *)
(* ReplyStore; a handler is a process that executes one store statement or *)
(* one Gmail call per step, so that everything else may happen between two *)
(* of them.                                                                *)
(*                                                                         *)
(* Gmail is external: a draft is live until it is sent or deleted, a send  *)
(* may be accepted and its answer lost, and a request whose caller timed   *)
(* out or died may still be carried out later (`wire`).                    *)
(***************************************************************************)
EXTENDS ReplyStore, FiniteSets

CONSTANTS
    Handler,       \* concurrent Discord interactions
    Engine,        \* the ScheduledSendEngine task
    NoAction,
    Horizon,       \* bound: owner input and faults happen up to this time
    SendTimeout,   \* SEND_DRAFT_TIMEOUT
    Grace,         \* STUCK_SENDING_GRACE_MS
    MinLead,       \* MIN_LEAD_MS of a schedule
    Skew,          \* SKEW_MS, the slack of its validation
    TickLimit,     \* PER_TICK_LIMIT
    MaxCrashes,    \* bound on daemon restarts
    StoreFails     \* whether a store call the code carries on after may fail

ASSUME ReplyAssumption ==
    /\ Engine \notin Handler
    /\ NoAction \notin Action
    /\ Horizon \in Nat /\ Horizon <= MaxTime
    /\ SendTimeout \in Nat /\ Grace \in Nat /\ SendTimeout < Grace
    /\ MinLead \in Nat /\ Skew \in Nat /\ Skew < MinLead
    /\ TickLimit \in Nat \ {0}
    /\ MaxCrashes \in Nat
    /\ StoreFails \in BOOLEAN

VARIABLES
    claimedFrom,   \* history: the status the last send claim was taken from
    gmail,         \* Gmail's view of each draft
    sentFor,       \* history: drafts of a row Gmail has delivered
    wire,          \* sends Gmail may still perform though nobody waits for them
    seenReply,     \* latest manual reply on the row's thread, as recorded
    pc, act, snap, plan, fresh, exempt, deadline,  \* locals of each process
    tickNow, stuck, due, dueArmed,                 \* locals of an engine tick
    observed,      \* the observer's manual reply between its two statements
    reconArmed,    \* snapshot of the reconcile sweep's scheduled pass
    crashes

mailVars   == <<gmail, sentFor, wire>>
procVars   == <<pc, act, snap, plan, fresh, exempt, deadline>>
engineVars == <<tickNow, stuck, due, dueArmed>>
sweepVars  == <<seenReply, observed, reconArmed>>
vars == <<rowVars, now, claimedFrom, mailVars, procVars, engineVars, sweepVars, crashes>>

Proc == Handler \cup {Engine}
Label == {"idle", "approving", "arming", "claiming", "claimed", "sending", "accepted", "skipping",
          "cancelled", "discarding", "revising", "redrafted", "refreshed",
          "retiring", "flagging", "firing", "guarded"}

\* The process holds the `sending` claim of its row and has a send to finish.
InSend(p) == pc[p] \in {"claimed", "sending", "accepted"}

TypeOK ==
    /\ RowTypeOK
    /\ claimedFrom \in [Action -> {"none", "pending", "scheduled"}]
    /\ gmail \in [Draft -> {"none", "live", "sent", "deleted"}]
    /\ sentFor \in [Action -> SUBSET Draft]
    /\ wire \subseteq Action \X Draft
    /\ seenReply \in [Action -> Time \cup {NoTime}]
    /\ pc \in [Proc -> Label]
    /\ act \in [Proc -> Action \cup {NoAction}]
    /\ snap \in [Proc -> Draft \cup {NoDraft}]
    /\ plan \in [Proc -> Time \cup {NoTime}]
    /\ fresh \in [Proc -> Draft \cup {NoDraft}]
    /\ exempt \in [Proc -> BOOLEAN]
    /\ deadline \in [Proc -> 0 .. MaxTime + SendTimeout]
    /\ tickNow \in Time
    /\ stuck \subseteq Action
    /\ due \subseteq Action
    /\ dueArmed \in [Action -> Time \cup {NoTime}]
    /\ observed \in [Action -> Time \cup {NoTime}]
    /\ reconArmed \in [Action -> Time \cup {NoTime}]
    /\ crashes \in 0 .. MaxCrashes

\* Cards are up: every row is pending with a live Gmail draft of its own,
\* and may carry a --send-at proposal.
Init ==
    /\ status = [a \in Action |-> "pending"]
    /\ draftId \in [Action -> Draft]
    /\ \A a, b \in Action : draftId[a] = draftId[b] => a = b
    /\ body = draftId
    /\ scheduledAt \in [Action -> {NoTime} \cup (MinLead .. MaxTime)]
    /\ statusAt = [a \in Action |-> 0]
    /\ updatedAt = [a \in Action |-> 0]
    /\ retryCount = [a \in Action |-> 0]
    /\ now = 0
    /\ claimedFrom = [a \in Action |-> "none"]
    /\ gmail = [d \in Draft |-> IF \E a \in Action : draftId[a] = d THEN "live" ELSE "none"]
    /\ sentFor = [a \in Action |-> {}]
    /\ wire = {}
    /\ seenReply = [a \in Action |-> NoTime]
    /\ pc = [p \in Proc |-> "idle"]
    /\ act = [p \in Proc |-> NoAction]
    /\ snap = [p \in Proc |-> NoDraft]
    /\ plan = [p \in Proc |-> NoTime]
    /\ fresh = [p \in Proc |-> NoDraft]
    /\ exempt = [p \in Proc |-> FALSE]
    /\ deadline = [p \in Proc |-> 0]
    /\ tickNow = 0
    /\ stuck = {}
    /\ due = {}
    /\ dueArmed = [a \in Action |-> NoTime]
    /\ observed = [a \in Action |-> NoTime]
    /\ reconArmed = [a \in Action |-> NoTime]
    /\ crashes = 0

-----------------------------------------------------------------------------
(* Process plumbing.                                                       *)

Goto(p, l) == pc' = [pc EXCEPT ![p] = l]

\* A free handler picks up a click on the card or notice of row a.
Begin(p, a, l, d) ==
    /\ pc[p] = "idle" /\ p \in Handler /\ now <= Horizon
    /\ Goto(p, l)
    /\ act' = [act EXCEPT ![p] = a]
    /\ snap' = [snap EXCEPT ![p] = d]

\* The handler returns; the engine goes on with its batch.
Release(p) ==
    /\ Goto(p, IF p = Engine THEN "firing" ELSE "idle")
    /\ act' = [act EXCEPT ![p] = NoAction]
    /\ snap' = [snap EXCEPT ![p] = NoDraft]
    /\ plan' = [plan EXCEPT ![p] = NoTime]
    /\ fresh' = [fresh EXCEPT ![p] = NoDraft]
    /\ exempt' = [exempt EXCEPT ![p] = FALSE]
    /\ deadline' = [deadline EXCEPT ![p] = 0]

\* The claim of row a by process p out of status `from`; the send that follows
\* is over, one way or another, by the deadline.
Claimed(p, a, from, policy) ==
    /\ claimedFrom' = [claimedFrom EXCEPT ![a] = from]
    /\ exempt' = [exempt EXCEPT ![p] = policy]
    /\ deadline' = [deadline EXCEPT ![p] = now + SendTimeout]

-----------------------------------------------------------------------------
(* Approve: load the row, read its proposal, then arm the proposal while   *)
(* it is live or claim the row and send the draft id read by the load.     *)

ApproveLoad(p, a) ==
    /\ status[a] = "pending" /\ draftId[a] # NoDraft
    /\ Begin(p, a, "approving", draftId[a])
    /\ UNCHANGED <<rowVars, now, claimedFrom, mailVars, plan, fresh, exempt, deadline,
                   engineVars, sweepVars, crashes>>

ProposalIsLive(at) == at # NoTime /\ at > now + MinLead

ApproveRead(p) ==
    /\ pc[p] = "approving"
    /\ \/ /\ ProposalIsLive(scheduledAt[act[p]])
          /\ plan' = [plan EXCEPT ![p] = scheduledAt[act[p]]]
          /\ Goto(p, "arming")
       \/ /\ ~ProposalIsLive(scheduledAt[act[p]])
          /\ Goto(p, "claiming")
          /\ UNCHANGED plan
    /\ UNCHANGED <<rowVars, now, claimedFrom, mailVars, act, snap, fresh, exempt, deadline,
                   engineVars, sweepVars, crashes>>

\* validate_send_at: the central time guard of every schedule.
ValidSendAt(at) == at >= now + MinLead - Skew

ApproveArm(p) ==
    /\ pc[p] = "arming" /\ ValidSendAt(plan[p])
    /\ ScheduleAction(act[p], plan[p])
    /\ Release(p)
    /\ UNCHANGED <<now, claimedFrom, mailVars, engineVars, sweepVars, crashes>>

ApproveTooLate(p) ==
    /\ pc[p] = "arming" /\ ~ValidSendAt(plan[p])
    /\ Release(p)
    /\ UNCHANGED <<rowVars, now, claimedFrom, mailVars, engineVars, sweepVars, crashes>>

ApproveClaim(p) ==
    /\ pc[p] = "claiming"
    /\ ClaimActionForSend(act[p], "pending")
    /\ Claimed(p, act[p], "pending", FALSE)
    /\ Goto(p, "sending")
    /\ UNCHANGED <<now, mailVars, act, snap, plan, fresh, engineVars, sweepVars, crashes>>

\* AlreadyResolved: the compare-and-swap found another status.
LoseRace(p) ==
    /\ pc[p] \in {"arming", "claiming", "skipping"} /\ status[act[p]] # "pending"
    /\ Release(p)
    /\ UNCHANGED <<rowVars, now, claimedFrom, mailVars, engineVars, sweepVars, crashes>>

-----------------------------------------------------------------------------
(* The claimed send, shared by Approve, Send Now and the engine.           *)

\* Send Now and the engine read the row again after the claim.  A scheduled
\* row always has a draft id (ScheduleClick), so the no-draft exit is dead.
LoadClaimed(p) ==
    /\ pc[p] = "claimed"
    /\ snap' = [snap EXCEPT ![p] = draftId[act[p]]]
    /\ Goto(p, "sending")
    /\ UNCHANGED <<rowVars, now, claimedFrom, mailVars, act, plan, fresh, exempt, deadline,
                   engineVars, sweepVars, crashes>>

\* The engine leaves fire_one on a store error (`?`) with the claim in place.
FireLoadFails ==
    /\ StoreFails /\ now <= Horizon /\ pc[Engine] = "claimed"
    /\ Release(Engine)
    /\ UNCHANGED <<rowVars, now, claimedFrom, mailVars, engineVars, sweepVars, crashes>>

Deliver(a, d) ==
    /\ gmail[d] = "live"
    /\ gmail' = [gmail EXCEPT ![d] = "sent"]
    /\ sentFor' = [sentFor EXCEPT ![a] = @ \cup {d}]

GmailAccepts(p) ==
    /\ pc[p] = "sending"
    /\ Deliver(act[p], snap[p])
    /\ Goto(p, "accepted")
    /\ UNCHANGED <<rowVars, now, claimedFrom, wire, act, snap, plan, fresh, exempt, deadline,
                   engineVars, sweepVars, crashes>>

\* The answer arrived: the self-send is recorded, then the row flips.  The
\* result of the conditional flip is ignored.
SendOk(p) ==
    /\ pc[p] = "accepted"
    /\ FinishSendSent(act[p])
    /\ Release(p)
    /\ UNCHANGED <<now, claimedFrom, mailVars, engineVars, sweepVars, crashes>>

StillUnderWay(p) == pc[p] = "sending" /\ wire' = wire \cup {<<act[p], snap[p]>>}

\* An error answer, or a transport error: before Gmail acted, after it (the
\* client retries a lost answer and is told the draft is gone), or with the
\* request still on its way.
SendErr(p) ==
    /\ pc[p] \in {"sending", "accepted"}
    /\ FinishSendError(act[p], exempt[p])
    /\ wire' = wire \/ StillUnderWay(p)
    /\ Release(p)
    /\ UNCHANGED <<now, claimedFrom, gmail, sentFor, engineVars, sweepVars, crashes>>

\* The wall-clock bound fires: the outcome is unknown, the row is exempt from
\* retries, and a request Gmail has not acted on yet is still under way.
SendTimesOut(p) ==
    /\ pc[p] \in {"sending", "accepted"} /\ now >= deadline[p]
    /\ FinishSendError(act[p], TRUE)
    /\ StillUnderWay(p) \/ (pc[p] = "accepted" /\ wire' = wire)
    /\ Release(p)
    /\ UNCHANGED <<now, claimedFrom, gmail, sentFor, engineVars, sweepVars, crashes>>

LateDelivery ==
    \E e \in wire :
        /\ \/ Deliver(e[1], e[2])
           \/ UNCHANGED <<gmail, sentFor>>
        /\ wire' = wire \ {e}
        /\ UNCHANGED <<rowVars, now, claimedFrom, procVars, engineVars, sweepVars, crashes>>

-----------------------------------------------------------------------------
(* Skip: resolve the row, then delete the draft the load had read.         *)

SkipLoad(p, a) ==
    /\ status[a] = "pending"
    /\ Begin(p, a, "skipping", draftId[a])
    /\ UNCHANGED <<rowVars, now, claimedFrom, mailVars, plan, fresh, exempt, deadline,
                   engineVars, sweepVars, crashes>>

SkipResolve(p) ==
    /\ pc[p] = "skipping"
    /\ TryResolveAction(act[p], "rejected")
    /\ Goto(p, "discarding")
    /\ UNCHANGED <<now, claimedFrom, mailVars, act, snap, plan, fresh, exempt, deadline,
                   engineVars, sweepVars, crashes>>

\* delete_draft is best effort and cannot touch a draft already sent.
DeleteDraft(p) ==
    /\ pc[p] \in {"discarding", "retiring"}
    /\ \/ /\ snap[p] \in Draft /\ gmail[snap[p]] = "live"
          /\ gmail' = [gmail EXCEPT ![snap[p]] = "deleted"]
       \/ UNCHANGED gmail
    /\ Release(p)
    /\ UNCHANGED <<rowVars, now, claimedFrom, sentFor, wire, engineVars, sweepVars, crashes>>

-----------------------------------------------------------------------------
(* Revise: redraft, refresh the body while the row is still pending, point *)
(* the row at the new draft, delete the draft the load had read.           *)

ReviseLoad(p, a) ==
    /\ status[a] = "pending"
    /\ Begin(p, a, "revising", draftId[a])
    /\ UNCHANGED <<rowVars, now, claimedFrom, mailVars, plan, fresh, exempt, deadline,
                   engineVars, sweepVars, crashes>>

CreateRedraft(p) ==
    /\ pc[p] = "revising"
    /\ \E d \in Draft :
          /\ gmail[d] = "none"
          /\ gmail' = [gmail EXCEPT ![d] = "live"]
          /\ fresh' = [fresh EXCEPT ![p] = d]
    /\ Goto(p, "redrafted")
    /\ UNCHANGED <<rowVars, now, claimedFrom, sentFor, wire, act, snap, plan, exempt, deadline,
                   engineVars, sweepVars, crashes>>

\* The reasoner or create_draft failed; the card stays as it is.
ReviseFails(p) ==
    /\ pc[p] = "revising"
    /\ Release(p)
    /\ UNCHANGED <<rowVars, now, claimedFrom, mailVars, engineVars, sweepVars, crashes>>

\* Mutant: the loser discards the draft it had loaded, not its own.
RefreshDiscardsLoaded(p) ==
    /\ pc[p] = "redrafted"
    /\ \/ RefreshPendingDraft(act[p], fresh[p]) /\ Goto(p, "refreshed")
       \/ status[act[p]] # "pending" /\ Goto(p, "discarding") /\ UNCHANGED rowVars
    /\ UNCHANGED <<now, claimedFrom, mailVars, act, snap, plan, fresh, exempt, deadline,
                   engineVars, sweepVars, crashes>>

RefreshDraft(p) ==
    /\ pc[p] = "redrafted"
    /\ \/ /\ RefreshPendingDraft(act[p], fresh[p])
          /\ Goto(p, "refreshed")
          /\ UNCHANGED snap
       \/ /\ status[act[p]] # "pending"
          /\ snap' = [snap EXCEPT ![p] = fresh[p]]
          /\ Goto(p, "discarding")
          /\ UNCHANGED rowVars
    /\ UNCHANGED <<now, claimedFrom, mailVars, act, plan, fresh, exempt, deadline,
                   engineVars, sweepVars, crashes>>

RepointDraft(p) ==
    /\ pc[p] = "refreshed"
    /\ SetActionDraftId(act[p], fresh[p])
    /\ Goto(p, "retiring")
    /\ UNCHANGED <<now, claimedFrom, mailVars, act, snap, plan, fresh, exempt, deadline,
                   engineVars, sweepVars, crashes>>

\* A failed id write is only logged; the old draft is deleted all the same.
RepointFails(p) ==
    /\ StoreFails /\ pc[p] = "refreshed"
    /\ Goto(p, "retiring")
    /\ UNCHANGED <<rowVars, now, claimedFrom, mailVars, act, snap, plan, fresh, exempt, deadline,
                   engineVars, sweepVars, crashes>>

-----------------------------------------------------------------------------
(* Schedule, Send Now, Cancel and Back to queue.                           *)

\* The load's only use is to refuse a row without a draft.
ScheduleClick(a) ==
    /\ now <= Horizon /\ draftId[a] # NoDraft
    /\ \E at \in Time : ValidSendAt(at) /\ ScheduleAction(a, at)
    /\ UNCHANGED <<now, claimedFrom, mailVars, procVars, engineVars, sweepVars, crashes>>

\* Mutant: a failed Send Now stays eligible for the retry tick.
SendNowRetryable(p, a) ==
    /\ ClaimActionForSend(a, "scheduled")
    /\ Begin(p, a, "claimed", NoDraft)
    /\ Claimed(p, a, "scheduled", FALSE)
    /\ UNCHANGED <<now, mailVars, plan, fresh, engineVars, sweepVars, crashes>>

SendNow(p, a) ==
    /\ ClaimActionForSend(a, "scheduled")
    /\ Begin(p, a, "claimed", NoDraft)
    /\ Claimed(p, a, "scheduled", TRUE)
    /\ UNCHANGED <<now, mailVars, plan, fresh, engineVars, sweepVars, crashes>>

Cancel(p, a) ==
    /\ CancelScheduledAction(a)
    /\ Begin(p, a, "cancelled", NoDraft)
    /\ UNCHANGED <<now, claimedFrom, mailVars, plan, fresh, exempt, deadline,
                   engineVars, sweepVars, crashes>>

CancelLoad(p) ==
    /\ pc[p] = "cancelled"
    /\ snap' = [snap EXCEPT ![p] = draftId[act[p]]]
    /\ Goto(p, "discarding")
    /\ UNCHANGED <<rowVars, now, claimedFrom, mailVars, act, plan, fresh, exempt, deadline,
                   engineVars, sweepVars, crashes>>

BackToQueue(a) ==
    /\ now <= Horizon
    /\ UnscheduleAction(a)
    /\ UNCHANGED <<now, claimedFrom, mailVars, procVars, engineVars, sweepVars, crashes>>

-----------------------------------------------------------------------------
(* The engine: flag stuck claims, then fire a snapshot of the due rows.    *)

\* Mutant: only claims the engine itself took are swept.
StuckSchedules == {a \in Action : IsStuckSending(a, Grace) /\ claimedFrom[a] = "scheduled"}

StuckRows == {a \in Action : IsStuckSending(a, Grace)}
DueRows(t) == {a \in Action : IsDue(a, t)}

\* At most TickLimit of the rows due at t, earliest fire times first.
DueBatch(S, t) ==
    /\ S \subseteq DueRows(t)
    /\ Cardinality(S) <= TickLimit
    /\ S # DueRows(t) => Cardinality(S) = TickLimit
    /\ \A a \in S, b \in DueRows(t) \ S : scheduledAt[a] <= scheduledAt[b]

\* Mutant: a tick with nothing stuck returns early.
EngineTickStuckOnly ==
    /\ pc[Engine] = "idle" /\ StuckRows # {}
    /\ tickNow' = now
    /\ stuck' = StuckRows
    /\ Goto(Engine, "flagging")
    /\ UNCHANGED <<rowVars, now, claimedFrom, mailVars, act, snap, plan, fresh, exempt, deadline,
                   due, dueArmed, sweepVars, crashes>>

\* A tick that finds nothing stuck and nothing due changes nothing.
EngineTick ==
    /\ pc[Engine] = "idle" /\ StuckRows \cup DueRows(now) # {}
    /\ tickNow' = now
    /\ stuck' = StuckRows
    /\ Goto(Engine, "flagging")
    /\ UNCHANGED <<rowVars, now, claimedFrom, mailVars, act, snap, plan, fresh, exempt, deadline,
                   due, dueArmed, sweepVars, crashes>>

FlagStuck ==
    /\ pc[Engine] = "flagging"
    /\ \E a \in stuck : FinishSendError(a, TRUE) /\ stuck' = stuck \ {a}
    /\ UNCHANGED <<now, claimedFrom, mailVars, procVars, tickNow, due, dueArmed,
                   sweepVars, crashes>>

\* The due query runs with the tick's own `now_ms`.
ListDue ==
    /\ pc[Engine] = "flagging" /\ stuck = {}
    /\ \E S \in SUBSET Action :
          /\ DueBatch(S, tickNow)
          /\ due' = S
          /\ dueArmed' = [a \in Action |-> IF a \in S THEN statusAt[a] ELSE NoTime]
    /\ Goto(Engine, "firing")
    /\ UNCHANGED <<rowVars, now, claimedFrom, mailVars, act, snap, plan, fresh, exempt, deadline,
                   tickNow, stuck, sweepVars, crashes>>

\* Fire-time guard: a manual reply later than the arming moment of the due
\* list cancels the schedule, if the row is still scheduled.
FireSuperseded ==
    /\ pc[Engine] = "firing"
    /\ \E a \in due :
          /\ seenReply[a] > dueArmed[a]
          /\ MarkScheduledSuperseded(a) \/ (status[a] # "scheduled" /\ UNCHANGED rowVars)
          /\ due' = due \ {a}
    /\ UNCHANGED <<now, claimedFrom, mailVars, procVars, tickNow, stuck, dueArmed,
                   sweepVars, crashes>>

\* No reply, or a query that failed: an error counts as no reply.
FireGuard ==
    /\ pc[Engine] = "firing"
    /\ \E a \in due :
          /\ seenReply[a] <= dueArmed[a] \/ StoreFails
          /\ act' = [act EXCEPT ![Engine] = a]
          /\ due' = due \ {a}
    /\ Goto(Engine, "guarded")
    /\ UNCHANGED <<rowVars, now, claimedFrom, mailVars, snap, plan, fresh, exempt, deadline,
                   tickNow, stuck, dueArmed, sweepVars, crashes>>

FireClaim ==
    /\ pc[Engine] = "guarded"
    /\ ClaimDueActionForSend(act[Engine], tickNow)
    /\ Claimed(Engine, act[Engine], "scheduled", TRUE)
    /\ Goto(Engine, "claimed")
    /\ UNCHANGED <<now, mailVars, act, snap, plan, fresh, engineVars, sweepVars, crashes>>

FireLosesClaim ==
    /\ pc[Engine] = "guarded" /\ ~IsDue(act[Engine], tickNow)
    /\ Release(Engine)
    /\ UNCHANGED <<rowVars, now, claimedFrom, mailVars, engineVars, sweepVars, crashes>>

TickDone ==
    /\ pc[Engine] = "firing" /\ due = {}
    /\ Goto(Engine, "idle")
    /\ dueArmed' = [a \in Action |-> NoTime]
    /\ UNCHANGED <<rowVars, now, claimedFrom, mailVars, act, snap, plan, fresh, exempt, deadline,
                   tickNow, stuck, due, sweepVars, crashes>>

-----------------------------------------------------------------------------
(* Other writers: the observer, the sweeps, the bulk commands, the API.    *)

\* The observer finds a manual reply sent at t on the row's thread: the pending
\* rows of the thread are superseded (scheduled and sending ones are not) ...
ObserveReply(a) ==
    /\ now <= Horizon /\ observed[a] = NoTime
    /\ \E t \in Time : t <= now /\ t > seenReply[a] /\ observed' = [observed EXCEPT ![a] = t]
    /\ SweepPending(a, "superseded") \/ (status[a] # "pending" /\ UNCHANGED rowVars)
    /\ UNCHANGED <<now, claimedFrom, mailVars, procVars, engineVars, seenReply, reconArmed, crashes>>

\* ... then the reply is recorded for the fire-time guard and the sweeps.
RecordReply(a) ==
    /\ observed[a] # NoTime
    /\ seenReply' = [seenReply EXCEPT ![a] = observed[a]]
    /\ observed' = [observed EXCEPT ![a] = NoTime]
    /\ UNCHANGED <<rowVars, now, claimedFrom, mailVars, procVars, engineVars, reconArmed, crashes>>

\* Auto-expire, `approvals approve-all`, the pending rules of the reconcile
\* sweep and the dashboard's status route: one conditional UPDATE each.
ResolvePending(a) ==
    /\ \E s \in {"timed_out", "approved", "superseded", "rejected"} : SweepPending(a, s)
    /\ UNCHANGED <<now, claimedFrom, mailVars, procVars, engineVars, sweepVars, crashes>>

ReconcileList ==
    /\ \A a \in Action : reconArmed[a] = NoTime
    /\ \E a \in Action : status[a] = "scheduled"
    /\ reconArmed' = [a \in Action |-> IF status[a] = "scheduled" THEN statusAt[a] ELSE NoTime]
    /\ UNCHANGED <<rowVars, now, claimedFrom, mailVars, procVars, engineVars, seenReply, observed, crashes>>

\* A recorded reply stays recorded, so the check and the supersede it allows
\* are one step.
ReconcileScheduled(a) ==
    /\ reconArmed[a] # NoTime
    /\ \/ seenReply[a] > reconArmed[a] /\ MarkScheduledSuperseded(a)
       \/ seenReply[a] <= reconArmed[a] /\ UNCHANGED rowVars
       \/ status[a] # "scheduled" /\ UNCHANGED rowVars
    /\ reconArmed' = [reconArmed EXCEPT ![a] = NoTime]
    /\ UNCHANGED <<now, claimedFrom, mailVars, procVars, engineVars, seenReply, observed, crashes>>

-----------------------------------------------------------------------------
(* Restart and time.                                                       *)

\* Every task dies where it stands; the rows survive, and so do the requests
\* already handed to Gmail.
Crash ==
    /\ crashes < MaxCrashes /\ now <= Horizon
    /\ \E p \in Proc : pc[p] # "idle"
    /\ crashes' = crashes + 1
    /\ wire' = wire \cup {<<act[p], snap[p]>> : p \in {q \in Proc : pc[q] = "sending"}}
    /\ pc' = [p \in Proc |-> "idle"]
    /\ act' = [p \in Proc |-> NoAction]
    /\ snap' = [p \in Proc |-> NoDraft]
    /\ plan' = [p \in Proc |-> NoTime]
    /\ fresh' = [p \in Proc |-> NoDraft]
    /\ exempt' = [p \in Proc |-> FALSE]
    /\ deadline' = [p \in Proc |-> 0]
    /\ stuck' = {}
    /\ due' = {}
    /\ dueArmed' = [a \in Action |-> NoTime]
    /\ observed' = [a \in Action |-> NoTime]
    /\ reconArmed' = [a \in Action |-> NoTime]
    /\ UNCHANGED <<rowVars, now, claimedFrom, gmail, sentFor, tickNow, seenReply>>

\* A claimed send is over by its deadline: the timer of tokio::time::timeout
\* fires and the store statements around it take no time.
Tick ==
    /\ now < MaxTime
    /\ \A p \in Proc : InSend(p) => now < deadline[p]
    /\ now' = now + 1
    /\ UNCHANGED <<rowVars, claimedFrom, mailVars, procVars, engineVars, sweepVars, crashes>>

SendStep(p) ==
    \/ LoadClaimed(p) \/ GmailAccepts(p) \/ SendOk(p) \/ SendErr(p) \/ SendTimesOut(p)

HandlerStep(p) ==
    \/ ApproveRead(p) \/ ApproveArm(p) \/ ApproveTooLate(p) \/ ApproveClaim(p) \/ LoseRace(p)
    \/ SkipResolve(p) \/ DeleteDraft(p) \/ CreateRedraft(p) \/ ReviseFails(p)
    \/ RefreshDraft(p) \/ RepointDraft(p) \/ RepointFails(p) \/ CancelLoad(p) \/ SendStep(p)

EngineStep ==
    \/ EngineTick \/ FlagStuck \/ ListDue \/ FireSuperseded \/ FireGuard \/ FireClaim
    \/ FireLosesClaim \/ FireLoadFails \/ TickDone \/ SendStep(Engine)

Click(p, a) == ApproveLoad(p, a) \/ SkipLoad(p, a) \/ ReviseLoad(p, a) \/ SendNow(p, a) \/ Cancel(p, a)

Sweep(a) == ObserveReply(a) \/ RecordReply(a) \/ ResolvePending(a) \/ ReconcileScheduled(a)

Next ==
    \/ \E p \in Handler : HandlerStep(p) \/ \E a \in Action : Click(p, a)
    \/ \E a \in Action : ScheduleClick(a) \/ BackToQueue(a) \/ Sweep(a)
    \/ ReconcileList \/ EngineStep \/ LateDelivery \/ Crash \/ Tick

Spec == Init /\ [][Next]_vars

\* The runtime keeps scheduling the tasks it has started, the engine's ticker
\* included, and time passes.  Nothing is assumed of the owner or of Gmail.
Fairness ==
    /\ \A p \in Handler : WF_vars(HandlerStep(p))
    /\ WF_vars(EngineStep)
    /\ WF_vars(Tick)

FairSpec == Spec /\ Fairness

=============================================================================
