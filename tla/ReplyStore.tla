----------------------------- MODULE ReplyStore -----------------------------
(***************************************************************************)
(* The `actions` table of augmentagent-store, restricted to the columns    *)
(* that steer a Gmail reply, and the SQL statements that write them.       *)
(* Every operator below is ONE statement executed under the store's        *)
(* connection mutex, hence one atomic step whoever calls it.  A            *)
(* conditional UPDATE is a guard on `status`; the caller that loses the    *)
(* race sees the guard false ("rows affected = 0").                        *)
(*                                                                         *)
(* The text of a draft is named by the Gmail draft that carries it, so     *)
(* `body[a] = d` reads "draftBody is the text of draft d".  Nudge columns, *)
(* notice pointers and status_source play no part in the send race; they   *)
(* are left to the queue module.                                           *)
(***************************************************************************)
EXTENDS Integers

CONSTANTS
    Action,        \* ids of the rows of `actions`
    Draft,         \* Gmail draft ids
    NoDraft,       \* draftId IS NULL
    MaxTime,       \* bound on the clock
    Exempt         \* RETRY_EXEMPT_RETRY_COUNT

ASSUME StoreAssumption ==
    /\ NoDraft \notin Draft
    /\ MaxTime \in Nat
    /\ Exempt \in Nat \ {0}

VARIABLES
    status,        \* actions.status
    draftId,       \* actions.draftId
    body,          \* actions.draftBody
    scheduledAt,   \* actions.scheduledAtMs
    statusAt,      \* actions.status_updated_at: the arming moment of a schedule
    updatedAt,     \* actions.updatedAt
    retryCount,    \* actions.retryCount
    now            \* the wall clock

rowVars == <<status, draftId, body, scheduledAt, statusAt, updatedAt, retryCount>>

NoTime == -1       \* scheduledAtMs IS NULL
Time == 0 .. MaxTime

Status == {"pending", "scheduled", "sending", "sent", "error", "permanent_error",
           "rejected", "superseded", "approved", "timed_out"}

RowTypeOK ==
    /\ status \in [Action -> Status]
    /\ draftId \in [Action -> Draft \cup {NoDraft}]
    /\ body \in [Action -> Draft]
    /\ scheduledAt \in [Action -> Time \cup {NoTime}]
    /\ statusAt \in [Action -> Time]
    /\ updatedAt \in [Action -> Time]
    /\ retryCount \in [Action -> 0 .. Exempt]
    /\ now \in Time

-----------------------------------------------------------------------------
(* Column assignments shared by the statements.                            *)

SetStatus(a, s) == status' = [status EXCEPT ![a] = s]
Touch(a)        == updatedAt' = [updatedAt EXCEPT ![a] = now]
StampStatus(a)  == statusAt' = [statusAt EXCEPT ![a] = now]
Schedule(a, t)  == scheduledAt' = [scheduledAt EXCEPT ![a] = t]

-----------------------------------------------------------------------------
(* Statements conditional on `status = 'pending'`.                         *)

\* The resolve gate: the first surface to get here wins the row.
TryResolveAction(a, s) ==
    /\ status[a] = "pending"
    /\ SetStatus(a, s) /\ StampStatus(a) /\ Touch(a)
    /\ UNCHANGED <<draftId, body, scheduledAt, retryCount>>

\* Mutant: the sweep's gate lets a row in flight through.
SweepInFlight(a, s) ==
    /\ status[a] \in {"pending", "sending"}
    /\ SetStatus(a, s) /\ Touch(a)
    /\ UNCHANGED <<draftId, body, scheduledAt, statusAt, retryCount>>

\* Sweeps and bulk commands: same gate, status_updated_at left alone.
SweepPending(a, s) ==
    /\ status[a] = "pending"
    /\ SetStatus(a, s) /\ Touch(a)
    /\ UNCHANGED <<draftId, body, scheduledAt, statusAt, retryCount>>

\* Mutant: the lead is added once more.
ScheduleLater(a, at) ==
    /\ status[a] = "pending"
    /\ SetStatus(a, "scheduled") /\ Schedule(a, at + 1) /\ StampStatus(a) /\ Touch(a)
    /\ UNCHANGED <<draftId, body, retryCount>>

ScheduleAction(a, at) ==
    /\ status[a] = "pending"
    /\ SetStatus(a, "scheduled") /\ Schedule(a, at) /\ StampStatus(a) /\ Touch(a)
    /\ UNCHANGED <<draftId, body, retryCount>>

RefreshPendingDraft(a, d) ==
    /\ status[a] = "pending"
    /\ body' = [body EXCEPT ![a] = d] /\ Touch(a)
    /\ UNCHANGED <<status, draftId, scheduledAt, statusAt, retryCount>>

-----------------------------------------------------------------------------
(* The send claim.                                                         *)

\* Mutant: the claim is not exclusive.
ClaimAgain(a, from) ==
    /\ status[a] \in {from, "sending"}
    /\ SetStatus(a, "sending") /\ StampStatus(a) /\ Touch(a)
    /\ UNCHANGED <<draftId, body, scheduledAt, retryCount>>

ClaimActionForSend(a, from) ==
    /\ status[a] = from
    /\ SetStatus(a, "sending") /\ StampStatus(a) /\ Touch(a)
    /\ UNCHANGED <<draftId, body, scheduledAt, retryCount>>

IsDue(a, t) == status[a] = "scheduled" /\ scheduledAt[a] # NoTime /\ scheduledAt[a] <= t

\* Mutant: the claim does not look at the fire time again.
ClaimListed(a, t) == ClaimActionForSend(a, "scheduled")

ClaimDueActionForSend(a, t) ==
    /\ IsDue(a, t)
    /\ ClaimActionForSend(a, "scheduled")

\* Every caller drops the result of the two terminal flips, so the lost race
\* is part of the statement.
FinishSendSent(a) ==
    \/ /\ status[a] = "sending"
       /\ SetStatus(a, "sent") /\ StampStatus(a) /\ Touch(a)
       /\ UNCHANGED <<draftId, body, scheduledAt, retryCount>>
    \/ status[a] # "sending" /\ UNCHANGED rowVars

\* Mutant: a failed send goes back to the queue.
RequeueOnError(a, stamp) ==
    \/ /\ status[a] = "sending"
       /\ SetStatus(a, "pending") /\ StampStatus(a) /\ Touch(a)
       /\ retryCount' = IF stamp THEN [retryCount EXCEPT ![a] = Exempt] ELSE retryCount
       /\ UNCHANGED <<draftId, body, scheduledAt>>
    \/ status[a] # "sending" /\ UNCHANGED rowVars

\* `stamp` is retry_count_override: TRUE writes the exempt count, FALSE keeps
\* the row eligible for the generic retry tick.
FinishSendError(a, stamp) ==
    \/ /\ status[a] = "sending"
       /\ SetStatus(a, "error") /\ StampStatus(a) /\ Touch(a)
       /\ retryCount' = IF stamp THEN [retryCount EXCEPT ![a] = Exempt] ELSE retryCount
       /\ UNCHANGED <<draftId, body, scheduledAt>>
    \/ status[a] # "sending" /\ UNCHANGED rowVars

\* Mutant: no grace.
IsSending(a, grace) == status[a] = "sending" /\ updatedAt[a] <= now

IsStuckSending(a, grace) == status[a] = "sending" /\ updatedAt[a] + grace <= now

-----------------------------------------------------------------------------
(* Statements conditional on `status = 'scheduled'`.                       *)

\* Mutant: a row being sent can be taken back.
UnscheduleInFlight(a) ==
    /\ status[a] \in {"scheduled", "sending"}
    /\ SetStatus(a, "pending") /\ Schedule(a, NoTime) /\ StampStatus(a) /\ Touch(a)
    /\ UNCHANGED <<draftId, body, retryCount>>

UnscheduleAction(a) ==
    /\ status[a] = "scheduled"
    /\ SetStatus(a, "pending") /\ Schedule(a, NoTime) /\ StampStatus(a) /\ Touch(a)
    /\ UNCHANGED <<draftId, body, retryCount>>

CancelScheduledAction(a) ==
    /\ status[a] = "scheduled"
    /\ SetStatus(a, "rejected") /\ Schedule(a, NoTime) /\ StampStatus(a) /\ Touch(a)
    /\ UNCHANGED <<draftId, body, retryCount>>

MarkScheduledSuperseded(a) ==
    /\ status[a] = "scheduled"
    /\ SetStatus(a, "superseded") /\ Schedule(a, NoTime) /\ StampStatus(a) /\ Touch(a)
    /\ UNCHANGED <<draftId, body, retryCount>>

-----------------------------------------------------------------------------
(* Unconditional statements.                                               *)

SetActionDraftId(a, d) ==
    /\ draftId' = [draftId EXCEPT ![a] = d] /\ Touch(a)
    /\ UNCHANGED <<status, body, scheduledAt, statusAt, retryCount>>

=============================================================================
