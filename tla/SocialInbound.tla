---------------------------- MODULE SocialInbound ----------------------------
(***************************************************************************)
(* Direct messages that reach the daemon through SocialAPI.ai: pushed into *)
(* a table by a webhook, or found by the poll of the inbox.  One runner    *)
(* fetches both and then triages, drafts and cards message by message; a   *)
(* ledger of settled messages keeps them from being fed again.             *)
(*                                                                         *)
(* One conversation is modelled, and it is among those a poll reads.  The  *)
(* inbox answers with the messages as they are then; minutes later the     *)
(* last of them is triaged.  The dry-run mode, and our own messages in the *)
(* webhook table, change nothing here and are left out.                    *)
(***************************************************************************)
EXTENDS Daemon, FiniteSets, SequencesExt

CONSTANTS
    Dm,              \* messages of the other party
    PerTick,         \* max_per_tick
    TriageRetries,   \* DM_MAX_TRIAGE_RETRIES
    DmAge,           \* DM_MAX_AGE_DAYS
    MaxReplies,      \* bound on messages the owner writes himself
    MaxHitches       \* bound on failures of the model, the API and Discord

ASSUME SocialAssumption ==
    /\ PerTick \in Nat \ {0} /\ TriageRetries \in Nat /\ DmAge \in Nat
    /\ MaxReplies \in Nat /\ MaxHitches \in Nat

VARIABLES
    thread,      \* the conversation, oldest first
    receivedAt,  \* created_at of the messages in it
    event,       \* socialapi_webhook_events
    seen,        \* socialapi_seen_dms
    dmRow,       \* the action row of a message
    runner,      \* the channel runner
    replying,    \* approvals whose send is under way
    hitches,     \* number of failures so far
    offered      \* history: messages whose draft was waiting for the owner

socialVars ==
    <<thread, receivedAt, event, seen, dmRow, runner, replying, hitches, offered>>
allSocialVars == <<daemonVars, socialVars>>

Ours == "ours"
NoRow == [status |-> "none", retries |-> 0]
NoTick == [step |-> "rest", events |-> {}, items |-> <<>>, page |-> <<>>]

SocialTypes ==
    /\ \A i \in DOMAIN thread : thread[i] \in Dm \cup {Ours}
    /\ receivedAt \in [Dm -> 0 .. MaxNow]
    /\ event \in [Dm -> {"none", "queued", "processed"}]
    /\ seen \subseteq Dm /\ offered \subseteq Dm /\ replying \subseteq Dm
    /\ dmRow \in [Dm -> [status : {"none", "error", "pending", "skipped", "superseded",
                                   "flagged", "sent", "rejected"},
                         retries : 0 .. TriageRetries]]
    /\ runner.step \in {"rest", "drain", "ask", "walk", "take", "triage", "draft", "post"}
    /\ runner.events \subseteq Dm
    /\ \A i \in DOMAIN runner.items : runner.items[i] \in Dm
    /\ hitches \in 0 .. MaxHitches

SocialInit ==
    /\ thread = <<>>
    /\ receivedAt = [m \in Dm |-> 0]
    /\ event = [m \in Dm |-> "none"]
    /\ seen = {} /\ offered = {} /\ replying = {}
    /\ dmRow = [m \in Dm |-> NoRow]
    /\ runner = NoTick
    /\ hitches = 0

-----------------------------------------------------------------------------
(* The conversation and the webhook.                                       *)

InThread(m) == m \in ToSet(thread)

(* The messages after the owner's last one: unanswered_incoming_tail.      *)
UnansweredIn(page) ==
    {page[i] : i \in {i \in DOMAIN page : \A j \in DOMAIN page : page[j] = Ours => j < i}}

Answered(m) == InThread(m) /\ m \notin UnansweredIn(thread)

Receive(m) ==
    /\ ~InThread(m)
    /\ thread' = Append(thread, m)
    /\ receivedAt' = [receivedAt EXCEPT ![m] = now]
    /\ UNCHANGED <<daemonVars, event, seen, dmRow, runner, replying, hitches, offered>>

(* The push may come late, or never.                                       *)
Push(m) ==
    /\ InThread(m) /\ event[m] = "none"
    /\ event' = [event EXCEPT ![m] = "queued"]
    /\ UNCHANGED <<daemonVars, thread, receivedAt, seen, dmRow, runner, replying, hitches,
                   offered>>

OwnerAnswers ==
    /\ Len(SelectSeq(thread, LAMBDA x : x = Ours)) < MaxReplies
    /\ thread # <<>>
    /\ thread' = Append(thread, Ours)
    /\ UNCHANGED <<daemonVars, receivedAt, event, seen, dmRow, runner, replying, hitches,
                   offered>>

-----------------------------------------------------------------------------
(* The owner's card: approve_socialapi sends first and then writes the     *)
(* status, whatever the row has become; skip_socialapi writes at once.     *)

SetRow(m, status) == dmRow' = [dmRow EXCEPT ![m].status = status]

ApproveDm(m) ==
    /\ dmRow[m].status = "pending" /\ m \notin replying
    /\ replying' = replying \cup {m}
    /\ UNCHANGED <<daemonVars, thread, receivedAt, event, seen, dmRow, runner, hitches,
                   offered>>

DmSent(m) ==
    /\ m \in replying
    /\ replying' = replying \ {m}
    /\ thread' = Append(thread, Ours)
    /\ SetRow(m, "sent")
    /\ UNCHANGED <<daemonVars, receivedAt, event, seen, runner, hitches, offered>>

Hitch == hitches < MaxHitches /\ hitches' = hitches + 1

DmNotSent(m) ==
    /\ m \in replying
    /\ Hitch
    /\ replying' = replying \ {m}
    /\ SetRow(m, "error")
    /\ UNCHANGED <<daemonVars, thread, receivedAt, event, seen, runner, offered>>

SkipDm(m) ==
    /\ dmRow[m].status = "pending"
    /\ SetRow(m, "rejected")
    /\ UNCHANGED <<daemonVars, thread, receivedAt, event, seen, runner, replying, hitches,
                   offered>>

-----------------------------------------------------------------------------
(* SocialApiDmSource.fetch_new.                                            *)

OnStep(step) == runner.step = step

Go(step) == runner' = [runner EXCEPT !.step = step]

Queued == {m \in Dm : event[m] = "queued"}

(* take_unprocessed_socialapi_webhook_events, at most PerTick of them.     *)
TakeEvents ==
    /\ OnStep("rest")
    /\ \E events \in SUBSET Queued :
          /\ Cardinality(events) <= PerTick
          /\ events = Queued \/ Cardinality(events) = PerTick
          /\ runner' = [NoTick EXCEPT !.step = "drain", !.events = events]
    /\ UNCHANGED <<daemonVars, thread, receivedAt, event, seen, dmRow, replying, hitches,
                   offered>>

(* An event is marked processed before anything else.  One whose author    *)
(* cannot be told from the owner is dropped: the poll is to find it.       *)
DrainEvent(m) ==
    /\ OnStep("drain") /\ m \in runner.events
    /\ event' = [event EXCEPT ![m] = "processed"]
    /\ \E attributable \in BOOLEAN :
          runner' = [runner EXCEPT !.events = @ \ {m},
                                   !.items = IF attributable /\ m \notin seen THEN Append(@, m)
                                                                              ELSE @]
    /\ UNCHANGED <<daemonVars, thread, receivedAt, seen, dmRow, replying, hitches, offered>>

Drained ==
    /\ OnStep("drain") /\ runner.events = {}
    /\ Go(IF Len(runner.items) < PerTick THEN "ask" ELSE "take")
    /\ UNCHANGED <<daemonVars, thread, receivedAt, event, seen, dmRow, replying, hitches,
                   offered>>

ListMessages ==
    /\ OnStep("ask")
    /\ runner' = [runner EXCEPT !.step = "walk", !.page = thread]
    /\ UNCHANGED <<daemonVars, thread, receivedAt, event, seen, dmRow, replying, hitches,
                   offered>>

ListFails ==
    /\ OnStep("ask")
    /\ Hitch
    /\ Go("take")
    /\ UNCHANGED <<daemonVars, thread, receivedAt, event, seen, dmRow, replying, offered>>

Stale(m) == now - receivedAt[m] > DmAge

(* mark_pending_drafts_superseded_by_thread, when the newest is ours.      *)
SupersedeThread(page) ==
    IF page # <<>> /\ Last(page) = Ours
    THEN [m \in Dm |-> IF dmRow[m].status = "pending" THEN [dmRow[m] EXCEPT !.status = "superseded"]
                                                      ELSE dmRow[m]]
    ELSE dmRow

(* Messages of a page, oldest first.                                       *)
OldestFirst(page, msgs) ==
    {s \in [1 .. Cardinality(msgs) -> msgs] :
        \A i, j \in DOMAIN s : i < j => \E k, l \in DOMAIN page :
                                           k < l /\ page[k] = s[i] /\ page[l] = s[j]}

(* The unanswered tail, oldest first, as far as the budget goes; what is   *)
(* too old for a reply goes to the ledger at once.                         *)
WalkTail ==
    LET tail == UnansweredIn(runner.page) \ ToSet(runner.items)
        room == PerTick - Len(runner.items)
    IN /\ OnStep("walk")
       /\ dmRow' = SupersedeThread(runner.page)
       /\ seen' = seen \cup {m \in tail : Stale(m)}
       /\ \E fresh \in OldestFirst(runner.page, {m \in tail \ seen : ~Stale(m)}) :
             runner' = [runner EXCEPT !.step = "take", !.page = <<>>,
                                      !.items = @ \o SubSeq(fresh, 1, IF Len(fresh) < room THEN Len(fresh)
                                                                                           ELSE room)]
       /\ UNCHANGED <<daemonVars, thread, receivedAt, event, replying, hitches, offered>>

-----------------------------------------------------------------------------
(* SocialApiDmChannel.handle_dm, for one message after the other.          *)

Handling(m) == runner.items # <<>> /\ Head(runner.items) = m

Leave == runner' = [runner EXCEPT !.step = "take", !.items = Tail(@)]

Ledger(m) == seen' = seen \cup {m}

FetchOver ==
    /\ OnStep("take") /\ runner.items = <<>>
    /\ runner' = NoTick
    /\ UNCHANGED <<daemonVars, thread, receivedAt, event, seen, dmRow, replying, hitches,
                   offered>>

TakeUpDm(m) ==
    /\ OnStep("take") /\ Handling(m)
    /\ dmRow[m] = NoRow
    /\ Go("triage")
    /\ UNCHANGED <<daemonVars, thread, receivedAt, event, seen, dmRow, replying, hitches,
                   offered>>

\* Mutant: the retries of an error row are not counted.
FeedUncounted(m) ==
    /\ OnStep("take") /\ Handling(m)
    /\ \/ dmRow[m].status \notin {"none", "error"} /\ Ledger(m)
       \/ dmRow[m].status = "error" /\ UNCHANGED seen
    /\ Leave
    /\ UNCHANGED <<daemonVars, thread, receivedAt, event, dmRow, replying, hitches, offered>>

(* A message with a row is settled, unless the row is an error: then it is *)
(* counted and left unseen, until the count is full and it is flagged.     *)
FeedAgain(m) ==
    /\ OnStep("take") /\ Handling(m)
    /\ \/ /\ dmRow[m].status \notin {"none", "error"}
          /\ Ledger(m)
          /\ UNCHANGED dmRow
       \/ /\ dmRow[m].status = "error" /\ dmRow[m].retries < TriageRetries
          /\ dmRow' = [dmRow EXCEPT ![m].retries = @ + 1]
          /\ UNCHANGED seen
       \/ /\ dmRow[m].status = "error" /\ dmRow[m].retries >= TriageRetries
          /\ SetRow(m, "flagged")
          /\ Ledger(m)
    /\ Leave
    /\ UNCHANGED <<daemonVars, thread, receivedAt, event, replying, hitches, offered>>

(* The call fails, for the triage or the draft: no row, no ledger.         *)
ModelFails(m) ==
    /\ OnStep("triage") \/ OnStep("draft")
    /\ Handling(m)
    /\ Hitch
    /\ Leave
    /\ UNCHANGED <<daemonVars, thread, receivedAt, event, seen, dmRow, replying, offered>>

Triaged(m) == OnStep("triage") /\ Handling(m)

\* Mutant: the message is settled with the error (#795).
TriageUnreadSettled(m) ==
    /\ Triaged(m)
    /\ Hitch
    /\ SetRow(m, "error")
    /\ Ledger(m)
    /\ Leave
    /\ UNCHANGED <<daemonVars, thread, receivedAt, event, replying, offered>>

(* An answer that is no decision leaves an error row.                      *)
TriageUnread(m) ==
    /\ Triaged(m)
    /\ Hitch
    /\ SetRow(m, "error")
    /\ Leave
    /\ UNCHANGED <<daemonVars, thread, receivedAt, event, seen, replying, offered>>

NotForReply(m) ==
    /\ Triaged(m)
    /\ SetRow(m, "skipped")
    /\ Ledger(m)
    /\ Leave
    /\ UNCHANGED <<daemonVars, thread, receivedAt, event, replying, hitches, offered>>

ForReply(m) ==
    /\ Triaged(m)
    /\ Go("draft")
    /\ UNCHANGED <<daemonVars, thread, receivedAt, event, seen, dmRow, replying, hitches, offered>>

(* log_action(Pending): the carousel may show the row before its card is   *)
(* posted.                                                                 *)
DraftDm(m) ==
    /\ OnStep("draft") /\ Handling(m)
    /\ SetRow(m, "pending")
    /\ offered' = offered \cup {m}
    /\ Go("post")
    /\ UNCHANGED <<daemonVars, thread, receivedAt, event, seen, replying, hitches>>

PostDm(m) ==
    /\ OnStep("post") /\ Handling(m)
    /\ Ledger(m)
    /\ Leave
    /\ UNCHANGED <<daemonVars, thread, receivedAt, event, dmRow, replying, hitches, offered>>

(* The status becomes error whatever the row has become.                   *)
PostFails(m) ==
    /\ OnStep("post") /\ Handling(m)
    /\ Hitch
    /\ SetRow(m, "error")
    /\ Leave
    /\ UNCHANGED <<daemonVars, thread, receivedAt, event, seen, replying, offered>>

-----------------------------------------------------------------------------

(* A send under way may have gone out.                                     *)
SocialRestarts ==
    /\ Restarts
    /\ runner' = NoTick
    /\ replying' = {}
    /\ thread' = thread \/ (replying # {} /\ thread' = Append(thread, Ours))
    /\ UNCHANGED <<receivedAt, event, seen, dmRow, hitches, offered>>

RunnerStep ==
    \/ TakeEvents \/ Drained \/ ListMessages \/ WalkTail \/ FetchOver
    \/ \E m \in Dm : DrainEvent(m) \/ TakeUpDm(m) \/ FeedAgain(m) \/ NotForReply(m) \/ ForReply(m)
                     \/ DraftDm(m) \/ PostDm(m)

SocialNext ==
    \/ \E m \in Dm : Receive(m) \/ Push(m) \/ ApproveDm(m) \/ DmSent(m) \/ DmNotSent(m) \/ SkipDm(m)
                     \/ ModelFails(m) \/ TriageUnread(m) \/ PostFails(m)
    \/ OwnerAnswers
    \/ RunnerStep \/ ListFails
    \/ SocialRestarts
    \/ Tick /\ UNCHANGED socialVars

SocialSpec == DaemonInit /\ SocialInit /\ [][SocialNext]_allSocialVars

-----------------------------------------------------------------------------
(* Safety.                                                                 *)

(* No message is settled behind the owner's back: in the ledger are those  *)
(* whose draft was offered, the filter set aside, or retries gave up on    *)
(* and flagged, and those too old for a reply.                             *)
SettledInSight ==
    \A m \in seen : m \in offered \/ dmRow[m].status \in {"skipped", "flagged"} \/ Stale(m)

-----------------------------------------------------------------------------
(* Progress.                                                               *)

(* The runner's ticker goes on and a tick that has begun goes on.          *)
FairSocialSpec == SocialSpec /\ WF_allSocialVars(RunnerStep)

(* Every message is settled or answered, whether its push came, was late   *)
(* or was lost with a restart, and whatever failed on the way.             *)
DmsSettle == \A m \in Dm : InThread(m) ~> m \in seen \/ Answered(m)

=============================================================================
