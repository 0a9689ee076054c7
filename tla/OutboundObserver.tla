-------------------------- MODULE OutboundObserver --------------------------
(***************************************************************************)
(* How the daemon learns that the owner answered a thread by hand.  The    *)
(* OutboundObserver polls the SENT folder behind a time cursor, tells the  *)
(* daemon's own sends apart, retires the pending cards of the threads the  *)
(* owner wrote on and logs the reply; the reconcile sweep retires, from    *)
(* the log, the cards the observer could not (a card that was scheduled    *)
(* when the reply was seen).  The senders, which run beside it, record     *)
(* their own mail only after Gmail has taken it.                           *)
(*                                                                         *)
(* One Gmail account; a card is a row of `actions` reduced to its thread,  *)
(* its status and two dates.  Gmail's folder is external: a message shows  *)
(* up there some instant after it was sent, dated with that instant.       *)
(***************************************************************************)
EXTENDS Integers, FiniteSetsExt

CONSTANTS
    Msg, Thread, Card,
    NoMsg,
    Start,         \* the clock starts here, further from 0 than any window
    MaxTime,       \* bound on the clock
    Horizon,       \* bound: mail, clicks and faults happen up to this time
    SendTimeout,   \* SEND_DRAFT_TIMEOUT
    Proximity,     \* SELF_SEND_PROXIMITY_MS
    Slack,         \* ONE_DAY_MS
    Lookback       \* FIRST_TICK_MAX_LOOKBACK_MS

ASSUME ObserverAssumption ==
    /\ NoMsg \notin Msg
    /\ SendTimeout \in Nat /\ Proximity \in Nat /\ SendTimeout <= Proximity
    /\ Slack \in Nat \ {0} /\ Lookback \in Nat
    /\ Start \in Nat /\ Start > Proximity + Slack + Lookback
    /\ Horizon \in Nat /\ MaxTime \in Nat /\ Start <= Horizon /\ Horizon < MaxTime

VARIABLES
    now,
    author,        \* who wrote a message of the SENT folder
    on,            \* the thread of a message
    sentAt,        \* when Gmail took it
    undated,       \* messages whose Date header does not parse
    recordedAt,    \* self_sent_messages: when an own send was recorded
    unnamed,       \* own sends Gmail confirmed without a message id
    log,           \* outbound_thread_log
    cursor,        \* outbound_state.last_seen_sent_at_ms, 0 for no row
    status, about, arrivedAt, raisedAt,              \* the cards
    pc, known, since, page, newest, current,         \* locals of poll_once
    first,         \* the poll found no cursor: first_tick
    answered,      \* threads the reconcile sweep has still to flip
    passed,        \* history: messages a failed statement passed over
    floor          \* history: up to where polls without a cursor began

mailVars == <<author, on, sentAt, undated, recordedAt, unnamed>>
cardVars == <<status, about, arrivedAt, raisedAt>>
pollVars == <<pc, known, since, page, newest, current, first>>
vars == <<now, mailVars, log, cursor, cardVars, pollVars, answered, passed, floor>>

Time == Start .. MaxTime
Cursors == (Start - Lookback - Slack) .. MaxTime
Never == 0         \* no cursor, no date, not recorded

TypeOK ==
    /\ now \in Time
    /\ author \in [Msg -> {"none", "daemon", "owner"}]
    /\ on \in [Msg -> Thread]
    /\ sentAt \in [Msg -> Time \cup {Never}]
    /\ undated \subseteq Msg
    /\ recordedAt \in [Msg -> Time \cup {Never}]
    /\ unnamed \subseteq Msg
    /\ log \subseteq Msg
    /\ cursor \in Cursors \cup {Never}
    /\ status \in [Card -> {"none", "drafting", "pending", "held", "superseded"}]
    /\ about \in [Card -> Thread]
    /\ arrivedAt \in [Card -> Time \cup {Never}]
    /\ raisedAt \in [Card -> Time \cup {Never}]
    /\ pc \in {"idle", "seeding", "fetching", "page", "retiring", "logging"}
    /\ known \subseteq Msg
    /\ since \in Cursors \cup {Never}
    /\ page \subseteq Msg
    /\ newest \in Cursors \cup {Never}
    /\ current \in Msg \cup {NoMsg}
    /\ first \in BOOLEAN
    /\ answered \subseteq Thread
    /\ passed \subseteq Msg
    /\ floor \in Cursors \cup {Never}

Init ==
    /\ now = Start
    /\ author = [m \in Msg |-> "none"]
    /\ on \in [Msg -> Thread]
    /\ sentAt = [m \in Msg |-> Never]
    /\ undated = {}
    /\ recordedAt = [m \in Msg |-> Never]
    /\ unnamed = {}
    /\ log = {}
    /\ cursor = Never
    /\ status = [c \in Card |-> "none"]
    /\ about \in [Card -> Thread]
    /\ arrivedAt = [c \in Card |-> Never]
    /\ raisedAt = [c \in Card |-> Never]
    /\ pc = "idle"
    /\ known = {}
    /\ since = Never
    /\ page = {}
    /\ newest = Never
    /\ current = NoMsg
    /\ first = FALSE
    /\ answered = {}
    /\ passed = {}
    /\ floor = Never

-----------------------------------------------------------------------------
(* What the store and the classifier compute.                              *)

\* parse_rfc2822_or_ms: 0 for a header it cannot read.
DateOf(m) == IF m \in undated THEN Never ELSE sentAt[m]

Recorded == {m \in Msg : recordedAt[m] # Never}

\* Mutant: the window is taken to one side only.
SendNearAfter(t, at) ==
    \E m \in Recorded : on[m] = t /\ recordedAt[m] - at \in (-Proximity) .. 0

\* has_daemon_send_near: an own send recorded about then on the thread.
DaemonSendNear(t, at) ==
    \E m \in Recorded : on[m] = t /\ recordedAt[m] - at \in (-Proximity) .. Proximity

Open == {c \in Card : status[c] \in {"pending", "held"}}

\* The first tick looks back from the oldest open card, with a day of slack but
\* no further than the lookback; with nothing open it starts now.
Seed(t) ==
    IF Open = {} THEN t = now
    ELSE \E c \in Open :
            /\ \A d \in Open : raisedAt[c] <= raisedAt[d]
            /\ t = Max({now - Lookback, raisedAt[c] - Slack})

\* The pending cards of a thread, and only they, are superseded.
SupersedeThread(t) ==
    status' = [c \in Card |->
        IF status[c] = "pending" /\ about[c] = t THEN "superseded" ELSE status[c]]

-----------------------------------------------------------------------------
(* Mail and cards.                                                         *)

\* Gmail takes a message of the owner or of one of the daemon's senders.
Send(m, who) ==
    /\ now <= Horizon /\ author[m] = "none"
    /\ author' = [author EXCEPT ![m] = who]
    /\ sentAt' = [sentAt EXCEPT ![m] = now]
    /\ undated' \in {undated, undated \cup {m}}
    /\ UNCHANGED <<now, on, recordedAt, unnamed, log, cursor, cardVars, pollVars, answered, passed,
                   floor>>

\* Gmail's answer comes back in time and record_self_send writes the id down;
\* without an id it returns at once.  A send that timed out, died or could not
\* be written is never recorded.
SendConfirmed(m) ==
    /\ author[m] = "daemon" /\ recordedAt[m] = Never /\ m \notin unnamed
    /\ now <= sentAt[m] + SendTimeout
    /\ \/ recordedAt' = [recordedAt EXCEPT ![m] = now] /\ UNCHANGED unnamed
       \/ unnamed' = unnamed \cup {m} /\ UNCHANGED recordedAt
    /\ UNCHANGED <<now, author, on, sentAt, undated, log, cursor, cardVars, pollVars, answered,
                   passed, floor>>

\* A draft is started for a mail that arrived at i, unless the owner is known
\* to have answered since ...
StartDraft(c) ==
    /\ now <= Horizon /\ status[c] = "none"
    /\ \E i \in Time :
          /\ i <= now
          /\ ~ \E m \in log : on[m] = about[c] /\ DateOf(m) > i
          /\ arrivedAt' = [arrivedAt EXCEPT ![c] = i]
    /\ status' = [status EXCEPT ![c] = "drafting"]
    /\ UNCHANGED <<now, mailVars, log, cursor, about, raisedAt, pollVars, answered, passed, floor>>

\* ... and its card goes up when the reasoner is done.
RaiseCard(c) ==
    /\ status[c] = "drafting"
    /\ status' = [status EXCEPT ![c] = "pending"]
    /\ raisedAt' = [raisedAt EXCEPT ![c] = now]
    /\ UNCHANGED <<now, mailVars, log, cursor, about, arrivedAt, pollVars, answered, passed, floor>>

\* The owner schedules a card, or takes it back to the queue ("held" stands for
\* scheduled and sending).
Hold(c) ==
    /\ now <= Horizon /\ status[c] = "pending"
    /\ status' = [status EXCEPT ![c] = "held"]
    /\ UNCHANGED <<now, mailVars, log, cursor, about, arrivedAt, raisedAt, pollVars, answered,
                   passed, floor>>

BackToQueue(c) ==
    /\ now <= Horizon /\ status[c] = "held"
    /\ status' = [status EXCEPT ![c] = "pending"]
    /\ UNCHANGED <<now, mailVars, log, cursor, about, arrivedAt, raisedAt, pollVars, answered,
                   passed, floor>>

-----------------------------------------------------------------------------
(* poll_once.                                                              *)

LoadSelfSent ==
    /\ pc = "idle"
    /\ pc' = "seeding"
    /\ known' = Recorded
    /\ UNCHANGED <<now, mailVars, log, cursor, cardVars, since, page, newest, current, first,
                   answered, passed, floor>>

\* A cursor that cannot be read counts as none, and cards that cannot be counted
\* as none open.
SeedCursor ==
    /\ pc = "seeding"
    /\ pc' = "fetching"
    /\ \/ cursor # Never /\ since' = cursor /\ first' = FALSE
       \/ /\ cursor = Never \/ now <= Horizon
          /\ \/ \E t \in Cursors : Seed(t) /\ since' = t
             \/ now <= Horizon /\ since' = now
          /\ first' = TRUE
    /\ newest' = since'
    /\ UNCHANGED <<now, mailVars, log, cursor, cardVars, known, page, current, answered, passed,
                   floor>>

PollEnds ==
    /\ pc' = "idle" /\ known' = {} /\ since' = Never /\ newest' = Never
    /\ first' = FALSE /\ page' = {} /\ current' = NoMsg

\* Messages the folder shows: Gmail's `after:` reaches a day behind the cursor.
Shown == {m \in Msg : author[m] # "none" /\ sentAt[m] < now /\ sentAt[m] + Slack > since}

\* An empty answer, or a failed one, ends the poll without a cursor.
FetchNothing ==
    /\ pc = "fetching"
    /\ Shown = {} \/ now <= Horizon
    /\ PollEnds
    /\ UNCHANGED <<now, mailVars, log, cursor, cardVars, answered, passed, floor>>

\* Mutant: the cursor moves as soon as the page is there.
FetchAndAdvance ==
    /\ pc = "fetching" /\ Shown # {}
    /\ pc' = "page"
    /\ page' = Shown
    /\ cursor' = Max({cursor, since} \cup {sentAt[m] : m \in Shown})
    /\ floor' = IF first THEN Max({floor, since}) ELSE floor
    /\ UNCHANGED <<now, mailVars, log, cardVars, known, since, newest, current, first, answered,
                   passed>>

Fetch ==
    /\ pc = "fetching" /\ Shown # {}
    /\ pc' = "page"
    /\ page' = Shown
    /\ UNCHANGED <<now, mailVars, log, cursor, cardVars, known, since, newest, current, first,
                   answered, passed, floor>>

\* A known id needs no further look.
SkipKnown(m) ==
    /\ pc = "page" /\ m \in page /\ m \in known
    /\ page' = page \ {m}
    /\ UNCHANGED <<now, mailVars, log, cursor, cardVars, pc, known, since, newest, current, first,
                   answered, passed, floor>>

\* The proximity query failed: the message is left out and nothing else.
LookupFails(m) ==
    /\ pc = "page" /\ m \in page \ known /\ now <= Horizon
    /\ page' = page \ {m}
    /\ passed' = passed \cup {m}
    /\ UNCHANGED <<now, mailVars, log, cursor, cardVars, pc, known, since, newest, current, first,
                   answered, floor>>

\* Our own send by thread and time, or an old acquaintance of the cursor.
SkipSeen(m) ==
    /\ pc = "page" /\ m \in page \ known
    /\ \/ DaemonSendNear(on[m], DateOf(m))
       \/ DateOf(m) # Never /\ DateOf(m) <= since
    /\ page' = page \ {m}
    /\ newest' = Max({newest, DateOf(m)})
    /\ UNCHANGED <<now, mailVars, log, cursor, cardVars, pc, known, since, current, first,
                   answered, passed, floor>>

\* What is left is taken for a manual reply of the owner.
Emit(m) ==
    /\ pc = "page" /\ m \in page \ known
    /\ ~DaemonSendNear(on[m], DateOf(m))
    /\ DateOf(m) = Never \/ DateOf(m) > since
    /\ page' = page \ {m}
    /\ newest' = Max({newest, DateOf(m)})
    /\ current' = m
    /\ pc' = "retiring"
    /\ UNCHANGED <<now, mailVars, log, cursor, cardVars, known, since, first, answered, passed,
                   floor>>

\* A statement that fails here is only logged.
RetireThread ==
    /\ pc = "retiring"
    /\ \/ SupersedeThread(on[current])
       \/ now <= Horizon /\ UNCHANGED status
    /\ pc' = "logging"
    /\ UNCHANGED <<now, mailVars, log, cursor, about, arrivedAt, raisedAt, known, since, page,
                   newest, current, first, answered, passed, floor>>

\* record_outbound_thread_event; again a failure is only logged.
LogReply ==
    /\ pc = "logging"
    /\ \/ log' = log \cup {current} /\ UNCHANGED passed
       \/ now <= Horizon /\ passed' = passed \cup {current} /\ UNCHANGED log
    /\ pc' = "page"
    /\ current' = NoMsg
    /\ UNCHANGED <<now, mailVars, cursor, cardVars, known, since, page, newest, first, answered,
                   floor>>

PersistCursor ==
    /\ pc = "page" /\ page = {}
    /\ \/ /\ newest > since \/ first
          /\ cursor' = Max({cursor, newest})
          /\ floor' = IF first THEN Max({floor, since}) ELSE floor
       \/ newest = since /\ ~first /\ UNCHANGED <<cursor, floor>>
       \/ now <= Horizon /\ UNCHANGED <<cursor, floor>>
    /\ PollEnds
    /\ UNCHANGED <<now, mailVars, log, cardVars, answered, passed>>

-----------------------------------------------------------------------------
(* reconcile_stale_approvals_tick, its rule for pending cards.             *)

\* Mutant: the sweep does not look at cards on threads it has no reply of yet.
ReconcileHeld ==
    /\ answered = {} /\ \E c \in Card : status[c] = "held"
    /\ answered' = {about[c] : c \in {d \in Card : status[d] = "held"}}
    /\ UNCHANGED <<now, mailVars, log, cursor, cardVars, pollVars, passed, floor>>

ReconcileList ==
    /\ answered = {} /\ \E c \in Card : status[c] = "pending"
    /\ answered' = {about[c] : c \in {d \in Card : status[d] = "pending"}}
    /\ UNCHANGED <<now, mailVars, log, cursor, cardVars, pollVars, passed, floor>>

\* "any user reply on this thread at all?" -- a logged reply stays logged, so
\* the question and the flip it allows are one step.
ReconcileThread ==
    /\ \E t \in answered :
          /\ \/ (\E m \in log : on[m] = t) /\ SupersedeThread(t)
             \/ (\A m \in log : on[m] # t) /\ UNCHANGED status
             \/ now <= Horizon /\ UNCHANGED status        \* a statement failed
          /\ answered' = answered \ {t}
    /\ UNCHANGED <<now, mailVars, log, cursor, about, arrivedAt, raisedAt, pollVars, passed, floor>>

-----------------------------------------------------------------------------

\* The daemon restarts: the poll and the sweep are gone, the tables stay.
Crash ==
    /\ pc # "idle" /\ now <= Horizon
    /\ PollEnds
    /\ answered' = {}
    /\ UNCHANGED <<now, mailVars, log, cursor, cardVars, passed, floor>>

Tick ==
    /\ now < MaxTime
    /\ now' = now + 1
    /\ UNCHANGED <<mailVars, log, cursor, cardVars, pollVars, answered, passed, floor>>

PollStep ==
    \/ LoadSelfSent \/ SeedCursor \/ FetchNothing \/ Fetch \/ RetireThread \/ LogReply
    \/ PersistCursor
    \/ \E m \in Msg : SkipKnown(m) \/ LookupFails(m) \/ SkipSeen(m) \/ Emit(m)

ReconcileStep == ReconcileList \/ ReconcileThread

CardStep(c) == StartDraft(c) \/ RaiseCard(c) \/ Hold(c) \/ BackToQueue(c)

Next ==
    \/ \E m \in Msg : Send(m, "owner") \/ Send(m, "daemon") \/ SendConfirmed(m)
    \/ \E c \in Card : CardStep(c)
    \/ PollStep \/ ReconcileStep \/ Crash \/ Tick

Spec == Init /\ [][Next]_vars

\* The tickers of the observer and of the sweep keep running, and time passes.
\* Nothing is assumed of the owner, the senders or the reasoner.
Fairness == WF_vars(PollStep) /\ WF_vars(ReconcileStep) /\ WF_vars(Tick)

FairSpec == Spec /\ Fairness

-----------------------------------------------------------------------------
(* Safety.                                                                 *)

\* A send the store knows of never enters the branch that takes a message for a
\* reply of the owner, however long ago the poll read the known ids: the
\* proximity query is made per message, and a send is recorded within its own
\* timeout.  (A message without a readable date has only the id to go by.)
RecordedSendIsRecognised ==
    [][\A m \in Msg \ undated :
          recordedAt[m] # Never /\ current' = m => current = m]_vars

\* The cursor never moves past a dated reply of the owner that is not in the
\* log, whatever the polls that died half-way; what a failed statement lost and
\* what looked like an own send are the only exceptions.
NothingPassedOver ==
    \A m \in Msg \ undated :
        author[m] = "owner" /\ sentAt[m] \in (floor + 1) .. cursor
            => m \in log \cup passed \/ DaemonSendNear(on[m], sentAt[m])

-----------------------------------------------------------------------------
(* Liveness.                                                               *)

\* A card the owner answered by hand after it went up does not stay in the
\* queue, also when it was scheduled while the observer looked.
AnsweredCardsRetire ==
    \A c \in Card, m \in Msg :
        /\ status[c] = "pending" /\ author[m] = "owner" /\ on[m] = about[c]
        /\ sentAt[m] > raisedAt[c]
        ~> \/ status[c] # "pending" \/ m \in passed
           \/ DaemonSendNear(on[m], DateOf(m)) \/ sentAt[m] <= floor

-----------------------------------------------------------------------------
(* What comments of the code say and the code does not do.                 *)

\* store.rs on has_daemon_send_near: a send whose answer carried no id is known
\* by its thread and time, so it is not taken for a reply of the owner.
UnnamedSendIsRecognised ==
    [][\A m \in Msg \ undated :
          m \in unnamed /\ current' = m => current = m]_vars

\* main.rs on the sweep: it retires a pending card when the owner has spoken on
\* the thread since it was raised -- here even since the mail it answers arrived.
RetiredByLaterReply ==
    [][ReconcileThread =>
          \A c \in Card : status[c] = "pending" /\ status'[c] = "superseded"
            => \E m \in log : on[m] = about[c] /\ sentAt[m] >= arrivedAt[c]]_vars

=============================================================================
