------------------------------ MODULE MailIntake ------------------------------
(***************************************************************************)
(* From an unread mail to an approval card: the poll loop and the retry    *)
(* tick of the Gmail channel, two tasks that call the same pipeline.  A    *)
(* mail is triaged, drafted by a generated program (with one repair, and a *)
(* plain model call behind both), given a Gmail draft and put on a card.   *)
(* Every other module takes over from the row this one leaves.             *)
(*                                                                         *)
(* An action is what a task does between two awaits.  The owner and the    *)
(* carousel reach a row as soon as it is pending, before its own card.     *)
(***************************************************************************)
EXTENDS Daemon, FiniteSets, Sequences

CONSTANTS
    Mail,          \* unread mails
    Invite,        \* those that are meeting invites
    MaxRows,       \* bound on rows of the actions table
    MaxAttempts,   \* retry_max_attempts
    RetryGap,      \* retry_min_gap
    RetryAge,      \* retry_max_age
    RetryBatch,    \* retry_batch
    MaxMishaps     \* bound on failures of the model, of Gmail and of Discord

ASSUME IntakeAssumption ==
    /\ Invite \subseteq Mail
    /\ MaxRows \in Nat /\ MaxAttempts \in Nat \ {0} /\ RetryBatch \in Nat \ {0}
    /\ RetryGap \in Nat /\ RetryAge \in Nat /\ MaxMishaps \in Nat

VARIABLES
    finished,    \* mails with an agentProcessedAt
    rows,        \* the actions table, oldest first
    tasks,       \* the poll loop and the retry tick
    mishaps,     \* number of failures so far
    strays,      \* history: why a mail may have one more open row
    crossings,   \* history: per mail, rows resolved while a task was at work on them
    answers,     \* history: per mail, the replies that went out
    skipping     \* rows skipped whose mail is not marked yet

intakeVars == <<finished, rows, tasks, mishaps, strays, crossings, answers, skipping>>
allIntakeVars == <<daemonVars, intakeVars>>

Task == {"poll", "retry"}
Row == 1 .. MaxRows
Open == {"pending", "error"}
NoMail == "none"
AtRest == [step |-> "rest", mail |-> NoMail, row |-> 0, todo |-> {}]

(* A row as log_action inserts it; shown, drafts and lost are histories.   *)
NewRow(m, status, drafted) ==
    [mail |-> m, status |-> status, drafted |-> drafted, draftId |-> FALSE, retries |-> 0,
     born |-> now, touched |-> now, shown |-> 0, drafts |-> 0, lost |-> 0]

IntakeTypes ==
    /\ finished \subseteq Mail
    /\ Len(rows) <= MaxRows
    /\ \A r \in DOMAIN rows :
          rows[r] \in [mail : Mail, status : Open \cup {"skipped", "flagged", "superseded",
                                                        "permanent_error", "sent", "rejected"},
                       drafted : BOOLEAN, draftId : BOOLEAN, retries : 0 .. MaxAttempts,
                       born : 0 .. MaxNow, touched : 0 .. MaxNow, shown : Nat, drafts : Nat,
                       lost : Nat]
    /\ \A t \in Task : /\ tasks[t].step \in {"rest", "triage", "program", "repair", "classic",
                                             "report", "envelope", "draft", "card"}
                       /\ tasks[t].mail \in Mail \cup {NoMail}
                       /\ tasks[t].row \in 0 .. MaxRows
                       /\ tasks[t].todo \subseteq Row
    /\ mishaps \in 0 .. MaxMishaps
    /\ strays \in [Mail -> Nat]
    /\ crossings \in [Mail -> Nat]
    /\ answers \in [Mail -> Nat]
    /\ skipping \subseteq Row

(* Mails can be marked from the start, and an invite drafted before there  *)
(* was a guard against invites can have a row whose card was refused.      *)
IntakeInit ==
    /\ finished \in SUBSET Mail
    /\ \E n \in 0 .. MaxRows : \E old \in [1 .. n -> Invite \ finished] :
          /\ \A i, j \in 1 .. n : old[i] = old[j] => i = j
          /\ rows = [i \in 1 .. n |-> NewRow(old[i], "error", TRUE)]
    /\ tasks = [t \in Task |-> AtRest]
    /\ mishaps = 0
    /\ strays = [m \in Mail |-> 0]
    /\ crossings = [m \in Mail |-> 0]
    /\ answers = [m \in Mail |-> 0]
    /\ skipping = {}

-----------------------------------------------------------------------------

OpenRows(m) == {r \in DOMAIN rows : rows[r].mail = m /\ rows[r].status \in Open}

InStep(t, step) == tasks[t].step = step

Held(t) == tasks[t].row

Mine(t) == tasks[t].mail

To(t, step) == tasks' = [tasks EXCEPT ![t].step = step]

(* Of a task, when a mail is dealt with or given up: the retries to come.  *)
Done(t) == tasks' = [tasks EXCEPT ![t] = [AtRest EXCEPT !.todo = tasks[t].todo]]

Mishap == mishaps < MaxMishaps /\ mishaps' = mishaps + 1

Insert(row) == Len(rows) < MaxRows /\ rows' = Append(rows, row)

Finish(m) == finished' = finished \cup {m}

\* Mutant: only the completion of the mail is looked at.
UnfinishedIn(m, table) == m \notin finished

(* What process_email checks before it calls the model: an open row is for *)
(* its card or for the retry tick.                                         *)
FreeIn(m, table) ==
    m \notin finished /\ ~ \E r \in DOMAIN table : table[r].mail = m /\ table[r].status \in Open

TakeUp(t, m, todo) ==
    tasks' = [tasks EXCEPT ![t] = [step |-> "triage", mail |-> m, row |-> 0, todo |-> todo]]

(* Another pipeline that is on the same mail will leave a row of its own.  *)
Overlaps(t, m) ==
    IF \E o \in Task \ {t} : tasks[o].mail = m /\ tasks[o].step # "rest" THEN 1 ELSE 0

Poll(m) ==
    /\ InStep("poll", "rest")
    /\ FreeIn(m, rows)
    /\ TakeUp("poll", m, {})
    /\ strays' = [strays EXCEPT ![m] = @ + Overlaps("poll", m)]
    /\ UNCHANGED <<daemonVars, finished, rows, mishaps, crossings, answers, skipping>>

(* A triage that fails leaves nothing behind: the next poll starts over.   *)
TriageFails(t) ==
    /\ InStep(t, "triage")
    /\ Mishap
    /\ Done(t)
    /\ UNCHANGED <<daemonVars, finished, rows, strays, crossings, answers, skipping>>

(* Skipped, flagged, or of a kind this channel does not expect.  An        *)
(* automated sender, a thread the user answered, an event blast, a mail    *)
(* where the user is only on Cc and an invite all end here.                *)
SetAside(t) ==
    /\ InStep(t, "triage")
    /\ \/ \E status \in {"skipped", "flagged"} : Insert(NewRow(Mine(t), status, FALSE))
       \/ rows' = rows
    /\ Finish(Mine(t))
    /\ Done(t)
    /\ UNCHANGED <<daemonVars, mishaps, strays, crossings, answers, skipping>>

WorthAReply(t) ==
    /\ InStep(t, "triage")
    /\ Mine(t) \notin Invite
    /\ To(t, "program")
    /\ UNCHANGED <<daemonVars, finished, rows, mishaps, strays, crossings, answers, skipping>>

-----------------------------------------------------------------------------
(* The generated program.  Its call of tools.draft writes the row, and the *)
(* program can still fail after it: that row stays, and the next attempt   *)
(* writes another.  Nothing but its prompt keeps it from a second call: the*)
(* last row is the one that is dispatched.                                 *)

ProgramDrafts(t) ==
    /\ tasks[t].step \in {"program", "repair"}
    /\ Insert(NewRow(Mine(t), "pending", TRUE))
    /\ IF Held(t) = 0 THEN UNCHANGED mishaps ELSE Mishap
    /\ strays' = [strays EXCEPT ![Mine(t)] = @ + (IF Held(t) = 0 THEN 0 ELSE 1)]
    /\ tasks' = [tasks EXCEPT ![t].row = Len(rows) + 1]
    /\ UNCHANGED <<daemonVars, finished, crossings, answers, skipping>>

ProgramFails(t) ==
    /\ tasks[t].step \in {"program", "repair"}
    /\ Mishap
    /\ \/ InStep(t, "program") /\ tasks' = [tasks EXCEPT ![t] = [@ EXCEPT !.step = "repair", !.row = 0]]
       \/ tasks' = [tasks EXCEPT ![t] = [@ EXCEPT !.step = "classic", !.row = 0]]
    /\ strays' = [strays EXCEPT ![Mine(t)] = @ + (IF Held(t) = 0 THEN 0 ELSE 1)]
    /\ UNCHANGED <<daemonVars, finished, rows, crossings, answers, skipping>>

(* dispatch_reply, up to the reading of the thread: the row is made        *)
(* pending whatever became of it, unless the mail is an invite.            *)
Dispatch(t, r, table, todo) ==
    LET m == table[r].mail IN
    IF m \in Invite
    THEN /\ rows' = [table EXCEPT ![r] = [@ EXCEPT !.status = "superseded", !.touched = now]]
         /\ Finish(m)
         /\ tasks' = [tasks EXCEPT ![t] = [AtRest EXCEPT !.todo = todo]]
    ELSE /\ rows' = [table EXCEPT ![r] = [@ EXCEPT !.status = "pending", !.touched = now]]
         /\ tasks' = [tasks EXCEPT ![t] = [step |-> "envelope", mail |-> m, row |-> r,
                                           todo |-> todo]]
         /\ UNCHANGED finished

ProgramEnds(t) ==
    /\ tasks[t].step \in {"program", "repair"} /\ Held(t) # 0
    /\ Dispatch(t, Held(t), rows, tasks[t].todo)
    /\ UNCHANGED <<daemonVars, mishaps, strays, crossings, answers, skipping>>

ClassicFails(t) ==
    /\ InStep(t, "classic")
    /\ Mishap
    /\ Insert(NewRow(Mine(t), "error", FALSE))
    /\ Done(t)
    /\ UNCHANGED <<daemonVars, finished, strays, crossings, answers, skipping>>

(* The row is made before the failure is reported, and dispatched after.   *)
ClassicDrafts(t) ==
    /\ InStep(t, "classic")
    /\ Insert(NewRow(Mine(t), "pending", TRUE))
    /\ tasks' = [tasks EXCEPT ![t] = [@ EXCEPT !.step = "report", !.row = Len(rows) + 1]]
    /\ UNCHANGED <<daemonVars, finished, mishaps, strays, crossings, answers, skipping>>

Reported(t) ==
    /\ InStep(t, "report")
    /\ Dispatch(t, Held(t), rows, tasks[t].todo)
    /\ UNCHANGED <<daemonVars, mishaps, strays, crossings, answers, skipping>>

-----------------------------------------------------------------------------
(* The rest of dispatch_reply.                                             *)

\* Mutant: the draft of an earlier attempt is not reused.
EnvelopeAnew(t) ==
    /\ InStep(t, "envelope")
    /\ To(t, "draft")
    /\ UNCHANGED <<daemonVars, finished, rows, mishaps, strays, crossings, answers, skipping>>

EnvelopeKnown(t) ==
    /\ InStep(t, "envelope")
    /\ To(t, IF rows[Held(t)].draftId THEN "card" ELSE "draft")
    /\ UNCHANGED <<daemonVars, finished, rows, mishaps, strays, crossings, answers, skipping>>

DraftCreated(t) ==
    /\ InStep(t, "draft")
    /\ rows' = [rows EXCEPT ![Held(t)] = [@ EXCEPT !.draftId = TRUE,
                                                      !.drafts = rows[Held(t)].drafts + 1]]
    /\ To(t, "card")
    /\ UNCHANGED <<daemonVars, finished, mishaps, strays, crossings, answers, skipping>>

(* Gmail may have made the draft all the same.                             *)
DraftFails(t) ==
    /\ InStep(t, "draft")
    /\ Mishap
    /\ \E made \in {0, 1} :
          rows' = [rows EXCEPT ![Held(t)] = [@ EXCEPT !.status = "error", !.touched = now,
                                                      !.drafts = rows[Held(t)].drafts + made,
                                                      !.lost = rows[Held(t)].lost + made]]
    /\ Done(t)
    /\ UNCHANGED <<daemonVars, finished, strays, crossings, answers, skipping>>

CardPosted(t) ==
    /\ InStep(t, "card")
    /\ rows' = [rows EXCEPT ![Held(t)].shown = @ + 1]
    /\ Finish(Mine(t))
    /\ Done(t)
    /\ UNCHANGED <<daemonVars, mishaps, strays, crossings, answers, skipping>>

CardRefused(t) ==
    /\ InStep(t, "card")
    /\ Mishap
    /\ rows' = [rows EXCEPT ![Held(t)] = [@ EXCEPT !.status = "error", !.touched = now]]
    /\ Done(t)
    /\ UNCHANGED <<daemonVars, finished, strays, crossings, answers, skipping>>

-----------------------------------------------------------------------------
(* The retry tick lists once and works the list off, oldest row first.     *)

\* Mutant: a reply is retried once more than it may be.
RetryableOnceMore(r) ==
    /\ rows[r].status = "error"
    /\ rows[r].born >= now - RetryAge
    /\ rows[r].touched <= now - RetryGap
    /\ rows[r].retries <= MaxAttempts

\* Mutant: only replies that have a draft in Gmail are retried.
RetryableWithDraft(r) ==
    /\ rows[r].status = "error" /\ rows[r].draftId
    /\ rows[r].born >= now - RetryAge
    /\ rows[r].touched <= now - RetryGap
    /\ rows[r].retries < MaxAttempts

Retryable(r) ==
    /\ rows[r].status = "error"
    /\ rows[r].born >= now - RetryAge
    /\ rows[r].touched <= now - RetryGap
    /\ rows[r].retries < MaxAttempts

ListRetries ==
    LET due == {r \in DOMAIN rows : Retryable(r)}
        first == {r \in due : Cardinality({s \in due : s < r}) < RetryBatch} IN
    /\ InStep("retry", "rest") /\ tasks["retry"].todo = {}
    /\ due # {}
    /\ tasks' = [tasks EXCEPT !["retry"].todo = first]
    /\ UNCHANGED <<daemonVars, finished, rows, mishaps, strays, crossings, answers, skipping>>

(* The attempt is counted first; the last one makes the row permanent, for *)
(* as long as it takes to make it pending again.  A row without a draft is *)
(* retired and its mail triaged from the start.                            *)
Attempted(r) ==
    [rows EXCEPT ![r] = [@ EXCEPT !.retries = rows[r].retries + 1, !.touched = now,
                                  !.status = IF rows[r].retries + 1 >= MaxAttempts THEN "permanent_error"
                                             ELSE rows[r].status]]

Retry ==
    \E r \in tasks["retry"].todo :
        LET rest == tasks["retry"].todo \ {r}
            m == rows[r].mail
            retired == [Attempted(r) EXCEPT ![r].status = "superseded"] IN
        /\ InStep("retry", "rest") /\ \A s \in rest : r < s
        /\ \/ /\ rows[r].drafted
              /\ Dispatch("retry", r, Attempted(r), rest)
              /\ UNCHANGED strays
           \/ /\ ~rows[r].drafted
              /\ rows' = retired
              /\ IF FreeIn(m, retired)
                 THEN /\ TakeUp("retry", m, rest)
                      /\ strays' = [strays EXCEPT ![m] = @ + Overlaps("retry", m)]
                 ELSE /\ tasks' = [tasks EXCEPT !["retry"].todo = rest]
                      /\ UNCHANGED strays
              /\ UNCHANGED finished
        /\ UNCHANGED <<daemonVars, mishaps, crossings, answers, skipping>>

-----------------------------------------------------------------------------
(* What happens to a pending row: the carousel shows one that has not been *)
(* on a card, the owner approves or skips one that has.                    *)

Carousel(r) ==
    /\ r \in DOMAIN rows /\ rows[r].status = "pending" /\ rows[r].shown = 0
    /\ rows' = [rows EXCEPT ![r].shown = 1]
    /\ UNCHANGED <<daemonVars, finished, tasks, mishaps, strays, crossings, answers, skipping>>

(* Histories: a task is at work on the row that is resolved; its reply    *)
(* went out.                                                               *)
Crossing(r) ==
    crossings' = [crossings EXCEPT ![rows[r].mail] =
        @ + (IF \E t \in Task : Held(t) = r THEN 1 ELSE 0)]

GoesOut(r, times) == answers' = [answers EXCEPT ![rows[r].mail] = @ + times]

OnCard(r) == r \in DOMAIN rows /\ rows[r].status = "pending" /\ rows[r].shown > 0

\* Mutant: the mail of a sent reply is not marked.
ApproveOnly(r) ==
    /\ OnCard(r) /\ rows[r].draftId
    /\ rows' = [rows EXCEPT ![r] = [@ EXCEPT !.status = "sent", !.touched = now]]
    /\ GoesOut(r, 1)
    /\ Crossing(r)
    /\ UNCHANGED <<daemonVars, finished, tasks, mishaps, strays, skipping>>

Approve(r) ==
    /\ OnCard(r) /\ rows[r].draftId
    /\ rows' = [rows EXCEPT ![r] = [@ EXCEPT !.status = "sent", !.touched = now]]
    /\ GoesOut(r, 1)
    /\ Finish(rows[r].mail)
    /\ Crossing(r)
    /\ UNCHANGED <<daemonVars, tasks, mishaps, strays, skipping>>

(* A plain error is for the retry tick; after a timeout the reply may have *)
(* gone out, and the row is stamped as out of retries.                     *)
SendFails(r) ==
    /\ OnCard(r) /\ rows[r].draftId
    /\ Mishap
    /\ \/ /\ rows' = [rows EXCEPT ![r] = [@ EXCEPT !.status = "error", !.touched = now]]
          /\ UNCHANGED answers
       \/ \E out \in {0, 1} :
             /\ rows' = [rows EXCEPT ![r] = [@ EXCEPT !.status = "error", !.touched = now,
                                                      !.retries = MaxAttempts]]
             /\ GoesOut(r, out)
    /\ Crossing(r)
    /\ UNCHANGED <<daemonVars, finished, tasks, strays, skipping>>

(* The mail is marked after the draft's deletion has been awaited.         *)
Skip(r) ==
    /\ OnCard(r)
    /\ rows' = [rows EXCEPT ![r] = [@ EXCEPT !.status = "rejected", !.touched = now]]
    /\ skipping' = skipping \cup {r}
    /\ Crossing(r)
    /\ UNCHANGED <<daemonVars, finished, tasks, mishaps, strays, answers>>

SkipEnds(r) ==
    /\ r \in skipping
    /\ skipping' = skipping \ {r}
    /\ Finish(rows[r].mail)
    /\ UNCHANGED <<daemonVars, rows, tasks, mishaps, strays, crossings, answers>>

IntakeRestart ==
    /\ Restarts
    /\ tasks' = [t \in Task |-> AtRest]
    /\ skipping' = {}
    /\ UNCHANGED <<finished, rows, mishaps, strays, crossings, answers>>

-----------------------------------------------------------------------------

PipelineStep(t) ==
    \/ TriageFails(t) \/ SetAside(t) \/ WorthAReply(t)
    \/ ProgramDrafts(t) \/ ProgramFails(t) \/ ProgramEnds(t)
    \/ ClassicFails(t) \/ ClassicDrafts(t) \/ Reported(t)
    \/ EnvelopeKnown(t)
    \/ DraftCreated(t) \/ DraftFails(t)
    \/ CardPosted(t) \/ CardRefused(t)

RowStep(r) == Carousel(r) \/ Approve(r) \/ SendFails(r) \/ Skip(r) \/ SkipEnds(r)

IntakeNext ==
    \/ Tick /\ UNCHANGED intakeVars
    \/ \E m \in Mail : Poll(m)
    \/ \E t \in Task : PipelineStep(t)
    \/ ListRetries \/ Retry
    \/ \E r \in Row : RowStep(r)
    \/ IntakeRestart

(* Both loops tick forever, every await they are in ends, and the carousel *)
(* comes round.                                                            *)
IntakeFairness ==
    /\ WF_allIntakeVars(Tick /\ UNCHANGED intakeVars)
    /\ \A m \in Mail : WF_allIntakeVars(Poll(m))
    /\ \A t \in Task : WF_allIntakeVars(PipelineStep(t))
    /\ WF_allIntakeVars(ListRetries \/ Retry)
    /\ \A r \in Row : WF_allIntakeVars(Carousel(r))

IntakeSpec == DaemonInit /\ IntakeInit /\ [][IntakeNext]_allIntakeVars /\ IntakeFairness

-----------------------------------------------------------------------------

(* A mail has one open row, or one more for each pipeline that overlapped  *)
(* with another on it and each program that failed after its draft or made *)
(* two: an open row keeps the poll off, a retry reuses or retires its row. *)
OneOpenRow == \A m \in Mail : Cardinality(OpenRows(m)) <= 1 + strays[m]

(* A row gets one draft in Gmail however often it is retried, resolved     *)
(* under a task or taken up again, unless a draft was made and its answer  *)
(* lost.                                                                   *)
OneDraftPerRow == \A r \in DOMAIN rows : rows[r].drafts <= 1 + rows[r].lost

(* A mail is answered once, whatever fails and whenever the daemon dies,   *)
(* but for a stray row, which is a card of its own, and a row that was     *)
(* resolved while a task was at work on it and would make it pending again.*)
AnsweredOnce == \A m \in Mail : answers[m] <= 1 + strays[m] + crossings[m]

(* A mail that was taken up is dealt with or comes up on a card, however   *)
(* often its pipeline fails or dies, unless its row has failed for good:   *)
(* out of attempts, or too old for the retry tick.                         *)
OutOfReach(r) ==
    \/ rows[r].retries >= MaxAttempts
    \/ rows[r].born < now - RetryAge
    \/ rows[r].touched > MaxNow - RetryGap

MailComesUp ==
    \A m \in Mail :
        (\E t \in Task : tasks[t].mail = m) ~>
            \/ m \in finished
            \/ Len(rows) = MaxRows
            \/ \E r \in DOMAIN rows : rows[r].mail = m /\ (rows[r].shown > 0 \/ OutOfReach(r))
=============================================================================
