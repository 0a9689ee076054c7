------------------------------ MODULE MCInbound ------------------------------
(***************************************************************************)
(* The ways into the daemon on small instances: mail, direct messages and  *)
(* the journal.  They share no state but the clock and the restarts, and   *)
(* none waits for another: a run of all of them is an interleaving of runs *)
(* of each, so TLC explores them one at a time, `scope` naming the one     *)
(* that runs.  Each has bounds of its own.                                 *)
(***************************************************************************)
EXTENDS MailIntake, SocialInbound, JournalSync

CONSTANTS
    Scope,           \* the services to run
    m1, m2, d1, d2, e1, e2, e3

VARIABLE scope

(* Two entries of the journal on its first page, one on its second.        *)
TwoPages == [e \in {e1, e2, e3} |-> IF e = e3 THEN 2 ELSE 1]

Written == {e \in Entry : version[e] > 0}

allInboundVars == <<scope, daemonVars, intakeVars, socialVars, journalVars>>

(* What the initial state leaves open matters to its own service only.     *)
InboundInit ==
    /\ scope \in Scope
    /\ DaemonInit /\ IntakeInit /\ SocialInit /\ JournalInit
    /\ CASE scope = "intake" -> finished = Invite
         [] scope = "retry" -> finished = {} /\ rows # <<>>
         [] OTHER -> finished = {} /\ rows = <<>>

Runs(s) == scope = s /\ UNCHANGED scope

Within(clock, deaths) == now' <= clock /\ restarts' <= deaths

(* One mail from its arrival on.                                           *)
IntakeRuns ==
    /\ Runs("intake")
    /\ IntakeNext
    /\ Within(1, 1) /\ mishaps' + restarts' <= 1
    /\ UNCHANGED <<socialVars, journalVars>>

(* Two mails, one of them an invite with an old row.                       *)
RetryRuns ==
    /\ Runs("retry")
    /\ IntakeNext
    /\ Within(1, 1) /\ mishaps' + restarts' <= 1
    /\ UNCHANGED <<socialVars, journalVars>>

FeedRuns ==
    /\ Runs("feed")
    /\ SocialNext
    /\ Within(1, 1) /\ hitches' + restarts' <= 2 /\ ~InThread(d2)'
    /\ UNCHANGED <<intakeVars, journalVars>>

(* Two messages in one conversation, on a day when nothing fails and the   *)
(* owner writes through the cards alone.                                   *)
FeedsRun ==
    /\ Runs("feeds")
    /\ SocialNext
    /\ Within(1, 0) /\ hitches' = 0
    /\ thread' # thread /\ Last(thread') = Ours => replying' # replying
    /\ UNCHANGED <<intakeVars, journalVars>>

(* The daemon's poller, which requests fail and restarts interrupt.  The   *)
(* first entry is edited while it polls, or joined by a second.            *)
SyncRuns ==
    /\ Runs("sync")
    /\ JournalNext
    /\ Within(1, 1) /\ breaks' + restarts' <= 1
    /\ pass'["cli"] = pass["cli"]
    /\ Cardinality(Written') < 2 \/ \A e \in Written' : version'[e] = 1
    /\ Cardinality(Written') <= 2 /\ (Written' # {} => e1 \in Written')
    /\ UNCHANGED <<intakeVars, socialVars>>

(* The same beside a second process that begins its polls the day after,   *)
(* while the daemon is at one of its own; nothing fails.                   *)
TwoSyncsRun ==
    /\ Runs("syncs")
    /\ JournalNext
    /\ Within(1, 0) /\ breaks' = 0 /\ ~clearing'
    /\ Written' \subseteq {e1, e3} /\ \A e \in Written' : version'[e] = 1
    /\ BeginPoll("cli") => now = 1 /\ ~InPass("serve", "rest")
    /\ UNCHANGED <<intakeVars, socialVars>>

InboundNext ==
    IntakeRuns \/ RetryRuns \/ FeedRuns \/ FeedsRun \/ SyncRuns \/ TwoSyncsRun

(* The service that runs keeps the types of its variables.                 *)
InboundTypes ==
    /\ DaemonTypes
    /\ scope \in {"intake", "retry"} => IntakeTypes
    /\ scope \in {"feed", "feeds"} => SocialTypes
    /\ scope \in {"sync", "syncs"} => JournalTypes

InboundSpec == InboundInit /\ [][InboundNext]_allInboundVars

(* The fairness of each service, as its own specification states it.       *)
IntakeFairly ==
    /\ WF_allIntakeVars(scope \in {"intake", "retry"} /\ now < 1 /\ Tick /\ UNCHANGED intakeVars)
    /\ \A m \in Mail : WF_allIntakeVars(scope \in {"intake", "retry"} /\ Poll(m))
    /\ \A t \in Task : WF_allIntakeVars(scope \in {"intake", "retry"} /\ PipelineStep(t))
    /\ WF_allIntakeVars(scope \in {"intake", "retry"} /\ (ListRetries \/ Retry))
    /\ \A r \in Row : WF_allIntakeVars(scope \in {"intake", "retry"} /\ Carousel(r))

FeedFairly == WF_allSocialVars(scope \in {"feed", "feeds"} /\ RunnerStep)

SyncFairly == WF_allJournalVars(scope \in {"sync", "syncs"} /\ PassStep("serve"))

FairInboundSpec == InboundSpec /\ IntakeFairly /\ FeedFairly /\ SyncFairly
=============================================================================
