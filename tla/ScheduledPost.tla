---------------------------- MODULE ScheduledPost ----------------------------
(***************************************************************************)
(* The scheduled-post engine: one pass a minute shows preview cards for    *)
(* posts that fire soon and publishes the ones whose time has come.  Both  *)
(* phases work on a list they loaded at their start, and between the list, *)
(* the card or the publication, and the row's update, the owner may cancel *)
(* from the command line and the daemon may die.                           *)
(*                                                                         *)
(* Of the governor a post meets only the halt: the approval matrix answers *)
(* ApprovalRequired for a post before any cap is looked at, and the engine *)
(* takes that answer for a permission without a permit.                    *)
(***************************************************************************)
EXTENDS RateGovernor

CONSTANTS
    Post,
    Platform,
    Governed,      \* platforms the governor knows
    Silent,        \* platforms in post_silently mode
    PreviewSpan,   \* preview_horizon
    PostHorizon,   \* bound: the owner acts and faults happen up to this time
    MaxFaults      \* bound on faults that hit one post in hand

ASSUME PostAssumption ==
    /\ Governed \subseteq Platform /\ Silent \subseteq Platform
    /\ PreviewSpan \in Nat /\ PostHorizon \in 0 .. MaxNow
    /\ MaxFaults \in Nat

VARIABLES
    post,          \* scheduled_posts: platform, status, fire_at_ms, whether a card is up
    engine,        \* tick_once: its phase, its list, the post in hand, its clock
    published,     \* history: how often each platform took the post
    confirmed,     \* history: posts the owner was told are cancelled
    broken         \* history: faults that hit a post in the engine's hand

postVars == <<post, engine, published, confirmed, broken>>
allPostVars == <<daemonVars, govVars, postVars>>

Pending == {"queued", "previewed"}
Resting == [phase |-> "rest", todo |-> {}, hand |-> {}, at |-> 0]

PostTypes ==
    /\ post \in [Post -> [platform : Platform,
                          status : Pending \cup {"none", "posted", "failed", "cancelled"},
                          at : 0 .. MaxNow, card : BOOLEAN]]
    /\ engine \in [phase : {"rest", "preview", "carded", "load", "fire", "sent", "refused"},
                   todo : SUBSET Post, hand : SUBSET Post, at : 0 .. MaxNow]
    /\ published \in [Post -> Nat]
    /\ confirmed \subseteq Post
    /\ broken \in [Post -> 0 .. MaxFaults]

PostInit ==
    /\ \E on \in [Post -> Platform] :
          post = [p \in Post |-> [platform |-> on[p], status |-> "none", at |-> 0, card |-> FALSE]]
    /\ engine = Resting
    /\ published = [p \in Post |-> 0]
    /\ confirmed = {}
    /\ broken = [p \in Post |-> 0]

(* What MultiPlatformPublisher answers: the platform's id, or a refusal -  *)
(* no session, media it cannot carry, an error of the call.                *)
Answer == {"sent", "refused"}

Faults == now <= PostHorizon

(* One more fault for each post of a set. *)
Struck(posts) == [p \in Post |-> IF p \in posts THEN broken[p] + 1 ELSE broken[p]]

MayStrike(posts) == Faults /\ \A p \in posts : broken[p] < MaxFaults

-----------------------------------------------------------------------------
(* The owner's commands, in processes of their own. *)

Enqueue(p, at) ==
    /\ Faults
    /\ post[p].status = "none"
    /\ post' = [post EXCEPT ![p] = [@ EXCEPT !.status = "queued", !.at = at]]
    /\ UNCHANGED <<engine, published, confirmed, broken, daemonVars, govVars>>

CancelPost(p) ==
    /\ Faults
    /\ post[p].status \in Pending
    /\ post' = [post EXCEPT ![p].status = "cancelled"]
    /\ confirmed' = confirmed \cup {p}
    /\ UNCHANGED <<engine, published, broken, daemonVars, govVars>>

-----------------------------------------------------------------------------
(* One pass of the engine. *)

(* Silent platforms are listed and skipped. *)
DueForPreview(t) ==
    {p \in Post : /\ post[p].status = "queued" /\ ~post[p].card
                  /\ post[p].at <= t + PreviewSpan
                  /\ post[p].platform \notin Silent}

\* Mutant: the query lost a published post's exclusion.
DueUnlessCancelled(t) ==
    {p \in Post : post[p].status \notin {"none", "cancelled"} /\ post[p].at <= t}

\* Mutant: the query lists what is not posted.
DueUnlessPosted(t) == {p \in Post : post[p].status \notin {"none", "posted"} /\ post[p].at <= t}

\* Mutant: a previewed post is no longer queued.
DueWhileQueued(t) == {p \in Post : post[p].status = "queued" /\ post[p].at <= t}

DueToFire(t) == {p \in Post : post[p].status \in Pending /\ post[p].at <= t}

Soonest(todo) == {p \in todo : \A q \in todo : post[p].at <= post[q].at}

StartPass ==
    /\ engine.phase = "rest"
    /\ engine' = [phase |-> "preview", todo |-> DueForPreview(now),
                  hand |-> {}, at |-> now]
    /\ UNCHANGED <<post, published, confirmed, broken, daemonVars, govVars>>

(* The card is up in Discord before the row says so. *)
ShowCard(p) ==
    /\ engine.phase = "preview" /\ p \in Soonest(engine.todo)
    /\ engine' = [engine EXCEPT !.phase = "carded", !.todo = @ \ {p}, !.hand = {p}]
    /\ UNCHANGED <<post, published, confirmed, broken, daemonVars, govVars>>

(* A card that cannot be posted leaves the row `queued` for the next pass. *)
CardFails(p) ==
    /\ Faults
    /\ engine.phase = "preview" /\ p \in Soonest(engine.todo)
    /\ engine' = [engine EXCEPT !.todo = @ \ {p}]
    /\ UNCHANGED <<post, published, confirmed, broken, daemonVars, govVars>>

MarkPreviewed(p) ==
    /\ engine.phase = "carded" /\ p \in engine.hand
    /\ post' = [post EXCEPT ![p] = [@ EXCEPT !.status = "previewed", !.card = TRUE]]
    /\ engine' = [engine EXCEPT !.phase = "preview", !.hand = {}]
    /\ UNCHANGED <<published, confirmed, broken, daemonVars, govVars>>

LoadReady ==
    /\ engine.phase = "preview" /\ engine.todo = {}
    /\ engine' = [engine EXCEPT !.phase = "fire", !.todo = DueToFire(engine.at)]
    /\ UNCHANGED <<post, published, confirmed, broken, daemonVars, govVars>>

(* permit() for a post: only a halt defers it. *)
Deferred(p) == post[p].platform \in Governed /\ Halted(now)

Defer(p) ==
    /\ engine.phase = "fire" /\ p \in Soonest(engine.todo)
    /\ Deferred(p)
    /\ engine' = [engine EXCEPT !.todo = @ \ {p}]
    /\ UNCHANGED <<post, published, confirmed, broken, daemonVars, govVars>>

(* The platform takes the post, or does not; the row is written later.     *)
(* External: an answer `failed` may hide a publication (a lost answer).    *)
Publish(p, answer) ==
    /\ engine.phase = "fire" /\ p \in Soonest(engine.todo)
    /\ ~Deferred(p)
    /\ \E taken \in {answer = "sent", TRUE} :
          published' = [published EXCEPT ![p] = IF taken THEN @ + 1 ELSE @]
    /\ engine' = [engine EXCEPT !.phase = answer, !.todo = @ \ {p}, !.hand = {p}]
    /\ UNCHANGED <<post, confirmed, broken, daemonVars, govVars>>

(* mark_scheduled_post_status has no condition on the status it replaces.  *)
MarkOutcome(p) ==
    /\ engine.phase \in {"sent", "refused"} /\ p \in engine.hand
    /\ post' = [post EXCEPT ![p].status = IF engine.phase = "sent" THEN "posted" ELSE "failed"]
    /\ engine' = [engine EXCEPT !.phase = "fire", !.hand = {}]
    /\ UNCHANGED <<published, confirmed, broken, daemonVars, govVars>>

(* A write that fails: marking a preview ends the pass, marking an outcome *)
(* is logged and the pass goes on.                                         *)
MarkFails(p) ==
    /\ MayStrike({p})
    /\ engine.phase \in {"carded", "sent", "refused"} /\ p \in engine.hand
    /\ engine' = IF engine.phase = "carded"
                 THEN Resting
                 ELSE [engine EXCEPT !.phase = "fire", !.hand = {}]
    /\ broken' = Struck({p})
    /\ UNCHANGED <<post, published, confirmed, daemonVars, govVars>>

EndPass ==
    /\ engine.phase = "fire" /\ engine.todo = {}
    /\ engine' = Resting
    /\ UNCHANGED <<post, published, confirmed, broken, daemonVars, govVars>>

EngineRestart ==
    /\ Restarts /\ MayStrike(engine.hand)
    /\ engine' = Resting
    /\ broken' = Struck(engine.hand)
    /\ UNCHANGED <<post, published, confirmed, govVars>>

EngineStep ==
    \/ StartPass
    \/ LoadReady
    \/ EndPass
    \/ \E p \in Post : \/ ShowCard(p)
                       \/ MarkPreviewed(p)
                       \/ Defer(p)
                       \/ \E answer \in Answer : Publish(p, answer)
                       \/ MarkOutcome(p)

PostNext ==
    \/ EngineStep
    \/ \E p \in Post : \/ \E at \in 0 .. PostHorizon : Enqueue(p, at)
                       \/ CancelPost(p)
                       \/ CardFails(p)
                       \/ MarkFails(p)
    \/ EngineRestart
    \/ Faults /\ RecordHalt(HaltSpan) /\ UNCHANGED postVars
    \/ Tick /\ UNCHANGED <<govVars, postVars>>

PostFairness == WF_allPostVars(EngineStep) /\ WF_allPostVars(Tick /\ UNCHANGED <<govVars, postVars>>)

PostSpec == DaemonInit /\ GovernorInit /\ PostInit /\ [][PostNext]_allPostVars /\ PostFairness

-----------------------------------------------------------------------------
(* Properties. *)

(* scheduled_posts has no claim: a post goes out again only if a fault hit *)
(* it between the publication and the row's update, once per such fault.   *)
RepublishedOnlyByFault == \A p \in Post : published[p] <= 1 + broken[p]

(* cancel_scheduled_post() is final for a post no pass has on its list:    *)
(* neither phase lists it again, and no pass that listed it before is      *)
(* still running.                                                          *)
CancelHolds ==
    [][\A p \in Post : post[p].status = "cancelled" /\ p \notin engine.todo \cup engine.hand =>
          /\ p \notin engine'.todo \cup engine'.hand
          /\ published'[p] = published[p]
          /\ post'[p] = post[p]]_allPostVars

(* Where the owner finds a post, and what the engine has of it.            *)
FoundAt(p) == IF post[p].status \in Pending THEN "waiting" ELSE post[p].status

HeldAs(p) ==
    IF p \in engine.hand /\ engine.phase \in Answer THEN engine.phase
    ELSE IF p \in engine.todo \cup engine.hand THEN "taken"
    ELSE "free"

Public == INSTANCE PostPromise WITH
    found <- [p \in Post |-> FoundAt(p)],
    hold <- [p \in Post |-> HeldAs(p)],
    out <- published,
    lost <- broken

(* The engine keeps the promise: every step of a pass, a command, a fault  *)
(* or the clock is a step of PostPromise or invisible to it.               *)
ImplementsPostPromise == Public!Spec

(* Every queued post is published, fails or is cancelled: failing cards,   *)
(* failing writes, restarts and halts delay it and do not lose it.         *)
QueuedPostsEnd ==
    \A p \in Post : post[p].status \in Pending ~> post[p].status \notin Pending

=============================================================================
