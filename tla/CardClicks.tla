------------------------------ MODULE CardClicks ------------------------------
(***************************************************************************)
(* The owner's clicks on approval cards in Discord, for every platform but *)
(* Gmail: a task per click loads the row, calls the platform or the model, *)
(* writes the row, and deletes or replaces the card.  The row's status is  *)
(* looked at once, at the load, and every later write is unconditional.    *)
(*                                                                         *)
(* Gmail's own path, which claims the row first, is ReplyAction.           *)
(***************************************************************************)
EXTENDS Daemon, FiniteSets

CONSTANTS
    Action,          \* actions of these platforms
    Channel,         \* the platforms and kinds to explore
    Hand,            \* clicks that can be under way at once
    MaxMsgs,         \* bound on messages in the approval channel
    MaxRedrafts,     \* MAX_REDRAFT_ITERATIONS
    MaxTexts         \* bound on the drafts of one action

Channels == {"discord", "slack", "telegram", "github", "gcal", "socialapi_dm",
             "socialapi_comment", "linkedin_dm", "linkedin_comment", "linkedin_invite"}

Nobody == "nobody"

ASSUME ClickAssumption ==
    /\ Channel \subseteq Channels /\ Nobody \notin Action
    /\ MaxMsgs \in Nat /\ MaxRedrafts \in Nat /\ MaxTexts \in Nat

VARIABLES
    reply,       \* actions: channel, status, the draft it holds, drafts made, redraftCount
    raising,     \* actions whose command has not posted its card yet
    shows,       \* which action each message of the channel is a card of
    posted,      \* number of messages posted so far
    hand,        \* each click
    sweeping,    \* the sweep of a `ready` event: messages to look at, the one found stale
    processed,   \* emails marked as processed
    engaged,     \* linkedin_actions: engagements that count against the cap
    taken,       \* history: the drafts each platform took
    excuses      \* history: what can have it take one more

cardVars == <<raising, shows, posted>>
ledgerVars == <<processed, engaged, taken, excuses>>
clickVars == <<reply, cardVars, hand, sweeping, ledgerVars>>
allClickVars == <<daemonVars, clickVars>>

Msg == 1 .. MaxMsgs
Text == 0 .. MaxTexts
Verb == {"approve", "skip", "revise", "refine"}
Free == [step |-> "free", verb |-> "skip", msg |-> 0, action |-> Nobody, text |-> 0,
         outcome |-> "none"]
Swept == [todo |-> {}, stale |-> 0]

ClickTypes ==
    /\ reply \in [Action -> [channel : Channel, text : Text, made : Text, redrafts : Nat,
                             status : {"none", "pending", "sent", "rejected", "error"}]]
    /\ raising \subseteq Action
    /\ shows \in [Msg -> Action \cup {Nobody}] /\ posted \in 0 .. MaxMsgs
    /\ hand \in [Hand -> [step : {"free", "modal", "call", "write", "repost", "delete"},
                          verb : Verb, msg : 0 .. MaxMsgs, action : Action \cup {Nobody},
                          text : Text, outcome : {"none", "done", "failed"}]]
    /\ sweeping \in [todo : SUBSET Msg, stale : 0 .. MaxMsgs]
    /\ processed \subseteq Action /\ engaged \subseteq Action
    /\ taken \in [Action -> [times : Nat, texts : SUBSET Text]] /\ excuses \in [Action -> Nat]

ClickInit ==
    /\ \E on \in [Action -> Channel] :
          reply = [a \in Action |-> [channel |-> on[a], text |-> 0, made |-> 0, redrafts |-> 0,
                                     status |-> "none"]]
    /\ raising = {}
    /\ shows = [m \in Msg |-> Nobody] /\ posted = 0
    /\ hand = [h \in Hand |-> Free]
    /\ sweeping = Swept
    /\ processed = {} /\ engaged = {}
    /\ taken = [a \in Action |-> [times |-> 0, texts |-> {}]] /\ excuses = [a \in Action |-> 0]

At(h, step) == hand[h].step = step

Of(h) == hand[h].action

(* What is left of a click is its card. *)
Leaves(h, step) ==
    hand' = [hand EXCEPT ![h] = [Free EXCEPT !.step = step, !.msg = hand[h].msg, !.action = Of(h)]]

Approving(a) ==
    {h \in Hand : hand[h].verb = "approve" /\ Of(h) = a /\ hand[h].step \in {"call", "write"}}

PostCard(a) ==
    /\ posted < MaxMsgs
    /\ posted' = posted + 1
    /\ shows' = [shows EXCEPT ![posted + 1] = a]

Excused(actions) ==
    excuses' = [a \in Action |-> excuses[a] + (IF a \in actions THEN 1 ELSE 0)]

-----------------------------------------------------------------------------
(* Cards come from the commands that compose a message, and again from the *)
(* carousel, which shows every pending row it finds. *)

LogPending(a) ==
    /\ reply[a].status = "none"
    /\ reply' = [reply EXCEPT ![a].status = "pending"]
    /\ raising' = raising \cup {a}
    /\ UNCHANGED <<shows, posted, hand, sweeping, ledgerVars, daemonVars>>

RaiseCard(a) ==
    /\ a \in raising /\ PostCard(a)
    /\ raising' = raising \ {a}
    /\ UNCHANGED <<reply, hand, sweeping, ledgerVars, daemonVars>>

(* The row of a card that cannot be posted becomes an error, whatever the  *)
(* carousel and the owner have made of it meanwhile.                       *)
RaiseFails(a) ==
    /\ a \in raising
    /\ reply' = [reply EXCEPT ![a].status = "error"]
    /\ raising' = raising \ {a}
    /\ UNCHANGED <<shows, posted, hand, sweeping, ledgerVars, daemonVars>>

CarouselCard(a) ==
    /\ reply[a].status = "pending" /\ PostCard(a)
    /\ UNCHANGED <<reply, raising, hand, sweeping, ledgerVars, daemonVars>>

-----------------------------------------------------------------------------
(* A click. *)

(* No row, no client for the platform or no target: the click fails and    *)
(* changes nothing, as does a revision of a calendar event and a refinement*)
(* past the limit.                                                         *)
Serves(a, verb) ==
    /\ verb \in {"revise", "refine"} => reply[a].channel # "gcal"
    /\ verb = "refine" => reply[a].redrafts < MaxRedrafts

(* The row is loaded: resolved already, and the card is stale; or pending, *)
(* and the click works with the draft it has read.                         *)
\* Mutant: only a sent reply is stale.
LoadUnlessSent(h, verb, m, a) ==
    LET open == reply[a].status # "sent"
    IN  /\ hand' = [hand EXCEPT ![h] =
               IF ~open
               THEN [Free EXCEPT !.step = "delete", !.msg = m, !.action = a]
               ELSE [Free EXCEPT !.step = IF verb = "skip" THEN "write" ELSE "call",
                                 !.verb = verb, !.msg = m, !.action = a,
                                 !.text = IF verb = "approve" THEN reply[a].text ELSE 0]]
        /\ Excused(IF verb = "approve" /\ open /\ Approving(a) # {} THEN {a} ELSE {})

\* Mutant: the status is not looked at.
LoadAny(h, verb, m, a) ==
    /\ hand' = [hand EXCEPT ![h] =
           [Free EXCEPT !.step = IF verb = "skip" THEN "write" ELSE "call",
                        !.verb = verb, !.msg = m, !.action = a,
                        !.text = IF verb = "approve" THEN reply[a].text ELSE 0]]
    /\ Excused(IF verb = "approve" /\ Approving(a) # {} THEN {a} ELSE {})

LoadRow(h, verb, m, a) ==
    LET open == reply[a].status = "pending"
    IN  /\ hand' = [hand EXCEPT ![h] =
               IF ~open
               THEN [Free EXCEPT !.step = "delete", !.msg = m, !.action = a]
               ELSE [Free EXCEPT !.step = IF verb = "skip" THEN "write" ELSE "call",
                                 !.verb = verb, !.msg = m, !.action = a,
                                 !.text = IF verb = "approve" THEN reply[a].text ELSE 0]]
        /\ Excused(IF verb = "approve" /\ open /\ Approving(a) # {} THEN {a} ELSE {})

Click(h, verb, m) ==
    /\ At(h, "free") /\ shows[m] # Nobody /\ verb # "revise"
    /\ Serves(shows[m], verb)
    /\ LoadRow(h, verb, m, shows[m])
    /\ UNCHANGED <<reply, cardVars, sweeping, processed, engaged, taken, daemonVars>>

(* Revise opens a form, which can be submitted much later. *)
OpenForm(h, m) ==
    /\ At(h, "free") /\ shows[m] # Nobody
    /\ hand' = [hand EXCEPT ![h] = [Free EXCEPT !.step = "modal", !.verb = "revise",
                                                !.msg = m, !.action = shows[m]]]
    /\ UNCHANGED <<reply, cardVars, sweeping, ledgerVars, daemonVars>>

SubmitForm(h) ==
    /\ At(h, "modal") /\ Serves(Of(h), "revise")
    /\ LoadRow(h, "revise", hand[h].msg, Of(h))
    /\ UNCHANGED <<reply, cardVars, sweeping, processed, engaged, taken, daemonVars>>

(* The platform's answer to the approved draft.  External: a call may be   *)
(* taken and its answer lost.                                              *)
Send(h, outcome) ==
    /\ At(h, "call") /\ hand[h].verb = "approve"
    /\ \E took \in {outcome = "done", TRUE} :
          taken' = IF took THEN [taken EXCEPT ![Of(h)] = [times |-> taken[Of(h)].times + 1,
                                                           texts |-> taken[Of(h)].texts \cup {hand[h].text}]]
                   ELSE taken
    /\ hand' = [hand EXCEPT ![h] = [@ EXCEPT !.step = "write", !.outcome = outcome]]
    /\ UNCHANGED <<reply, cardVars, sweeping, processed, engaged, excuses, daemonVars>>

(* The model's new draft; without one the row stays as it is.              *)
Redraft(h, outcome) ==
    /\ At(h, "call") /\ hand[h].verb \in {"revise", "refine"}
    /\ outcome = "done" => reply[Of(h)].made < MaxTexts
    /\ hand' = [hand EXCEPT ![h] = IF outcome = "done" THEN [@ EXCEPT !.step = "write"] ELSE Free]
    /\ UNCHANGED <<reply, cardVars, sweeping, ledgerVars, daemonVars>>

(* An engagement is logged after the row is written; it counts against the *)
(* day's cap.                                                              *)
Counted == {"linkedin_comment", "linkedin_invite"}

\* Mutant: the row keeps the draft it has at the write.
WriteSentStatus(h) ==
    LET a == Of(h) IN
    /\ At(h, "write") /\ hand[h].verb = "approve" /\ hand[h].outcome = "done"
    /\ reply' = [reply EXCEPT ![a].status = "sent"]
    /\ processed' = processed \cup {a}
    /\ engaged' = IF reply[a].channel \in Counted THEN engaged \cup {a} ELSE engaged
    /\ Leaves(h, "delete")
    /\ UNCHANGED <<cardVars, sweeping, taken, excuses, daemonVars>>

WriteSent(h) ==
    LET a == Of(h) IN
    /\ At(h, "write") /\ hand[h].verb = "approve" /\ hand[h].outcome = "done"
    /\ reply' = [reply EXCEPT ![a] = [@ EXCEPT !.status = "sent", !.text = hand[h].text]]
    /\ processed' = processed \cup {a}
    /\ engaged' = IF reply[a].channel \in Counted THEN engaged \cup {a} ELSE engaged
    /\ Leaves(h, "delete")
    /\ UNCHANGED <<cardVars, sweeping, taken, excuses, daemonVars>>

(* The card stays, but nothing retries these rows and no click opens them. *)
WriteError(h) ==
    /\ At(h, "write") /\ hand[h].verb = "approve" /\ hand[h].outcome = "failed"
    /\ reply' = [reply EXCEPT ![Of(h)].status = "error"]
    /\ hand' = [hand EXCEPT ![h] = Free]
    /\ UNCHANGED <<cardVars, sweeping, ledgerVars, daemonVars>>

(* Unconditional, but for a calendar event, which goes through the CAS of  *)
(* Gmail's path.                                                           *)
WriteRejected(h) ==
    LET a == Of(h)
        loses == reply[a].channel = "gcal" /\ reply[a].status # "pending"
    IN  /\ At(h, "write") /\ hand[h].verb = "skip"
        /\ reply' = IF loses THEN reply ELSE [reply EXCEPT ![a].status = "rejected"]
        /\ processed' = IF loses THEN processed ELSE processed \cup {a}
        /\ Leaves(h, "delete")
        /\ UNCHANGED <<cardVars, sweeping, engaged, taken, excuses, daemonVars>>

(* Back to pending, whatever the row has become during the model's call.   *)
WriteRevised(h) ==
    LET a == Of(h) IN
    /\ At(h, "write") /\ hand[h].verb \in {"revise", "refine"}
    /\ reply[a].made < MaxTexts
    /\ reply' = [reply EXCEPT ![a] = [@ EXCEPT !.status = "pending", !.made = reply[a].made + 1,
                                               !.text = reply[a].made + 1]]
    /\ Excused(IF reply[a].status # "pending" THEN {a} ELSE {})
    /\ Leaves(h, "repost")
    /\ UNCHANGED <<cardVars, sweeping, processed, engaged, taken, daemonVars>>

(* The redraft is counted only here, so two of them can pass the limit; the*)
(* old card goes only if the new one is up.                                *)
Repost(h) ==
    /\ At(h, "repost")
    /\ reply' = [reply EXCEPT ![Of(h)].redrafts = @ + 1]
    /\ \/ PostCard(Of(h)) /\ Leaves(h, "delete")
       \/ UNCHANGED <<shows, posted>> /\ hand' = [hand EXCEPT ![h] = Free]
    /\ UNCHANGED <<raising, sweeping, ledgerVars, daemonVars>>

DeleteCard(h) ==
    /\ At(h, "delete")
    /\ \E deleted \in BOOLEAN :
          shows' = IF deleted THEN [shows EXCEPT ![hand[h].msg] = Nobody] ELSE shows
    /\ hand' = [hand EXCEPT ![h] = Free]
    /\ UNCHANGED <<reply, raising, posted, sweeping, ledgerVars, daemonVars>>

-----------------------------------------------------------------------------
(* A `ready` event sweeps the channel: a card of a resolved row is deleted.*)

Ready ==
    /\ sweeping = Swept
    /\ sweeping' = [sweeping EXCEPT !.todo = {m \in Msg : shows[m] # Nobody}]
    /\ UNCHANGED <<reply, cardVars, hand, ledgerVars, daemonVars>>

SweepLook(m) ==
    /\ m \in sweeping.todo /\ sweeping.stale = 0
    /\ sweeping' = [todo |-> sweeping.todo \ {m},
                    stale |-> IF shows[m] # Nobody /\ reply[shows[m]].status # "pending"
                              THEN m ELSE 0]
    /\ UNCHANGED <<reply, cardVars, hand, ledgerVars, daemonVars>>

SweepDelete(m) ==
    /\ m = sweeping.stale
    /\ shows' = [shows EXCEPT ![m] = Nobody]
    /\ sweeping' = [sweeping EXCEPT !.stale = 0]
    /\ UNCHANGED <<reply, raising, posted, hand, ledgerVars, daemonVars>>

(* The daemon dies: a call it made may have been taken. *)
ClickRestart ==
    /\ Restarts
    /\ Excused({a \in Action : Approving(a) # {}})
    /\ hand' = [h \in Hand |-> Free]
    /\ sweeping' = Swept
    /\ UNCHANGED <<reply, cardVars, processed, engaged, taken>>

-----------------------------------------------------------------------------

HandStep(h) ==
    \/ \E outcome \in {"done", "failed"} : Send(h, outcome) \/ Redraft(h, outcome)
    \/ WriteSent(h) \/ WriteError(h) \/ WriteRejected(h) \/ WriteRevised(h)
    \/ Repost(h) \/ DeleteCard(h)

ClickNext ==
    \/ \E a \in Action : LogPending(a) \/ RaiseCard(a) \/ RaiseFails(a) \/ CarouselCard(a)
    \/ \E h \in Hand : \/ \E m \in Msg : OpenForm(h, m) \/ \E verb \in Verb : Click(h, verb, m)
                       \/ SubmitForm(h)
                       \/ HandStep(h)
    \/ Ready
    \/ \E m \in Msg : SweepLook(m) \/ SweepDelete(m)
    \/ ClickRestart

ClickSpec == DaemonInit /\ ClickInit /\ [][ClickNext]_allClickVars

-----------------------------------------------------------------------------
(* Properties. *)

(* Without a claim a reply can go out more than once, but only for a cause:*)
(* another approval was under way when a click loaded the row, a revision  *)
(* reopened a row that was resolved during the model's call, or the daemon *)
(* died before the answer was written.                                     *)
TakenAgainForACause == \A a \in Action : taken[a].times <= 1 + excuses[a]

(* A row that says `sent` holds a draft the platform took, not the one a   *)
(* crossing revision left there, and a LinkedIn engagement it stands for   *)
(* is counted.                                                             *)
SentDraftWasTaken ==
    \A a \in Action : reply[a].status = "sent" =>
        /\ reply[a].text \in taken[a].texts
        /\ reply[a].channel \in Counted => a \in engaged

(* A resolved row that no click and no command has in hand stays as it is  *)
(* for good, and nothing more is sent for it: stale cards, forms left open *)
(* and the clicks the owner makes on them take it up no more.              *)
LeftAlone(a) ==
    /\ reply[a].status \in {"sent", "rejected", "error"} /\ a \notin raising
    /\ \A h \in Hand : Of(h) = a => hand[h].step \in {"modal", "delete"}

ResolvedStays ==
    [][\A a \in Action :
          LeftAlone(a) => LeftAlone(a)' /\ reply'[a] = reply[a] /\ taken'[a] = taken[a]]_allClickVars

(* What a click has in hand: the work its later steps are to finish.  Forms,*)
(* cards and counts are no part of it.                                     *)
Doing(h) ==
    IF hand[h].step \notin {"call", "write"} THEN "idle"
    ELSE IF hand[h].verb = "skip" THEN "skipping"
    ELSE IF hand[h].verb # "approve" THEN "redrafting"
    ELSE IF hand[h].step = "call" THEN "asking"
    ELSE IF hand[h].outcome = "done" THEN "accepted"
    ELSE "refused"

Work(h) == [doing |-> Doing(h), on |-> IF Doing(h) = "idle" THEN Nobody ELSE Of(h)]

Offered == INSTANCE CardPromise WITH
    status <- [a \in Action |-> reply[a].status],
    work <- [h \in Hand |-> Work(h)],
    out <- [a \in Action |-> taken[a].times]

(* The clicks keep the promise of the cards: stale cards, forms left open, *)
(* sweeps and restarts start no work on an action that is not open, and    *)
(* what they change of it is what the work in hand says.                   *)
ImplementsCardPromise == Offered!Spec

===============================================================================
