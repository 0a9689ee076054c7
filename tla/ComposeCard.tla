----------------------------- MODULE ComposeCard -----------------------------
(***************************************************************************)
(* Composing an email card from the command line, replacing it by a        *)
(* follow-up, updating the Gmail draft under it, and the carousel that     *)
(* surfaces pending cards one at a time.  All cards here are for one       *)
(* recipient and subject: they are what a follow-up compose replaces.      *)
(*                                                                         *)
(* The commands run in processes of their own, the carousel in the daemon, *)
(* from its ticker and after each click that resolves a card.  They share  *)
(* the store and the mailbox, and no two of their steps are atomic.        *)
(***************************************************************************)
EXTENDS Daemon, FiniteSets

CONSTANTS
    MaxCards, MaxDrafts,     \* bounds on rows and drafts
    Composer,                \* processes running `gmail compose --post`
    Poster,                  \* carousel invocations that can be under way at once
    NudgeSpan,               \* NUDGE_INTERVAL_MS
    MaxStops                 \* bound on failures and deaths

ASSUME ComposeAssumption ==
    /\ MaxCards \in Nat /\ MaxDrafts \in Nat
    /\ NudgeSpan \in Nat \ {0} /\ MaxStops \in Nat

VARIABLES
    card,        \* actions, in creation order; held is the draft a send has read
    drafts,      \* the drafts Gmail has
    made,        \* number of drafts made so far
    composing,   \* each compose: its step, the row it replaces, what it made
    updating,    \* the update-draft command
    posting,     \* each carousel invocation: the card it is posting
    shown,       \* history: how often Discord showed each card
    repeats,     \* history: reasons for one more showing
    crossed,     \* history: cards whose draft an update deleted under them
    stops

mailVars == <<card, drafts, made, crossed>>
composeVars == <<mailVars, composing, updating, posting, shown, repeats, stops>>
allComposeVars == <<daemonVars, composeVars>>

Card == 1 .. MaxCards
Draft == 1 .. MaxDrafts
Live == {"pending", "scheduled"}

NotComposing == [step |-> "idle", old |-> 0, oldDraft |-> 0, draft |-> 0, card |-> 0]
NotUpdating == [step |-> "idle", old |-> 0, new |-> 0, rows |-> {}]
NotPosting == [step |-> "idle", card |-> 0, at |-> 0]

ComposeTypes ==
    /\ card \in [Card -> [status : Live \cup {"none", "sending", "sent", "error",
                                              "rejected", "superseded"},
                          draft : 0 .. MaxDrafts, held : 0 .. MaxDrafts,
                          nudged : BOOLEAN, due : 0 .. MaxNow + NudgeSpan]]
    /\ drafts \subseteq Draft /\ made \in 0 .. MaxDrafts
    /\ composing \in [Composer ->
          [step : {"idle", "draft", "insert", "link", "show", "nudge", "replace", "delete"},
           old : 0 .. MaxCards, oldDraft : 0 .. MaxDrafts,
           draft : 0 .. MaxDrafts, card : 0 .. MaxCards]]
    /\ updating \in [step : {"idle", "create", "delete", "find", "repoint"},
                     old : 0 .. MaxDrafts, new : 0 .. MaxDrafts, rows : SUBSET Card]
    /\ posting \in [Poster -> [step : {"idle", "show", "record"},
                            card : 0 .. MaxCards, at : 0 .. MaxNow]]
    /\ shown \in [Card -> Nat] /\ repeats \in [Card -> Nat]
    /\ crossed \subseteq Card
    /\ stops \in 0 .. MaxStops

ComposeInit ==
    /\ card = [c \in Card |-> [status |-> "none", draft |-> 0, held |-> 0,
                               nudged |-> FALSE, due |-> 0]]
    /\ drafts = {} /\ made = 0
    /\ composing = [k \in Composer |-> NotComposing]
    /\ updating = NotUpdating
    /\ posting = [q \in Poster |-> NotPosting]
    /\ shown = [c \in Card |-> 0] /\ repeats = [c \in Card |-> 0]
    /\ crossed = {}
    /\ stops = 0

Rows(status) == {c \in Card : card[c].status \in status}
Oldest(cards) == {c \in cards : \A d \in cards : c <= d}
Newest(cards) == {c \in cards : \A d \in cards : d <= c}

(* create_draft: Gmail names the new draft. *)
NewDraft ==
    /\ made < MaxDrafts
    /\ made' = made + 1
    /\ drafts' = drafts \cup {made + 1}

(* Cards that are posted, or about to be, and not yet recorded as nudged. *)
InHand(c) ==
    \/ \E k \in Composer : composing[k].card = c /\ composing[k].step \in {"link", "show", "nudge"}
    \/ \E q \in Poster : posting[q].card = c

Excuse(cards) == repeats' = [c \in Card |-> repeats[c] + (IF c \in cards THEN 1 ELSE 0)]

Nudged(c, at) == card' = [card EXCEPT ![c] = [@ EXCEPT !.nudged = TRUE, !.due = at + NudgeSpan]]

-----------------------------------------------------------------------------
(* gmail compose --post. *)

Compose(k, step) == composing[k].step = step

Goes(k, step) == composing' = [composing EXCEPT ![k].step = step]

(* The newest open row for this recipient and subject is the one replaced; *)
(* an armed one refuses the compose, --allow-duplicate looks for none.     *)
\* Mutant: the old row is retired before the new card is up.
StartAnew(k) ==
    /\ Compose(k, "idle")
    /\ LET open == Newest(Rows(Live))
       IN  /\ \A c \in open : card[c].status = "pending"
           /\ composing' = [composing EXCEPT ![k].step = "draft"]
           /\ card' = [c \in Card |-> IF c \in open
                                      THEN [card[c] EXCEPT !.status = "superseded"] ELSE card[c]]
    /\ UNCHANGED <<drafts, made, crossed, updating, posting, shown, repeats, stops, daemonVars>>

StartCompose(k) ==
    /\ Compose(k, "idle")
    /\ \E duplicate \in BOOLEAN :
          LET open == IF duplicate THEN {} ELSE Newest(Rows(Live))
          IN  /\ \A c \in open : card[c].status = "pending"
              /\ composing' = [composing EXCEPT ![k] =
                     [NotComposing EXCEPT
                         !.step = "draft",
                         !.old = IF open = {} THEN 0 ELSE CHOOSE c \in open : TRUE,
                         !.oldDraft = IF open = {} THEN 0
                                      ELSE card[CHOOSE c \in open : TRUE].draft]]
    /\ UNCHANGED <<mailVars, updating, posting, shown, repeats, stops, daemonVars>>

CreateDraft(k) ==
    /\ Compose(k, "draft") /\ NewDraft
    /\ composing' = [composing EXCEPT ![k] = [@ EXCEPT !.step = "insert", !.draft = made + 1]]
    /\ UNCHANGED <<card, crossed, updating, posting, shown, repeats, stops, daemonVars>>

(* log_action: the row is pending, and visible to everyone, without a draft.*)
InsertRow(k) ==
    /\ Compose(k, "insert")
    /\ \E c \in Oldest(Rows({"none"})) :
          /\ card' = [card EXCEPT ![c].status = "pending"]
          /\ composing' = [composing EXCEPT ![k] = [@ EXCEPT !.step = "link", !.card = c]]
    /\ UNCHANGED <<drafts, made, crossed, updating, posting, shown, repeats, stops, daemonVars>>

LinkDraft(k) ==
    /\ Compose(k, "link")
    /\ card' = [card EXCEPT ![composing[k].card].draft = composing[k].draft]
    /\ Goes(k, "show")
    /\ UNCHANGED <<drafts, made, crossed, updating, posting, shown, repeats, stops, daemonVars>>

ShowComposed(k) ==
    /\ Compose(k, "show")
    /\ shown' = [shown EXCEPT ![composing[k].card] = @ + 1]
    /\ Goes(k, "nudge")
    /\ UNCHANGED <<mailVars, updating, posting, repeats, stops, daemonVars>>

RecordComposed(k) ==
    /\ Compose(k, "nudge")
    /\ Nudged(composing[k].card, now)
    /\ Goes(k, IF composing[k].old = 0 THEN "idle" ELSE "replace")
    /\ UNCHANGED <<drafts, made, crossed, updating, posting, shown, repeats, stops, daemonVars>>

(* Only now is the old row retired, and only if it is still pending. *)
Supersede(k) ==
    LET old == composing[k].old
        flips == card[old].status = "pending"
    IN  /\ Compose(k, "replace")
        /\ card' = IF flips THEN [card EXCEPT ![old].status = "superseded"] ELSE card
        /\ Goes(k, IF flips /\ composing[k].oldDraft # 0 THEN "delete" ELSE "idle")
        /\ UNCHANGED <<drafts, made, crossed, updating, posting, shown, repeats, stops, daemonVars>>

DeleteOld(k) ==
    /\ Compose(k, "delete")
    /\ \E deleted \in BOOLEAN :
          drafts' = IF deleted THEN drafts \ {composing[k].oldDraft} ELSE drafts
    /\ Goes(k, "idle")
    /\ UNCHANGED <<card, made, crossed, updating, posting, shown, repeats, stops, daemonVars>>

(* Any step may fail or its process die: what it wrote stays.  A failed    *)
(* record_nudge is only logged.                                            *)
ComposeStops(k) ==
    /\ stops < MaxStops /\ ~Compose(k, "idle")
    /\ stops' = stops + 1
    /\ \E goesOn \in {FALSE, Compose(k, "nudge") /\ composing[k].old # 0} :
          Goes(k, IF goesOn THEN "replace" ELSE "idle")
    /\ Excuse(IF Compose(k, "nudge") THEN {composing[k].card} ELSE {})
    /\ UNCHANGED <<mailVars, updating, posting, shown, daemonVars>>

-----------------------------------------------------------------------------
(* gmail update-draft: a replacement is made, the old draft deleted, and   *)
(* only then are the cards that show it repointed.                         *)

\* Mutant: the draft of a send under way is replaced.
StartAnyUpdate(d) ==
    /\ updating.step = "idle" /\ d \in drafts
    /\ \E c \in Card : card[c].draft = d
    /\ updating' = [NotUpdating EXCEPT !.step = "create", !.old = d]
    /\ UNCHANGED <<mailVars, composing, posting, shown, repeats, stops, daemonVars>>

StartUpdate(d) ==
    /\ updating.step = "idle" /\ d \in drafts
    /\ \E c \in Card : card[c].draft = d
    /\ ~ \E c \in Rows({"sending"}) : card[c].draft = d
    /\ updating' = [NotUpdating EXCEPT !.step = "create", !.old = d]
    /\ UNCHANGED <<mailVars, composing, posting, shown, repeats, stops, daemonVars>>

CreateReplacement ==
    /\ updating.step = "create" /\ NewDraft
    /\ updating' = [updating EXCEPT !.step = "delete", !.new = made + 1]
    /\ UNCHANGED <<card, crossed, composing, posting, shown, repeats, stops, daemonVars>>

DeleteReplaced ==
    /\ updating.step = "delete"
    /\ \E deleted \in BOOLEAN : drafts' = IF deleted THEN drafts \ {updating.old} ELSE drafts
    /\ updating' = [updating EXCEPT !.step = "find"]
    /\ UNCHANGED <<card, made, crossed, composing, posting, shown, repeats, stops, daemonVars>>

(* A row a send has claimed since is not found. *)
\* Mutant: armed rows keep the deleted draft.
FindPending ==
    /\ updating.step = "find"
    /\ updating' = [updating EXCEPT !.step = "repoint",
                       !.rows = {c \in Rows({"pending"}) : card[c].draft = updating.old}]
    /\ UNCHANGED <<mailVars, composing, posting, shown, repeats, stops, daemonVars>>

FindRows ==
    /\ updating.step = "find"
    /\ updating' = [updating EXCEPT !.step = "repoint",
                                    !.rows = {c \in Rows(Live) : card[c].draft = updating.old}]
    /\ UNCHANGED <<mailVars, composing, posting, shown, repeats, stops, daemonVars>>

(* Whatever has become of the row in between. *)
Repoint(c) ==
    /\ updating.step = "repoint" /\ c \in updating.rows
    /\ card' = [card EXCEPT ![c].draft = updating.new]
    /\ updating' = [updating EXCEPT !.rows = @ \ {c}]
    /\ UNCHANGED <<drafts, made, crossed, composing, posting, shown, repeats, stops, daemonVars>>

EndUpdate ==
    /\ updating.step = "repoint" /\ updating.rows = {}
    /\ updating' = NotUpdating
    /\ UNCHANGED <<mailVars, composing, posting, shown, repeats, stops, daemonVars>>

UpdateStops ==
    /\ stops < MaxStops /\ updating.step # "idle"
    /\ stops' = stops + 1
    /\ updating' = NotUpdating
    /\ crossed' = IF updating.step \in {"delete", "find", "repoint"}
                  THEN crossed \cup {c \in Card : card[c].draft = updating.old} ELSE crossed
    /\ UNCHANGED <<card, drafts, made, composing, posting, shown, repeats, daemonVars>>

-----------------------------------------------------------------------------
(* The owner's clicks and the sends they start, reduced to what the steps  *)
(* above race with. *)

Claim(c) ==
    /\ card[c].status \in Live /\ card[c].draft # 0
    /\ card' = [card EXCEPT ![c] = [@ EXCEPT !.status = "sending", !.held = card[c].draft]]
    /\ crossed' = IF updating.step # "idle" /\ updating.old = card[c].draft
                  THEN crossed \cup {c} ELSE crossed
    /\ UNCHANGED <<drafts, made, composing, updating, posting, shown, repeats, stops, daemonVars>>

(* Gmail sends the draft and drops it; a draft that is gone fails the send.*)
Deliver(c) ==
    /\ card[c].status = "sending"
    /\ card' = [card EXCEPT ![c].status = IF card[c].held \in drafts THEN "sent" ELSE "error"]
    /\ drafts' = drafts \ {card[c].held}
    /\ UNCHANGED <<made, crossed, composing, updating, posting, shown, repeats, stops, daemonVars>>

Resolve(c, status) ==
    /\ card[c].status = "pending"
    /\ card' = [card EXCEPT ![c].status = status]
    /\ UNCHANGED <<drafts, made, crossed, composing, updating, posting, shown, repeats, stops,
                   daemonVars>>

-----------------------------------------------------------------------------
(* The carousel, post_next_if_idle: from the ticker or after a click. *)

Active == {c \in Rows({"pending"}) : card[c].nudged}

(* Remind of the active card if it is due; with no active card take the    *)
(* oldest of the backlog, whatever its timer says.                         *)
\* Mutant: an active card is posted again with every tick.
NextDueOrNot == IF Active # {} THEN Oldest(Active) ELSE Oldest(Rows({"pending"}))

\* Mutant: only cards that were shown before are in the backlog.
NextActive == {c \in Oldest(Active) : card[c].due <= now}

NextCard ==
    IF Active # {} THEN {c \in Oldest(Active) : card[c].due <= now} ELSE Oldest(Rows({"pending"}))

PickCard(q, c) ==
    /\ posting[q].step = "idle" /\ c \in NextCard
    /\ posting' = [posting EXCEPT ![q] = [step |-> "show", card |-> c, at |-> now]]
    /\ Excuse(IF InHand(c) \/ (card[c].nudged /\ card[c].due <= now) THEN {c} ELSE {})
    /\ UNCHANGED <<mailVars, composing, updating, shown, stops, daemonVars>>

(* Whatever has become of the row in between. *)
ShowPicked(q) ==
    /\ posting[q].step = "show"
    /\ shown' = [shown EXCEPT ![posting[q].card] = @ + 1]
    /\ posting' = [posting EXCEPT ![q].step = "record"]
    /\ UNCHANGED <<mailVars, composing, updating, repeats, stops, daemonVars>>

RecordPicked(q) ==
    /\ posting[q].step = "record"
    /\ Nudged(posting[q].card, posting[q].at)
    /\ posting' = [posting EXCEPT ![q] = NotPosting]
    /\ UNCHANGED <<drafts, made, crossed, composing, updating, shown, repeats, stops, daemonVars>>

(* Discord refuses the card: only the timer moves, the card stays in the   *)
(* backlog and at its head.                                                *)
ShowFails(q) ==
    /\ stops < MaxStops /\ posting[q].step = "show"
    /\ stops' = stops + 1
    /\ card' = [card EXCEPT ![posting[q].card].due = now + NudgeSpan]
    /\ posting' = [posting EXCEPT ![q] = NotPosting]
    /\ UNCHANGED <<drafts, made, crossed, composing, updating, shown, repeats, daemonVars>>

RecordFails(q) ==
    /\ stops < MaxStops /\ posting[q].step = "record"
    /\ stops' = stops + 1
    /\ posting' = [posting EXCEPT ![q] = NotPosting]
    /\ Excuse({posting[q].card})
    /\ UNCHANGED <<mailVars, composing, updating, shown, daemonVars>>

CarouselRestart ==
    /\ Restarts
    /\ Excuse({c \in Card : \E q \in Poster : posting[q].step = "record" /\ posting[q].card = c})
    /\ posting' = [q \in Poster |-> NotPosting]
    /\ UNCHANGED <<mailVars, composing, updating, shown, stops>>

-----------------------------------------------------------------------------

ComposeStep(k) ==
    \/ CreateDraft(k) \/ InsertRow(k) \/ LinkDraft(k) \/ ShowComposed(k)
    \/ RecordComposed(k) \/ Supersede(k) \/ DeleteOld(k)

UpdateStep ==
    \/ CreateReplacement \/ DeleteReplaced \/ FindRows \/ EndUpdate
    \/ \E c \in Card : Repoint(c)

CarouselStep(q) == (\E c \in Card : PickCard(q, c)) \/ ShowPicked(q) \/ RecordPicked(q)

ClickStep(c) == Claim(c) \/ Deliver(c) \/ \E s \in {"rejected", "scheduled"} : Resolve(c, s)

ComposeNext ==
    \/ \E k \in Composer : StartCompose(k) \/ ComposeStep(k) \/ ComposeStops(k)
    \/ (\E d \in Draft : StartUpdate(d)) \/ UpdateStep \/ UpdateStops
    \/ \E c \in Card : ClickStep(c)
    \/ \E q \in Poster : CarouselStep(q) \/ ShowFails(q) \/ RecordFails(q)
    \/ CarouselRestart
    \/ Tick /\ UNCHANGED composeVars

(* The ticker runs the carousel every minute; the owner gets round to every*)
(* card that was shown.                                                    *)
ComposeFairness ==
    /\ \A q \in Poster : WF_allComposeVars(CarouselStep(q))
    /\ \A c \in Card : WF_allComposeVars(shown[c] > 0 /\ ClickStep(c))

ComposeSpec == DaemonInit /\ ComposeInit /\ [][ComposeNext]_allComposeVars /\ ComposeFairness

-----------------------------------------------------------------------------
(* Properties. *)

(* #419 card-sync: an open card shows a draft that Gmail has, and a send   *)
(* does not fail for want of it.  An update checks draft_id_in_flight long *)
(* before it deletes the old draft, and it deletes before it repoints: the *)
(* exceptions are the update under way and the cards crossed by it, where a*)
(* claim or a stop in between leaves the row on the deleted draft for good.*)
CardsKeepTheirDraft ==
    /\ \A c \in Rows(Live) :
          \/ card[c].draft \in drafts \cup {0}
          \/ updating.step \in {"find", "repoint"} /\ updating.old = card[c].draft
          \/ c \in crossed
    /\ Rows({"error"}) \subseteq crossed

(* #596: a follow-up retires the old card only after a newer one for the   *)
(* same mail is up, whatever fails in between.                             *)
SupersededHasSuccessor ==
    \A c \in Rows({"superseded"}) : \E n \in Card : n > c /\ shown[n] > 0 /\ card[n].draft # 0

(* A card comes up again only as a reminder that is due, after a post that *)
(* was not recorded, or because somebody else had it in hand: nothing      *)
(* claims a card between reading the backlog and recording the nudge.      *)
ShownAgainForAReason == \A c \in Card : shown[c] <= 1 + repeats[c]

(* A pending card is surfaced or resolved, also when its compose died      *)
(* between the row and the card, if the owner answers what is shown.       *)
PendingComesUp ==
    \A c \in Card : card[c].status = "pending" ~> shown[c] > 0 \/ card[c].status # "pending"

=============================================================================
