----------------------------- MODULE CardProofs -----------------------------
(***************************************************************************)
(* Proofs about the approval cards, for any number of them: the owner's    *)
(* clicks on the cards of every platform but Gmail, and the cards that the *)
(* compose and update-draft commands put in one another's place.           *)
(***************************************************************************)
EXTENDS ComposeCard, CardClicks, FiniteSetTheorems, TLAPS

(* The records of ClickTypes.                                              *)
HandRow == [step : {"free", "modal", "call", "write", "repost", "delete"},
            verb : Verb, msg : 0 .. MaxMsgs, action : Action \cup {Nobody},
            text : Text, outcome : {"none", "done", "failed"}]
ReplyRow == [channel : Channel, text : Text, made : Text, redrafts : Nat,
             status : {"none", "pending", "sent", "rejected", "error"}]

(* A click that is under way is on an action.                              *)
HandsOn == \A h \in Hand : hand[h].step # "free" => hand[h].action \in Action

(* Clicks that are about to hand the reply to the platform.                *)
Calling(a) == {h \in Hand : hand[h].verb = "approve" /\ Of(h) = a /\ hand[h].step = "call"}

Open(a) == reply[a].status \in {"none", "pending"}

(* What the platform took, and may take from a call under way, has a cause;*)
(* an open row nobody is approving has been taken only as often as there   *)
(* were causes, so that the next approval is the one allowed without.      *)
Caused ==
    \A a \in Action :
        /\ IsFiniteSet(Calling(a))
        /\ taken[a].times + Cardinality(Calling(a)) <= 1 + excuses[a]
        /\ Open(a) /\ Approving(a) = {} => taken[a].times <= excuses[a]

(* The draft a click is about to write as sent is one the platform took.   *)
WritesWhatWasTaken ==
    \A h \in Hand :
        At(h, "write") /\ hand[h].verb = "approve" /\ hand[h].outcome = "done" =>
            hand[h].text \in taken[Of(h)].texts

ClickInv ==
    DaemonTypes /\ ClickTypes /\ HandsOn /\ Caused /\ WritesWhatWasTaken /\ SentDraftWasTaken

-----------------------------------------------------------------------------
(* Types. *)

\* Nobody clicks yet, and every reply is as its channel left it.
LEMMA InitClicks == DaemonInit /\ ClickInit => ClickInv
<1> SUFFICES ASSUME DaemonInit, ClickInit PROVE ClickInv
  OBVIOUS
<1>1. DaemonTypes
  BY DaemonAssumption DEF DaemonInit, DaemonTypes
<1>2. ClickTypes
  BY ClickAssumption DEF ClickInit, ClickTypes, Msg, Text, Verb, Free, Swept, Nobody
<1>3. HandsOn /\ WritesWhatWasTaken /\ SentDraftWasTaken
  BY DEF ClickInit, HandsOn, WritesWhatWasTaken, SentDraftWasTaken, At, Free
<1>4. \A a \in Action : Calling(a) = {}
  BY DEF ClickInit, Calling, Free
<1>5. \A a \in Action : taken[a].times = 0 /\ excuses[a] = 0
  BY DEF ClickInit
<1>6. Caused
  BY <1>4, <1>5, FS_EmptySet DEF Caused
<1> QED  BY <1>1, <1>2, <1>3, <1>6 DEF ClickInv

(* What a step makes of one click.                                         *)
LEMMA HandMoves ==
  ASSUME hand \in [Hand -> HandRow], HandsOn, NEW h \in Hand, NEW row \in HandRow,
         hand' = [hand EXCEPT ![h] = row],
         row.step # "free" => row.action \in Action
  PROVE  /\ hand' \in [Hand -> HandRow] /\ HandsOn'
         /\ hand'[h] = row /\ \A g \in Hand \ {h} : hand'[g] = hand[g]
<1>1. hand' \in [Hand -> HandRow] /\ hand'[h] = row /\ \A g \in Hand \ {h} : hand'[g] = hand[g]
  OBVIOUS
<1> QED  BY <1>1 DEF HandsOn

(* The load makes of a free click or a form one that works on the row, or  *)
(* one that only has its card to delete.                                   *)
LEMMA LoadMoves ==
  ASSUME ClickTypes, HandsOn, NEW h \in Hand, NEW verb \in Verb, NEW m \in 0 .. MaxMsgs,
         NEW a \in Action, LoadRow(h, verb, m, a)
  PROVE  /\ hand' \in [Hand -> HandRow] /\ HandsOn'
         /\ \A g \in Hand \ {h} : hand'[g] = hand[g]
         /\ hand'[h].action = a /\ hand'[h].step \in {"delete", "write", "call"}
         /\ hand'[h].verb = (IF hand'[h].step = "delete" THEN "skip" ELSE verb)
         /\ hand'[h].step # "delete" => reply[a].status = "pending"
         /\ hand'[h].step = "delete" => reply[a].status # "pending"
         /\ hand'[h].step = "write" => verb = "skip"
<1> DEFINE open == reply[a].status = "pending"
           row == IF ~open
                  THEN [Free EXCEPT !.step = "delete", !.msg = m, !.action = a]
                  ELSE [Free EXCEPT !.step = IF verb = "skip" THEN "write" ELSE "call",
                                    !.verb = verb, !.msg = m, !.action = a,
                                    !.text = IF verb = "approve" THEN reply[a].text ELSE 0]
<1>1. reply[a].text \in Text /\ 0 \in Text
  BY ClickAssumption DEF ClickTypes, Text
<1>2. /\ row \in HandRow /\ row.action = a
      /\ row.step = IF ~open THEN "delete" ELSE IF verb = "skip" THEN "write" ELSE "call"
      /\ row.verb = IF ~open THEN "skip" ELSE verb
  BY <1>1 DEF HandRow, Free, Verb
<1>3. hand' = [hand EXCEPT ![h] = row]
  BY DEF LoadRow
<1>4. hand \in [Hand -> HandRow]
  BY DEF ClickTypes, HandRow
<1> HIDE DEF row
<1> QED  BY <1>2, <1>3, <1>4, HandMoves

(* What is left of a click is its card.                                    *)
LEMMA LeavesMoves ==
  ASSUME ClickTypes, HandsOn, NEW h \in Hand, NEW step \in {"repost", "delete"}, Leaves(h, step),
         hand[h].step # "free"
  PROVE  /\ hand' \in [Hand -> HandRow] /\ HandsOn'
         /\ \A g \in Hand \ {h} : hand'[g] = hand[g]
         /\ hand'[h].action = Of(h) /\ hand'[h].step = step /\ hand'[h].verb = "skip"
<1> DEFINE row == [Free EXCEPT !.step = step, !.msg = hand[h].msg, !.action = Of(h)]
<1>1. hand \in [Hand -> HandRow] /\ hand[h] \in HandRow
  BY DEF ClickTypes, HandRow
<1>2. Of(h) \in Action /\ 0 \in Text
  BY ClickAssumption DEF HandsOn, Of, Text
<1>3. row \in HandRow /\ row.action = Of(h) /\ row.step = step /\ row.verb = "skip"
  BY <1>1, <1>2 DEF HandRow, Free, Verb
<1>4. hand' = [hand EXCEPT ![h] = row]
  BY DEF Leaves
<1> HIDE DEF row
<1> QED  BY <1>1, <1>2, <1>3, <1>4, HandMoves

(* A click that is done frees its task.                                    *)
LEMMA FreeMoves ==
  ASSUME ClickTypes, HandsOn, NEW h \in Hand, hand' = [hand EXCEPT ![h] = Free]
  PROVE  /\ hand' \in [Hand -> HandRow] /\ HandsOn'
         /\ \A g \in Hand \ {h} : hand'[g] = hand[g]
         /\ hand'[h].action = Nobody /\ hand'[h].step = "free" /\ hand'[h].verb = "skip"
<1>1. hand \in [Hand -> HandRow]
  BY DEF ClickTypes, HandRow
<1>2. 0 \in Text /\ 0 \in 0 .. MaxMsgs
  BY ClickAssumption DEF Text
<1>3. Free \in HandRow /\ Free.step = "free" /\ Free.action = Nobody /\ Free.verb = "skip"
  BY <1>2 DEF HandRow, Free, Verb
<1> QED  BY <1>1, <1>3, HandMoves

(* The rows of the store that a click writes.                              *)
LEMMA ReplyWrites ==
  ASSUME ClickTypes, NEW a \in Action, NEW row \in ReplyRow, reply' = [reply EXCEPT ![a] = row]
  PROVE  /\ reply' \in [Action -> ReplyRow]
         /\ reply'[a] = row /\ \A b \in Action \ {a} : reply'[b] = reply[b]
  BY DEF ClickTypes, ReplyRow

(* A status written over a row.                                            *)
LEMMA StatusWrites ==
  ASSUME ClickTypes, NEW a \in Action,
         NEW status \in {"none", "pending", "sent", "rejected", "error"},
         reply' = [reply EXCEPT ![a].status = status]
  PROVE  /\ reply' \in [Action -> ReplyRow] /\ reply'[a].status = status
         /\ \A b \in Action \ {a} : reply'[b] = reply[b]
<1> DEFINE row == [reply[a] EXCEPT !.status = status]
<1>1. row \in ReplyRow /\ row.status = status
  BY DEF ClickTypes, ReplyRow
<1>2. reply' = [reply EXCEPT ![a] = row]
  OBVIOUS
<1> HIDE DEF row
<1> QED  BY <1>1, <1>2, ReplyWrites

-----------------------------------------------------------------------------
(* Causes. *)

(* A step of one click that neither calls the platform nor starts to.      *)
LEMMA NoNewCall ==
  ASSUME NEW h \in Hand, \A g \in Hand \ {h} : hand'[g] = hand[g],
         hand'[h].verb # "approve" \/ hand'[h].step \notin {"call", "write"}
  PROVE  \A a \in Action : Calling(a)' = Calling(a) \ {h} /\ Approving(a)' = Approving(a) \ {h}
  BY DEF Calling, Approving, Of

(* Nor is it one that was calling.                                         *)
LEMMA NoCallTouched ==
  ASSUME NEW h \in Hand, \A g \in Hand \ {h} : hand'[g] = hand[g],
         hand'[h].verb # "approve" \/ hand'[h].step \notin {"call", "write"},
         hand[h].verb # "approve" \/ hand[h].step \notin {"call", "write"}
  PROVE  \A a \in Action : Calling(a)' = Calling(a) /\ Approving(a)' = Approving(a)
  BY DEF Calling, Approving, Of

(* A step that gives no new cause and needs none.                          *)
LEMMA NoCauseNeeded ==
  ASSUME Caused, ClickTypes, UNCHANGED <<taken, excuses>>,
         \A a \in Action : Calling(a)' \subseteq Calling(a),
         \A a \in Action : Open(a)' /\ Approving(a)' = {} => Open(a) /\ Approving(a) = {}
  PROVE  Caused'
<1> SUFFICES ASSUME NEW a \in Action
             PROVE  /\ IsFiniteSet(Calling(a)')
                    /\ taken'[a].times + Cardinality(Calling(a)') <= 1 + excuses'[a]
                    /\ Open(a)' /\ Approving(a)' = {} => taken'[a].times <= excuses'[a]
  BY DEF Caused
<1>1. IsFiniteSet(Calling(a)') /\ Cardinality(Calling(a)') <= Cardinality(Calling(a))
  BY FS_Subset DEF Caused
<1>2. Cardinality(Calling(a)) \in Nat /\ Cardinality(Calling(a)') \in Nat
  BY <1>1, FS_CardinalityType DEF Caused
<1>3. taken[a].times \in Nat /\ excuses[a] \in Nat
  BY DEF ClickTypes
<1>4. taken[a].times + Cardinality(Calling(a)) <= 1 + excuses[a]
  BY DEF Caused
<1>5. taken'[a].times + Cardinality(Calling(a)') <= 1 + excuses'[a]
  BY <1>1, <1>2, <1>3, <1>4
<1> QED  BY <1>1, <1>5 DEF Caused

(* A cause excuses one more sending of each of its actions.                *)
LEMMA CauseGiven ==
  ASSUME ClickTypes, NEW actions, Excused(actions)
  PROVE  /\ excuses' \in [Action -> Nat]
         /\ \A a \in Action : excuses'[a] = IF a \in actions THEN excuses[a] + 1 ELSE excuses[a]
<1>1. \A a \in Action : excuses[a] \in Nat
  BY DEF ClickTypes
<1>2. \A a \in Action : excuses'[a] = excuses[a] + (IF a \in actions THEN 1 ELSE 0)
  BY DEF Excused
<1>3. excuses' \in [Action -> Nat]
  BY <1>1 DEF Excused
<1> QED  BY <1>1, <1>2, <1>3

(* A load finds the row open and nobody approving it, or gives the cause.  *)
LEMMA LoadCaused ==
  ASSUME Caused, ClickTypes, HandsOn, NEW h \in Hand, NEW verb \in Verb, NEW m \in 0 .. MaxMsgs,
         NEW b \in Action, LoadRow(h, verb, m, b), UNCHANGED <<reply, taken>>,
         hand[h].step \in {"free", "modal"}
  PROVE  Caused'
<1> SUFFICES ASSUME NEW a \in Action
             PROVE  /\ IsFiniteSet(Calling(a)')
                    /\ taken'[a].times + Cardinality(Calling(a)') <= 1 + excuses'[a]
                    /\ Open(a)' /\ Approving(a)' = {} => taken'[a].times <= excuses'[a]
  BY DEF Caused
<1> DEFINE open == reply[b].status = "pending"
           asks == verb = "approve" /\ open
<1>1. /\ \A g \in Hand \ {h} : hand'[g] = hand[g]
      /\ hand'[h].action = b
      /\ asks => hand'[h].verb = "approve" /\ hand'[h].step = "call"
      /\ ~asks => hand'[h].verb # "approve"
  BY LoadMoves
<1>2. excuses'[a] = IF asks /\ a = b /\ Approving(b) # {} THEN excuses[a] + 1 ELSE excuses[a]
  <2>1. Excused(IF asks /\ Approving(b) # {} THEN {b} ELSE {})
    BY DEF LoadRow
  <2> QED  BY <2>1, CauseGiven
<1>3. /\ IsFiniteSet(Calling(a)) /\ Cardinality(Calling(a)) \in Nat
      /\ taken[a].times \in Nat /\ excuses[a] \in Nat
      /\ taken[a].times + Cardinality(Calling(a)) <= 1 + excuses[a]
      /\ Open(a) /\ Approving(a) = {} => taken[a].times <= excuses[a]
  BY FS_CardinalityType DEF Caused, ClickTypes
<1>4. h \notin Calling(a) /\ h \notin Approving(a)
  BY DEF Calling, Approving
<1>5. CASE asks /\ a = b
  <2>1. Calling(a)' = Calling(a) \cup {h}
    BY <1>1, <1>5 DEF Calling, Of
  <2>2. IsFiniteSet(Calling(a)') /\ Cardinality(Calling(a)') = Cardinality(Calling(a)) + 1
    BY <1>3, <1>4, <2>1, FS_AddElement
  <2>3. h \in Approving(a)'
    BY <1>1, <1>5 DEF Approving, Of
  <2>4. CASE Approving(a) = {}
    <3>1. Calling(a) = {}
      BY <2>4 DEF Calling, Approving
    <3>2. Cardinality(Calling(a)) = 0
      BY <3>1, FS_EmptySet
    <3>3. taken[a].times <= excuses[a]
      BY <1>3, <1>5, <2>4 DEF Open
    <3>4. excuses'[a] = excuses[a]
      BY <1>2, <1>5, <2>4
    <3> QED  BY <1>3, <2>2, <2>3, <3>2, <3>3, <3>4
  <2>5. CASE Approving(a) # {}
    <3>1. excuses'[a] = excuses[a] + 1
      BY <1>2, <1>5, <2>5
    <3> QED  BY <1>3, <2>2, <2>3, <3>1
  <2> QED  BY <2>4, <2>5
<1>6. CASE ~(asks /\ a = b)
  <2>1. Calling(a)' = Calling(a) /\ Approving(a)' = Approving(a)
    BY <1>1, <1>4, <1>6 DEF Calling, Approving, Of
  <2>2. excuses'[a] = excuses[a] /\ (Open(a)' <=> Open(a))
    BY <1>2, <1>6 DEF Open
  <2> QED  BY <1>3, <2>1, <2>2
<1> QED  BY <1>5, <1>6

(* The platform's answer: one sending more at most, one call less.         *)
LEMMA SendCaused ==
  ASSUME Caused, ClickTypes, HandsOn, NEW h \in Hand, At(h, "call"), hand[h].verb = "approve",
         UNCHANGED <<reply, excuses>>,
         \A g \in Hand \ {h} : hand'[g] = hand[g],
         hand'[h].action = Of(h), hand'[h].verb = "approve", hand'[h].step = "write",
         taken'[Of(h)].times \in {taken[Of(h)].times, taken[Of(h)].times + 1},
         \A a \in Action \ {Of(h)} : taken'[a] = taken[a]
  PROVE  Caused'
<1> SUFFICES ASSUME NEW a \in Action
             PROVE  /\ IsFiniteSet(Calling(a)')
                    /\ taken'[a].times + Cardinality(Calling(a)') <= 1 + excuses'[a]
                    /\ Open(a)' /\ Approving(a)' = {} => taken'[a].times <= excuses'[a]
  BY DEF Caused
<1>1. /\ IsFiniteSet(Calling(a)) /\ Cardinality(Calling(a)) \in Nat
      /\ taken[a].times \in Nat /\ excuses[a] \in Nat
      /\ taken[a].times + Cardinality(Calling(a)) <= 1 + excuses[a]
      /\ Open(a) /\ Approving(a) = {} => taken[a].times <= excuses[a]
  BY FS_CardinalityType DEF Caused, ClickTypes
<1>2. Calling(a)' = Calling(a) \ {h} /\ Approving(a)' = Approving(a)
  BY DEF Calling, Approving, Of, At
<1>3. CASE a = Of(h)
  <2>1. h \in Calling(a) /\ h \in Approving(a)
    BY <1>3 DEF Calling, Approving, At
  <2>2. IsFiniteSet(Calling(a)') /\ Cardinality(Calling(a)') = Cardinality(Calling(a)) - 1
    BY <1>1, <1>2, <2>1, FS_RemoveElement
  <2>3. taken'[a].times \in {taken[a].times, taken[a].times + 1}
    BY <1>3
  <2> QED  BY <1>1, <1>2, <2>1, <2>2, <2>3
<1>4. CASE a # Of(h)
  <2>1. h \notin Calling(a)
    BY <1>4 DEF Calling
  <2>2. Calling(a)' = Calling(a) /\ taken'[a] = taken[a] /\ (Open(a)' <=> Open(a))
    BY <1>2, <1>4, <2>1 DEF Open
  <2> QED  BY <1>1, <1>2, <2>2
<1> QED  BY <1>3, <1>4

(* A revision that reopens a resolved row is a cause.                      *)
LEMMA ReviseCaused ==
  ASSUME Caused, ClickTypes, HandsOn, NEW h \in Hand, WriteRevised(h)
  PROVE  Caused'
<1> SUFFICES ASSUME NEW a \in Action
             PROVE  /\ IsFiniteSet(Calling(a)')
                    /\ taken'[a].times + Cardinality(Calling(a)') <= 1 + excuses'[a]
                    /\ Open(a)' /\ Approving(a)' = {} => taken'[a].times <= excuses'[a]
  BY DEF Caused
<1> DEFINE b == Of(h)
<1>1. /\ hand[h].step = "write" /\ hand[h].verb \in {"revise", "refine"} /\ taken' = taken
      /\ Leaves(h, "repost") /\ Excused(IF reply[b].status # "pending" THEN {b} ELSE {})
      /\ \A c \in Action \ {b} : reply'[c] = reply[c]
  BY DEF WriteRevised, At, ClickTypes
<1>2. Calling(a)' = Calling(a) /\ Approving(a)' = Approving(a)
  <2>1. hand'[h].verb = "skip" /\ \A g \in Hand \ {h} : hand'[g] = hand[g]
    BY <1>1, LeavesMoves
  <2> QED  BY <1>1, <2>1, NoCallTouched
<1>3. excuses'[a] = IF a = b /\ reply[b].status # "pending" THEN excuses[a] + 1 ELSE excuses[a]
  BY <1>1, CauseGiven
<1>4. /\ IsFiniteSet(Calling(a)) /\ Cardinality(Calling(a)) \in Nat
      /\ taken[a].times \in Nat /\ excuses[a] \in Nat
      /\ taken[a].times + Cardinality(Calling(a)) <= 1 + excuses[a]
      /\ Open(a) /\ Approving(a) = {} => taken[a].times <= excuses[a]
  BY FS_CardinalityType DEF Caused, ClickTypes
<1>5. CASE a = b /\ reply[b].status # "pending"
  BY <1>1, <1>2, <1>3, <1>4, <1>5
<1>6. CASE ~(a = b /\ reply[b].status # "pending")
  <2>1. Open(a)' => Open(a)
    BY <1>1, <1>6 DEF Open
  <2> QED  BY <1>1, <1>2, <1>3, <1>4, <1>6, <2>1
<1> QED  BY <1>5, <1>6

(* The daemon's death is a cause for what was being approved.              *)
LEMMA RestartCaused ==
  ASSUME Caused, ClickTypes, ClickRestart
  PROVE  Caused'
<1> SUFFICES ASSUME NEW a \in Action
             PROVE  /\ IsFiniteSet(Calling(a)')
                    /\ taken'[a].times + Cardinality(Calling(a)') <= 1 + excuses'[a]
                    /\ Open(a)' /\ Approving(a)' = {} => taken'[a].times <= excuses'[a]
  BY DEF Caused
<1>1. Calling(a)' = {} /\ taken' = taken /\ reply' = reply
  BY DEF ClickRestart, Calling, Free
<1>2. IsFiniteSet(Calling(a)') /\ Cardinality(Calling(a)') = 0
  BY <1>1, FS_EmptySet
<1>3. excuses'[a] = IF Approving(a) # {} THEN excuses[a] + 1 ELSE excuses[a]
  <2>1. Excused({c \in Action : Approving(c) # {}})
    BY DEF ClickRestart
  <2> QED  BY <2>1, CauseGiven
<1>4. /\ Cardinality(Calling(a)) \in Nat /\ taken[a].times \in Nat /\ excuses[a] \in Nat
      /\ taken[a].times + Cardinality(Calling(a)) <= 1 + excuses[a]
      /\ Open(a) /\ Approving(a) = {} => taken[a].times <= excuses[a]
  BY FS_CardinalityType DEF Caused, ClickTypes
<1>5. Open(a)' <=> Open(a)
  BY <1>1 DEF Open
<1> QED  BY <1>1, <1>2, <1>3, <1>4, <1>5

-----------------------------------------------------------------------------
(* Steps. *)

(* What a step keeps when it moves one click on and writes no draft.       *)
LEMMA DraftsStay ==
  ASSUME ClickTypes, HandsOn, WritesWhatWasTaken, SentDraftWasTaken, UNCHANGED <<taken, engaged>>,
         \A a \in Action : reply'[a] = reply[a] \/ reply'[a].status # "sent",
         \A h \in Hand : hand'[h] = hand[h] \/ hand'[h].step # "write" \/ hand'[h].verb # "approve"
  PROVE  WritesWhatWasTaken' /\ SentDraftWasTaken'
  BY DEF WritesWhatWasTaken, SentDraftWasTaken, At, Of

\* Every step of a click, a sweep, a raise or a restart keeps the invariant.
LEMMA StepClicks == ClickInv /\ [ClickNext]_allClickVars => ClickInv'
<1> SUFFICES ASSUME ClickInv, [ClickNext]_allClickVars PROVE ClickInv'
  OBVIOUS
<1>i. DaemonTypes /\ ClickTypes /\ HandsOn /\ Caused /\ WritesWhatWasTaken /\ SentDraftWasTaken
  BY DEF ClickInv
<1>t. /\ reply \in [Action -> ReplyRow] /\ hand \in [Hand -> HandRow]
      /\ raising \subseteq Action /\ shows \in [Msg -> Action \cup {Nobody}]
      /\ posted \in 0 .. MaxMsgs /\ MaxMsgs \in Nat /\ MaxTexts \in Nat
      /\ sweeping \in [todo : SUBSET Msg, stale : 0 .. MaxMsgs]
      /\ processed \subseteq Action /\ engaged \subseteq Action
      /\ taken \in [Action -> [times : Nat, texts : SUBSET Text]] /\ excuses \in [Action -> Nat]
      /\ now \in 0 .. MaxNow /\ restarts \in 0 .. MaxRestarts
  BY <1>i, ClickAssumption DEF ClickTypes, ReplyRow, HandRow, DaemonTypes
<1> DEFINE Replies == /\ reply' \in [Action -> ReplyRow]
           Hands == hand' \in [Hand -> HandRow] /\ HandsOn'
           Cards == /\ raising' \subseteq Action /\ shows' \in [Msg -> Action \cup {Nobody}]
                    /\ posted' \in 0 .. MaxMsgs
                    /\ sweeping' \in [todo : SUBSET Msg, stale : 0 .. MaxMsgs]
           Ledgers == /\ processed' \subseteq Action /\ engaged' \subseteq Action
                      /\ taken' \in [Action -> [times : Nat, texts : SUBSET Text]]
                      /\ excuses' \in [Action -> Nat] /\ DaemonTypes'
           Drafts == Caused' /\ WritesWhatWasTaken' /\ SentDraftWasTaken'
<1>q. ASSUME Replies, Hands, Cards, Ledgers, Drafts  PROVE ClickInv'
  BY <1>q DEF ClickInv, ClickTypes, ReplyRow, HandRow
<1>d. ASSUME UNCHANGED daemonVars  PROVE DaemonTypes'
  BY <1>d, <1>i DEF daemonVars, DaemonTypes
<1>p. ASSUME NEW a \in Action, PostCard(a)
      PROVE  posted' \in 0 .. MaxMsgs /\ shows' \in [Msg -> Action \cup {Nobody}]
  BY <1>p, <1>t DEF PostCard, Msg
<1>1. ASSUME NEW a \in Action, LogPending(a) \/ RaiseFails(a)  PROVE ClickInv'
  <2>1. PICK status \in {"pending", "error"} : reply' = [reply EXCEPT ![a].status = status]
    BY <1>1 DEF LogPending, RaiseFails
  <2>2. reply' \in [Action -> ReplyRow] /\ reply'[a].status = status
        /\ \A b \in Action \ {a} : reply'[b] = reply[b]
    BY <1>i, <2>1, StatusWrites
  <2>3. UNCHANGED <<shows, posted, hand, sweeping, ledgerVars, daemonVars>>
    BY <1>1 DEF LogPending, RaiseFails
  <2>4. Hands /\ Cards /\ Ledgers
    BY <1>1, <1>i, <1>t, <1>d, <2>3 DEF LogPending, RaiseFails, ledgerVars, HandsOn
  <2>5. Open(a)' => Open(a)
    <3>1. CASE LogPending(a)
      BY <3>1 DEF LogPending, Open
    <3>2. CASE RaiseFails(a)
      <4>1. reply' = [reply EXCEPT ![a].status = "error"]
        BY <3>2 DEF RaiseFails
      <4>2. reply'[a].status = "error"
        BY <1>i, <4>1, StatusWrites
      <4> QED  BY <4>2 DEF Open
    <3> QED  BY <1>1, <3>1, <3>2
  <2>6. Caused'
    <3>1. \A b \in Action : Calling(b)' = Calling(b) /\ Approving(b)' = Approving(b)
      BY <2>3 DEF Calling, Approving, Of
    <3>2. \A b \in Action : Open(b)' => Open(b)
      BY <2>2, <2>5 DEF Open
    <3> QED  BY <1>i, <2>3, <3>1, <3>2, NoCauseNeeded DEF ledgerVars
  <2>7. WritesWhatWasTaken' /\ SentDraftWasTaken'
    BY <1>i, <2>2, <2>3, DraftsStay DEF ledgerVars
  <2> QED  BY <1>q, <2>2, <2>4, <2>6, <2>7
<1>2. ASSUME NEW a \in Action, RaiseCard(a) \/ CarouselCard(a)  PROVE ClickInv'
  <2>1. UNCHANGED <<reply, hand, sweeping, ledgerVars, daemonVars>> /\ PostCard(a)
        /\ raising' \subseteq raising
    BY <1>2 DEF RaiseCard, CarouselCard
  <2>2. Replies /\ Hands /\ Cards /\ Ledgers
    BY <1>i, <1>t, <1>d, <1>p, <2>1 DEF ledgerVars, HandsOn
  <2>3. Caused'
    <3>1. \A b \in Action : Calling(b)' = Calling(b) /\ Approving(b)' = Approving(b)
                            /\ (Open(b)' <=> Open(b))
      BY <2>1 DEF Calling, Approving, Of, Open
    <3> QED  BY <1>i, <2>1, <3>1, NoCauseNeeded DEF ledgerVars
  <2>4. WritesWhatWasTaken' /\ SentDraftWasTaken'
    BY <1>i, <2>1, DraftsStay DEF ledgerVars
  <2> QED  BY <1>q, <2>2, <2>3, <2>4
<1>3. ASSUME NEW h \in Hand, NEW verb \in Verb, NEW m \in 0 .. MaxMsgs, NEW a \in Action,
             LoadRow(h, verb, m, a), hand[h].step \in {"free", "modal"},
             UNCHANGED <<reply, cardVars, sweeping, processed, engaged, taken, daemonVars>>
      PROVE  ClickInv'
  <2>1. /\ Hands /\ \A g \in Hand \ {h} : hand'[g] = hand[g]
        /\ hand'[h].step = "write" => verb = "skip"
        /\ hand'[h].verb = (IF hand'[h].step = "delete" THEN "skip" ELSE verb)
    BY <1>3, <1>i, LoadMoves
  <2>2. excuses' \in [Action -> Nat]
    BY <1>3, <1>i, CauseGiven DEF LoadRow
  <2>3. Replies /\ Cards /\ Ledgers
    BY <1>3, <1>t, <1>d, <2>2 DEF cardVars
  <2>4. Caused'
    BY <1>3, <1>i, LoadCaused
  <2>5. WritesWhatWasTaken' /\ SentDraftWasTaken'
    BY <1>3, <1>i, <2>1, DraftsStay
  <2> QED  BY <1>q, <2>1, <2>3, <2>4, <2>5
<1>4. ASSUME NEW h \in Hand, NEW m \in Msg, NEW verb \in Verb, Click(h, verb, m)  PROVE ClickInv'
  <2>1. shows[m] \in Action /\ m \in 0 .. MaxMsgs
    BY <1>4, <1>t DEF Click, Msg
  <2> QED  BY <1>3, <1>4, <2>1 DEF Click, At
<1>5. ASSUME NEW h \in Hand, SubmitForm(h)  PROVE ClickInv'
  <2>1. Of(h) \in Action /\ hand[h].msg \in 0 .. MaxMsgs
    BY <1>5, <1>i, <1>t DEF SubmitForm, At, HandsOn, Of, HandRow
  <2>2. "revise" \in Verb
    BY DEF Verb
  <2> QED  BY <1>3, <1>5, <2>1, <2>2 DEF SubmitForm, At
<1>o. ASSUME NEW h \in Hand, Hands, UNCHANGED <<reply, taken, excuses, engaged>>,
             \A g \in Hand \ {h} : hand'[g] = hand[g],
             hand'[h].verb # "approve" \/ hand'[h].step \notin {"call", "write"},
             hand[h].verb # "approve" \/ hand[h].step \notin {"call", "write"}
      PROVE  Drafts
  <2>1. \A a \in Action : Calling(a)' = Calling(a) /\ Approving(a)' = Approving(a)
    BY <1>o, NoCallTouched
  <2>2. Caused'
    BY <1>o, <1>i, <2>1, NoCauseNeeded DEF Open
  <2>3. WritesWhatWasTaken' /\ SentDraftWasTaken'
    BY <1>o, <1>i, DraftsStay
  <2> QED  BY <2>2, <2>3
<1>6. ASSUME NEW h \in Hand, NEW m \in Msg, OpenForm(h, m)  PROVE ClickInv'
  <2> DEFINE row == [Free EXCEPT !.step = "modal", !.verb = "revise", !.msg = m, !.action = shows[m]]
  <2>1. shows[m] \in Action /\ m \in 0 .. MaxMsgs /\ 0 \in Text
    BY <1>6, <1>t DEF OpenForm, Msg, Text
  <2>2. row \in HandRow /\ row.action = shows[m] /\ row.step = "modal" /\ row.verb = "revise"
    BY <2>1 DEF HandRow, Free, Verb
  <2>3. hand' = [hand EXCEPT ![h] = row] /\ hand[h].step = "free"
        /\ UNCHANGED <<reply, cardVars, sweeping, ledgerVars, daemonVars>>
    BY <1>6 DEF OpenForm, At
  <2> HIDE DEF row
  <2>4. Hands /\ hand'[h] = row /\ \A g \in Hand \ {h} : hand'[g] = hand[g]
    BY <1>i, <1>t, <2>1, <2>2, <2>3, HandMoves
  <2>5. Replies /\ Cards /\ Ledgers
    BY <1>t, <1>d, <2>3 DEF cardVars, ledgerVars
  <2>6. Drafts
    BY <1>o, <2>2, <2>3, <2>4 DEF ledgerVars
  <2> QED  BY <1>q, <2>4, <2>5, <2>6
<1>7. ASSUME NEW h \in Hand, NEW outcome \in {"done", "failed"}, Send(h, outcome)  PROVE ClickInv'
  <2> DEFINE row == [hand[h] EXCEPT !.step = "write", !.outcome = outcome]
             a == Of(h)
             more == [times |-> taken[a].times + 1, texts |-> taken[a].texts \cup {hand[h].text}]
  <2>1. /\ hand' = [hand EXCEPT ![h] = row] /\ hand[h].step = "call" /\ hand[h].verb = "approve"
        /\ UNCHANGED <<reply, cardVars, sweeping, processed, engaged, excuses, daemonVars>>
    BY <1>7 DEF Send, At
  <2>2. a \in Action /\ hand[h] \in HandRow /\ hand[h].text \in Text
    BY <1>i, <1>t, <2>1 DEF HandsOn, Of, HandRow
  <2>3. row \in HandRow /\ row.step = "write" /\ row.action = a /\ row.verb = "approve"
        /\ row.outcome = outcome /\ row.text = hand[h].text
    BY <2>1, <2>2 DEF HandRow, Of
  <2>4. taken[a].times \in Nat /\ taken[a].times + 1 \in Nat /\ taken[a].texts \subseteq Text
    BY <1>t, <2>2
  <2>5. taken' \in {[taken EXCEPT ![a] = more], taken}
    BY <1>7 DEF Send
  <2>6. outcome = "done" => taken' = [taken EXCEPT ![a] = more]
    BY <1>7 DEF Send
  <2> HIDE DEF row
  <2>7. Hands /\ hand'[h] = row /\ \A g \in Hand \ {h} : hand'[g] = hand[g]
    BY <1>i, <1>t, <2>1, <2>2, <2>3, HandMoves
  <2>8. /\ taken' \in [Action -> [times : Nat, texts : SUBSET Text]]
        /\ taken'[a] \in {taken[a], more} /\ \A b \in Action \ {a} : taken'[b] = taken[b]
    BY <1>t, <2>2, <2>4, <2>5
  <2>9. outcome = "done" => hand[h].text \in taken'[a].texts
    BY <1>t, <2>2, <2>6
  <2>10. \A b \in Action : taken[b].texts \subseteq taken'[b].texts
    BY <1>t, <2>8
  <2>11. taken'[a].times \in {taken[a].times, taken[a].times + 1}
    BY <2>8
  <2>12. Replies /\ Cards /\ Ledgers
    BY <1>t, <1>d, <2>1, <2>8 DEF cardVars
  <2>13. Caused'
    BY <1>i, <2>1, <2>3, <2>7, <2>8, <2>11, SendCaused DEF At
  <2>14. SentDraftWasTaken'
    BY <1>i, <2>1, <2>10 DEF SentDraftWasTaken
  <2>15. WritesWhatWasTaken'
    <3>1. ASSUME NEW g \in Hand, At(g, "write")', hand'[g].verb = "approve", hand'[g].outcome = "done"
          PROVE  hand'[g].text \in taken'[hand'[g].action].texts
      <4>1. CASE g = h
        BY <3>1, <4>1, <2>3, <2>7, <2>9
      <4>2. CASE g # h
        <5>1. hand[g].action \in Action /\ hand'[g] = hand[g]
          BY <3>1, <4>2, <2>7, <1>i DEF HandsOn, At
        <5>2. hand[g].text \in taken[hand[g].action].texts
          BY <3>1, <5>1, <1>i DEF WritesWhatWasTaken, At, Of
        <5> QED  BY <5>1, <5>2, <2>10
      <4> QED  BY <4>1, <4>2
    <3> QED  BY <3>1 DEF WritesWhatWasTaken, Of
  <2> QED  BY <1>q, <2>7, <2>12, <2>13, <2>14, <2>15
<1>8. ASSUME NEW h \in Hand, NEW outcome \in {"done", "failed"}, Redraft(h, outcome)  PROVE ClickInv'
  <2>1. /\ hand[h].step = "call" /\ hand[h].verb \in {"revise", "refine"}
        /\ UNCHANGED <<reply, cardVars, sweeping, ledgerVars, daemonVars>>
    BY <1>8 DEF Redraft, At
  <2>2. Hands /\ (\A g \in Hand \ {h} : hand'[g] = hand[g]) /\ hand'[h].verb # "approve"
    <3>1. CASE outcome = "done"
      <4> DEFINE row == [hand[h] EXCEPT !.step = "write"]
      <4>1. row \in HandRow /\ row.action \in Action /\ row.verb # "approve"
        BY <1>i, <1>t, <2>1 DEF HandsOn, HandRow
      <4>2. hand' = [hand EXCEPT ![h] = row]
        BY <1>8, <3>1 DEF Redraft
      <4> HIDE DEF row
      <4> QED  BY <1>i, <1>t, <4>1, <4>2, HandMoves
    <3>2. CASE outcome = "failed"
      BY <1>8, <1>i, <3>2, FreeMoves DEF Redraft
    <3> QED  BY <3>1, <3>2
  <2>3. Replies /\ Cards /\ Ledgers
    BY <1>t, <1>d, <2>1 DEF cardVars, ledgerVars
  <2>4. Drafts
    BY <1>o, <2>1, <2>2 DEF ledgerVars
  <2> QED  BY <1>q, <2>2, <2>3, <2>4
<1>9. ASSUME NEW h \in Hand, WriteSent(h)  PROVE ClickInv'
  <2> DEFINE a == Of(h)
             row == [reply[a] EXCEPT !.status = "sent", !.text = hand[h].text]
  <2>1. /\ hand[h].step = "write" /\ hand[h].verb = "approve" /\ hand[h].outcome = "done"
        /\ reply' = [reply EXCEPT ![a] = row] /\ Leaves(h, "delete")
        /\ processed' = processed \cup {a}
        /\ engaged' = IF reply[a].channel \in Counted THEN engaged \cup {a} ELSE engaged
        /\ UNCHANGED <<cardVars, sweeping, taken, excuses, daemonVars>>
    BY <1>9 DEF WriteSent, At
  <2>2. a \in Action /\ hand[h].text \in Text /\ hand[h].text \in taken[a].texts
    BY <1>i, <1>t, <2>1 DEF HandsOn, Of, HandRow, WritesWhatWasTaken, At
  <2>3. row \in ReplyRow /\ row.status = "sent" /\ row.text = hand[h].text
        /\ row.channel = reply[a].channel
    BY <1>t, <2>2 DEF ReplyRow
  <2> HIDE DEF row
  <2>4. Replies /\ reply'[a] = row /\ \A b \in Action \ {a} : reply'[b] = reply[b]
    BY <1>i, <2>1, <2>2, <2>3, ReplyWrites
  <2>5. Hands /\ (\A g \in Hand \ {h} : hand'[g] = hand[g]) /\ hand'[h].verb = "skip"
    BY <1>i, <2>1, LeavesMoves
  <2>6. Cards /\ Ledgers
    BY <1>t, <1>d, <2>1, <2>2 DEF cardVars
  <2>7. \A b \in Action : Calling(b)' = Calling(b) \ {h} /\ Approving(b)' = Approving(b) \ {h}
    BY <2>5, NoNewCall
  <2>8. Caused'
    <3>1. \A b \in Action \ {a} : h \notin Approving(b)
      BY DEF Approving
    <3>2. \A b \in Action : Open(b)' => Open(b) /\ b # a
      BY <2>3, <2>4 DEF Open
    <3>3. \A b \in Action : Open(b)' /\ Approving(b)' = {} => Open(b) /\ Approving(b) = {}
      BY <2>7, <3>1, <3>2
    <3> QED  BY <1>i, <2>1, <2>7, <3>3, NoCauseNeeded
  <2>9. WritesWhatWasTaken'
    BY <1>i, <2>1, <2>5 DEF WritesWhatWasTaken, At, Of
  <2>10. SentDraftWasTaken'
    BY <1>i, <2>1, <2>2, <2>3, <2>4 DEF SentDraftWasTaken
  <2> QED  BY <1>q, <2>4, <2>5, <2>6, <2>8, <2>9, <2>10
<1>10. ASSUME NEW h \in Hand, WriteError(h)  PROVE ClickInv'
  <2>1. /\ hand[h].step = "write" /\ hand[h].verb = "approve"
        /\ reply' = [reply EXCEPT ![Of(h)].status = "error"] /\ hand' = [hand EXCEPT ![h] = Free]
        /\ UNCHANGED <<cardVars, sweeping, ledgerVars, daemonVars>>
    BY <1>10 DEF WriteError, At
  <2>2. Of(h) \in Action
    BY <1>i, <2>1 DEF HandsOn, Of
  <2>3. Replies /\ reply'[Of(h)].status = "error" /\ \A b \in Action \ {Of(h)} : reply'[b] = reply[b]
    BY <1>i, <2>1, <2>2, StatusWrites
  <2>4. Hands /\ (\A g \in Hand \ {h} : hand'[g] = hand[g]) /\ hand'[h].verb = "skip"
    BY <1>i, <2>1, FreeMoves
  <2>5. Cards /\ Ledgers
    BY <1>t, <1>d, <2>1 DEF cardVars, ledgerVars
  <2>6. \A b \in Action : Calling(b)' = Calling(b) \ {h} /\ Approving(b)' = Approving(b) \ {h}
    BY <2>4, NoNewCall
  <2>7. Caused'
    <3>1. \A b \in Action \ {Of(h)} : h \notin Approving(b)
      BY DEF Approving
    <3>2. \A b \in Action : Open(b)' => Open(b) /\ b # Of(h)
      BY <2>3 DEF Open
    <3>3. \A b \in Action : Open(b)' /\ Approving(b)' = {} => Open(b) /\ Approving(b) = {}
      BY <2>6, <3>1, <3>2
    <3> QED  BY <1>i, <2>1, <2>6, <3>3, NoCauseNeeded DEF ledgerVars
  <2>8. WritesWhatWasTaken' /\ SentDraftWasTaken'
    BY <1>i, <2>1, <2>2, <2>3, <2>4, DraftsStay DEF ledgerVars
  <2> QED  BY <1>q, <2>3, <2>4, <2>5, <2>7, <2>8
<1>11. ASSUME NEW h \in Hand, WriteRejected(h)  PROVE ClickInv'
  <2>1. /\ hand[h].step = "write" /\ hand[h].verb = "skip" /\ Leaves(h, "delete")
        /\ reply' \in {reply, [reply EXCEPT ![Of(h)].status = "rejected"]}
        /\ processed' \in {processed, processed \cup {Of(h)}}
        /\ UNCHANGED <<cardVars, sweeping, engaged, taken, excuses, daemonVars>>
    BY <1>11 DEF WriteRejected, At
  <2>2. Of(h) \in Action
    BY <1>i, <2>1 DEF HandsOn, Of
  <2>3. Replies /\ \A b \in Action : reply'[b] = reply[b] \/ reply'[b].status = "rejected"
    <3>1. CASE reply' = reply
      BY <1>t, <3>1
    <3>2. CASE reply' = [reply EXCEPT ![Of(h)].status = "rejected"]
      BY <1>i, <2>2, <3>2, StatusWrites
    <3> QED  BY <2>1, <3>1, <3>2
  <2>4. Hands /\ (\A g \in Hand \ {h} : hand'[g] = hand[g]) /\ hand'[h].verb = "skip"
    BY <1>i, <2>1, LeavesMoves
  <2>5. Cards /\ Ledgers
    BY <1>t, <1>d, <2>1, <2>2 DEF cardVars
  <2>6. \A b \in Action : Calling(b)' = Calling(b) /\ Approving(b)' = Approving(b)
    BY <2>1, <2>4, NoCallTouched
  <2>7. Caused'
    <3>1. \A b \in Action : Open(b)' => Open(b)
      BY <2>3 DEF Open
    <3> QED  BY <1>i, <2>1, <2>6, <3>1, NoCauseNeeded
  <2>8. WritesWhatWasTaken' /\ SentDraftWasTaken'
    BY <1>i, <2>1, <2>3, <2>4, DraftsStay
  <2> QED  BY <1>q, <2>3, <2>4, <2>5, <2>7, <2>8
<1>12. ASSUME NEW h \in Hand, WriteRevised(h)  PROVE ClickInv'
  <2> DEFINE a == Of(h)
             row == [reply[a] EXCEPT !.status = "pending", !.made = reply[a].made + 1,
                                     !.text = reply[a].made + 1]
  <2>1. /\ hand[h].step = "write" /\ hand[h].verb \in {"revise", "refine"} /\ Leaves(h, "repost")
        /\ reply' = [reply EXCEPT ![a] = row] /\ reply[a].made < MaxTexts
        /\ Excused(IF reply[a].status # "pending" THEN {a} ELSE {})
        /\ UNCHANGED <<cardVars, sweeping, processed, engaged, taken, daemonVars>>
    BY <1>12 DEF WriteRevised, At
  <2>2. a \in Action
    BY <1>i, <2>1 DEF HandsOn, Of
  <2>3. reply[a].made + 1 \in Text /\ reply[a] \in ReplyRow
    BY <1>t, <2>1, <2>2 DEF ReplyRow, Text
  <2>4. row \in ReplyRow /\ row.status = "pending"
    BY <2>3 DEF ReplyRow
  <2> HIDE DEF row
  <2>5. Replies /\ reply'[a] = row /\ \A b \in Action \ {a} : reply'[b] = reply[b]
    BY <1>i, <2>1, <2>2, <2>4, ReplyWrites
  <2>6. Hands /\ (\A g \in Hand \ {h} : hand'[g] = hand[g]) /\ hand'[h].verb = "skip"
    BY <1>i, <2>1, LeavesMoves
  <2>7. excuses' \in [Action -> Nat]
    BY <1>i, <2>1, CauseGiven
  <2>8. Cards /\ Ledgers
    BY <1>t, <1>d, <2>1, <2>7 DEF cardVars
  <2>9. Caused'
    BY <1>12, <1>i, ReviseCaused
  <2>10. WritesWhatWasTaken' /\ SentDraftWasTaken'
    BY <1>i, <2>1, <2>4, <2>5, <2>6, DraftsStay
  <2> QED  BY <1>q, <2>5, <2>6, <2>8, <2>9, <2>10
<1>13. ASSUME NEW h \in Hand, Repost(h)  PROVE ClickInv'
  <2> DEFINE row == [reply[Of(h)] EXCEPT !.redrafts = @ + 1]
  <2>1. /\ hand[h].step = "repost" /\ reply' = [reply EXCEPT ![Of(h)] = row]
        /\ \/ PostCard(Of(h)) /\ Leaves(h, "delete")
           \/ UNCHANGED <<shows, posted>> /\ hand' = [hand EXCEPT ![h] = Free]
        /\ UNCHANGED <<raising, sweeping, ledgerVars, daemonVars>>
    BY <1>13 DEF Repost, At
  <2>2. Of(h) \in Action
    BY <1>i, <2>1 DEF HandsOn, Of
  <2>3. row \in ReplyRow /\ row.status = reply[Of(h)].status /\ row.text = reply[Of(h)].text
        /\ row.channel = reply[Of(h)].channel
    BY <1>t, <2>2 DEF ReplyRow
  <2> HIDE DEF row
  <2>4. Replies /\ reply'[Of(h)] = row /\ \A b \in Action \ {Of(h)} : reply'[b] = reply[b]
    BY <1>i, <2>1, <2>2, <2>3, ReplyWrites
  <2>5. /\ Hands /\ \A g \in Hand \ {h} : hand'[g] = hand[g]
        /\ hand'[h].verb = "skip"
    BY <1>i, <2>1, LeavesMoves, FreeMoves
  <2>6. Cards /\ Ledgers
    BY <1>t, <1>d, <1>p, <2>1, <2>2 DEF ledgerVars
  <2>7. \A b \in Action : Calling(b)' = Calling(b) /\ Approving(b)' = Approving(b)
    BY <2>1, <2>5, NoCallTouched
  <2>8. Caused'
    <3>1. \A b \in Action : Open(b)' <=> Open(b)
      BY <2>3, <2>4 DEF Open
    <3> QED  BY <1>i, <2>1, <2>7, <3>1, NoCauseNeeded DEF ledgerVars
  <2>9. WritesWhatWasTaken'
    BY <1>i, <2>1, <2>5 DEF WritesWhatWasTaken, At, Of, ledgerVars
  <2>10. SentDraftWasTaken'
    BY <1>i, <2>1, <2>3, <2>4 DEF SentDraftWasTaken, ledgerVars
  <2> QED  BY <1>q, <2>4, <2>5, <2>6, <2>8, <2>9, <2>10
<1>14. ASSUME NEW h \in Hand, DeleteCard(h)  PROVE ClickInv'
  <2>1. /\ hand[h].step = "delete" /\ hand' = [hand EXCEPT ![h] = Free]
        /\ shows' \in {shows, [shows EXCEPT ![hand[h].msg] = Nobody]}
        /\ UNCHANGED <<reply, raising, posted, sweeping, ledgerVars, daemonVars>>
    BY <1>14 DEF DeleteCard, At
  <2>2. Hands /\ (\A g \in Hand \ {h} : hand'[g] = hand[g]) /\ hand'[h].verb = "skip"
    BY <1>i, <2>1, FreeMoves
  <2>3. shows' \in [Msg -> Action \cup {Nobody}]
    BY <1>t, <2>1
  <2>4. Replies /\ Cards /\ Ledgers
    BY <1>t, <1>d, <2>1, <2>3 DEF ledgerVars
  <2>5. Drafts
    BY <1>o, <2>1, <2>2 DEF ledgerVars
  <2> QED  BY <1>q, <2>2, <2>4, <2>5
<1>15. CASE Ready \/ (\E m \in Msg : SweepLook(m) \/ SweepDelete(m)) \/ UNCHANGED allClickVars
  <2>1. UNCHANGED <<reply, raising, posted, hand, ledgerVars, daemonVars>>
    BY <1>15 DEF Ready, SweepLook, SweepDelete, cardVars, allClickVars, clickVars
  <2>2. /\ shows' \in [Msg -> Action \cup {Nobody}]
        /\ sweeping' \in [todo : SUBSET Msg, stale : 0 .. MaxMsgs]
    <3>1. CASE Ready
      BY <1>t, <3>1 DEF Ready, cardVars
    <3>2. ASSUME NEW m \in Msg, SweepLook(m)
          PROVE  /\ shows' \in [Msg -> Action \cup {Nobody}]
                 /\ sweeping' \in [todo : SUBSET Msg, stale : 0 .. MaxMsgs]
      BY <1>t, <3>2 DEF SweepLook, cardVars, Msg
    <3>3. ASSUME NEW m \in Msg, SweepDelete(m)
          PROVE  /\ shows' \in [Msg -> Action \cup {Nobody}]
                 /\ sweeping' \in [todo : SUBSET Msg, stale : 0 .. MaxMsgs]
      BY <1>t, <3>3 DEF SweepDelete
    <3>4. CASE UNCHANGED allClickVars
      BY <1>t, <3>4 DEF allClickVars, clickVars, cardVars
    <3> QED  BY <1>15, <3>1, <3>2, <3>3, <3>4
  <2>3. Replies /\ Hands /\ Cards /\ Ledgers
    BY <1>i, <1>t, <1>d, <2>1, <2>2 DEF ledgerVars, HandsOn
  <2>4. Caused'
    <3>1. \A b \in Action : Calling(b)' = Calling(b) /\ Approving(b)' = Approving(b)
                            /\ (Open(b)' <=> Open(b))
      BY <2>1 DEF Calling, Approving, Of, Open
    <3> QED  BY <1>i, <2>1, <3>1, NoCauseNeeded DEF ledgerVars
  <2>5. WritesWhatWasTaken' /\ SentDraftWasTaken'
    BY <1>i, <2>1, DraftsStay DEF ledgerVars
  <2> QED  BY <1>q, <2>3, <2>4, <2>5
<1>16. CASE ClickRestart
  <2>1. /\ hand' = [h \in Hand |-> Free] /\ sweeping' = Swept /\ Restarts
        /\ Excused({a \in Action : Approving(a) # {}})
        /\ UNCHANGED <<reply, cardVars, processed, engaged, taken>>
    BY <1>16 DEF ClickRestart
  <2>2. 0 \in Text /\ 0 \in 0 .. MaxMsgs
    BY <1>t DEF Text
  <2>3. Free \in HandRow /\ Free.step = "free"
    BY <2>2 DEF HandRow, Free, Verb
  <2>4. Hands /\ \A h \in Hand : hand'[h].step = "free"
    BY <2>1, <2>3 DEF HandsOn
  <2>5. excuses' \in [Action -> Nat] /\ DaemonTypes'
    BY <1>i, <2>1, CauseGiven, DaemonAssumption DEF Restarts, DaemonTypes
  <2>6. Replies /\ Cards /\ Ledgers
    BY <1>t, <2>1, <2>2, <2>5 DEF cardVars, Swept
  <2>7. Caused'
    BY <1>16, <1>i, RestartCaused
  <2>8. WritesWhatWasTaken' /\ SentDraftWasTaken'
    BY <1>i, <2>1, <2>4, DraftsStay
  <2> QED  BY <1>q, <2>4, <2>6, <2>7, <2>8
<1> QED
  BY <1>1, <1>2, <1>4, <1>5, <1>6, <1>7, <1>8, <1>9, <1>10, <1>11, <1>12, <1>13, <1>14, <1>15, <1>16
     DEF ClickNext, HandStep

-----------------------------------------------------------------------------
(* Theorems. *)

(* Rows, cards, clicks and the ledgers keep their types.                   *)
THEOREM ClickTypesHold == ClickSpec => []ClickTypes
<1>1. ClickInv => ClickTypes
  BY DEF ClickInv
<1> QED  BY <1>1, InitClicks, StepClicks, PTL DEF ClickSpec

(* A platform takes a reply once, and once more for each cause: another    *)
(* approval under way at a click's load, a revision that reopened the row, *)
(* the daemon's death before the answer was written.                       *)
THEOREM SendsHaveACause == ClickSpec => []TakenAgainForACause
<1>1. ClickInv => TakenAgainForACause
  <2> SUFFICES ASSUME ClickInv, NEW a \in Action PROVE taken[a].times <= 1 + excuses[a]
    BY DEF TakenAgainForACause
  <2>1. /\ Cardinality(Calling(a)) \in Nat /\ taken[a].times \in Nat /\ excuses[a] \in Nat
        /\ taken[a].times + Cardinality(Calling(a)) <= 1 + excuses[a]
    BY FS_CardinalityType DEF ClickInv, Caused, ClickTypes
  <2> QED  BY <2>1
<1> QED  BY <1>1, InitClicks, StepClicks, PTL DEF ClickSpec

(* A row that says `sent` holds a draft its platform took.                 *)
THEOREM SentDraftsWereTaken == ClickSpec => []SentDraftWasTaken
<1>1. ClickInv => SentDraftWasTaken
  BY DEF ClickInv
<1> QED  BY <1>1, InitClicks, StepClicks, PTL DEF ClickSpec

(* A resolved row nothing has in hand is not touched by a step.            *)
LEMMA StepLeavesAlone ==
  ASSUME ClickTypes, HandsOn, ClickNext, NEW a \in Action, LeftAlone(a)
  PROVE  LeftAlone(a)' /\ reply'[a] = reply[a] /\ taken'[a] = taken[a]
<1> DEFINE Goal == LeftAlone(a)' /\ reply'[a] = reply[a] /\ taken'[a] = taken[a]
           Clear(g) == hand'[g].action = a => hand'[g].step \in {"modal", "delete"}
<1>a. /\ reply[a].status \in {"sent", "rejected", "error"} /\ a \notin raising
      /\ \A h \in Hand : hand[h].action = a => hand[h].step \in {"modal", "delete"}
  BY DEF LeftAlone, Of
<1>q. ASSUME reply'[a] = reply[a], taken'[a] = taken[a], raising' \subseteq raising,
             \A g \in Hand : Clear(g)
      PROVE  Goal
  BY <1>a, <1>q DEF LeftAlone, Of
<1>w. ASSUME NEW h \in Hand, hand[h].step \notin {"free", "modal", "delete"}
      PROVE  Of(h) # a /\ Of(h) \in Action
  BY <1>a, <1>w DEF HandsOn, Of
<1>1. ASSUME NEW b \in Action, LogPending(b) \/ RaiseCard(b) \/ RaiseFails(b) \/ CarouselCard(b)
      PROVE  Goal
  <2>1. taken' = taken /\ hand' = hand /\ raising' \subseteq raising \cup {b}
    BY <1>1 DEF LogPending, RaiseCard, RaiseFails, CarouselCard, ledgerVars
  <2>2. CASE LogPending(b)
    <3>1. b # a /\ a \notin raising' /\ reply' = [reply EXCEPT ![b].status = "pending"]
      BY <1>a, <2>2 DEF LogPending
    <3>2. reply'[a] = reply[a]
      BY <3>1, StatusWrites
    <3> QED  BY <1>a, <2>1, <3>1, <3>2 DEF LeftAlone, Of
  <2>3. CASE RaiseCard(b)
    BY <1>a, <1>q, <2>1, <2>3 DEF RaiseCard
  <2>4. CASE RaiseFails(b)
    <3>1. b # a /\ raising' \subseteq raising /\ reply' = [reply EXCEPT ![b].status = "error"]
      BY <1>a, <2>4 DEF RaiseFails
    <3>2. reply'[a] = reply[a]
      BY <3>1, StatusWrites
    <3> QED  BY <1>a, <1>q, <2>1, <3>1, <3>2
  <2>5. CASE CarouselCard(b)
    BY <1>a, <1>q, <2>1, <2>5 DEF CarouselCard
  <2> QED  BY <1>1, <2>2, <2>3, <2>4, <2>5
<1>l. ASSUME NEW h \in Hand, NEW verb \in Verb, NEW m \in 0 .. MaxMsgs, NEW b \in Action,
             LoadRow(h, verb, m, b), UNCHANGED <<reply, cardVars, taken>>
      PROVE  Goal
  <2>1. /\ \A g \in Hand \ {h} : hand'[g] = hand[g]
        /\ hand'[h].action = b /\ (hand'[h].step # "delete" => reply[b].status = "pending")
    BY <1>l, LoadMoves
  <2>2. Clear(h)
    BY <1>a, <2>1
  <2>3. \A g \in Hand : Clear(g)
    BY <1>a, <2>1, <2>2
  <2> QED  BY <1>l, <1>q, <2>3 DEF cardVars
<1>2. ASSUME NEW h \in Hand, NEW m \in Msg, NEW verb \in Verb, Click(h, verb, m)  PROVE Goal
  <2>1. shows[m] \in Action /\ m \in 0 .. MaxMsgs
    BY <1>2, ClickAssumption DEF Click, Msg, ClickTypes
  <2> QED  BY <1>l, <1>2, <2>1 DEF Click
<1>3. ASSUME NEW h \in Hand, SubmitForm(h)  PROVE Goal
  <2>1. Of(h) \in Action /\ hand[h].msg \in 0 .. MaxMsgs
    BY <1>3 DEF SubmitForm, At, HandsOn, Of, ClickTypes
  <2>2. "revise" \in Verb
    BY DEF Verb
  <2> QED  BY <1>l, <1>3, <2>1, <2>2 DEF SubmitForm
<1>4. ASSUME NEW h \in Hand, NEW m \in Msg, OpenForm(h, m)  PROVE Goal
  <2>1. UNCHANGED <<reply, raising, taken>> /\ hand'[h].step = "modal"
        /\ \A g \in Hand \ {h} : hand'[g] = hand[g]
    BY <1>4 DEF OpenForm, Free, ClickTypes, cardVars, ledgerVars
  <2> QED  BY <1>a, <1>q, <2>1
<1>m. ASSUME NEW h \in Hand, \A g \in Hand \ {h} : hand'[g] = hand[g],
             Clear(h), UNCHANGED <<raising>>, reply'[a] = reply[a], taken'[a] = taken[a]
      PROVE  Goal
  <2>1. \A g \in Hand : Clear(g)
    BY <1>a, <1>m
  <2> QED  BY <1>q, <1>m, <2>1
<1>5. ASSUME NEW h \in Hand, NEW outcome \in {"done", "failed"}, Send(h, outcome)  PROVE Goal
  <2>1. Of(h) # a
    BY <1>5, <1>w DEF Send, At
  <2>2. /\ \A g \in Hand \ {h} : hand'[g] = hand[g]
        /\ hand'[h].action = Of(h) /\ UNCHANGED <<raising, reply>>
    BY <1>5 DEF Send, ClickTypes, Of, cardVars
  <2>3. taken'[a] = taken[a]
    BY <1>5, <2>1 DEF Send, ClickTypes
  <2> QED  BY <1>m, <2>1, <2>2, <2>3
<1>6. ASSUME NEW h \in Hand, NEW outcome \in {"done", "failed"}, Redraft(h, outcome)  PROVE Goal
  <2>1. Of(h) # a /\ UNCHANGED <<raising, reply, taken>>
    BY <1>6, <1>w DEF Redraft, At, cardVars, ledgerVars
  <2>2. hand'[h].action \in {Of(h), Nobody} /\ \A g \in Hand \ {h} : hand'[g] = hand[g]
    BY <1>6 DEF Redraft, ClickTypes, Of, Free
  <2>3. Clear(h)
    BY <2>1, <2>2, ClickAssumption
  <2> QED  BY <1>m, <2>1, <2>2, <2>3
<1>7. ASSUME NEW h \in Hand, WriteSent(h) \/ WriteRejected(h) \/ WriteRevised(h)  PROVE Goal
  <2>1. /\ hand[h].step = "write" /\ UNCHANGED <<raising, taken>>
        /\ Leaves(h, "delete") \/ Leaves(h, "repost")
    BY <1>7 DEF WriteSent, WriteRejected, WriteRevised, At, cardVars
  <2>2. Of(h) # a /\ Of(h) \in Action
    BY <1>w, <2>1
  <2>3. hand'[h].action = Of(h) /\ \A g \in Hand \ {h} : hand'[g] = hand[g]
    BY <2>1, LeavesMoves
  <2>4. reply'[a] = reply[a]
    <3>1. CASE WriteSent(h)
      BY <2>2, <3>1 DEF WriteSent, ClickTypes
    <3>2. CASE WriteRejected(h)
      BY <2>2, <3>2 DEF WriteRejected, ClickTypes
    <3>3. CASE WriteRevised(h)
      BY <2>2, <3>3 DEF WriteRevised, ClickTypes
    <3> QED  BY <1>7, <3>1, <3>2, <3>3
  <2> QED  BY <1>m, <2>1, <2>2, <2>3, <2>4
<1>8. ASSUME NEW h \in Hand, WriteError(h)  PROVE Goal
  <2>1. Of(h) # a /\ hand' = [hand EXCEPT ![h] = Free] /\ UNCHANGED <<raising, taken>>
        /\ reply' = [reply EXCEPT ![Of(h)].status = "error"]
    BY <1>8, <1>w DEF WriteError, At, cardVars, ledgerVars
  <2>2. hand'[h].action # a /\ \A g \in Hand \ {h} : hand'[g] = hand[g]
    BY <2>1, FreeMoves, ClickAssumption
  <2>3. reply'[a] = reply[a]
    BY <2>1 DEF ClickTypes
  <2> QED  BY <1>m, <2>1, <2>2, <2>3
<1>9. ASSUME NEW h \in Hand, Repost(h)  PROVE Goal
  <2>1. /\ hand[h].step = "repost" /\ UNCHANGED <<raising, taken>>
        /\ Leaves(h, "delete") \/ hand' = [hand EXCEPT ![h] = Free]
        /\ reply' = [reply EXCEPT ![Of(h)].redrafts = @ + 1]
    BY <1>9 DEF Repost, At, ledgerVars
  <2>2. Of(h) # a
    BY <1>w, <2>1
  <2>3. hand'[h].action # a /\ \A g \in Hand \ {h} : hand'[g] = hand[g]
    BY <2>1, <2>2, LeavesMoves, FreeMoves, ClickAssumption
  <2>4. reply'[a] = reply[a]
    BY <2>1, <2>2 DEF ClickTypes
  <2> QED  BY <1>m, <2>1, <2>3, <2>4
<1>10. ASSUME NEW h \in Hand, DeleteCard(h)  PROVE Goal
  <2>1. hand' = [hand EXCEPT ![h] = Free] /\ UNCHANGED <<reply, raising, taken>>
    BY <1>10 DEF DeleteCard, ledgerVars
  <2>2. hand'[h].action # a /\ \A g \in Hand \ {h} : hand'[g] = hand[g]
    BY <2>1, FreeMoves, ClickAssumption
  <2> QED  BY <1>m, <2>1, <2>2
<1>11. CASE Ready \/ \E m \in Msg : SweepLook(m) \/ SweepDelete(m)
  <2>1. UNCHANGED <<reply, raising, hand, taken>>
    BY <1>11 DEF Ready, SweepLook, SweepDelete, cardVars, ledgerVars
  <2> QED  BY <1>a, <1>q, <2>1
<1>12. CASE ClickRestart
  <2>1. UNCHANGED <<reply, raising, taken>> /\ \A g \in Hand : hand'[g].action = Nobody
    BY <1>12 DEF ClickRestart, cardVars, Free
  <2> QED  BY <1>q, <2>1, ClickAssumption
<1> QED
  BY <1>1, <1>2, <1>3, <1>4, <1>5, <1>6, <1>7, <1>8, <1>9, <1>10, <1>11, <1>12
     DEF ClickNext, HandStep

(* Stale cards, open forms and clicks never take a resolved row up again.  *)
THEOREM ResolvedRowsStay == ClickSpec => ResolvedStays
<1>1. ClickInv /\ [ClickNext]_allClickVars
        => [\A a \in Action : LeftAlone(a) =>
               LeftAlone(a)' /\ reply'[a] = reply[a] /\ taken'[a] = taken[a]]_allClickVars
  <2> SUFFICES ASSUME ClickInv, ClickNext, NEW a \in Action, LeftAlone(a)
               PROVE  LeftAlone(a)' /\ reply'[a] = reply[a] /\ taken'[a] = taken[a]
    OBVIOUS
  <2> QED  BY StepLeavesAlone DEF ClickInv
<1>2. ClickSpec => []ClickInv
  BY InitClicks, StepClicks, PTL DEF ClickSpec
<1> QED  BY <1>1, <1>2, PTL DEF ClickSpec, ResolvedStays

-----------------------------------------------------------------------------
(* The clicks implement CardPromise.                                       *)

\* The status of no action changes, no work, and nothing is taken.
SameStatus == \A a \in Action : reply'[a].status = reply[a].status
SameWork == \A h \in Hand : Work(h)' = Work(h)
SameTaken == \A a \in Action : taken'[a].times = taken[a].times

WorkType == {Offered!Idle} \cup [doing : Offered!Starts \cup Offered!Answers, on : Action]

\* A step that shows in nothing the promise speaks of.
LEMMA UnseenByCards ==
  ASSUME SameStatus, SameWork, SameTaken, UNCHANGED raising
  PROVE  UNCHANGED Offered!vars
  BY DEF SameStatus, SameWork, SameTaken, Offered!vars

\* What a click has in hand.
LEMMA WorkTypes ==
  ASSUME ClickTypes, HandsOn, NEW h \in Hand
  PROVE  /\ Work(h) \in WorkType
         /\ Doing(h) = "idle" <=> hand[h].step \notin {"call", "write"}
         /\ Work(h).doing = Doing(h) /\ (Doing(h) # "idle" => Work(h).on = Of(h) /\ Of(h) \in Action)
         /\ Doing(h) = "idle" => Work(h) = Offered!Idle
<1>1. hand[h].step \in {"call", "write"} => Of(h) \in Action
  BY DEF HandsOn, Of
<1>2. Doing(h) \in {"idle"} \cup Offered!Starts \cup Offered!Answers
  BY DEF Doing, Offered!Starts, Offered!Answers
<1>3. Doing(h) = "idle" <=> hand[h].step \notin {"call", "write"}
  BY DEF Doing
<1> QED  BY <1>1, <1>2, <1>3 DEF Work, WorkType, Offered!Idle, Offered!Starts, Offered!Answers

\* The work of the other clicks is as it was.
LEMMA OtherWork ==
  ASSUME NEW h \in Hand, \A g \in Hand \ {h} : hand'[g] = hand[g]
  PROVE  \A g \in Hand \ {h} : Work(g)' = Work(g)
  BY DEF Work, Doing, Of

\* Work starts on an action that is open.
LEMMA StartRefines ==
  ASSUME NEW h \in Hand, NEW a \in Action, NEW doing \in Offered!Starts,
         Work(h) = Offered!Idle, reply[a].status = "pending",
         \A g \in Hand \ {h} : hand'[g] = hand[g], Work(h)' = [doing |-> doing, on |-> a],
         SameStatus, SameTaken, UNCHANGED raising
  PROVE  Offered!Next
<1>1. \A g \in Hand \ {h} : Work(g)' = Work(g)
  BY OtherWork
<1>2. Offered!Start(h)
  BY <1>1 DEF Offered!Start, SameStatus, SameTaken
<1> QED  BY <1>2 DEF Offered!Next

\* The platform answers.
LEMMA AnswerRefines ==
  ASSUME ClickTypes, HandsOn, NEW h \in Hand, NEW answer \in Offered!Answers,
         Doing(h) = "asking",
         \A g \in Hand \ {h} : hand'[g] = hand[g], Work(h)' = [doing |-> answer, on |-> Of(h)],
         NEW took \in {answer = "accepted", TRUE},
         taken'[Of(h)].times = IF took THEN taken[Of(h)].times + 1 ELSE taken[Of(h)].times,
         \A a \in Action \ {Of(h)} : taken'[a] = taken[a],
         SameStatus, UNCHANGED raising
  PROVE  Offered!Next
<1>1. \A g \in Hand \ {h} : Work(g)' = Work(g)
  BY OtherWork
<1>2. Work(h) = [doing |-> "asking", on |-> Of(h)] /\ Of(h) \in Action
  BY WorkTypes DEF Work
<1> DEFINE work == [g \in Hand |-> Work(g)]
           out == [a \in Action |-> taken[a].times]
<1>3. work' = [work EXCEPT ![h].doing = answer]
  <2>1. [Work(h) EXCEPT !.doing = answer] = [doing |-> answer, on |-> Of(h)]
    BY <1>2
  <2>2. [work EXCEPT ![h].doing = answer] = [work EXCEPT ![h] = [doing |-> answer, on |-> Of(h)]]
    BY <2>1
  <2> QED  BY <1>1, <2>2
<1>4. out' = [out EXCEPT ![Of(h)] = IF took THEN @ + 1 ELSE @]
  BY <1>2
<1>5. work[h].doing = "asking" /\ work[h].on = Of(h)
  BY <1>2
<1>6. UNCHANGED <<[a \in Action |-> reply[a].status], raising>>
  BY DEF SameStatus
<1>7. Offered!Answer(h)
  BY <1>3, <1>4, <1>5, <1>6 DEF Offered!Answer
<1> QED  BY <1>7 DEF Offered!Next

\* Work is finished, by what it writes.
LEMMA FinishRefines ==
  ASSUME ClickTypes, HandsOn, NEW h \in Hand,
         Doing(h) \in {"accepted", "refused", "skipping", "redrafting"},
         \A g \in Hand \ {h} : hand'[g] = hand[g], hand'[h].step \notin {"call", "write"},
         reply'[Of(h)].status = Offered!Outcome[Doing(h)],
         \A a \in Action \ {Of(h)} : reply'[a] = reply[a],
         SameTaken, UNCHANGED raising
  PROVE  Offered!Next
<1>1. \A g \in Hand \ {h} : Work(g)' = Work(g)
  BY OtherWork
<1>2. Work(h)' = Offered!Idle
  BY DEF Work, Doing, Offered!Idle
<1>3. Work(h).doing = Doing(h) /\ Work(h).on = Of(h) /\ Of(h) \in Action
  BY WorkTypes
<1> DEFINE work == [g \in Hand |-> Work(g)]
           status == [a \in Action |-> reply[a].status]
<1>4. work' = [work EXCEPT ![h] = Offered!Idle]
  BY <1>1, <1>2
<1>5. status' = [status EXCEPT ![Of(h)] = Offered!Outcome[Doing(h)]]
  BY <1>3
<1>6. UNCHANGED <<raising, [a \in Action |-> taken[a].times]>>
  BY DEF SameTaken
<1>7. Offered!Finish(h)
  BY <1>3, <1>4, <1>5, <1>6 DEF Offered!Finish, Offered!Put, Offered!Outcome
<1> QED  BY <1>7 DEF Offered!Next

\* Work is given up.
LEMMA GiveUpRefines ==
  ASSUME ClickTypes, HandsOn, NEW h \in Hand,
         \/ Doing(h) = "redrafting"
         \/ Doing(h) = "skipping" /\ reply[Of(h)].status # "pending",
         \A g \in Hand \ {h} : hand'[g] = hand[g], hand'[h].step \notin {"call", "write"},
         SameStatus, SameTaken, UNCHANGED raising
  PROVE  Offered!Next
<1>1. \A g \in Hand \ {h} : Work(g)' = Work(g)
  BY OtherWork
<1>2. Work(h)' = Offered!Idle
  BY DEF Work, Doing, Offered!Idle
<1>3. Work(h).doing = Doing(h) /\ Work(h).on = Of(h) /\ Of(h) \in Action
  BY WorkTypes
<1>4. [g \in Hand |-> Work(g)]' = [[g \in Hand |-> Work(g)] EXCEPT ![h] = Offered!Idle]
  BY <1>1, <1>2
<1>5. UNCHANGED <<[a \in Action |-> reply[a].status], raising, [a \in Action |-> taken[a].times]>>
  BY DEF SameStatus, SameTaken
<1>6. Offered!GiveUp(h)
  BY <1>3, <1>4, <1>5 DEF Offered!GiveUp
<1> QED  BY <1>6 DEF Offered!Next

\* A step of one click that has no work, and that gives it none.
LEMMA NoWork ==
  ASSUME NEW h \in Hand, \A g \in Hand \ {h} : hand'[g] = hand[g],
         hand[h].step \notin {"call", "write"}, hand'[h].step \notin {"call", "write"}
  PROVE  SameWork
<1>1. \A g \in Hand \ {h} : Work(g)' = Work(g)
  BY OtherWork
<1>2. Work(h)' = Work(h)
  BY DEF Work, Doing
<1> QED  BY <1>1, <1>2 DEF SameWork

\* Nobody has anything in hand before the first click.
LEMMA InitOffered == DaemonInit /\ ClickInit => Offered!Init
<1> SUFFICES ASSUME ClickInit  PROVE Offered!Init
  OBVIOUS
<1>1. \A h \in Hand : Work(h) = Offered!Idle
  BY DEF ClickInit, Work, Doing, Free, Offered!Idle
<1>2. \A a \in Action : reply[a].status = "none" /\ taken[a].times = 0
  BY DEF ClickInit
<1> QED  BY <1>1, <1>2 DEF ClickInit, Offered!Init

\* A load starts work on an open action, or leaves the click without any.
LEMMA LoadRefines ==
  ASSUME ClickTypes, HandsOn, NEW h \in Hand, NEW verb \in Verb, NEW m \in 0 .. MaxMsgs,
         NEW a \in Action, LoadRow(h, verb, m, a), hand[h].step \in {"free", "modal"},
         UNCHANGED <<reply, raising, taken>>
  PROVE  Offered!Next \/ UNCHANGED Offered!vars
<1>1. /\ \A g \in Hand \ {h} : hand'[g] = hand[g]
      /\ hand'[h].action = a /\ hand'[h].step \in {"delete", "write", "call"}
      /\ hand'[h].verb = (IF hand'[h].step = "delete" THEN "skip" ELSE verb)
      /\ hand'[h].step # "delete" => reply[a].status = "pending"
      /\ hand'[h].step = "write" => verb = "skip"
  BY LoadMoves
<1>2. SameStatus /\ SameTaken
  BY DEF SameStatus, SameTaken
<1>3. CASE hand'[h].step = "delete"
  <2>1. SameWork
    BY <1>1, <1>3, NoWork
  <2> QED  BY <1>2, <2>1, UnseenByCards
<1>4. CASE hand'[h].step # "delete"
  <2> DEFINE doing == IF verb = "skip" THEN "skipping"
                      ELSE IF verb = "approve" THEN "asking" ELSE "redrafting"
  <2>1. Doing(h)' = doing /\ doing # "idle" /\ doing \in Offered!Starts
    BY <1>1, <1>4 DEF Doing, Offered!Starts
  <2>2. Work(h)' = [doing |-> doing, on |-> a]
    BY <1>1, <2>1 DEF Work, Of
  <2>3. Work(h) = Offered!Idle
    BY WorkTypes
  <2> HIDE DEF doing
  <2> QED  BY <1>1, <1>2, <1>4, <2>1, <2>2, <2>3, StartRefines
<1> QED  BY <1>3, <1>4

\* A step of a card, a click or a sweep is one of CardPromise.
LEMMA StepOffered ==
  ASSUME ClickTypes, HandsOn, ClickNext  PROVE Offered!Next \/ UNCHANGED Offered!vars
<1> DEFINE Goal == Offered!Next \/ UNCHANGED Offered!vars
           status == [a \in Action |-> reply[a].status]
<1>h. ASSUME hand' = hand  PROVE SameWork
  BY <1>h DEF SameWork, Work, Doing, Of
<1>t. ASSUME taken' = taken  PROVE SameTaken
  BY <1>t DEF SameTaken
<1>s. ASSUME reply' = reply  PROVE SameStatus
  BY <1>s DEF SameStatus
<1>1. ASSUME NEW a \in Action, LogPending(a)  PROVE Goal
  <2>1. /\ reply[a].status = "none" /\ reply' = [reply EXCEPT ![a].status = "pending"]
        /\ raising' = raising \cup {a} /\ hand' = hand /\ taken' = taken
    BY <1>1 DEF LogPending, ledgerVars
  <2>2. status' = [status EXCEPT ![a] = "pending"] /\ status[a] = "none"
    BY <2>1 DEF ClickTypes
  <2>3. UNCHANGED <<[h \in Hand |-> Work(h)], [b \in Action |-> taken[b].times]>>
    BY <1>h, <1>t, <2>1 DEF SameWork, SameTaken
  <2>4. Offered!Compose(a)
    BY <2>1, <2>2, <2>3 DEF Offered!Compose, Offered!Put
  <2> QED  BY <2>4 DEF Offered!Next
<1>2. ASSUME NEW a \in Action, RaiseCard(a) \/ RaiseFails(a)  PROVE Goal
  <2>1. a \in raising /\ raising' = raising \ {a} /\ hand' = hand /\ taken' = taken
    BY <1>2 DEF RaiseCard, RaiseFails, ledgerVars
  <2>2. status' = status \/ status' = [status EXCEPT ![a] = "error"]
    <3>1. reply' = reply \/ reply' = [reply EXCEPT ![a].status = "error"]
      BY <1>2 DEF RaiseCard, RaiseFails
    <3>2. CASE reply' = [reply EXCEPT ![a].status = "error"]
      <4>1. reply'[a].status = "error" /\ \A b \in Action \ {a} : reply'[b] = reply[b]
        BY <3>2, StatusWrites
      <4> QED  BY <4>1
    <3> QED  BY <3>1, <3>2
  <2>3. UNCHANGED <<[h \in Hand |-> Work(h)], [b \in Action |-> taken[b].times]>>
    BY <1>h, <1>t, <2>1 DEF SameWork, SameTaken
  <2>4. Offered!Raise(a)
    BY <2>1, <2>2, <2>3 DEF Offered!Raise, Offered!Put
  <2> QED  BY <2>4 DEF Offered!Next
<1>3. ASSUME NEW a \in Action, CarouselCard(a)  PROVE Goal
  BY <1>3, <1>h, <1>t, <1>s, UnseenByCards DEF CarouselCard, ledgerVars
<1>4. ASSUME NEW h \in Hand, NEW m \in Msg, NEW verb \in Verb, Click(h, verb, m)  PROVE Goal
  <2>1. shows[m] \in Action /\ m \in 0 .. MaxMsgs
    BY <1>4, ClickAssumption DEF Click, Msg, ClickTypes
  <2> QED  BY <1>4, <2>1, LoadRefines DEF Click, At, cardVars
<1>5. ASSUME NEW h \in Hand, SubmitForm(h)  PROVE Goal
  <2>1. Of(h) \in Action /\ hand[h].msg \in 0 .. MaxMsgs
    BY <1>5 DEF SubmitForm, At, HandsOn, Of, ClickTypes
  <2>2. "revise" \in Verb
    BY DEF Verb
  <2> QED  BY <1>5, <2>1, <2>2, LoadRefines DEF SubmitForm, At, cardVars
<1>6. ASSUME NEW h \in Hand, NEW m \in Msg, OpenForm(h, m)  PROVE Goal
  <2>1. hand[h].step = "free" /\ hand'[h].step = "modal" /\ \A g \in Hand \ {h} : hand'[g] = hand[g]
    BY <1>6 DEF OpenForm, At, Free, ClickTypes
  <2>2. SameWork
    BY <2>1, NoWork
  <2> QED  BY <1>6, <1>s, <1>t, <2>2, UnseenByCards DEF OpenForm, cardVars, ledgerVars
<1>7. ASSUME NEW h \in Hand, NEW outcome \in {"done", "failed"}, Send(h, outcome)  PROVE Goal
  <2> DEFINE answer == IF outcome = "done" THEN "accepted" ELSE "refused"
  <2>1. /\ hand[h].step = "call" /\ hand[h].verb = "approve" /\ UNCHANGED <<reply, raising>>
        /\ Of(h) \in Action
    BY <1>7 DEF Send, At, cardVars, HandsOn, Of
  <2>2. /\ \A g \in Hand \ {h} : hand'[g] = hand[g]
        /\ hand'[h].action = Of(h) /\ hand'[h].step = "write" /\ hand'[h].verb = "approve"
        /\ hand'[h].outcome = outcome
    BY <1>7, <2>1 DEF Send, ClickTypes, Of
  <2>3. PICK took \in {outcome = "done", TRUE} :
           taken' = IF took THEN [taken EXCEPT ![Of(h)] = [times |-> taken[Of(h)].times + 1,
                                                           texts |-> taken[Of(h)].texts \cup {hand[h].text}]]
                    ELSE taken
    BY <1>7 DEF Send
  <2>4. /\ taken'[Of(h)].times = IF took THEN taken[Of(h)].times + 1 ELSE taken[Of(h)].times
        /\ \A a \in Action \ {Of(h)} : taken'[a] = taken[a]
    BY <2>1, <2>3 DEF ClickTypes
  <2>5. Doing(h) = "asking" /\ Doing(h)' = answer
    BY <2>1, <2>2 DEF Doing
  <2>6. Work(h)' = [doing |-> answer, on |-> Of(h)]
    BY <2>2, <2>5 DEF Work, Of
  <2>7. answer \in Offered!Answers /\ took \in {answer = "accepted", TRUE}
    BY DEF Offered!Answers
  <2>8. SameStatus
    BY <1>s, <2>1
  <2> HIDE DEF answer
  <2> QED  BY <2>1, <2>2, <2>4, <2>5, <2>6, <2>7, <2>8, AnswerRefines
<1>8. ASSUME NEW h \in Hand, NEW outcome \in {"done", "failed"}, Redraft(h, outcome)  PROVE Goal
  <2>1. /\ hand[h].step = "call" /\ hand[h].verb \in {"revise", "refine"}
        /\ UNCHANGED <<reply, raising, taken>>
    BY <1>8 DEF Redraft, At, cardVars, ledgerVars
  <2>2. SameStatus /\ SameTaken /\ Doing(h) = "redrafting"
    BY <1>s, <1>t, <2>1 DEF Doing
  <2>3. CASE outcome = "done"
    <3>1. /\ \A g \in Hand \ {h} : hand'[g] = hand[g]
          /\ hand'[h].action = Of(h) /\ hand'[h].step = "write" /\ hand'[h].verb = hand[h].verb
      BY <1>8, <2>3 DEF Redraft, ClickTypes, Of
    <3>2. Work(h)' = Work(h)
      BY <2>1, <3>1 DEF Work, Doing, Of
    <3>3. SameWork
      BY <3>1, <3>2, OtherWork DEF SameWork
    <3> QED  BY <2>1, <2>2, <3>3, UnseenByCards
  <2>4. CASE outcome = "failed"
    <3>1. hand' = [hand EXCEPT ![h] = Free]
      BY <1>8, <2>4 DEF Redraft
    <3>2. hand'[h].step = "free" /\ \A g \in Hand \ {h} : hand'[g] = hand[g]
      BY <3>1, FreeMoves
    <3> QED  BY <2>1, <2>2, <3>2, GiveUpRefines
  <2> QED  BY <2>3, <2>4
<1>9. ASSUME NEW h \in Hand, WriteSent(h) \/ WriteRejected(h) \/ WriteRevised(h)  PROVE Goal
  <2>1. /\ hand[h].step = "write" /\ UNCHANGED <<raising, taken>>
        /\ Leaves(h, "delete") \/ Leaves(h, "repost")
    BY <1>9 DEF WriteSent, WriteRejected, WriteRevised, At, cardVars
  <2>2. Of(h) \in Action /\ SameTaken
    BY <1>t, <2>1 DEF HandsOn, Of
  <2>3. hand'[h].step \notin {"call", "write"} /\ \A g \in Hand \ {h} : hand'[g] = hand[g]
    BY <2>1, LeavesMoves
  <2>4. CASE WriteSent(h)
    <3>1. Doing(h) = "accepted"
      BY <2>4 DEF WriteSent, At, Doing
    <3>2. reply'[Of(h)].status = "sent" /\ \A a \in Action \ {Of(h)} : reply'[a] = reply[a]
      BY <2>2, <2>4 DEF WriteSent, ClickTypes
    <3>3. Offered!Outcome["accepted"] = "sent"
      BY DEF Offered!Outcome
    <3> QED  BY <2>1, <2>2, <2>3, <3>1, <3>2, <3>3, FinishRefines
  <2>5. CASE WriteRejected(h)
    <3>1. Doing(h) = "skipping"
      BY <2>5 DEF WriteRejected, At, Doing
    <3>2. CASE reply[Of(h)].channel = "gcal" /\ reply[Of(h)].status # "pending"
      <4>1. SameStatus
        BY <1>s, <2>5, <3>2 DEF WriteRejected
      <4> QED  BY <2>1, <2>2, <2>3, <3>1, <3>2, <4>1, GiveUpRefines
    <3>3. CASE ~(reply[Of(h)].channel = "gcal" /\ reply[Of(h)].status # "pending")
      <4>1. reply' = [reply EXCEPT ![Of(h)].status = "rejected"]
        BY <2>5, <3>3 DEF WriteRejected
      <4>2. reply'[Of(h)].status = "rejected" /\ \A a \in Action \ {Of(h)} : reply'[a] = reply[a]
        BY <2>2, <4>1, StatusWrites
      <4>3. Offered!Outcome["skipping"] = "rejected"
        BY DEF Offered!Outcome
      <4> QED  BY <2>1, <2>2, <2>3, <3>1, <4>2, <4>3, FinishRefines
    <3> QED  BY <3>2, <3>3
  <2>6. CASE WriteRevised(h)
    <3>1. Doing(h) = "redrafting"
      BY <2>6 DEF WriteRevised, At, Doing
    <3>2. reply'[Of(h)].status = "pending" /\ \A a \in Action \ {Of(h)} : reply'[a] = reply[a]
      BY <2>2, <2>6 DEF WriteRevised, ClickTypes
    <3>3. Offered!Outcome["redrafting"] = "pending"
      BY DEF Offered!Outcome
    <3> QED  BY <2>1, <2>2, <2>3, <3>1, <3>2, <3>3, FinishRefines
  <2> QED  BY <1>9, <2>4, <2>5, <2>6
<1>10. ASSUME NEW h \in Hand, WriteError(h)  PROVE Goal
  <2>1. /\ hand' = [hand EXCEPT ![h] = Free] /\ UNCHANGED <<raising, taken>>
        /\ reply' = [reply EXCEPT ![Of(h)].status = "error"] /\ Doing(h) = "refused"
        /\ Of(h) \in Action
    BY <1>10 DEF WriteError, At, Doing, cardVars, ledgerVars, HandsOn, Of
  <2>2. hand'[h].step = "free" /\ \A g \in Hand \ {h} : hand'[g] = hand[g]
    BY <2>1, FreeMoves
  <2>3. reply'[Of(h)].status = "error" /\ \A a \in Action \ {Of(h)} : reply'[a] = reply[a]
    BY <2>1, StatusWrites
  <2>4. Offered!Outcome["refused"] = "error"
    BY DEF Offered!Outcome
  <2>5. SameTaken
    BY <1>t, <2>1
  <2> QED  BY <2>1, <2>2, <2>3, <2>4, <2>5, FinishRefines
<1>11. ASSUME NEW h \in Hand, Repost(h)  PROVE Goal
  <2>1. /\ hand[h].step = "repost" /\ UNCHANGED <<raising, taken>>
        /\ Leaves(h, "delete") \/ hand' = [hand EXCEPT ![h] = Free]
        /\ reply' = [reply EXCEPT ![Of(h)].redrafts = @ + 1]
    BY <1>11 DEF Repost, At, ledgerVars
  <2>2. hand'[h].step \in {"free", "delete"} /\ \A g \in Hand \ {h} : hand'[g] = hand[g]
    BY <2>1, LeavesMoves, FreeMoves
  <2>3. SameWork
    BY <2>1, <2>2, NoWork
  <2>4. SameStatus /\ SameTaken
    BY <1>t, <2>1 DEF SameStatus, ClickTypes
  <2> QED  BY <2>1, <2>3, <2>4, UnseenByCards
<1>12. ASSUME NEW h \in Hand, DeleteCard(h)  PROVE Goal
  <2>1. hand' = [hand EXCEPT ![h] = Free] /\ hand[h].step = "delete" /\ UNCHANGED <<reply, raising, taken>>
    BY <1>12 DEF DeleteCard, At, ledgerVars
  <2>2. SameWork
    BY <2>1, FreeMoves, NoWork
  <2> QED  BY <1>s, <1>t, <2>1, <2>2, UnseenByCards
<1>13. CASE Ready \/ \E m \in Msg : SweepLook(m) \/ SweepDelete(m)
  <2>1. UNCHANGED <<reply, raising, hand, taken>>
    BY <1>13 DEF Ready, SweepLook, SweepDelete, cardVars, ledgerVars
  <2> QED  BY <1>h, <1>s, <1>t, <2>1, UnseenByCards
<1>14. CASE ClickRestart
  <2>1. UNCHANGED <<reply, raising, taken>> /\ hand' = [h \in Hand |-> Free]
    BY <1>14 DEF ClickRestart, cardVars
  <2>2. \A h \in Hand : Work(h)' = Offered!Idle
    BY <2>1 DEF Work, Doing, Free, Offered!Idle
  <2>3. Offered!Die
    BY <2>1, <2>2 DEF Offered!Die
  <2> QED  BY <2>3 DEF Offered!Next
<1> QED
  BY <1>1, <1>2, <1>3, <1>4, <1>5, <1>6, <1>7, <1>8, <1>9, <1>10, <1>11, <1>12, <1>13, <1>14
     DEF ClickNext, HandStep

(* Whatever the owner clicks, on however many cards, and wherever the      *)
(* daemon is restarted: the clicks implement CardPromise.                  *)
THEOREM ClicksImplementCardPromise == ClickSpec => ImplementsCardPromise
<1>1. ClickInv /\ [ClickNext]_allClickVars => [Offered!Next]_(Offered!vars)
  <2> SUFFICES ASSUME ClickInv, [ClickNext]_allClickVars
               PROVE  Offered!Next \/ UNCHANGED Offered!vars
    OBVIOUS
  <2>1. CASE ClickNext
    BY <2>1, StepOffered DEF ClickInv
  <2>2. CASE UNCHANGED allClickVars
    BY <2>2 DEF allClickVars, clickVars, cardVars, ledgerVars, Offered!vars, Work, Doing, Of
  <2> QED  BY <2>1, <2>2
<1>2. ClickSpec => []ClickInv
  BY InitClicks, StepClicks, PTL DEF ClickSpec
<1> QED
  BY <1>1, <1>2, InitOffered, PTL DEF ClickSpec, ImplementsCardPromise, Offered!Spec

-----------------------------------------------------------------------------
(* Composing and the carousel: what a step writes. *)

(* The records of ComposeTypes.                                            *)
CardRow == [status : Live \cup {"none", "sending", "sent", "error", "rejected", "superseded"},
            draft : 0 .. MaxDrafts, held : 0 .. MaxDrafts,
            nudged : BOOLEAN, due : 0 .. MaxNow + NudgeSpan]
ComposeRow == [step : {"idle", "draft", "insert", "link", "show", "nudge", "replace", "delete"},
               old : 0 .. MaxCards, oldDraft : 0 .. MaxDrafts,
               draft : 0 .. MaxDrafts, card : 0 .. MaxCards]
UpdateRow == [step : {"idle", "create", "delete", "find", "repoint"},
              old : 0 .. MaxDrafts, new : 0 .. MaxDrafts, rows : SUBSET Card]
PostRow == [step : {"idle", "show", "record"}, card : 0 .. MaxCards, at : 0 .. MaxNow]

OnlyComposer(k) == \A j \in Composer \ {k} : composing'[j] = composing[j]
OnlyCard(c) == \A d \in Card \ {c} : card'[d] = card[d]
OnlyPoster(q) == \A r \in Poster \ {q} : posting'[r] = posting[r]

(* What a compose knows stays with it as it goes on.                       *)
LEMMA GoesOn ==
  ASSUME ComposeTypes, NEW k \in Composer, NEW step, Goes(k, step),
         step \in {"idle", "draft", "insert", "link", "show", "nudge", "replace", "delete"}
  PROVE  /\ composing' \in [Composer -> ComposeRow] /\ OnlyComposer(k)
         /\ composing'[k].step = step /\ composing'[k].old = composing[k].old
         /\ composing'[k].oldDraft = composing[k].oldDraft
         /\ composing'[k].draft = composing[k].draft /\ composing'[k].card = composing[k].card
<1> DEFINE row == [composing[k] EXCEPT !.step = step]
<1>1. composing \in [Composer -> ComposeRow] /\ composing[k] \in ComposeRow
  BY DEF ComposeTypes, ComposeRow
<1>2. row \in ComposeRow /\ row.step = step /\ row.old = composing[k].old
      /\ row.oldDraft = composing[k].oldDraft /\ row.draft = composing[k].draft
      /\ row.card = composing[k].card
  BY <1>1 DEF ComposeRow
<1>3. composing' = [composing EXCEPT ![k] = row]
  BY DEF Goes
<1> HIDE DEF row
<1> QED  BY <1>1, <1>2, <1>3 DEF OnlyComposer

(* A status written over a card's row.                                     *)
LEMMA CardStatus ==
  ASSUME ComposeTypes, NEW c \in Card, NEW status, card' = [card EXCEPT ![c].status = status],
         status \in Live \cup {"none", "sending", "sent", "error", "rejected", "superseded"}
  PROVE  /\ card' \in [Card -> CardRow] /\ OnlyCard(c)
         /\ card'[c].status = status /\ card'[c].draft = card[c].draft
         /\ card'[c].held = card[c].held /\ card'[c].nudged = card[c].nudged
<1> DEFINE row == [card[c] EXCEPT !.status = status]
<1>1. card \in [Card -> CardRow] /\ card[c] \in CardRow
  BY DEF ComposeTypes, CardRow
<1>2. row \in CardRow /\ row.status = status /\ row.draft = card[c].draft
      /\ row.held = card[c].held /\ row.nudged = card[c].nudged
  BY <1>1 DEF CardRow
<1>3. card' = [card EXCEPT ![c] = row]
  OBVIOUS
<1> HIDE DEF row
<1> QED  BY <1>1, <1>2, <1>3 DEF OnlyCard

(* A draft linked to a card's row.                                         *)
LEMMA CardDraft ==
  ASSUME ComposeTypes, NEW c \in Card, NEW d \in 0 .. MaxDrafts, card' = [card EXCEPT ![c].draft = d]
  PROVE  /\ card' \in [Card -> CardRow] /\ OnlyCard(c)
         /\ card'[c].status = card[c].status /\ card'[c].draft = d
         /\ card'[c].held = card[c].held /\ card'[c].nudged = card[c].nudged
<1> DEFINE row == [card[c] EXCEPT !.draft = d]
<1>1. card \in [Card -> CardRow] /\ card[c] \in CardRow
  BY DEF ComposeTypes, CardRow
<1>2. row \in CardRow /\ row.draft = d /\ row.status = card[c].status
      /\ row.held = card[c].held /\ row.nudged = card[c].nudged
  BY <1>1 DEF CardRow
<1>3. card' = [card EXCEPT ![c] = row]
  OBVIOUS
<1> HIDE DEF row
<1> QED  BY <1>1, <1>2, <1>3 DEF OnlyCard

(* A nudge recorded.                                                       *)
LEMMA CardNudged ==
  ASSUME ComposeTypes, NEW c \in Card, NEW at \in 0 .. MaxNow, Nudged(c, at)
  PROVE  /\ card' \in [Card -> CardRow] /\ OnlyCard(c)
         /\ card'[c].status = card[c].status /\ card'[c].draft = card[c].draft
         /\ card'[c].held = card[c].held /\ card'[c].nudged = TRUE
<1> DEFINE row == [card[c] EXCEPT !.nudged = TRUE, !.due = at + NudgeSpan]
<1>1. card \in [Card -> CardRow] /\ card[c] \in CardRow
  BY DEF ComposeTypes, CardRow
<1>2. at + NudgeSpan \in 0 .. MaxNow + NudgeSpan
  BY ComposeAssumption, DaemonAssumption
<1>3. row \in CardRow /\ row.draft = card[c].draft /\ row.status = card[c].status
      /\ row.held = card[c].held /\ row.nudged = TRUE
  BY <1>1, <1>2 DEF CardRow
<1>4. card' = [card EXCEPT ![c] = row]
  BY DEF Nudged
<1> HIDE DEF row
<1> QED  BY <1>1, <1>3, <1>4 DEF OnlyCard

(* The timer alone moved.                                                  *)
LEMMA CardTimer ==
  ASSUME ComposeTypes, NEW c \in Card, NEW at \in 0 .. MaxNow,
         card' = [card EXCEPT ![c].due = at + NudgeSpan]
  PROVE  /\ card' \in [Card -> CardRow] /\ OnlyCard(c)
         /\ card'[c].status = card[c].status /\ card'[c].draft = card[c].draft
         /\ card'[c].held = card[c].held /\ card'[c].nudged = card[c].nudged
<1> DEFINE row == [card[c] EXCEPT !.due = at + NudgeSpan]
<1>1. card \in [Card -> CardRow] /\ card[c] \in CardRow
  BY DEF ComposeTypes, CardRow
<1>2. at + NudgeSpan \in 0 .. MaxNow + NudgeSpan
  BY ComposeAssumption, DaemonAssumption
<1>3. row \in CardRow /\ row.draft = card[c].draft /\ row.status = card[c].status
      /\ row.held = card[c].held /\ row.nudged = card[c].nudged
  BY <1>1, <1>2 DEF CardRow
<1>4. card' = [card EXCEPT ![c] = row]
  OBVIOUS
<1> HIDE DEF row
<1> QED  BY <1>1, <1>3, <1>4 DEF OnlyCard

(* The draft a send has read goes with the claim.                          *)
LEMMA CardClaimed ==
  ASSUME ComposeTypes, NEW c \in Card, Claim(c)
  PROVE  /\ card' \in [Card -> CardRow] /\ OnlyCard(c)
         /\ card'[c].status = "sending" /\ card'[c].draft = card[c].draft
         /\ card'[c].held = card[c].draft /\ card'[c].nudged = card[c].nudged
<1> DEFINE row == [card[c] EXCEPT !.status = "sending", !.held = card[c].draft]
<1>1. card \in [Card -> CardRow] /\ card[c] \in CardRow
  BY DEF ComposeTypes, CardRow
<1>2. row \in CardRow /\ row.draft = card[c].draft /\ row.status = "sending"
      /\ row.held = card[c].draft /\ row.nudged = card[c].nudged
  BY <1>1 DEF CardRow
<1>3. card' = [card EXCEPT ![c] = row]
  BY DEF Claim
<1> HIDE DEF row
<1> QED  BY <1>1, <1>2, <1>3 DEF OnlyCard

(* A posting of the carousel that is done.                                 *)
LEMMA PosterDone ==
  ASSUME ComposeTypes, NEW q \in Poster, posting' = [posting EXCEPT ![q] = NotPosting]
  PROVE  /\ posting' \in [Poster -> PostRow] /\ OnlyPoster(q)
         /\ posting'[q].step = "idle" /\ posting'[q].card = 0
<1>1. posting \in [Poster -> PostRow]
  BY DEF ComposeTypes, PostRow
<1>2. NotPosting \in PostRow /\ NotPosting.step = "idle" /\ NotPosting.card = 0
  BY ComposeAssumption, DaemonAssumption DEF PostRow, NotPosting
<1> HIDE DEF NotPosting
<1> QED  BY <1>1, <1>2 DEF OnlyPoster

(* A reason for one more showing.                                          *)
LEMMA ReasonGiven ==
  ASSUME ComposeTypes, NEW cards, Excuse(cards)
  PROVE  /\ repeats' \in [Card -> Nat]
         /\ \A c \in Card : repeats'[c] = IF c \in cards THEN repeats[c] + 1 ELSE repeats[c]
<1>1. \A c \in Card : repeats[c] \in Nat
  BY DEF ComposeTypes
<1>2. \A c \in Card : repeats'[c] = repeats[c] + (IF c \in cards THEN 1 ELSE 0)
  BY DEF Excuse
<1>3. repeats' \in [Card -> Nat]
  BY <1>1 DEF Excuse
<1> QED  BY <1>1, <1>2, <1>3

(* A card comes up once more.                                              *)
LEMMA CardShown ==
  ASSUME ComposeTypes, NEW c \in Card, shown' = [shown EXCEPT ![c] = @ + 1]
  PROVE  /\ shown' \in [Card -> Nat] /\ shown'[c] = shown[c] + 1
         /\ \A d \in Card \ {c} : shown'[d] = shown[d]
  BY DEF ComposeTypes

-----------------------------------------------------------------------------
(* Rows and composes in their places. *)

(* What a compose has made and knows at each of its steps: the row it may  *)
(* replace is older than the one it makes, and it retires nothing before   *)
(* its own card has a draft and was shown.                                 *)
PlacedComposer(k) ==
    LET step == composing[k].step
        old == composing[k].old
        own == composing[k].card
    IN  /\ step \in {"insert", "link"} => composing[k].draft # 0
        /\ step \in {"link", "show", "nudge", "replace"} => own \in Card /\ card[own].status # "none"
        /\ step # "idle" /\ old # 0 => card[old].status # "none"
        /\ step \in {"link", "show", "nudge", "replace"} /\ old # 0 => old < own
        /\ step \in {"replace", "delete"} => old # 0
        /\ step \in {"show", "nudge", "replace"} => card[own].draft # 0
        /\ step \in {"nudge", "replace"} => shown[own] > 0

PlacedPoster(q) ==
    /\ posting[q].step = "idle" => posting[q].card = 0
    /\ posting[q].step # "idle" =>
          posting[q].card \in Card /\ card[posting[q].card].status # "none"

PlacedUpdate ==
    /\ updating.step # "idle" => updating.old # 0
    /\ updating.step \in {"delete", "find", "repoint"} => updating.new # 0
    /\ updating.step # "repoint" => updating.rows = {}
    /\ \A c \in updating.rows : card[c].status # "none"

(* Rows are made in order, and a row that is not made is blank.            *)
MadeInOrder ==
    \A c, d \in Card : c < d /\ card[d].status # "none" => card[c].status # "none"

Blank == \A c \in Card : card[c].status = "none" =>
             ~card[c].nudged /\ card[c].draft = 0 /\ card[c].held = 0

PlaceInv ==
    /\ DaemonTypes /\ ComposeTypes
    /\ \A k \in Composer : PlacedComposer(k)
    /\ \A q \in Poster : PlacedPoster(q)
    /\ PlacedUpdate /\ MadeInOrder /\ Blank
    /\ SupersededHasSuccessor

\* No command has begun and no card is up.
LEMMA InitPlaces == DaemonInit /\ ComposeInit => PlaceInv
<1> SUFFICES ASSUME DaemonInit, ComposeInit PROVE PlaceInv
  OBVIOUS
<1>1. DaemonTypes
  BY DaemonAssumption DEF DaemonInit, DaemonTypes
<1>2. ComposeTypes
  BY ComposeAssumption, DaemonAssumption
     DEF ComposeInit, ComposeTypes, NotComposing, NotUpdating, NotPosting, Live
<1>3. (\A k \in Composer : PlacedComposer(k)) /\ (\A q \in Poster : PlacedPoster(q)) /\ PlacedUpdate
  BY DEF ComposeInit, PlacedComposer, PlacedPoster, PlacedUpdate, NotComposing, NotPosting, NotUpdating
<1>4. MadeInOrder /\ Blank /\ SupersededHasSuccessor
  BY DEF ComposeInit, MadeInOrder, Blank, SupersededHasSuccessor, Rows
<1> QED  BY <1>1, <1>2, <1>3, <1>4 DEF PlaceInv

(* A row that was made stays made, one with a draft keeps one, and what    *)
(* came up stays counted.                                                  *)
Grows ==
    \A c \in Card :
        /\ card[c].status # "none" => card'[c].status # "none"
        /\ card[c].draft # 0 => card'[c].draft # 0
        /\ shown'[c] \in {shown[c], shown[c] + 1}

\* What others do leaves a compose command where it is.
LEMMA StaysPlaced ==
  ASSUME PlaceInv, Grows, NEW k \in Composer, composing'[k] = composing[k]
  PROVE  PlacedComposer(k)'
<1> DEFINE step == composing[k].step
           old == composing[k].old
           own == composing[k].card
<1>1. PlacedComposer(k) /\ old \in 0 .. MaxCards
  BY DEF PlaceInv, ComposeTypes
<1>2. old # 0 => old \in Card
  BY <1>1 DEF Card
<1>3. \A c \in Card : shown[c] \in Nat
  BY DEF PlaceInv, ComposeTypes
<1>4. \A c \in Card : shown[c] > 0 => shown'[c] > 0
  BY <1>3 DEF Grows
<1> QED  BY <1>1, <1>2, <1>4 DEF PlacedComposer, Grows

\* What others do leaves a task that posts cards where it is.
LEMMA StaysPosted ==
  ASSUME PlaceInv, Grows, NEW q \in Poster, posting'[q] = posting[q]
  PROVE  PlacedPoster(q)'
<1>1. PlacedPoster(q)
  BY DEF PlaceInv
<1> QED  BY <1>1 DEF PlacedPoster, Grows

(* A step that leaves the places of all but one actor alone.               *)
LEMMA PlacesKept ==
  ASSUME PlaceInv, Grows, DaemonTypes', ComposeTypes', MadeInOrder',
         \A k \in Composer : composing'[k] = composing[k] \/ PlacedComposer(k)',
         \A q \in Poster : posting'[q] = posting[q] \/ PlacedPoster(q)',
         updating' = updating \/ PlacedUpdate',
         \A c \in Card : card'[c].status = "none" => card'[c] = card[c],
         \A c \in Card : card'[c].status = "superseded" =>
             \/ card[c].status = "superseded"
             \/ \E n \in Card : n > c /\ shown[n] > 0 /\ card[n].draft # 0
  PROVE  PlaceInv'
<1>1. \A k \in Composer : PlacedComposer(k)'
  BY StaysPlaced
<1>2. \A q \in Poster : PlacedPoster(q)'
  BY StaysPosted
<1>3. PlacedUpdate'
  <2>1. CASE updating' = updating
    <3>1. PlacedUpdate /\ updating.rows \subseteq Card
      BY DEF PlaceInv, ComposeTypes
    <3> QED  BY <2>1, <3>1 DEF PlacedUpdate, Grows
  <2> QED  BY <2>1
<1>4. Blank'
  BY DEF PlaceInv, Blank
<1>5. SupersededHasSuccessor'
  <2>1. ASSUME NEW c \in Card, card'[c].status = "superseded"
        PROVE  \E n \in Card : n > c /\ shown'[n] > 0 /\ card'[n].draft # 0
    <3>1. PICK n \in Card : n > c /\ shown[n] > 0 /\ card[n].draft # 0
      BY <2>1 DEF PlaceInv, SupersededHasSuccessor, Rows
    <3>2. shown[n] \in Nat
      BY DEF PlaceInv, ComposeTypes
    <3>3. shown'[n] > 0 /\ card'[n].draft # 0
      BY <3>1, <3>2 DEF Grows
    <3> QED  BY <3>1, <3>3
  <2> QED  BY <2>1 DEF SupersededHasSuccessor, Rows
<1> QED  BY <1>1, <1>2, <1>3, <1>4, <1>5 DEF PlaceInv

(* A step that makes no row keeps their order.                             *)
LEMMA OrderKept ==
  ASSUME MadeInOrder, \A c \in Card : card[c].status = "none" <=> card'[c].status = "none"
  PROVE  MadeInOrder'
  BY DEF MadeInOrder

(* A compose starts with the open row it may replace, or with none.        *)
LEMMA ComposeStarts ==
  ASSUME ComposeTypes, NEW k \in Composer, StartCompose(k)
  PROVE  /\ composing' \in [Composer -> ComposeRow] /\ OnlyComposer(k)
         /\ composing'[k].step = "draft" /\ composing'[k].draft = 0 /\ composing'[k].card = 0
         /\ composing'[k].old = 0 => composing'[k].oldDraft = 0
         /\ composing'[k].old # 0 =>
               /\ composing'[k].old \in Card
               /\ card[composing'[k].old].status = "pending"
               /\ composing'[k].oldDraft = card[composing'[k].old].draft
<1>1. composing \in [Composer -> ComposeRow] /\ card \in [Card -> CardRow]
  BY DEF ComposeTypes, ComposeRow, CardRow
<1>2. PICK old \in 0 .. MaxCards, oldDraft \in 0 .. MaxDrafts :
          /\ composing' = [composing EXCEPT ![k] =
                 [NotComposing EXCEPT !.step = "draft", !.old = old, !.oldDraft = oldDraft]]
          /\ old = 0 => oldDraft = 0
          /\ old # 0 => old \in Card /\ card[old].status = "pending" /\ oldDraft = card[old].draft
  <2>1. PICK duplicate \in BOOLEAN :
           LET open == IF duplicate THEN {} ELSE Newest(Rows(Live))
           IN  /\ \A c \in open : card[c].status = "pending"
               /\ composing' = [composing EXCEPT ![k] =
                      [NotComposing EXCEPT
                          !.step = "draft",
                          !.old = IF open = {} THEN 0 ELSE CHOOSE c \in open : TRUE,
                          !.oldDraft = IF open = {} THEN 0
                                       ELSE card[CHOOSE c \in open : TRUE].draft]]
    BY DEF StartCompose
  <2> DEFINE open == IF duplicate THEN {} ELSE Newest(Rows(Live))
             one == CHOOSE c \in open : TRUE
  <2>2. open \subseteq Card
    BY DEF Newest, Rows
  <2>3. CASE open = {}
    <3>1. composing' = [composing EXCEPT ![k] =
              [NotComposing EXCEPT !.step = "draft", !.old = 0, !.oldDraft = 0]]
      BY <2>1, <2>3
    <3>2. 0 \in 0 .. MaxCards /\ 0 \in 0 .. MaxDrafts
      BY ComposeAssumption
    <3> QED  BY <3>1, <3>2
  <2>4. CASE open # {}
    <3>1. one \in open
      BY <2>4
    <3>2. one \in Card /\ card[one].status = "pending"
      BY <2>1, <2>2, <3>1
    <3>3. composing' = [composing EXCEPT ![k] =
              [NotComposing EXCEPT !.step = "draft", !.old = one, !.oldDraft = card[one].draft]]
      BY <2>1, <2>4
    <3> HIDE DEF one
    <3>4. one \in 0 .. MaxCards /\ one # 0
      BY <3>2, ComposeAssumption DEF Card
    <3>5. card[one] \in CardRow
      BY <1>1, <3>2
    <3>6. card[one].draft \in 0 .. MaxDrafts
      BY <3>5 DEF CardRow
    <3> QED  BY <3>2, <3>3, <3>4, <3>6
  <2> QED  BY <2>3, <2>4
<1> DEFINE row == [NotComposing EXCEPT !.step = "draft", !.old = old, !.oldDraft = oldDraft]
<1>z. 0 \in 0 .. MaxCards /\ 0 \in 0 .. MaxDrafts
  BY ComposeAssumption
<1>3. row \in ComposeRow /\ row.step = "draft" /\ row.draft = 0 /\ row.card = 0
      /\ row.old = old /\ row.oldDraft = oldDraft
  BY <1>2, <1>z DEF ComposeRow, NotComposing
<1> HIDE DEF row
<1>4. composing' \in [Composer -> ComposeRow] /\ composing'[k] = row /\ OnlyComposer(k)
  <2>1. composing' = [composing EXCEPT ![k] = row]
    BY <1>2 DEF row
  <2> QED  BY <1>1, <1>3, <2>1 DEF OnlyComposer
<1> QED  BY <1>2, <1>3, <1>4

(* Gmail names the draft of a compose.                                     *)
LEMMA ComposeDrafts ==
  ASSUME ComposeTypes, NEW k \in Composer, CreateDraft(k)
  PROVE  /\ composing' \in [Composer -> ComposeRow] /\ OnlyComposer(k)
         /\ composing'[k].step = "insert" /\ composing'[k].draft = made + 1
         /\ composing'[k].card = composing[k].card /\ composing'[k].old = composing[k].old
         /\ composing'[k].oldDraft = composing[k].oldDraft
         /\ made \in Nat /\ made' = made + 1 /\ made' \in 1 .. MaxDrafts
         /\ drafts' = drafts \cup {made + 1}
<1> DEFINE row == [composing[k] EXCEPT !.step = "insert", !.draft = made + 1]
<1>1. composing \in [Composer -> ComposeRow] /\ composing[k] \in ComposeRow
  BY DEF ComposeTypes, ComposeRow
<1>2. made \in Nat /\ made + 1 \in 1 .. MaxDrafts /\ made + 1 \in 0 .. MaxDrafts
  BY ComposeAssumption DEF CreateDraft, NewDraft, ComposeTypes
<1>3. /\ row \in ComposeRow /\ row.step = "insert" /\ row.draft = made + 1
      /\ row.card = composing[k].card /\ row.old = composing[k].old
      /\ row.oldDraft = composing[k].oldDraft
  BY <1>1, <1>2 DEF ComposeRow
<1>4. composing' = [composing EXCEPT ![k] = row]
  BY DEF CreateDraft
<1> HIDE DEF row
<1>5. composing' \in [Composer -> ComposeRow] /\ composing'[k] = row /\ OnlyComposer(k)
  BY <1>1, <1>3, <1>4 DEF OnlyComposer
<1> QED  BY <1>2, <1>3, <1>5 DEF CreateDraft, NewDraft

(* The row of a compose is the next one, pending and without a draft.      *)
LEMMA ComposeInserts ==
  ASSUME ComposeTypes, NEW k \in Composer, InsertRow(k)
  PROVE  \E c \in Card :
         /\ card' \in [Card -> CardRow] /\ OnlyCard(c)
         /\ card[c].status = "none" /\ card'[c].status = "pending"
         /\ card'[c].draft = card[c].draft /\ card'[c].held = card[c].held
         /\ card'[c].nudged = card[c].nudged
         /\ \A d \in Card : card[d].status = "none" => c <= d
         /\ composing' \in [Composer -> ComposeRow] /\ OnlyComposer(k)
         /\ composing'[k].step = "link" /\ composing'[k].card = c
         /\ composing'[k].draft = composing[k].draft /\ composing'[k].old = composing[k].old
         /\ composing'[k].oldDraft = composing[k].oldDraft
<1>1. PICK c \in Oldest(Rows({"none"})) :
          /\ card' = [card EXCEPT ![c].status = "pending"]
          /\ composing' = [composing EXCEPT ![k] = [@ EXCEPT !.step = "link", !.card = c]]
  BY DEF InsertRow
<1>2. c \in Card /\ card[c].status = "none" /\ \A d \in Card : card[d].status = "none" => c <= d
  BY DEF Oldest, Rows
<1> DEFINE row == [composing[k] EXCEPT !.step = "link", !.card = c]
<1>3. composing \in [Composer -> ComposeRow] /\ composing[k] \in ComposeRow
  BY DEF ComposeTypes, ComposeRow
<1>4. c \in 0 .. MaxCards
  BY <1>2, ComposeAssumption DEF Card
<1>5. /\ row \in ComposeRow /\ row.step = "link" /\ row.card = c
      /\ row.draft = composing[k].draft /\ row.old = composing[k].old
      /\ row.oldDraft = composing[k].oldDraft
  BY <1>3, <1>4 DEF ComposeRow
<1>6. composing' = [composing EXCEPT ![k] = row]
  BY <1>1
<1> HIDE DEF row
<1>7. composing' \in [Composer -> ComposeRow] /\ composing'[k] = row /\ OnlyComposer(k)
  BY <1>3, <1>5, <1>6 DEF OnlyComposer
<1>8. /\ card' \in [Card -> CardRow] /\ OnlyCard(c) /\ card'[c].status = "pending"
      /\ card'[c].draft = card[c].draft /\ card'[c].held = card[c].held
      /\ card'[c].nudged = card[c].nudged
  BY <1>1, <1>2, CardStatus DEF Live
<1> QED  BY <1>2, <1>5, <1>7, <1>8

(* How the update of a draft goes on.                                      *)
LEMMA UpdateMoves ==
  ASSUME ComposeTypes, UpdateStep \/ (\E d \in Draft : StartUpdate(d)) \/ UpdateStops
  PROVE  /\ updating' \in UpdateRow
         /\ (\E d \in Draft : StartUpdate(d)) =>
                updating'.step = "create" /\ updating'.old \in Draft /\ updating'.rows = {}
         /\ CreateReplacement => /\ updating'.step = "delete" /\ updating'.old = updating.old
                                 /\ updating'.new = made + 1 /\ updating'.rows = updating.rows
                                 /\ made \in Nat /\ made' = made + 1 /\ made' \in 1 .. MaxDrafts
                                 /\ drafts' = drafts \cup {made + 1}
         /\ DeleteReplaced => /\ updating'.step = "find" /\ updating'.old = updating.old
                              /\ updating'.new = updating.new /\ updating'.rows = updating.rows
         /\ FindRows => /\ updating'.step = "repoint" /\ updating'.old = updating.old
                        /\ updating'.new = updating.new
                        /\ updating'.rows = {c \in Rows(Live) : card[c].draft = updating.old}
         /\ \A c \in Card : Repoint(c) =>
                /\ updating'.step = "repoint" /\ updating'.old = updating.old
                /\ updating'.new = updating.new /\ updating'.rows = updating.rows \ {c}
         /\ EndUpdate \/ UpdateStops => updating'.step = "idle" /\ updating'.rows = {}
<1>1. updating \in UpdateRow
  BY DEF ComposeTypes, UpdateRow
<1>2. NotUpdating \in UpdateRow /\ NotUpdating.step = "idle" /\ NotUpdating.rows = {}
  BY ComposeAssumption DEF NotUpdating, UpdateRow
<1>3. ASSUME NEW d \in Draft, StartUpdate(d)
      PROVE  updating' \in UpdateRow /\ updating'.step = "create" /\ updating'.old = d
             /\ updating'.rows = {}
  <2>1. d \in 0 .. MaxDrafts /\ 0 \in 0 .. MaxDrafts
    BY ComposeAssumption DEF Draft
  <2> QED  BY <1>3, <2>1 DEF StartUpdate, NotUpdating, UpdateRow
<1>4. ASSUME CreateReplacement
      PROVE  /\ updating' \in UpdateRow
             /\ updating'.step = "delete" /\ updating'.old = updating.old
             /\ updating'.new = made + 1 /\ updating'.rows = updating.rows
             /\ made \in Nat /\ made' = made + 1 /\ made' \in 1 .. MaxDrafts
             /\ drafts' = drafts \cup {made + 1}
  <2>1. made \in Nat /\ made + 1 \in 1 .. MaxDrafts /\ made + 1 \in 0 .. MaxDrafts
    BY <1>4, ComposeAssumption DEF CreateReplacement, NewDraft, ComposeTypes
  <2> QED  BY <1>1, <1>4, <2>1 DEF CreateReplacement, NewDraft, UpdateRow
<1>5. ASSUME DeleteReplaced
      PROVE  /\ updating' \in UpdateRow
             /\ updating'.step = "find" /\ updating'.old = updating.old
             /\ updating'.new = updating.new /\ updating'.rows = updating.rows
  BY <1>1, <1>5 DEF DeleteReplaced, UpdateRow
<1>6. ASSUME FindRows
      PROVE  /\ updating' \in UpdateRow
             /\ updating'.step = "repoint" /\ updating'.old = updating.old
             /\ updating'.new = updating.new
             /\ updating'.rows = {c \in Rows(Live) : card[c].draft = updating.old}
  <2>1. {c \in Rows(Live) : card[c].draft = updating.old} \in SUBSET Card
    BY DEF Rows
  <2> QED  BY <1>1, <1>6, <2>1 DEF FindRows, UpdateRow
<1>7. ASSUME NEW c \in Card, Repoint(c)
      PROVE  /\ updating' \in UpdateRow
             /\ updating'.step = "repoint" /\ updating'.old = updating.old
             /\ updating'.new = updating.new /\ updating'.rows = updating.rows \ {c}
  BY <1>1, <1>7 DEF Repoint, UpdateRow
<1>8. ASSUME EndUpdate \/ UpdateStops
      PROVE  updating' \in UpdateRow /\ updating'.step = "idle" /\ updating'.rows = {}
  BY <1>2, <1>8 DEF EndUpdate, UpdateStops
<1> QED  BY <1>3, <1>4, <1>5, <1>6, <1>7, <1>8 DEF UpdateStep

(* The carousel picks a card of the backlog, or the one it reminds of.     *)
LEMMA PosterPicks ==
  ASSUME DaemonTypes, ComposeTypes, NEW q \in Poster, NEW c \in Card, PickCard(q, c)
  PROVE  /\ posting' \in [Poster -> PostRow] /\ OnlyPoster(q)
         /\ posting'[q].step = "show" /\ posting'[q].card = c
         /\ card[c].status = "pending"
         /\ ~(card[c].nudged /\ card[c].due <= now) => Active = {}
<1> DEFINE row == [step |-> "show", card |-> c, at |-> now]
<1>1. posting \in [Poster -> PostRow]
  BY DEF ComposeTypes, PostRow
<1>2. c \in 0 .. MaxCards /\ now \in 0 .. MaxNow
  BY ComposeAssumption DEF Card, DaemonTypes
<1>3. row \in PostRow /\ row.step = "show" /\ row.card = c
  BY <1>2 DEF PostRow
<1>4. posting' = [posting EXCEPT ![q] = row]
  BY DEF PickCard
<1> HIDE DEF row
<1>5. posting' \in [Poster -> PostRow] /\ posting'[q] = row /\ OnlyPoster(q)
  BY <1>1, <1>3, <1>4 DEF OnlyPoster
<1>6. /\ card[c].status = "pending"
      /\ ~(card[c].nudged /\ card[c].due <= now) => Active = {}
  <2>1. CASE Active # {}
    BY <2>1 DEF PickCard, NextCard, Oldest, Active, Rows
  <2>2. CASE Active = {}
    BY <2>2 DEF PickCard, NextCard, Oldest, Rows
  <2> QED  BY <2>1, <2>2
<1> QED  BY <1>3, <1>5, <1>6

(* The carousel has shown its card.                                        *)
LEMMA PosterShows ==
  ASSUME ComposeTypes, NEW q \in Poster, posting' = [posting EXCEPT ![q].step = "record"]
  PROVE  /\ posting' \in [Poster -> PostRow] /\ OnlyPoster(q)
         /\ posting'[q].step = "record" /\ posting'[q].card = posting[q].card
<1> DEFINE row == [posting[q] EXCEPT !.step = "record"]
<1>1. posting \in [Poster -> PostRow] /\ posting[q] \in PostRow
  BY DEF ComposeTypes, PostRow
<1>2. row \in PostRow /\ row.step = "record" /\ row.card = posting[q].card
  BY <1>1 DEF PostRow
<1>3. posting' = [posting EXCEPT ![q] = row]
  OBVIOUS
<1> HIDE DEF row
<1> QED  BY <1>1, <1>2, <1>3 DEF OnlyPoster

(* The types, by the records.                                              *)
LEMMA ComposeRows ==
  ComposeTypes <=> /\ card \in [Card -> CardRow]
                   /\ drafts \subseteq Draft /\ made \in 0 .. MaxDrafts
                   /\ composing \in [Composer -> ComposeRow]
                   /\ updating \in UpdateRow
                   /\ posting \in [Poster -> PostRow]
                   /\ shown \in [Card -> Nat] /\ repeats \in [Card -> Nat]
                   /\ crossed \subseteq Card /\ stops \in 0 .. MaxStops
  BY DEF ComposeTypes, CardRow, ComposeRow, UpdateRow, PostRow

(* What a step leaves alone keeps its type.                                *)
LEMMA TypesKept ==
  ASSUME DaemonTypes, ComposeTypes, UNCHANGED daemonVars,
         UNCHANGED card \/ card' \in [Card -> CardRow],
         drafts' \subseteq Draft, made' \in 0 .. MaxDrafts,
         UNCHANGED composing \/ composing' \in [Composer -> ComposeRow],
         UNCHANGED updating \/ updating' \in UpdateRow,
         UNCHANGED posting \/ posting' \in [Poster -> PostRow],
         UNCHANGED shown \/ shown' \in [Card -> Nat],
         UNCHANGED repeats \/ repeats' \in [Card -> Nat],
         crossed' \subseteq Card, stops' \in 0 .. MaxStops
  PROVE  ComposeTypes' /\ DaemonTypes'
<1>1. /\ card' \in [Card -> CardRow] /\ composing' \in [Composer -> ComposeRow]
      /\ updating' \in UpdateRow /\ posting' \in [Poster -> PostRow]
      /\ shown' \in [Card -> Nat] /\ repeats' \in [Card -> Nat]
  BY ComposeRows
<1>2. ComposeTypes'
  BY <1>1 DEF ComposeTypes, CardRow, ComposeRow, UpdateRow, PostRow
<1> QED  BY <1>2 DEF DaemonTypes, daemonVars

(* Nothing but a few parts of the state moves, and the places hold.        *)
LEMMA PlacesStay ==
  ASSUME PlaceInv, DaemonTypes', UNCHANGED <<card, composing, updating, posting, shown>>,
         ComposeTypes'
  PROVE  PlaceInv'
  BY DEF PlaceInv, PlacedComposer, PlacedPoster, PlacedUpdate, MadeInOrder, Blank,
         SupersededHasSuccessor, Rows

-----------------------------------------------------------------------------
(* Each step keeps the places: one lemma for every actor. *)

(* A step of a compose.                                                    *)
LEMMA ComposerPlaces ==
  ASSUME PlaceInv, NEW k \in Composer, StartCompose(k) \/ ComposeStep(k) \/ ComposeStops(k)
  PROVE  PlaceInv'
<1> DEFINE Row(c) == card[c]
<1>t. DaemonTypes /\ ComposeTypes /\ MadeInOrder /\ Blank /\ PlacedComposer(k)
  BY DEF PlaceInv
<1>r. /\ card \in [Card -> CardRow] /\ drafts \subseteq Draft /\ made \in 0 .. MaxDrafts
      /\ composing \in [Composer -> ComposeRow] /\ updating \in UpdateRow
      /\ posting \in [Poster -> PostRow] /\ shown \in [Card -> Nat]
      /\ repeats \in [Card -> Nat] /\ crossed \subseteq Card /\ stops \in 0 .. MaxStops
  BY <1>t, ComposeRows
<1>k. composing[k] \in ComposeRow /\ composing[k].old \in 0 .. MaxCards
      /\ composing[k].draft \in 0 .. MaxDrafts /\ composing[k].oldDraft \in 0 .. MaxDrafts
  BY <1>r DEF ComposeRow
<1>o. composing[k].old # 0 => composing[k].old \in Card
  BY <1>k DEF Card
<1>s. \A c \in Card : shown[c] \in Nat
  BY <1>r
<1>1. CASE StartCompose(k)
  <2>1. /\ UNCHANGED <<card, drafts, made, crossed, updating, posting, shown, repeats, stops>>
        /\ UNCHANGED daemonVars
    BY <1>1 DEF StartCompose, mailVars
  <2>2. ComposeTypes' /\ DaemonTypes'
    BY <1>1, <1>t, <1>r, <2>1, ComposeStarts, TypesKept
  <2>3. PlacedComposer(k)'
    BY <1>1, <1>t, <2>1, ComposeStarts DEF PlacedComposer
  <2>4. \A j \in Composer : composing'[j] = composing[j] \/ PlacedComposer(j)'
    BY <1>1, <1>t, <2>3, ComposeStarts DEF OnlyComposer
  <2>5. Grows /\ MadeInOrder'
    BY <1>t, <2>1 DEF Grows, MadeInOrder
  <2> QED  BY <2>1, <2>2, <2>4, <2>5, PlacesKept
<1>2. CASE CreateDraft(k)
  <2>1. /\ UNCHANGED <<card, crossed, updating, posting, shown, repeats, stops>>
        /\ UNCHANGED daemonVars /\ composing[k].step = "draft"
    BY <1>2 DEF CreateDraft, Compose
  <2>2. ComposeTypes' /\ DaemonTypes'
    <3>1. drafts' \subseteq Draft /\ made' \in 0 .. MaxDrafts
      <4>1. made' \in 1 .. MaxDrafts /\ made' = made + 1 /\ drafts' = drafts \cup {made + 1}
        BY <1>2, <1>t, ComposeDrafts
      <4>2. made' \in 0 .. MaxDrafts
        BY <4>1, ComposeAssumption
      <4> QED  BY <1>r, <4>1, <4>2 DEF Draft
    <3> QED  BY <1>2, <1>t, <1>r, <2>1, <3>1, ComposeDrafts, TypesKept
  <2>3. PlacedComposer(k)'
    BY <1>2, <1>t, <2>1, ComposeDrafts DEF PlacedComposer
  <2>4. \A j \in Composer : composing'[j] = composing[j] \/ PlacedComposer(j)'
    BY <1>2, <1>t, <2>3, ComposeDrafts DEF OnlyComposer
  <2>5. Grows /\ MadeInOrder'
    BY <1>t, <2>1 DEF Grows, MadeInOrder
  <2> QED  BY <2>1, <2>2, <2>4, <2>5, PlacesKept
<1>3. CASE InsertRow(k)
  <2>1. /\ UNCHANGED <<drafts, made, crossed, updating, posting, shown, repeats, stops>>
        /\ UNCHANGED daemonVars /\ composing[k].step = "insert"
    BY <1>3 DEF InsertRow, Compose
  <2>2. PICK c \in Card :
         /\ card' \in [Card -> CardRow] /\ OnlyCard(c)
         /\ card[c].status = "none" /\ card'[c].status = "pending"
         /\ card'[c].draft = card[c].draft /\ card'[c].held = card[c].held
         /\ card'[c].nudged = card[c].nudged
         /\ \A d \in Card : card[d].status = "none" => c <= d
         /\ composing' \in [Composer -> ComposeRow] /\ OnlyComposer(k)
         /\ composing'[k].step = "link" /\ composing'[k].card = c
         /\ composing'[k].draft = composing[k].draft /\ composing'[k].old = composing[k].old
         /\ composing'[k].oldDraft = composing[k].oldDraft
    BY <1>3, <1>t, ComposeInserts
  <2>3. ComposeTypes' /\ DaemonTypes'
    BY <1>r, <1>t, <2>1, <2>2, TypesKept
  <2>4. \A d \in Card : card[d].status # "none" => d < c
    <3>1. ASSUME NEW d \in Card, card[d].status # "none"  PROVE d < c
      <4>1. c \in Nat /\ d \in Nat /\ c # d
        BY <2>2, <3>1 DEF Card
      <4>2. ~(c < d)
        BY <1>t, <2>2, <3>1 DEF MadeInOrder
      <4> QED  BY <4>1, <4>2
    <3> QED  BY <3>1
  <2>5. PlacedComposer(k)'
    <3>1. composing[k].old # 0 => composing[k].old < c /\ card[composing[k].old].status # "none"
      BY <1>t, <1>o, <2>1, <2>4 DEF PlacedComposer
    <3>2. composing[k].old # 0 => card'[composing[k].old].status # "none"
      BY <1>o, <2>2, <3>1 DEF OnlyCard
    <3> QED  BY <1>t, <2>1, <2>2, <3>1, <3>2 DEF PlacedComposer
  <2>6. \A j \in Composer : composing'[j] = composing[j] \/ PlacedComposer(j)'
    BY <2>2, <2>5 DEF OnlyComposer
  <2>7. Grows
    <3>1. \A d \in Card : d = c \/ card'[d] = card[d]
      BY <2>2 DEF OnlyCard
    <3> QED  BY <2>1, <2>2, <3>1 DEF Grows
  <2>8. MadeInOrder'
    <3>1. ASSUME NEW a \in Card, NEW d \in Card, a < d, card'[d].status # "none"
          PROVE  card'[a].status # "none"
      <4>1. CASE d = c
        <5>1. a # c /\ card'[a] = card[a] /\ a \in Nat /\ c \in Nat
          BY <2>2, <3>1, <4>1 DEF OnlyCard, Card
        <5>2. ~(c <= a)
          BY <3>1, <4>1, <5>1
        <5> QED  BY <2>2, <5>1, <5>2
      <4>2. CASE d # c
        BY <1>t, <2>2, <3>1, <4>2 DEF OnlyCard, MadeInOrder
      <4> QED  BY <4>1, <4>2
    <3> QED  BY <3>1 DEF MadeInOrder
  <2>9. /\ \A d \in Card : card'[d].status = "none" => card'[d] = card[d]
        /\ \A d \in Card : card'[d].status = "superseded" => card[d].status = "superseded"
    BY <2>2 DEF OnlyCard
  <2> QED  BY <2>1, <2>3, <2>6, <2>7, <2>8, <2>9, PlacesKept
<1>4. CASE LinkDraft(k)
  <2> DEFINE own == composing[k].card
  <2>1. /\ UNCHANGED <<drafts, made, crossed, updating, posting, shown, repeats, stops>>
        /\ UNCHANGED daemonVars /\ composing[k].step = "link" /\ Goes(k, "show")
        /\ card' = [card EXCEPT ![own].draft = composing[k].draft]
    BY <1>4 DEF LinkDraft, Compose
  <2>2. own \in Card /\ composing[k].draft # 0 /\ card[own].status # "none"
    BY <1>t, <2>1 DEF PlacedComposer
  <2> HIDE DEF own
  <2>3. /\ card' \in [Card -> CardRow] /\ OnlyCard(own)
        /\ card'[own].status = card[own].status /\ card'[own].draft = composing[k].draft
    BY <1>t, <1>k, <2>1, <2>2, CardDraft
  <2>4. /\ composing' \in [Composer -> ComposeRow] /\ OnlyComposer(k)
        /\ composing'[k].step = "show" /\ composing'[k].old = composing[k].old
        /\ composing'[k].card = own
    BY <1>t, <2>1, GoesOn DEF own
  <2>5. ComposeTypes' /\ DaemonTypes'
    BY <1>r, <1>t, <2>1, <2>3, <2>4, TypesKept
  <2>6. \A d \in Card : card'[d].status = card[d].status /\ (d # own => card'[d] = card[d])
    BY <2>3 DEF OnlyCard
  <2>7. Grows /\ MadeInOrder'
    BY <1>t, <2>1, <2>2, <2>3, <2>6 DEF Grows, MadeInOrder
  <2>8. PlacedComposer(k)'
    BY <1>t, <1>o, <2>1, <2>2, <2>3, <2>4, <2>6 DEF PlacedComposer, own
  <2>9. \A j \in Composer : composing'[j] = composing[j] \/ PlacedComposer(j)'
    BY <2>4, <2>8 DEF OnlyComposer
  <2>10. \A d \in Card : card'[d].status = "none" => card'[d] = card[d]
    BY <2>2, <2>6
  <2> QED  BY <2>1, <2>5, <2>6, <2>7, <2>9, <2>10, PlacesKept
<1>5. CASE ShowComposed(k)
  <2> DEFINE own == composing[k].card
  <2>1. /\ UNCHANGED <<card, drafts, made, crossed, updating, posting, repeats, stops>>
        /\ UNCHANGED daemonVars /\ composing[k].step = "show" /\ Goes(k, "nudge")
        /\ shown' = [shown EXCEPT ![own] = @ + 1]
    BY <1>5 DEF ShowComposed, Compose, mailVars
  <2>2. own \in Card
    BY <1>t, <2>1 DEF PlacedComposer
  <2> HIDE DEF own
  <2>3. shown' \in [Card -> Nat] /\ shown'[own] = shown[own] + 1
        /\ \A d \in Card \ {own} : shown'[d] = shown[d]
    BY <1>t, <2>1, <2>2, CardShown
  <2>4. /\ composing' \in [Composer -> ComposeRow] /\ OnlyComposer(k)
        /\ composing'[k].step = "nudge" /\ composing'[k].old = composing[k].old
        /\ composing'[k].card = own
    BY <1>t, <2>1, GoesOn DEF own
  <2>5. ComposeTypes' /\ DaemonTypes'
    BY <1>r, <1>t, <2>1, <2>3, <2>4, TypesKept
  <2>6. Grows /\ MadeInOrder'
    BY <1>t, <2>1, <2>2, <2>3 DEF Grows, MadeInOrder
  <2>7. shown'[own] > 0
    BY <1>s, <2>2, <2>3
  <2>8. PlacedComposer(k)'
    BY <1>t, <1>o, <2>1, <2>2, <2>4, <2>7 DEF PlacedComposer, own
  <2>9. \A j \in Composer : composing'[j] = composing[j] \/ PlacedComposer(j)'
    BY <2>4, <2>8 DEF OnlyComposer
  <2> QED  BY <2>1, <2>5, <2>6, <2>9, PlacesKept
<1>6. CASE RecordComposed(k)
  <2> DEFINE own == composing[k].card
             next == IF composing[k].old = 0 THEN "idle" ELSE "replace"
  <2>1. /\ UNCHANGED <<drafts, made, crossed, updating, posting, shown, repeats, stops>>
        /\ UNCHANGED daemonVars /\ composing[k].step = "nudge" /\ Goes(k, next)
        /\ Nudged(own, now)
    BY <1>6 DEF RecordComposed, Compose
  <2>2. own \in Card /\ now \in 0 .. MaxNow /\ card[own].status # "none"
    BY <1>t, <2>1 DEF PlacedComposer, DaemonTypes
  <2> HIDE DEF own
  <2>3. /\ card' \in [Card -> CardRow] /\ OnlyCard(own)
        /\ card'[own].status = card[own].status /\ card'[own].draft = card[own].draft
    BY <1>t, <2>1, <2>2, CardNudged
  <2>4. /\ composing' \in [Composer -> ComposeRow] /\ OnlyComposer(k)
        /\ composing'[k].step = next /\ composing'[k].old = composing[k].old
        /\ composing'[k].card = own
    BY <1>t, <2>1, GoesOn DEF own
  <2>5. ComposeTypes' /\ DaemonTypes'
    BY <1>r, <1>t, <2>1, <2>3, <2>4, TypesKept
  <2>6. \A d \in Card : /\ card'[d].status = card[d].status /\ card'[d].draft = card[d].draft
                        /\ d # own => card'[d] = card[d]
    BY <2>3 DEF OnlyCard
  <2>7. Grows /\ MadeInOrder'
    BY <1>t, <2>1, <2>6 DEF Grows, MadeInOrder
  <2>8. PlacedComposer(k)'
    BY <1>t, <1>o, <2>1, <2>2, <2>4, <2>6 DEF PlacedComposer, own
  <2>9. \A j \in Composer : composing'[j] = composing[j] \/ PlacedComposer(j)'
    BY <2>4, <2>8 DEF OnlyComposer
  <2>10. \A d \in Card : card'[d].status = "none" => card'[d] = card[d]
    BY <2>2, <2>6
  <2> QED  BY <2>1, <2>5, <2>6, <2>7, <2>9, <2>10, PlacesKept
<1>7. CASE Supersede(k)
  <2> DEFINE old == composing[k].old
             flips == card[old].status = "pending"
             next == IF flips /\ composing[k].oldDraft # 0 THEN "delete" ELSE "idle"
  <2>1. /\ UNCHANGED <<drafts, made, crossed, updating, posting, shown, repeats, stops>>
        /\ UNCHANGED daemonVars /\ composing[k].step = "replace" /\ Goes(k, next)
        /\ card' = IF flips THEN [card EXCEPT ![old].status = "superseded"] ELSE card
    BY <1>7 DEF Supersede, Compose
  <2>2. /\ old \in Card /\ composing[k].card \in Card /\ old < composing[k].card
        /\ shown[composing[k].card] > 0 /\ card[composing[k].card].draft # 0
    BY <1>t, <1>o, <2>1 DEF PlacedComposer
  <2>3. /\ composing' \in [Composer -> ComposeRow] /\ OnlyComposer(k)
        /\ composing'[k].step = next /\ composing'[k].old = old
        /\ composing'[k].card = composing[k].card
    BY <1>t, <2>1, GoesOn
  <2>4. /\ card' \in [Card -> CardRow]
        /\ \A d \in Card : d # old => card'[d] = card[d]
        /\ card'[old].draft = card[old].draft
        /\ card'[old] = card[old] \/ (card[old].status = "pending" /\ card'[old].status = "superseded")
    <3>1. CASE flips
      <4> HIDE DEF old
      <4> QED  BY <1>t, <2>1, <2>2, <3>1, CardStatus DEF OnlyCard
    <3>2. CASE ~flips
      BY <1>r, <2>1, <3>2
    <3> QED  BY <3>1, <3>2
  <2>5. ComposeTypes' /\ DaemonTypes'
    BY <1>r, <1>t, <2>1, <2>3, <2>4, TypesKept
  <2>6. \A d \in Card : /\ card'[d].status = "none" => card'[d] = card[d]
                        /\ card[d].status = "none" => card'[d] = card[d]
                        /\ card'[d].draft = card[d].draft
    BY <2>4
  <2>7. Grows /\ MadeInOrder'
    BY <1>t, <2>1, <2>6 DEF Grows, MadeInOrder
  <2>8. PlacedComposer(k)'
    BY <1>t, <1>o, <2>1, <2>2, <2>3, <2>6 DEF PlacedComposer
  <2>9. \A j \in Composer : composing'[j] = composing[j] \/ PlacedComposer(j)'
    BY <2>3, <2>8 DEF OnlyComposer
  <2>10. \A c \in Card : card'[c].status = "superseded" =>
             \/ card[c].status = "superseded"
             \/ \E n \in Card : n > c /\ shown[n] > 0 /\ card[n].draft # 0
    <3>1. old \in Nat /\ composing[k].card \in Nat
      BY <2>2 DEF Card
    <3>2. composing[k].card > old
      BY <2>2, <3>1
    <3> QED  BY <2>2, <2>4, <3>2
  <2> QED  BY <2>1, <2>5, <2>6, <2>7, <2>9, <2>10, PlacesKept
<1>8. CASE DeleteOld(k)
  <2>1. /\ UNCHANGED <<card, made, crossed, updating, posting, shown, repeats, stops>>
        /\ UNCHANGED daemonVars /\ Goes(k, "idle") /\ drafts' \subseteq drafts
    BY <1>8 DEF DeleteOld
  <2>2. composing' \in [Composer -> ComposeRow] /\ OnlyComposer(k) /\ composing'[k].step = "idle"
    BY <1>t, <2>1, GoesOn
  <2>3. ComposeTypes' /\ DaemonTypes'
    BY <1>r, <1>t, <2>1, <2>2, TypesKept
  <2>4. \A j \in Composer : composing'[j] = composing[j] \/ PlacedComposer(j)'
    BY <2>2 DEF OnlyComposer, PlacedComposer
  <2>5. Grows /\ MadeInOrder'
    BY <1>t, <2>1 DEF Grows, MadeInOrder
  <2> QED  BY <2>1, <2>3, <2>4, <2>5, PlacesKept
<1>9. CASE ComposeStops(k)
  <2>1. PICK goesOn \in {FALSE, Compose(k, "nudge") /\ composing[k].old # 0} :
            Goes(k, IF goesOn THEN "replace" ELSE "idle")
    BY <1>9 DEF ComposeStops
  <2>2. /\ UNCHANGED <<card, drafts, made, crossed, updating, posting, shown>>
        /\ UNCHANGED daemonVars /\ stops < MaxStops /\ stops' = stops + 1
        /\ Excuse(IF Compose(k, "nudge") THEN {composing[k].card} ELSE {})
    BY <1>9 DEF ComposeStops, mailVars
  <2>3. repeats' \in [Card -> Nat]
    BY <1>t, <2>2, ReasonGiven
  <2>4. stops' \in 0 .. MaxStops
    BY <1>r, <2>2, ComposeAssumption
  <2>5. \/ composing[k].step = "nudge" /\ composing[k].old # 0 /\ Goes(k, "replace")
        \/ Goes(k, "idle")
    BY <2>1 DEF Compose
  <2>6. /\ composing' \in [Composer -> ComposeRow] /\ OnlyComposer(k)
        /\ \/ composing'[k].step = "idle"
           \/ /\ composing'[k].step = "replace" /\ composing[k].step = "nudge"
              /\ composing[k].old # 0 /\ composing'[k].old = composing[k].old
              /\ composing'[k].card = composing[k].card
    BY <1>t, <2>5, GoesOn
  <2>7. ComposeTypes' /\ DaemonTypes'
    BY <1>r, <1>t, <2>2, <2>3, <2>4, <2>6, TypesKept
  <2>8. PlacedComposer(k)'
    BY <1>t, <2>2, <2>6 DEF PlacedComposer
  <2>9. \A j \in Composer : composing'[j] = composing[j] \/ PlacedComposer(j)'
    BY <2>6, <2>8 DEF OnlyComposer
  <2>10. Grows /\ MadeInOrder'
    BY <1>t, <2>2 DEF Grows, MadeInOrder
  <2> QED  BY <2>2, <2>7, <2>9, <2>10, PlacesKept
<1> QED
  BY <1>1, <1>2, <1>3, <1>4, <1>5, <1>6, <1>7, <1>8, <1>9 DEF ComposeStep

(* A step of the update.                                                   *)
LEMMA UpdatePlaces ==
  ASSUME PlaceInv, (\E d \in Draft : StartUpdate(d)) \/ UpdateStep \/ UpdateStops
  PROVE  PlaceInv'
<1>t. DaemonTypes /\ ComposeTypes /\ MadeInOrder /\ Blank
  BY DEF PlaceInv
<1>r. /\ card \in [Card -> CardRow] /\ drafts \subseteq Draft /\ made \in 0 .. MaxDrafts
      /\ composing \in [Composer -> ComposeRow] /\ updating \in UpdateRow
      /\ posting \in [Poster -> PostRow] /\ shown \in [Card -> Nat]
      /\ repeats \in [Card -> Nat] /\ crossed \subseteq Card /\ stops \in 0 .. MaxStops
  BY <1>t, ComposeRows
<1>p. PlacedUpdate
  BY DEF PlaceInv
<1>w. updating' \in UpdateRow
  BY <1>t, UpdateMoves
<1>1. CASE \E d \in Draft : StartUpdate(d)
  <2>1. UNCHANGED <<card, drafts, made, crossed, composing, posting, shown, repeats, stops>>
        /\ UNCHANGED daemonVars
    BY <1>1 DEF StartUpdate, mailVars
  <2>2. updating'.step = "create" /\ updating'.old \in Draft /\ updating'.rows = {}
    BY <1>1, <1>t, UpdateMoves
  <2>3. PlacedUpdate'
    BY <2>2 DEF PlacedUpdate, Draft
  <2>4. ComposeTypes' /\ DaemonTypes'
    BY <1>t, <1>r, <1>w, <2>1, TypesKept
  <2>5. Grows /\ MadeInOrder'
    BY <1>t, <2>1 DEF Grows, MadeInOrder
  <2> QED  BY <2>1, <2>3, <2>4, <2>5, PlacesKept
<1>2. CASE CreateReplacement
  <2>1. UNCHANGED <<card, crossed, composing, posting, shown, repeats, stops>>
        /\ UNCHANGED daemonVars /\ updating.step = "create"
    BY <1>2 DEF CreateReplacement
  <2>2. /\ updating'.step = "delete" /\ updating'.old = updating.old
        /\ updating'.new = made + 1 /\ updating'.rows = updating.rows
        /\ made \in Nat /\ made' = made + 1 /\ made' \in 1 .. MaxDrafts
        /\ drafts' = drafts \cup {made + 1}
    BY <1>2, <1>t, UpdateMoves DEF UpdateStep
  <2>3. PlacedUpdate'
    BY <1>p, <2>1, <2>2 DEF PlacedUpdate
  <2>4. made' \in 0 .. MaxDrafts /\ drafts' \subseteq Draft
    <3>1. made' \in 0 .. MaxDrafts
      BY <2>2, ComposeAssumption
    <3> QED  BY <1>r, <2>2, <3>1 DEF Draft
  <2>5. ComposeTypes' /\ DaemonTypes'
    BY <1>t, <1>r, <1>w, <2>1, <2>4, TypesKept
  <2>6. Grows /\ MadeInOrder'
    BY <1>t, <2>1 DEF Grows, MadeInOrder
  <2> QED  BY <2>1, <2>3, <2>5, <2>6, PlacesKept
<1>3. CASE DeleteReplaced
  <2>1. UNCHANGED <<card, made, crossed, composing, posting, shown, repeats, stops>>
        /\ UNCHANGED daemonVars /\ updating.step = "delete" /\ drafts' \subseteq drafts
    BY <1>3 DEF DeleteReplaced
  <2>2. /\ updating'.step = "find" /\ updating'.old = updating.old
        /\ updating'.new = updating.new /\ updating'.rows = updating.rows
    BY <1>3, <1>t, UpdateMoves DEF UpdateStep
  <2>3. PlacedUpdate'
    BY <1>p, <2>1, <2>2 DEF PlacedUpdate
  <2>4. ComposeTypes' /\ DaemonTypes'
    BY <1>t, <1>r, <1>w, <2>1, TypesKept
  <2>5. Grows /\ MadeInOrder'
    BY <1>t, <2>1 DEF Grows, MadeInOrder
  <2> QED  BY <2>1, <2>3, <2>4, <2>5, PlacesKept
<1>4. CASE FindRows
  <2>1. UNCHANGED <<card, drafts, made, crossed, composing, posting, shown, repeats, stops>>
        /\ UNCHANGED daemonVars /\ updating.step = "find"
    BY <1>4 DEF FindRows, mailVars
  <2>2. /\ updating'.step = "repoint" /\ updating'.old = updating.old
        /\ updating'.new = updating.new
        /\ updating'.rows = {c \in Rows(Live) : card[c].draft = updating.old}
    BY <1>4, <1>t, UpdateMoves DEF UpdateStep
  <2>3. PlacedUpdate'
    BY <1>p, <2>1, <2>2 DEF PlacedUpdate, Rows, Live
  <2>4. ComposeTypes' /\ DaemonTypes'
    BY <1>t, <1>r, <1>w, <2>1, TypesKept
  <2>5. Grows /\ MadeInOrder'
    BY <1>t, <2>1 DEF Grows, MadeInOrder
  <2> QED  BY <2>1, <2>3, <2>4, <2>5, PlacesKept
<1>5. ASSUME NEW c \in Card, Repoint(c)  PROVE PlaceInv'
  <2>1. UNCHANGED <<drafts, made, crossed, composing, posting, shown, repeats, stops>>
        /\ UNCHANGED daemonVars /\ updating.step = "repoint" /\ c \in updating.rows
        /\ card' = [card EXCEPT ![c].draft = updating.new]
    BY <1>5 DEF Repoint
  <2>2. /\ updating'.step = "repoint" /\ updating'.old = updating.old
        /\ updating'.new = updating.new /\ updating'.rows = updating.rows \ {c}
    BY <1>5, <1>t, UpdateMoves DEF UpdateStep
  <2>3. updating.new # 0 /\ updating.new \in 0 .. MaxDrafts /\ card[c].status # "none"
    BY <1>p, <1>r, <2>1 DEF PlacedUpdate, UpdateRow
  <2>4. /\ card' \in [Card -> CardRow] /\ OnlyCard(c)
        /\ card'[c].status = card[c].status /\ card'[c].draft = updating.new
    BY <1>t, <2>1, <2>3, CardDraft
  <2>5. \A d \in Card : card'[d].status = card[d].status /\ (d # c => card'[d] = card[d])
    BY <2>4 DEF OnlyCard
  <2>6. updating.rows \subseteq Card
    BY <1>r DEF UpdateRow
  <2>7. PlacedUpdate'
    BY <1>p, <2>1, <2>2, <2>5, <2>6 DEF PlacedUpdate
  <2>8. ComposeTypes' /\ DaemonTypes'
    BY <1>t, <1>r, <1>w, <2>1, <2>4, TypesKept
  <2>9. Grows /\ MadeInOrder'
    BY <1>t, <2>1, <2>3, <2>4, <2>5 DEF Grows, MadeInOrder
  <2>10. \A d \in Card : card'[d].status = "none" => card'[d] = card[d]
    BY <2>3, <2>5
  <2> QED  BY <2>1, <2>5, <2>7, <2>8, <2>9, <2>10, PlacesKept
<1>6. CASE EndUpdate \/ UpdateStops
  <2>1. UNCHANGED <<card, drafts, made, composing, posting, shown, repeats>>
        /\ UNCHANGED daemonVars /\ stops' \in 0 .. MaxStops /\ crossed' \subseteq Card
    <3>1. CASE EndUpdate
      BY <1>r, <3>1 DEF EndUpdate, mailVars
    <3>2. CASE UpdateStops
      <4>1. stops + 1 \in 0 .. MaxStops
        BY <1>r, <3>2, ComposeAssumption DEF UpdateStops
      <4> QED  BY <1>r, <3>2, <4>1 DEF UpdateStops
    <3> QED  BY <1>6, <3>1, <3>2
  <2>2. updating'.step = "idle" /\ updating'.rows = {}
    BY <1>6, <1>t, UpdateMoves DEF UpdateStep
  <2>3. PlacedUpdate'
    BY <2>2 DEF PlacedUpdate
  <2>4. ComposeTypes' /\ DaemonTypes'
    BY <1>t, <1>r, <1>w, <2>1, TypesKept
  <2>5. Grows /\ MadeInOrder'
    BY <1>t, <2>1 DEF Grows, MadeInOrder
  <2> QED  BY <2>1, <2>3, <2>4, <2>5, PlacesKept
<1> QED  BY <1>1, <1>2, <1>3, <1>4, <1>5, <1>6 DEF UpdateStep

(* A click writes the status of its row, and what a claim has read.        *)
LEMMA ClickWrites ==
  ASSUME ComposeTypes, NEW c \in Card, ClickStep(c)
  PROVE  /\ card' \in [Card -> CardRow] /\ OnlyCard(c)
         /\ card[c].status # "none" /\ card'[c].status \notin {"none", "superseded"}
         /\ card'[c].draft = card[c].draft /\ card'[c].nudged = card[c].nudged
         /\ drafts' \subseteq drafts /\ crossed' \subseteq Card
         /\ card'[c].status = "pending" => card[c].status = "pending"
         /\ UNCHANGED <<made, composing, updating, posting, shown, repeats, stops>>
         /\ UNCHANGED daemonVars
<1>0. crossed \subseteq Card
  BY DEF ComposeTypes
<1>1. CASE Claim(c)
  <2>1. /\ card' \in [Card -> CardRow] /\ OnlyCard(c)
        /\ card'[c].status = "sending" /\ card'[c].draft = card[c].draft
        /\ card'[c].held = card[c].draft /\ card'[c].nudged = card[c].nudged
    BY <1>1, CardClaimed
  <2> QED  BY <1>0, <1>1, <2>1 DEF Claim, Live
<1>2. CASE Deliver(c)
  <2> DEFINE status == IF card[c].held \in drafts THEN "sent" ELSE "error"
  <2>1. card' = [card EXCEPT ![c].status = status] /\ status \in {"sent", "error"}
    BY <1>2 DEF Deliver
  <2> HIDE DEF status
  <2>2. /\ card' \in [Card -> CardRow] /\ OnlyCard(c)
        /\ card'[c].status = status /\ card'[c].draft = card[c].draft
        /\ card'[c].nudged = card[c].nudged
    BY <2>1, CardStatus
  <2> QED  BY <1>0, <1>2, <2>1, <2>2 DEF Deliver
<1>3. ASSUME NEW status \in {"rejected", "scheduled"}, Resolve(c, status)
      PROVE  /\ card' \in [Card -> CardRow] /\ OnlyCard(c) /\ card[c].status = "pending"
             /\ card'[c].status = status /\ card'[c].draft = card[c].draft
             /\ card'[c].nudged = card[c].nudged
             /\ UNCHANGED <<drafts, made, crossed, composing, updating, posting, shown, repeats,
                            stops>>
             /\ UNCHANGED daemonVars
  <2>1. card' = [card EXCEPT ![c].status = status] /\ card[c].status = "pending"
    BY <1>3 DEF Resolve
  <2> QED  BY <1>3, <2>1, CardStatus DEF Resolve, Live
<1> QED  BY <1>0, <1>1, <1>2, <1>3 DEF ClickStep

(* A click, and the send it starts.                                        *)
LEMMA ClickPlaces ==
  ASSUME PlaceInv, NEW c \in Card, ClickStep(c)
  PROVE  PlaceInv'
<1>t. DaemonTypes /\ ComposeTypes /\ MadeInOrder /\ Blank
  BY DEF PlaceInv
<1>r. /\ card \in [Card -> CardRow] /\ drafts \subseteq Draft /\ made \in 0 .. MaxDrafts
      /\ composing \in [Composer -> ComposeRow] /\ updating \in UpdateRow
      /\ posting \in [Poster -> PostRow] /\ shown \in [Card -> Nat]
      /\ repeats \in [Card -> Nat] /\ crossed \subseteq Card /\ stops \in 0 .. MaxStops
  BY <1>t, ComposeRows
<1>1. /\ card' \in [Card -> CardRow] /\ OnlyCard(c)
      /\ card[c].status # "none" /\ card'[c].status \notin {"none", "superseded"}
      /\ card'[c].draft = card[c].draft /\ card'[c].nudged = card[c].nudged
      /\ drafts' \subseteq drafts /\ crossed' \subseteq Card
      /\ UNCHANGED <<made, composing, updating, posting, shown, repeats, stops>>
      /\ UNCHANGED daemonVars
  BY <1>t, ClickWrites
<1>2. \A d \in Card : d # c => card'[d] = card[d]
  BY <1>1 DEF OnlyCard
<1>3. ComposeTypes' /\ DaemonTypes'
  BY <1>t, <1>r, <1>1, TypesKept
<1>4. Grows
  BY <1>1, <1>2 DEF Grows
<1>5. MadeInOrder'
  BY <1>t, <1>1, <1>2 DEF MadeInOrder
<1>6. /\ \A d \in Card : card'[d].status = "none" => card'[d] = card[d]
      /\ \A d \in Card : card'[d].status = "superseded" => card[d].status = "superseded"
  BY <1>1, <1>2
<1> QED  BY <1>1, <1>3, <1>4, <1>5, <1>6, PlacesKept

(* A step of the carousel.                                                 *)
LEMMA CarouselPlaces ==
  ASSUME PlaceInv, NEW q \in Poster, CarouselStep(q) \/ ShowFails(q) \/ RecordFails(q)
  PROVE  PlaceInv'
<1>t. DaemonTypes /\ ComposeTypes /\ MadeInOrder /\ Blank
  BY DEF PlaceInv
<1>r. /\ card \in [Card -> CardRow] /\ drafts \subseteq Draft /\ made \in 0 .. MaxDrafts
      /\ composing \in [Composer -> ComposeRow] /\ updating \in UpdateRow
      /\ posting \in [Poster -> PostRow] /\ shown \in [Card -> Nat]
      /\ repeats \in [Card -> Nat] /\ crossed \subseteq Card /\ stops \in 0 .. MaxStops
  BY <1>t, ComposeRows
<1>q. PlacedPoster(q) /\ posting[q] \in PostRow /\ posting[q].at \in 0 .. MaxNow
      /\ now \in 0 .. MaxNow
  BY <1>r, <1>t DEF PlaceInv, PostRow, DaemonTypes
<1>f. stops < MaxStops => stops + 1 \in 0 .. MaxStops
  BY <1>r, ComposeAssumption
<1> DEFINE own == posting[q].card
<1>1. ASSUME NEW c \in Card, PickCard(q, c)  PROVE PlaceInv'
  <2>1. /\ UNCHANGED <<card, drafts, made, crossed, composing, updating, shown, stops>>
        /\ UNCHANGED daemonVars /\ repeats' \in [Card -> Nat]
    BY <1>1, <1>t, ReasonGiven DEF PickCard, mailVars
  <2>2. /\ posting' \in [Poster -> PostRow] /\ OnlyPoster(q)
        /\ posting'[q].step = "show" /\ posting'[q].card = c /\ card[c].status = "pending"
    BY <1>1, <1>t, PosterPicks
  <2>3. \A r \in Poster : posting'[r] = posting[r] \/ PlacedPoster(r)'
    BY <2>1, <2>2 DEF OnlyPoster, PlacedPoster
  <2>4. ComposeTypes' /\ DaemonTypes'
    BY <1>t, <1>r, <2>1, <2>2, TypesKept
  <2>5. Grows /\ MadeInOrder'
    BY <1>t, <2>1 DEF Grows, MadeInOrder
  <2> QED  BY <2>1, <2>3, <2>4, <2>5, PlacesKept
<1>2. CASE ShowPicked(q)
  <2>1. /\ UNCHANGED <<card, drafts, made, crossed, composing, updating, repeats, stops>>
        /\ UNCHANGED daemonVars /\ posting[q].step = "show"
        /\ posting' = [posting EXCEPT ![q].step = "record"]
        /\ shown' = [shown EXCEPT ![own] = @ + 1]
    BY <1>2 DEF ShowPicked, mailVars
  <2>2. own \in Card /\ card[own].status # "none"
    BY <1>q, <2>1 DEF PlacedPoster
  <2>3. /\ posting' \in [Poster -> PostRow] /\ OnlyPoster(q)
        /\ posting'[q].step = "record" /\ posting'[q].card = own
    BY <1>t, <2>1, PosterShows
  <2> HIDE DEF own
  <2>4. shown' \in [Card -> Nat] /\ shown'[own] = shown[own] + 1
        /\ \A d \in Card \ {own} : shown'[d] = shown[d]
    BY <1>t, <2>1, <2>2, CardShown
  <2>5. \A r \in Poster : posting'[r] = posting[r] \/ PlacedPoster(r)'
    BY <2>1, <2>2, <2>3 DEF OnlyPoster, PlacedPoster
  <2>6. ComposeTypes' /\ DaemonTypes'
    BY <1>t, <1>r, <2>1, <2>3, <2>4, TypesKept
  <2>7. Grows /\ MadeInOrder'
    BY <1>t, <2>1, <2>2, <2>4 DEF Grows, MadeInOrder
  <2> QED  BY <2>1, <2>5, <2>6, <2>7, PlacesKept
<1>3. CASE RecordPicked(q) \/ ShowFails(q)
  <2>1. /\ UNCHANGED <<drafts, made, crossed, composing, updating, shown, repeats>>
        /\ UNCHANGED daemonVars /\ posting[q].step # "idle"
        /\ posting' = [posting EXCEPT ![q] = NotPosting] /\ stops' \in 0 .. MaxStops
    BY <1>r, <1>f, <1>3 DEF RecordPicked, ShowFails
  <2>2. own \in Card /\ card[own].status # "none"
    BY <1>q, <2>1 DEF PlacedPoster
  <2>3. /\ posting' \in [Poster -> PostRow] /\ OnlyPoster(q)
        /\ posting'[q].step = "idle" /\ posting'[q].card = 0
    BY <1>t, <2>1, PosterDone
  <2>4. /\ card' \in [Card -> CardRow] /\ OnlyCard(own)
        /\ card'[own].status = card[own].status /\ card'[own].draft = card[own].draft
    <3>1. CASE RecordPicked(q)
      <4>1. Nudged(own, posting[q].at)
        BY <3>1 DEF RecordPicked
      <4> HIDE DEF own
      <4> QED  BY <1>t, <1>q, <2>2, <4>1, CardNudged
    <3>2. CASE ShowFails(q)
      <4>1. card' = [card EXCEPT ![own].due = now + NudgeSpan]
        BY <3>2 DEF ShowFails
      <4> HIDE DEF own
      <4> QED  BY <1>t, <1>q, <2>2, <4>1, CardTimer
    <3> QED  BY <1>3, <3>1, <3>2
  <2> HIDE DEF own
  <2>5. \A r \in Poster : posting'[r] = posting[r] \/ PlacedPoster(r)'
    BY <2>3 DEF OnlyPoster, PlacedPoster
  <2>6. ComposeTypes' /\ DaemonTypes'
    BY <1>t, <1>r, <2>1, <2>3, <2>4, TypesKept
  <2>7. \A d \in Card : /\ card'[d].status = card[d].status /\ card'[d].draft = card[d].draft
                        /\ d # own => card'[d] = card[d]
    BY <2>4 DEF OnlyCard
  <2>8. Grows /\ MadeInOrder'
    BY <1>t, <2>1, <2>7 DEF Grows, MadeInOrder
  <2>9. \A d \in Card : card'[d].status = "none" => card'[d] = card[d]
    BY <2>2, <2>7
  <2> QED  BY <2>1, <2>5, <2>6, <2>7, <2>8, <2>9, PlacesKept
<1>4. CASE RecordFails(q)
  <2>1. /\ UNCHANGED <<card, drafts, made, crossed, composing, updating, shown>>
        /\ UNCHANGED daemonVars /\ stops' \in 0 .. MaxStops
        /\ posting' = [posting EXCEPT ![q] = NotPosting]
    BY <1>f, <1>4 DEF RecordFails, mailVars
  <2>2. repeats' \in [Card -> Nat]
    BY <1>4, <1>t, ReasonGiven DEF RecordFails
  <2>3. /\ posting' \in [Poster -> PostRow] /\ OnlyPoster(q)
        /\ posting'[q].step = "idle" /\ posting'[q].card = 0
    BY <1>t, <2>1, PosterDone
  <2>4. \A r \in Poster : posting'[r] = posting[r] \/ PlacedPoster(r)'
    BY <2>3 DEF OnlyPoster, PlacedPoster
  <2>5. ComposeTypes' /\ DaemonTypes'
    BY <1>t, <1>r, <2>1, <2>2, <2>3, TypesKept
  <2>6. Grows /\ MadeInOrder'
    BY <1>t, <2>1 DEF Grows, MadeInOrder
  <2> QED  BY <2>1, <2>4, <2>5, <2>6, PlacesKept
<1> QED  BY <1>1, <1>2, <1>3, <1>4 DEF CarouselStep

(* A restart drops what the carousel has in hand.                          *)
LEMMA RestartPlaces ==
  ASSUME PlaceInv, CarouselRestart
  PROVE  PlaceInv'
<1>t. DaemonTypes /\ ComposeTypes /\ MadeInOrder /\ Blank
  BY DEF PlaceInv
<1>r. /\ card \in [Card -> CardRow] /\ drafts \subseteq Draft /\ made \in 0 .. MaxDrafts
      /\ composing \in [Composer -> ComposeRow] /\ updating \in UpdateRow
      /\ posting \in [Poster -> PostRow] /\ shown \in [Card -> Nat]
      /\ repeats \in [Card -> Nat] /\ crossed \subseteq Card /\ stops \in 0 .. MaxStops
  BY <1>t, ComposeRows
<1>1. /\ UNCHANGED <<card, drafts, made, crossed, composing, updating, shown, stops>>
      /\ repeats' \in [Card -> Nat] /\ posting' = [q \in Poster |-> NotPosting]
  BY <1>t, ReasonGiven DEF CarouselRestart, mailVars
<1>2. DaemonTypes'
  BY <1>t, DaemonAssumption DEF CarouselRestart, Restarts, DaemonTypes
<1>3. NotPosting \in PostRow /\ NotPosting.step = "idle" /\ NotPosting.card = 0
  BY ComposeAssumption, DaemonAssumption DEF PostRow, NotPosting
<1>4. posting' \in [Poster -> PostRow]
  BY <1>1, <1>3
<1>5. ComposeTypes'
  BY <1>r, <1>1, <1>4 DEF ComposeTypes, CardRow, ComposeRow, UpdateRow, PostRow
<1>6. \A q \in Poster : PlacedPoster(q)'
  BY <1>1, <1>3 DEF PlacedPoster
<1>7. Grows /\ MadeInOrder'
  BY <1>t, <1>1 DEF Grows, MadeInOrder
<1> QED  BY <1>1, <1>2, <1>5, <1>6, <1>7, PlacesKept

(* The places hold through every step.                                     *)
LEMMA StepPlaces == PlaceInv /\ [ComposeNext]_allComposeVars => PlaceInv'
<1> SUFFICES ASSUME PlaceInv, [ComposeNext]_allComposeVars PROVE PlaceInv'
  OBVIOUS
<1>1. CASE UNCHANGED composeVars /\ DaemonTypes'
  <2>1. /\ UNCHANGED <<card, drafts, made, crossed, composing, updating, posting, shown, repeats,
                       stops>>
    BY <1>1 DEF composeVars, mailVars
  <2>2. ComposeTypes'
    BY <2>1 DEF PlaceInv, ComposeTypes
  <2> QED  BY <1>1, <2>1, <2>2, PlacesStay
<1>2. CASE UNCHANGED allComposeVars
  BY <1>1, <1>2 DEF allComposeVars, daemonVars, PlaceInv, DaemonTypes
<1>3. CASE Tick /\ UNCHANGED composeVars
  BY <1>1, <1>3, DaemonAssumption DEF Tick, PlaceInv, DaemonTypes
<1> QED
  BY <1>2, <1>3, ComposerPlaces, UpdatePlaces, ClickPlaces, CarouselPlaces, RestartPlaces
     DEF ComposeNext

(* The state of the composes, the update and the carousel has its types.   *)
THEOREM ComposeTypesHold == ComposeSpec => []ComposeTypes
<1>1. PlaceInv => ComposeTypes
  BY DEF PlaceInv
<1> QED  BY <1>1, InitPlaces, StepPlaces, PTL DEF ComposeSpec

(* A row that was retired for a follow-up has a newer one that came up     *)
(* with a draft, wherever a compose failed or died.                        *)
THEOREM FollowUpsAreUp == ComposeSpec => []SupersededHasSuccessor
<1>1. PlaceInv => SupersededHasSuccessor
  BY DEF PlaceInv
<1> QED  BY <1>1, InitPlaces, StepPlaces, PTL DEF ComposeSpec

-----------------------------------------------------------------------------
(* Showings and their reasons. *)

(* Who is about to show a card.                                            *)
WaitingComposers(c) == {k \in Composer : composing[k].card = c /\ composing[k].step \in {"link", "show"}}
WaitingPosters(c) == {q \in Poster : posting[q].card = c /\ posting[q].step = "show"}

(* A showing under way counts like one that was made, and a card that is   *)
(* in no hand and not recorded as nudged has a reason left over.           *)
CountedShowings(c) ==
    /\ IsFiniteSet(WaitingComposers(c)) /\ IsFiniteSet(WaitingPosters(c))
    /\ shown[c] + Cardinality(WaitingComposers(c)) + Cardinality(WaitingPosters(c))
          <= 1 + repeats[c]
    /\ ~card[c].nudged /\ ~InHand(c) => shown[c] <= repeats[c]

ShowInv == PlaceInv /\ \A c \in Card : CountedShowings(c)

(* At first nothing was shown and nobody is about to.                      *)
LEMMA InitShowings == DaemonInit /\ ComposeInit => ShowInv
<1> SUFFICES ASSUME DaemonInit, ComposeInit PROVE ShowInv
  OBVIOUS
<1>1. ASSUME NEW c \in Card  PROVE CountedShowings(c)
  <2>1. WaitingComposers(c) = {} /\ WaitingPosters(c) = {} /\ shown[c] = 0 /\ repeats[c] = 0
    BY DEF ComposeInit, WaitingComposers, WaitingPosters, NotComposing, NotPosting
  <2> QED  BY <2>1, FS_EmptySet DEF CountedShowings
<1> QED  BY <1>1, InitPlaces DEF ShowInv

(* The counts of a card are natural numbers.                               *)
LEMMA CountTypes ==
  ASSUME PlaceInv, NEW c \in Card, CountedShowings(c)
  PROVE  /\ shown[c] \in Nat /\ repeats[c] \in Nat
         /\ Cardinality(WaitingComposers(c)) \in Nat /\ Cardinality(WaitingPosters(c)) \in Nat
<1>1. shown[c] \in Nat /\ repeats[c] \in Nat
  BY DEF PlaceInv, ComposeTypes
<1> QED  BY <1>1, FS_CardinalityType DEF CountedShowings

(* A step that touches neither the hands nor the counts of a card.         *)
LEMMA ShowingsKept ==
  ASSUME NEW c \in Card, CountedShowings(c),
         WaitingComposers(c)' = WaitingComposers(c), WaitingPosters(c)' = WaitingPosters(c),
         shown'[c] = shown[c], repeats'[c] = repeats[c],
         InHand(c) => InHand(c)', card[c].nudged => card'[c].nudged
  PROVE  CountedShowings(c)'
  BY DEF CountedShowings

(* What the step of one compose does to the hands a card is in.            *)
LEMMA ComposerHands ==
  ASSUME NEW k \in Composer, OnlyComposer(k), UNCHANGED posting, NEW c \in Card
  PROVE  /\ WaitingPosters(c)' = WaitingPosters(c)
         /\ composing'[k].card = c /\ composing'[k].step \in {"link", "show"} =>
                WaitingComposers(c)' = WaitingComposers(c) \cup {k}
         /\ ~(composing'[k].card = c /\ composing'[k].step \in {"link", "show"}) =>
                WaitingComposers(c)' = WaitingComposers(c) \ {k}
         /\ ~(composing[k].card = c /\ composing[k].step \in {"link", "show", "nudge"}) =>
                (InHand(c) => InHand(c)')
         /\ composing'[k].card = c /\ composing'[k].step \in {"link", "show", "nudge"} => InHand(c)'
<1>1. WaitingPosters(c)' = WaitingPosters(c)
  BY DEF WaitingPosters
<1>2. /\ composing'[k].card = c /\ composing'[k].step \in {"link", "show"} =>
                WaitingComposers(c)' = WaitingComposers(c) \cup {k}
      /\ ~(composing'[k].card = c /\ composing'[k].step \in {"link", "show"}) =>
                WaitingComposers(c)' = WaitingComposers(c) \ {k}
  BY DEF WaitingComposers, OnlyComposer
<1>3. ~(composing[k].card = c /\ composing[k].step \in {"link", "show", "nudge"}) =>
                (InHand(c) => InHand(c)')
  BY DEF InHand, OnlyComposer
<1>4. composing'[k].card = c /\ composing'[k].step \in {"link", "show", "nudge"} => InHand(c)'
  BY DEF InHand
<1> QED  BY <1>1, <1>2, <1>3, <1>4

(* A compose that holds no card for showing leaves the counts alone.       *)
LEMMA QuietComposer ==
  ASSUME NEW k \in Composer, OnlyComposer(k), UNCHANGED <<posting, shown, repeats>>,
         NEW c \in Card, CountedShowings(c), card[c].nudged => card'[c].nudged,
         composing[k].step \notin {"link", "show", "nudge"},
         composing'[k].step \notin {"link", "show", "nudge"}
  PROVE  CountedShowings(c)'
<1>1. k \notin WaitingComposers(c)
  BY DEF WaitingComposers
<1>2. WaitingComposers(c)' = WaitingComposers(c) \ {k}
  BY ComposerHands
<1>3. WaitingComposers(c)' = WaitingComposers(c)
  BY <1>1, <1>2
<1> QED  BY <1>3, ComposerHands, ShowingsKept

(* A step of a compose.                                                    *)
LEMMA ComposerShowings ==
  ASSUME PlaceInv, NEW k \in Composer, StartCompose(k) \/ ComposeStep(k) \/ ComposeStops(k),
         NEW c \in Card, CountedShowings(c)
  PROVE  CountedShowings(c)'
<1>t. DaemonTypes /\ ComposeTypes /\ Blank /\ PlacedComposer(k)
  BY DEF PlaceInv
<1>n. /\ shown[c] \in Nat /\ repeats[c] \in Nat
      /\ Cardinality(WaitingComposers(c)) \in Nat /\ Cardinality(WaitingPosters(c)) \in Nat
  BY CountTypes
<1>c. /\ IsFiniteSet(WaitingComposers(c)) /\ IsFiniteSet(WaitingPosters(c))
      /\ shown[c] + Cardinality(WaitingComposers(c)) + Cardinality(WaitingPosters(c))
            <= 1 + repeats[c]
      /\ ~card[c].nudged /\ ~InHand(c) => shown[c] <= repeats[c]
  BY DEF CountedShowings
<1>a. IsFiniteSet(WaitingComposers(c) \cup {k})
      /\ Cardinality(WaitingComposers(c) \cup {k}) =
            IF k \in WaitingComposers(c) THEN Cardinality(WaitingComposers(c))
            ELSE Cardinality(WaitingComposers(c)) + 1
  BY <1>c, FS_AddElement
<1>d. IsFiniteSet(WaitingComposers(c) \ {k})
      /\ Cardinality(WaitingComposers(c) \ {k}) =
            IF k \in WaitingComposers(c) THEN Cardinality(WaitingComposers(c)) - 1
            ELSE Cardinality(WaitingComposers(c))
  BY <1>c, FS_RemoveElement
<1>1. CASE StartCompose(k)
  <2>1. OnlyComposer(k) /\ composing'[k].step = "draft"
    BY <1>1, <1>t, ComposeStarts
  <2> QED  BY <1>1, <2>1, QuietComposer DEF StartCompose, Compose, mailVars
<1>2. CASE CreateDraft(k)
  <2>1. OnlyComposer(k) /\ composing'[k].step = "insert"
    BY <1>2, <1>t, ComposeDrafts
  <2> QED  BY <1>2, <2>1, QuietComposer DEF CreateDraft, Compose
<1>3. CASE InsertRow(k)
  <2>1. PICK d \in Card :
          /\ OnlyCard(d) /\ card[d].status = "none" /\ card'[d].nudged = card[d].nudged
          /\ OnlyComposer(k) /\ composing'[k].step = "link" /\ composing'[k].card = d
    BY <1>3, <1>t, ComposeInserts
  <2>2. UNCHANGED <<posting, shown, repeats>> /\ composing[k].step = "insert"
    BY <1>3 DEF InsertRow, Compose
  <2>3. card'[c].nudged = card[c].nudged
    BY <2>1 DEF OnlyCard
  <2>4. k \notin WaitingComposers(c)
    BY <2>2 DEF WaitingComposers
  <2>5. CASE c = d
    <3>1. ~card[c].nudged /\ ~InHand(c)
      <4>1. ~card[c].nudged
        BY <1>t, <2>1, <2>5 DEF Blank
      <4>2. \A j \in Composer : ~(composing[j].card = c
                                  /\ composing[j].step \in {"link", "show", "nudge"})
        BY <2>1, <2>5 DEF PlaceInv, PlacedComposer
      <4>3. \A q \in Poster : posting[q].card # c
        <5>1. c # 0
          BY DEF Card
        <5> QED  BY <2>1, <2>5, <5>1 DEF PlaceInv, PlacedPoster
      <4> QED  BY <4>1, <4>2, <4>3 DEF InHand
    <3>2. WaitingComposers(c) = {} /\ WaitingPosters(c) = {}
      BY <3>1 DEF InHand, WaitingComposers, WaitingPosters
    <3>3. Cardinality(WaitingComposers(c)) = 0 /\ Cardinality(WaitingPosters(c)) = 0
      BY <3>2, FS_EmptySet
    <3>4. /\ WaitingComposers(c)' = WaitingComposers(c) \cup {k}
          /\ WaitingPosters(c)' = WaitingPosters(c) /\ InHand(c)'
      BY <2>1, <2>2, <2>5, ComposerHands
    <3>5. Cardinality(WaitingComposers(c) \cup {k}) = 1
      BY <1>a, <2>4, <3>3
    <3>6. shown[c] <= repeats[c]
      BY <1>c, <3>1
    <3> QED  BY <1>a, <1>c, <1>n, <2>2, <3>3, <3>4, <3>5, <3>6 DEF CountedShowings
  <2>6. CASE c # d
    <3>1. WaitingComposers(c)' = WaitingComposers(c) \ {k}
      BY <2>1, <2>2, <2>6, ComposerHands
    <3>2. WaitingComposers(c)' = WaitingComposers(c)
      BY <2>4, <3>1
    <3>3. WaitingPosters(c)' = WaitingPosters(c) /\ (InHand(c) => InHand(c)')
      BY <2>1, <2>2, ComposerHands
    <3> QED  BY <2>2, <2>3, <3>2, <3>3, ShowingsKept
  <2> QED  BY <2>5, <2>6
<1>4. CASE LinkDraft(k)
  <2>1. UNCHANGED <<posting, shown, repeats>> /\ composing[k].step = "link" /\ Goes(k, "show")
        /\ card' = [card EXCEPT ![composing[k].card].draft = composing[k].draft]
    BY <1>4 DEF LinkDraft, Compose
  <2>2. OnlyComposer(k) /\ composing'[k].step = "show" /\ composing'[k].card = composing[k].card
    BY <1>t, <2>1, GoesOn
  <2>3. card'[c].nudged = card[c].nudged
    <3>1. card \in [Card -> CardRow]
      BY <1>t DEF ComposeTypes, CardRow
    <3> QED  BY <2>1, <3>1 DEF CardRow
  <2>4. WaitingComposers(c)' = WaitingComposers(c)
    BY <2>1, <2>2 DEF WaitingComposers, OnlyComposer
  <2>5. WaitingPosters(c)' = WaitingPosters(c) /\ (InHand(c) => InHand(c)')
    BY <2>1, <2>2, ComposerHands
  <2> QED  BY <2>1, <2>3, <2>4, <2>5, ShowingsKept
<1>5. CASE ShowComposed(k)
  <2>1. UNCHANGED <<card, posting, repeats>> /\ composing[k].step = "show" /\ Goes(k, "nudge")
        /\ shown' = [shown EXCEPT ![composing[k].card] = @ + 1]
    BY <1>5 DEF ShowComposed, Compose, mailVars
  <2>2. OnlyComposer(k) /\ composing'[k].step = "nudge" /\ composing'[k].card = composing[k].card
    BY <1>t, <2>1, GoesOn
  <2>3. composing[k].card \in Card
    BY <1>t, <2>1 DEF PlacedComposer
  <2>4. WaitingComposers(c)' = WaitingComposers(c) \ {k} /\ WaitingPosters(c)' = WaitingPosters(c)
    BY <2>1, <2>2, ComposerHands
  <2>5. CASE c = composing[k].card
    <3>1. k \in WaitingComposers(c) /\ InHand(c)'
      BY <2>1, <2>2, <2>5, ComposerHands DEF WaitingComposers
    <3>2. shown'[c] = shown[c] + 1
      BY <1>t, <2>1, <2>3, <2>5, CardShown
    <3>3. Cardinality(WaitingComposers(c) \ {k}) = Cardinality(WaitingComposers(c)) - 1
      BY <1>d, <3>1
    <3> QED  BY <1>c, <1>d, <1>n, <2>1, <2>4, <3>1, <3>2, <3>3 DEF CountedShowings
  <2>6. CASE c # composing[k].card
    <3>1. k \notin WaitingComposers(c)
      BY <2>6 DEF WaitingComposers
    <3>2. WaitingComposers(c)' = WaitingComposers(c)
      BY <2>4, <3>1
    <3>3. InHand(c) => InHand(c)'
      BY <2>1, <2>2, <2>6, ComposerHands
    <3>4. shown'[c] = shown[c]
      BY <1>t, <2>1, <2>3, <2>6, CardShown
    <3> QED  BY <2>1, <2>4, <3>2, <3>3, <3>4, ShowingsKept
  <2> QED  BY <2>5, <2>6
<1>6. CASE RecordComposed(k)
  <2> DEFINE next == IF composing[k].old = 0 THEN "idle" ELSE "replace"
  <2>1. UNCHANGED <<posting, shown, repeats>> /\ composing[k].step = "nudge" /\ Goes(k, next)
        /\ Nudged(composing[k].card, now)
    BY <1>6 DEF RecordComposed, Compose
  <2>2. OnlyComposer(k) /\ composing'[k].step = next /\ composing'[k].card = composing[k].card
    BY <1>t, <2>1, GoesOn
  <2>3. composing[k].card \in Card /\ now \in 0 .. MaxNow
    BY <1>t, <2>1 DEF PlacedComposer, DaemonTypes
  <2>4. OnlyCard(composing[k].card) /\ card'[composing[k].card].nudged = TRUE
    BY <1>t, <2>1, <2>3, CardNudged
  <2>5. k \notin WaitingComposers(c)
    BY <2>1 DEF WaitingComposers
  <2>6. WaitingComposers(c)' = WaitingComposers(c) /\ WaitingPosters(c)' = WaitingPosters(c)
    BY <2>1, <2>2, <2>5, ComposerHands
  <2>7. CASE c = composing[k].card
    BY <2>1, <2>4, <2>6, <2>7 DEF CountedShowings
  <2>8. CASE c # composing[k].card
    <3>1. InHand(c) => InHand(c)'
      BY <2>1, <2>2, <2>8, ComposerHands
    <3>2. card'[c] = card[c]
      BY <2>4, <2>8 DEF OnlyCard
    <3> QED  BY <2>1, <2>6, <3>1, <3>2, ShowingsKept
  <2> QED  BY <2>7, <2>8
<1>7. CASE Supersede(k)
  <2> DEFINE old == composing[k].old
             flips == card[old].status = "pending"
             next == IF flips /\ composing[k].oldDraft # 0 THEN "delete" ELSE "idle"
  <2>1. UNCHANGED <<posting, shown, repeats>> /\ composing[k].step = "replace" /\ Goes(k, next)
        /\ card' = IF flips THEN [card EXCEPT ![old].status = "superseded"] ELSE card
    BY <1>7 DEF Supersede, Compose
  <2>2. OnlyComposer(k) /\ composing'[k].step = next
    BY <1>t, <2>1, GoesOn
  <2>3. card'[c].nudged = card[c].nudged
    <3>1. card \in [Card -> CardRow]
      BY <1>t DEF ComposeTypes, CardRow
    <3> QED  BY <2>1, <3>1 DEF CardRow
  <2> QED  BY <2>1, <2>2, <2>3, QuietComposer
<1>8. CASE DeleteOld(k)
  <2>1. Goes(k, "idle") /\ UNCHANGED <<card, posting, shown, repeats>>
        /\ composing[k].step = "delete"
    BY <1>8 DEF DeleteOld, Compose
  <2>2. OnlyComposer(k) /\ composing'[k].step = "idle"
    BY <1>t, <2>1, GoesOn
  <2> QED  BY <2>1, <2>2, QuietComposer
<1>9. CASE ComposeStops(k)
  <2> DEFINE excused == IF Compose(k, "nudge") THEN {composing[k].card} ELSE {}
  <2>1. UNCHANGED <<card, posting, shown>> /\ Excuse(excused)
    BY <1>9 DEF ComposeStops, mailVars
  <2>2. OnlyComposer(k) /\ composing'[k].step \in {"idle", "replace"}
    <3>1. Goes(k, "idle") \/ Goes(k, "replace")
      BY <1>9 DEF ComposeStops
    <3> QED  BY <1>t, <3>1, GoesOn
  <2>3. repeats'[c] = IF c \in excused THEN repeats[c] + 1 ELSE repeats[c]
    BY <1>t, <2>1, ReasonGiven
  <2>4. WaitingComposers(c)' = WaitingComposers(c) \ {k} /\ WaitingPosters(c)' = WaitingPosters(c)
    BY <2>1, <2>2, ComposerHands
  <2>5. CASE composing[k].step = "nudge" /\ composing[k].card = c
    <3>1. k \notin WaitingComposers(c) /\ repeats'[c] = repeats[c] + 1
      BY <2>3, <2>5 DEF WaitingComposers, Compose
    <3>2. WaitingComposers(c)' = WaitingComposers(c)
      BY <2>4, <3>1
    <3>3. shown'[c] = shown[c] /\ shown[c] <= repeats[c] + 1
      BY <1>c, <1>n, <2>1
    <3>4. shown[c] + Cardinality(WaitingComposers(c)) + Cardinality(WaitingPosters(c))
             <= 1 + (repeats[c] + 1)
      BY <1>c, <1>n
    <3> QED  BY <1>c, <2>4, <3>1, <3>2, <3>3, <3>4 DEF CountedShowings
  <2>6. CASE composing[k].step \in {"link", "show"} /\ composing[k].card = c
    <3>1. k \in WaitingComposers(c) /\ repeats'[c] = repeats[c]
      BY <2>3, <2>6 DEF WaitingComposers, Compose
    <3>2. Cardinality(WaitingComposers(c) \ {k}) = Cardinality(WaitingComposers(c)) - 1
          /\ Cardinality(WaitingComposers(c) \ {k}) \in Nat
      BY <1>d, <3>1, FS_CardinalityType
    <3> QED  BY <1>c, <1>d, <1>n, <2>1, <2>4, <3>1, <3>2 DEF CountedShowings
  <2>7. CASE ~(composing[k].step \in {"link", "show", "nudge"} /\ composing[k].card = c)
    <3>1. k \notin WaitingComposers(c) /\ repeats'[c] = repeats[c]
      BY <2>3, <2>7 DEF WaitingComposers, Compose
    <3>2. WaitingComposers(c)' = WaitingComposers(c)
      BY <2>4, <3>1
    <3>3. InHand(c) => InHand(c)'
      BY <2>1, <2>2, <2>7, ComposerHands
    <3> QED  BY <2>1, <2>4, <3>1, <3>2, <3>3, ShowingsKept
  <2> QED  BY <2>5, <2>6, <2>7
<1> QED
  BY <1>1, <1>2, <1>3, <1>4, <1>5, <1>6, <1>7, <1>8, <1>9 DEF ComposeStep

(* What the step of one carousel invocation does to the hands a card is in.*)
LEMMA PosterHands ==
  ASSUME NEW q \in Poster, OnlyPoster(q), UNCHANGED composing, NEW c \in Card
  PROVE  /\ WaitingComposers(c)' = WaitingComposers(c)
         /\ posting'[q].card = c /\ posting'[q].step = "show" =>
                WaitingPosters(c)' = WaitingPosters(c) \cup {q} /\ InHand(c)'
         /\ ~(posting'[q].card = c /\ posting'[q].step = "show") =>
                WaitingPosters(c)' = WaitingPosters(c) \ {q}
         /\ posting[q].card # c \/ posting'[q].card = c => (InHand(c) => InHand(c)')
<1>1. WaitingComposers(c)' = WaitingComposers(c)
  BY DEF WaitingComposers
<1>2. /\ posting'[q].card = c /\ posting'[q].step = "show" =>
                WaitingPosters(c)' = WaitingPosters(c) \cup {q}
      /\ ~(posting'[q].card = c /\ posting'[q].step = "show") =>
                WaitingPosters(c)' = WaitingPosters(c) \ {q}
  BY DEF WaitingPosters, OnlyPoster
<1>3. posting'[q].card = c /\ posting'[q].step = "show" => InHand(c)'
  BY DEF InHand
<1>4. posting[q].card # c \/ posting'[q].card = c => (InHand(c) => InHand(c)')
  BY DEF InHand, OnlyPoster
<1> QED  BY <1>1, <1>2, <1>3, <1>4

(* A step of the carousel: it takes up a card for the first time only when *)
(* there is no card that was shown and is in no hand.                      *)
LEMMA CarouselShowings ==
  ASSUME PlaceInv, NEW q \in Poster, CarouselStep(q) \/ ShowFails(q) \/ RecordFails(q),
         NEW c \in Card, CountedShowings(c)
  PROVE  CountedShowings(c)'
<1>t. DaemonTypes /\ ComposeTypes /\ PlacedPoster(q)
  BY DEF PlaceInv
<1>n. /\ shown[c] \in Nat /\ repeats[c] \in Nat
      /\ Cardinality(WaitingComposers(c)) \in Nat /\ Cardinality(WaitingPosters(c)) \in Nat
  BY CountTypes
<1>c. /\ IsFiniteSet(WaitingComposers(c)) /\ IsFiniteSet(WaitingPosters(c))
      /\ shown[c] + Cardinality(WaitingComposers(c)) + Cardinality(WaitingPosters(c))
            <= 1 + repeats[c]
      /\ ~card[c].nudged /\ ~InHand(c) => shown[c] <= repeats[c]
  BY DEF CountedShowings
<1>a. IsFiniteSet(WaitingPosters(c) \cup {q})
      /\ Cardinality(WaitingPosters(c) \cup {q}) =
            IF q \in WaitingPosters(c) THEN Cardinality(WaitingPosters(c))
            ELSE Cardinality(WaitingPosters(c)) + 1
  BY <1>c, FS_AddElement
<1>d. IsFiniteSet(WaitingPosters(c) \ {q})
      /\ Cardinality(WaitingPosters(c) \ {q}) =
            IF q \in WaitingPosters(c) THEN Cardinality(WaitingPosters(c)) - 1
            ELSE Cardinality(WaitingPosters(c))
  BY <1>c, FS_RemoveElement
<1>z. c # 0
  BY DEF Card
<1>1. ASSUME NEW d \in Card, PickCard(q, d)  PROVE CountedShowings(c)'
  <2> DEFINE excused == IF InHand(d) \/ (card[d].nudged /\ card[d].due <= now) THEN {d} ELSE {}
  <2>1. /\ UNCHANGED <<card, composing, shown>> /\ Excuse(excused) /\ posting[q].step = "idle"
    BY <1>1 DEF PickCard, mailVars
  <2>2. /\ OnlyPoster(q) /\ posting'[q].step = "show" /\ posting'[q].card = d
        /\ card[d].status = "pending"
        /\ ~(card[d].nudged /\ card[d].due <= now) => Active = {}
    BY <1>1, <1>t, PosterPicks
  <2>3. repeats'[c] = IF c \in excused THEN repeats[c] + 1 ELSE repeats[c]
    BY <1>t, <2>1, ReasonGiven
  <2>4. q \notin WaitingPosters(c) /\ posting[q].card = 0
    BY <1>t, <2>1 DEF WaitingPosters, PlacedPoster
  <2>5. CASE c = d
    <3>1. /\ WaitingComposers(c)' = WaitingComposers(c) /\ InHand(c)'
          /\ WaitingPosters(c)' = WaitingPosters(c) \cup {q}
      BY <2>1, <2>2, <2>5, PosterHands
    <3>2. Cardinality(WaitingPosters(c) \cup {q}) = Cardinality(WaitingPosters(c)) + 1
      BY <1>a, <2>4
    <3>3. shown[c] + Cardinality(WaitingComposers(c)) + (Cardinality(WaitingPosters(c)) + 1)
             <= 1 + repeats'[c]
      <4>1. CASE InHand(d) \/ (card[d].nudged /\ card[d].due <= now)
        <5>1. repeats'[c] = repeats[c] + 1
          BY <2>3, <2>5, <4>1
        <5> QED  BY <1>c, <1>n, <5>1
      <4>2. CASE ~(InHand(d) \/ (card[d].nudged /\ card[d].due <= now))
        <5>1. ~card[c].nudged
          BY <2>2, <2>5, <4>2 DEF Active, Rows
        <5>2. WaitingComposers(c) = {} /\ WaitingPosters(c) = {}
          BY <2>5, <4>2 DEF InHand, WaitingComposers, WaitingPosters
        <5>3. Cardinality(WaitingComposers(c)) = 0 /\ Cardinality(WaitingPosters(c)) = 0
          BY <5>2, FS_EmptySet
        <5>4. shown[c] <= repeats[c] /\ repeats'[c] = repeats[c]
          BY <1>c, <2>3, <2>5, <4>2, <5>1
        <5> QED  BY <1>n, <5>3, <5>4
      <4> QED  BY <4>1, <4>2
    <3> QED  BY <1>a, <1>c, <2>1, <3>1, <3>2, <3>3 DEF CountedShowings
  <2>6. CASE c # d
    <3>1. /\ WaitingComposers(c)' = WaitingComposers(c) /\ (InHand(c) => InHand(c)')
          /\ WaitingPosters(c)' = WaitingPosters(c) \ {q}
      BY <1>z, <2>1, <2>2, <2>4, <2>6, PosterHands
    <3>2. WaitingPosters(c)' = WaitingPosters(c) /\ repeats'[c] = repeats[c]
      BY <2>3, <2>4, <2>6, <3>1
    <3> QED  BY <2>1, <3>1, <3>2, ShowingsKept
  <2> QED  BY <2>5, <2>6
<1>2. CASE ShowPicked(q)
  <2>1. /\ UNCHANGED <<card, composing, repeats>> /\ posting[q].step = "show"
        /\ posting' = [posting EXCEPT ![q].step = "record"]
        /\ shown' = [shown EXCEPT ![posting[q].card] = @ + 1]
    BY <1>2 DEF ShowPicked, mailVars
  <2>2. OnlyPoster(q) /\ posting'[q].step = "record" /\ posting'[q].card = posting[q].card
    BY <1>t, <2>1, PosterShows
  <2>3. posting[q].card \in Card
    BY <1>t, <2>1 DEF PlacedPoster
  <2>4. WaitingComposers(c)' = WaitingComposers(c) /\ WaitingPosters(c)' = WaitingPosters(c) \ {q}
    BY <2>1, <2>2, PosterHands
  <2>5. CASE c = posting[q].card
    <3>1. q \in WaitingPosters(c) /\ InHand(c)'
      BY <2>1, <2>2, <2>5 DEF WaitingPosters, InHand
    <3>2. shown'[c] = shown[c] + 1
      BY <1>t, <2>1, <2>3, <2>5, CardShown
    <3>3. Cardinality(WaitingPosters(c) \ {q}) = Cardinality(WaitingPosters(c)) - 1
      BY <1>d, <3>1
    <3> QED  BY <1>c, <1>d, <1>n, <2>1, <2>4, <3>1, <3>2, <3>3 DEF CountedShowings
  <2>6. CASE c # posting[q].card
    <3>1. q \notin WaitingPosters(c)
      BY <2>6 DEF WaitingPosters
    <3>2. WaitingPosters(c)' = WaitingPosters(c)
      BY <2>4, <3>1
    <3>3. InHand(c) => InHand(c)'
      BY <2>1, <2>2, <2>6, PosterHands
    <3>4. shown'[c] = shown[c]
      BY <1>t, <2>1, <2>3, <2>6, CardShown
    <3> QED  BY <2>1, <2>4, <3>2, <3>3, <3>4, ShowingsKept
  <2> QED  BY <2>5, <2>6
<1>3. ASSUME UNCHANGED <<composing, shown>>, OnlyPoster(q), posting'[q].card = 0,
             posting'[q].step = "idle", posting[q].step # "idle",
             card[c].nudged => card'[c].nudged,
             repeats'[c] = IF posting[q].step = "record" /\ posting[q].card = c /\ ~card'[c].nudged
                           THEN repeats[c] + 1 ELSE repeats[c]
      PROVE  CountedShowings(c)'
  <2>1. WaitingComposers(c)' = WaitingComposers(c) /\ WaitingPosters(c)' = WaitingPosters(c) \ {q}
    BY <1>3, PosterHands
  <2>2. CASE posting[q].card # c
    <3>1. WaitingPosters(c)' = WaitingPosters(c)
      BY <2>1, <2>2 DEF WaitingPosters
    <3>2. InHand(c) => InHand(c)'
      BY <1>3, <2>2, PosterHands
    <3> QED  BY <1>3, <2>1, <2>2, <3>1, <3>2, ShowingsKept
  <2>3. CASE posting[q].card = c /\ posting[q].step = "show"
    <3>1. q \in WaitingPosters(c) /\ repeats'[c] = repeats[c]
      BY <1>3, <2>3 DEF WaitingPosters
    <3>2. Cardinality(WaitingPosters(c) \ {q}) = Cardinality(WaitingPosters(c)) - 1
          /\ Cardinality(WaitingPosters(c) \ {q}) \in Nat
      BY <1>d, <3>1, FS_CardinalityType
    <3> QED  BY <1>c, <1>d, <1>n, <1>3, <2>1, <3>1, <3>2 DEF CountedShowings
  <2>4. CASE posting[q].card = c /\ posting[q].step = "record"
    <3>1. WaitingPosters(c)' = WaitingPosters(c)
      BY <2>1, <2>4 DEF WaitingPosters
    <3>2. shown'[c] = shown[c] /\ repeats'[c] >= repeats[c] /\ repeats'[c] \in Nat
      BY <1>n, <1>3
    <3>3. ~card'[c].nudged => shown[c] <= repeats'[c]
      BY <1>c, <1>n, <1>3, <2>4
    <3>4. shown[c] + Cardinality(WaitingComposers(c)) + Cardinality(WaitingPosters(c))
             <= 1 + repeats'[c]
      BY <1>c, <1>n, <3>2
    <3> QED  BY <1>c, <2>1, <3>1, <3>2, <3>3, <3>4 DEF CountedShowings
  <2>5. posting[q].step \in {"show", "record"}
    BY <1>t, <1>3 DEF ComposeTypes
  <2> QED  BY <2>2, <2>3, <2>4, <2>5
<1>4. CASE RecordPicked(q)
  <2>1. /\ UNCHANGED <<composing, shown, repeats>> /\ posting[q].step = "record"
        /\ posting' = [posting EXCEPT ![q] = NotPosting]
        /\ Nudged(posting[q].card, posting[q].at)
    BY <1>4 DEF RecordPicked
  <2>2. OnlyPoster(q) /\ posting'[q].step = "idle" /\ posting'[q].card = 0
    BY <1>t, <2>1, PosterDone
  <2>3. posting[q].card \in Card /\ posting[q].at \in 0 .. MaxNow
    BY <1>t, <2>1 DEF PlacedPoster, ComposeTypes
  <2>4. OnlyCard(posting[q].card) /\ card'[posting[q].card].nudged = TRUE
    BY <1>t, <2>1, <2>3, CardNudged
  <2>5. (posting[q].card = c => card'[c].nudged) /\ (card[c].nudged => card'[c].nudged)
    BY <2>4 DEF OnlyCard
  <2> QED  BY <1>3, <2>1, <2>2, <2>5
<1>5. CASE ShowFails(q)
  <2>1. /\ UNCHANGED <<composing, shown, repeats>> /\ posting[q].step = "show"
        /\ posting' = [posting EXCEPT ![q] = NotPosting]
        /\ card' = [card EXCEPT ![posting[q].card].due = now + NudgeSpan]
    BY <1>5 DEF ShowFails
  <2>2. OnlyPoster(q) /\ posting'[q].step = "idle" /\ posting'[q].card = 0
    BY <1>t, <2>1, PosterDone
  <2>3. posting[q].card \in Card /\ now \in 0 .. MaxNow
    BY <1>t, <2>1 DEF PlacedPoster, DaemonTypes
  <2>4. OnlyCard(posting[q].card)
        /\ card'[posting[q].card].nudged = card[posting[q].card].nudged
    BY <1>t, <2>1, <2>3, CardTimer
  <2>5. card[c].nudged => card'[c].nudged
    BY <2>4 DEF OnlyCard
  <2> QED  BY <1>3, <2>1, <2>2, <2>5
<1>6. CASE RecordFails(q)
  <2>1. /\ UNCHANGED <<card, composing, shown>> /\ posting[q].step = "record"
        /\ posting' = [posting EXCEPT ![q] = NotPosting] /\ Excuse({posting[q].card})
    BY <1>6 DEF RecordFails, mailVars
  <2>2. OnlyPoster(q) /\ posting'[q].step = "idle" /\ posting'[q].card = 0
    BY <1>t, <2>1, PosterDone
  <2>3. repeats'[c] = IF c \in {posting[q].card} THEN repeats[c] + 1 ELSE repeats[c]
    BY <1>t, <2>1, ReasonGiven
  <2>4. CASE posting[q].card = c
    <3>1. repeats'[c] = repeats[c] + 1 /\ WaitingPosters(c)' = WaitingPosters(c)
          /\ WaitingComposers(c)' = WaitingComposers(c)
      BY <2>1, <2>2, <2>3, <2>4, PosterHands DEF WaitingPosters
    <3>2. shown'[c] = shown[c] /\ shown[c] <= repeats[c] + 1
      BY <1>c, <1>n, <2>1
    <3>3. shown[c] + Cardinality(WaitingComposers(c)) + Cardinality(WaitingPosters(c))
             <= 1 + (repeats[c] + 1)
      BY <1>c, <1>n
    <3> QED  BY <1>c, <3>1, <3>2, <3>3 DEF CountedShowings
  <2>5. CASE posting[q].card # c
    BY <1>3, <2>1, <2>2, <2>3, <2>5
  <2> QED  BY <2>4, <2>5
<1> QED  BY <1>1, <1>2, <1>4, <1>5, <1>6 DEF CarouselStep

(* A restart takes the cards out of the carousel's hands: what it had      *)
(* shown is excused, what it had not yet shown is not counted any more.    *)
LEMMA RestartShowings ==
  ASSUME PlaceInv, CarouselRestart, NEW c \in Card, CountedShowings(c)
  PROVE  CountedShowings(c)'
<1>t. ComposeTypes /\ \A q \in Poster : PlacedPoster(q)
  BY DEF PlaceInv
<1>n. /\ shown[c] \in Nat /\ repeats[c] \in Nat
      /\ Cardinality(WaitingComposers(c)) \in Nat /\ Cardinality(WaitingPosters(c)) \in Nat
  BY CountTypes
<1>c. /\ IsFiniteSet(WaitingComposers(c)) /\ IsFiniteSet(WaitingPosters(c))
      /\ shown[c] + Cardinality(WaitingComposers(c)) + Cardinality(WaitingPosters(c))
            <= 1 + repeats[c]
      /\ ~card[c].nudged /\ ~InHand(c) => shown[c] <= repeats[c]
  BY DEF CountedShowings
<1> DEFINE dropped == {d \in Card : \E q \in Poster : posting[q].step = "record" /\ posting[q].card = d}
<1>1. UNCHANGED <<card, composing, shown>> /\ Excuse(dropped)
      /\ posting' = [q \in Poster |-> NotPosting]
  BY DEF CarouselRestart, mailVars
<1>2. repeats'[c] = IF c \in dropped THEN repeats[c] + 1 ELSE repeats[c]
  BY <1>t, <1>1, ReasonGiven
<1>3. WaitingComposers(c)' = WaitingComposers(c) /\ WaitingPosters(c)' = {}
  BY <1>1 DEF WaitingComposers, WaitingPosters, NotPosting
<1>4. Cardinality({}) = 0 /\ IsFiniteSet({})
  BY FS_EmptySet
<1>5. shown[c] + Cardinality(WaitingComposers(c)) + 0 <= 1 + repeats'[c]
  BY <1>c, <1>n, <1>2
<1>6. ASSUME ~card[c].nudged, ~InHand(c)'  PROVE shown[c] <= repeats'[c]
  <2>1. CASE \E q \in Poster : posting[q].card = c /\ posting[q].step = "record"
    <3>1. repeats'[c] = repeats[c] + 1
      BY <1>2, <2>1
    <3> QED  BY <1>c, <1>n, <3>1
  <2>2. CASE \E q \in Poster : posting[q].card = c /\ posting[q].step = "show"
    <3>1. WaitingPosters(c) # {}
      BY <2>2 DEF WaitingPosters
    <3>2. Cardinality(WaitingPosters(c)) # 0
      BY <1>c, <3>1, FS_EmptySet
    <3>3. repeats'[c] >= repeats[c] /\ repeats'[c] \in Nat
      BY <1>n, <1>2
    <3> QED  BY <1>c, <1>n, <3>2, <3>3
  <2>3. CASE ~ \E q \in Poster : posting[q].card = c
    <3>1. ~InHand(c)
      BY <1>1, <1>6, <2>3 DEF InHand
    <3>2. repeats'[c] = repeats[c]
      BY <1>2, <2>3
    <3> QED  BY <1>c, <1>6, <3>1, <3>2
  <2>4. \A q \in Poster : posting[q].card = c => posting[q].step \in {"show", "record"}
    <3>1. c # 0
      BY DEF Card
    <3> QED  BY <1>t, <3>1 DEF PlacedPoster, ComposeTypes
  <2> QED  BY <2>1, <2>2, <2>3, <2>4
<1> QED  BY <1>c, <1>1, <1>3, <1>4, <1>5, <1>6 DEF CountedShowings

(* The counts hold through every step.                                     *)
LEMMA StepShowings == ShowInv /\ [ComposeNext]_allComposeVars => ShowInv'
<1> SUFFICES ASSUME ShowInv, [ComposeNext]_allComposeVars, NEW c \in Card
             PROVE  CountedShowings(c)'
  BY StepPlaces DEF ShowInv
<1>i. PlaceInv /\ CountedShowings(c)
  BY DEF ShowInv
<1>t. DaemonTypes /\ ComposeTypes /\ card \in [Card -> CardRow]
  BY <1>i, ComposeRows DEF PlaceInv
<1>k. ASSUME UNCHANGED <<composing, posting, shown, repeats>>, card[c].nudged => card'[c].nudged
      PROVE  CountedShowings(c)'
  BY <1>i, <1>k, ShowingsKept DEF WaitingComposers, WaitingPosters, InHand
<1>1. CASE UNCHANGED composeVars
  BY <1>k, <1>1 DEF composeVars, mailVars
<1>2. ASSUME NEW k \in Composer, StartCompose(k) \/ ComposeStep(k) \/ ComposeStops(k)
      PROVE  CountedShowings(c)'
  BY <1>i, <1>2, ComposerShowings
<1>3. CASE (\E d \in Draft : StartUpdate(d)) \/ UpdateStep \/ UpdateStops
  <2>1. UNCHANGED <<composing, posting, shown, repeats>>
    BY <1>3 DEF StartUpdate, UpdateStep, CreateReplacement, DeleteReplaced, FindRows, EndUpdate,
                Repoint, UpdateStops, mailVars
  <2>2. card' = card \/ \E d \in Card : card' = [card EXCEPT ![d].draft = updating.new]
    BY <1>3 DEF StartUpdate, UpdateStep, CreateReplacement, DeleteReplaced, FindRows, EndUpdate,
                Repoint, UpdateStops, mailVars
  <2>3. card'[c].nudged = card[c].nudged
    BY <1>t, <2>2 DEF CardRow
  <2> QED  BY <1>k, <2>1, <2>3
<1>4. ASSUME NEW d \in Card, ClickStep(d)  PROVE CountedShowings(c)'
  <2>1. OnlyCard(d) /\ card'[d].nudged = card[d].nudged
        /\ UNCHANGED <<composing, posting, shown, repeats>>
    BY <1>4, <1>t, ClickWrites
  <2> QED  BY <1>k, <2>1 DEF OnlyCard
<1>5. ASSUME NEW q \in Poster, CarouselStep(q) \/ ShowFails(q) \/ RecordFails(q)
      PROVE  CountedShowings(c)'
  BY <1>i, <1>5, CarouselShowings
<1>6. CASE CarouselRestart
  BY <1>i, <1>6, RestartShowings
<1> QED  BY <1>1, <1>2, <1>3, <1>4, <1>5, <1>6 DEF ComposeNext, allComposeVars

(* A card comes up again only as a due reminder, after a showing that was  *)
(* not recorded, or because somebody else had it in hand.                  *)
THEOREM ShowingsHaveAReason == ComposeSpec => []ShownAgainForAReason
<1>1. ShowInv => ShownAgainForAReason
  <2> SUFFICES ASSUME ShowInv, NEW c \in Card PROVE shown[c] <= 1 + repeats[c]
    BY DEF ShownAgainForAReason
  <2>1. PlaceInv /\ CountedShowings(c)
    BY DEF ShowInv
  <2> QED  BY <2>1, CountTypes DEF CountedShowings
<1> QED  BY <1>1, InitShowings, StepShowings, PTL DEF ComposeSpec

-----------------------------------------------------------------------------
(* Cards and their drafts. *)

(* The draft a card shows, and the one its send has read.                  *)
Owns(c, d) ==
    \/ card[c].draft = d
    \/ card[c].status = "sending" /\ card[c].held = d

Unowned(d) == d \in drafts /\ \A c \in Card : ~Owns(c, d)

(* A compose has a draft and no card for it yet; an update has a           *)
(* replacement that no card shows yet.                                     *)
HasDraft(k) == composing[k].step \in {"insert", "link"}
Spare == updating.step \in {"delete", "find"} \/ (updating.step = "repoint" /\ updating.rows # {})

(* No two cards share a draft. *)
OneOwner ==
    /\ \A c, e \in Card, d \in Draft : Owns(c, d) /\ Owns(e, d) => c = e
    /\ \A c \in Card, d \in Draft : Owns(c, d) => d <= made
    /\ \A d \in drafts : d <= made
    /\ \A c \in Card : card[c].status = "sending" => card[c].held # 0

(* The draft of a compose is nobody else's until its card shows it.        *)
OwnDraft(k) ==
    HasDraft(k) =>
        LET d == composing[k].draft IN
        /\ Unowned(d) /\ updating.old # d /\ updating.new # d
        /\ \A j \in Composer : /\ composing[j].oldDraft # d
                               /\ j # k /\ HasDraft(j) => composing[j].draft # d
        /\ composing[k].step = "link" =>
              /\ card[composing[k].card].draft = 0
              /\ \A j \in Composer : j # k /\ composing[j].step = "link"
                                        => composing[j].card # composing[k].card

(* The draft a compose will delete is at most that of the card it replaces.*)
OldDraft(k) ==
    LET d == composing[k].oldDraft IN
    /\ d <= made
    /\ d # 0 => composing[k].old # 0 /\ \A c \in Card : Owns(c, d) => c = composing[k].old
    /\ composing[k].step = "delete" => card[composing[k].old].status = "superseded"

(* An update has in hand the open cards that show the old draft, and a     *)
(* send that has read it was crossed.                                      *)
UpdatedDraft ==
    /\ updating.old <= made /\ updating.new <= made
    /\ updating.step = "idle" => updating.old = 0
    /\ Spare => /\ Unowned(updating.new) /\ updating.new # updating.old
                /\ \A k \in Composer : composing[k].oldDraft # updating.new
    /\ \A c \in updating.rows : card[c].draft = updating.old
    /\ updating.step = "repoint" =>
          \A c \in Card : card[c].status \in Live /\ card[c].draft = updating.old
                              => c \in updating.rows
    /\ \A c \in Card : card[c].status = "sending" /\ card[c].held = updating.old => c \in crossed

Backed == \A c \in Card : card[c].status = "sending" => card[c].held \in drafts \/ c \in crossed

KeepInv ==
    /\ OneOwner /\ UpdatedDraft /\ Backed
    /\ \A k \in Composer : OwnDraft(k) /\ OldDraft(k)
    /\ CardsKeepTheirDraft

\* What neither makes, deletes nor reads a draft keeps the drafts in order.
LEMMA QuietKeepsDrafts ==
  ASSUME KeepInv, UNCHANGED <<drafts, made, updating, crossed>>,
         \A c \in Card :
            /\ card'[c].draft = card[c].draft /\ card'[c].held = card[c].held
            /\ card'[c].status = "sending" => card[c].status = "sending"
            /\ card'[c].status \in Live => card[c].status \in Live
            /\ card'[c].status = "error" => card[c].status = "error"
            /\ card[c].status = "superseded" => card'[c].status = "superseded",
         \A k \in Composer :
            /\ composing'[k].draft = composing[k].draft /\ composing'[k].oldDraft = composing[k].oldDraft
            /\ composing'[k].old = composing[k].old /\ composing'[k].card = composing[k].card
            /\ composing'[k].step \in {"insert", "link"} => composing'[k].step = composing[k].step
            /\ composing'[k].step = "delete" =>
                  composing[k].step = "delete" \/ card'[composing[k].old].status = "superseded",
         \A k \in Composer : composing[k].step = "link" => composing[k].card \in Card,
         \A k \in Composer : composing[k].step = "delete" => composing[k].old \in Card,
         updating.rows \subseteq Card
  PROVE  KeepInv'
<1>1. \A d : \A c \in Card : Owns(c, d)' => Owns(c, d)
  BY DEF Owns
<1>2. OneOwner'
  BY <1>1 DEF KeepInv, OneOwner
<1>3. \A d : Unowned(d) => Unowned(d)'
  BY <1>1 DEF Unowned
<1>4. \A k \in Composer : OwnDraft(k)'
  <2> SUFFICES ASSUME NEW k \in Composer, HasDraft(k)'  PROVE OwnDraft(k)'
    BY DEF OwnDraft
  <2>1. HasDraft(k) /\ OwnDraft(k) /\ composing'[k].step = composing[k].step
    BY DEF KeepInv, HasDraft
  <2>2. \A j \in Composer : HasDraft(j)' => HasDraft(j)
    BY DEF HasDraft
  <2>3. Unowned(composing[k].draft)'
    BY <1>3, <2>1 DEF OwnDraft
  <2> QED  BY <2>1, <2>2, <2>3 DEF OwnDraft
<1>5. \A k \in Composer : OldDraft(k)'
  BY <1>1 DEF KeepInv, OldDraft
<1>6. UpdatedDraft'
  BY <1>3 DEF KeepInv, UpdatedDraft, Spare
<1>7. Backed'
  BY DEF KeepInv, Backed
<1>8. CardsKeepTheirDraft'
  BY DEF KeepInv, CardsKeepTheirDraft, Rows
<1> QED  BY <1>2, <1>4, <1>5, <1>6, <1>7, <1>8 DEF KeepInv

\* No draft is made yet.
LEMMA InitDrafts == DaemonInit /\ ComposeInit => KeepInv
<1> SUFFICES ASSUME ComposeInit  PROVE KeepInv
  OBVIOUS
<1>1. /\ \A c \in Card : card[c].status = "none" /\ card[c].draft = 0 /\ card[c].held = 0
      /\ \A k \in Composer : /\ composing[k].step = "idle" /\ composing[k].oldDraft = 0
      /\ drafts = {} /\ made = 0 /\ crossed = {}
      /\ updating.step = "idle" /\ updating.old = 0 /\ updating.new = 0 /\ updating.rows = {}
  BY DEF ComposeInit, NotComposing, NotUpdating
<1>2. \A c \in Card, d \in Draft : ~Owns(c, d)
  BY <1>1 DEF Owns, Draft
<1>3. OneOwner
  BY <1>1, <1>2 DEF OneOwner
<1>4. \A k \in Composer : OwnDraft(k) /\ OldDraft(k)
  BY <1>1 DEF OwnDraft, OldDraft, HasDraft
<1>5. UpdatedDraft /\ Backed /\ CardsKeepTheirDraft
  BY <1>1 DEF UpdatedDraft, Spare, Backed, CardsKeepTheirDraft, Rows, Live
<1> QED  BY <1>3, <1>4, <1>5 DEF KeepInv

\* What is known of the rows and the composes.
LEMMA DraftRecords ==
  ASSUME PlaceInv
  PROVE  /\ ComposeTypes /\ DaemonTypes
         /\ \A c \in Card : /\ card[c].draft \in 0 .. MaxDrafts /\ card[c].held \in 0 .. MaxDrafts
                            /\ card[c].status = "none" => card[c].draft = 0
         /\ \A k \in Composer :
               /\ PlacedComposer(k) /\ composing[k].draft \in 0 .. MaxDrafts
               /\ composing[k].oldDraft \in 0 .. MaxDrafts
               /\ composing[k].step \in {"link", "show", "nudge", "replace"} => composing[k].card \in Card
               /\ composing[k].step \in {"replace", "delete"} => composing[k].old \in Card
               /\ composing[k].step \in {"insert", "link"} => composing[k].draft \in Draft
         /\ updating.rows \subseteq Card /\ updating.old \in 0 .. MaxDrafts
         /\ updating.new \in 0 .. MaxDrafts /\ drafts \subseteq Draft /\ made \in 0 .. MaxDrafts
         /\ made \in Nat /\ \A d \in Draft : d # 0 /\ d \in Nat
         /\ \A d \in 0 .. MaxDrafts : d # 0 <=> d \in Draft
<1>1. MaxDrafts \in Nat /\ MaxCards \in Nat
  BY ComposeAssumption
<1>2. ComposeTypes /\ DaemonTypes /\ (\A k \in Composer : PlacedComposer(k)) /\ Blank
  BY DEF PlaceInv
<1>3. /\ card \in [Card -> CardRow] /\ drafts \subseteq Draft /\ made \in 0 .. MaxDrafts
      /\ composing \in [Composer -> ComposeRow] /\ updating \in UpdateRow
  BY <1>2, ComposeRows
<1>4. \A d \in 0 .. MaxDrafts : d # 0 <=> d \in Draft
  BY <1>1 DEF Draft
<1>5. \A c \in Card : /\ card[c].draft \in 0 .. MaxDrafts /\ card[c].held \in 0 .. MaxDrafts
                      /\ card[c].status = "none" => card[c].draft = 0
  <2> SUFFICES ASSUME NEW c \in Card
               PROVE  /\ card[c].draft \in 0 .. MaxDrafts /\ card[c].held \in 0 .. MaxDrafts
                      /\ card[c].status = "none" => card[c].draft = 0
    OBVIOUS
  <2>1. card[c] \in CardRow
    BY <1>3
  <2> QED  BY <1>2, <2>1 DEF CardRow, Blank
<1>6. ASSUME NEW k \in Composer
      PROVE  /\ PlacedComposer(k) /\ composing[k].draft \in 0 .. MaxDrafts
             /\ composing[k].oldDraft \in 0 .. MaxDrafts
             /\ composing[k].step \in {"link", "show", "nudge", "replace"} => composing[k].card \in Card
             /\ composing[k].step \in {"replace", "delete"} => composing[k].old \in Card
             /\ composing[k].step \in {"insert", "link"} => composing[k].draft \in Draft
  <2>1. composing[k] \in ComposeRow /\ PlacedComposer(k)
    BY <1>2, <1>3
  <2>2. /\ composing[k].draft \in 0 .. MaxDrafts /\ composing[k].oldDraft \in 0 .. MaxDrafts
        /\ composing[k].old \in 0 .. MaxCards
    BY <2>1 DEF ComposeRow
  <2>3. composing[k].old # 0 => composing[k].old \in Card
    BY <1>1, <2>2 DEF Card
  <2>4. composing[k].step \in {"insert", "link"} => composing[k].draft \in Draft
    BY <1>4, <2>1, <2>2 DEF PlacedComposer
  <2>5. /\ composing[k].step \in {"link", "show", "nudge", "replace"} => composing[k].card \in Card
        /\ composing[k].step \in {"replace", "delete"} => composing[k].old # 0
    BY <2>1 DEF PlacedComposer
  <2> QED  BY <2>1, <2>2, <2>3, <2>4, <2>5
<1>7. updating.rows \subseteq Card /\ updating.old \in 0 .. MaxDrafts /\ updating.new \in 0 .. MaxDrafts
  BY <1>3 DEF UpdateRow
<1>8. made \in Nat /\ \A d \in Draft : d # 0 /\ d \in Nat
  BY <1>1, <1>3 DEF Draft
<1> QED  BY <1>2, <1>3, <1>4, <1>5, <1>6, <1>7, <1>8

\* The carousel, and time.
LEMMA CarouselDrafts ==
  ASSUME PlaceInv, KeepInv,
         \/ UNCHANGED allComposeVars
         \/ Tick /\ UNCHANGED composeVars
         \/ CarouselRestart
         \/ \E q \in Poster : CarouselStep(q) \/ ShowFails(q) \/ RecordFails(q)
  PROVE  KeepInv'
<1>1. UNCHANGED <<drafts, made, updating, crossed, composing>>
  BY DEF allComposeVars, composeVars, mailVars, CarouselRestart, CarouselStep, PickCard, ShowPicked,
         RecordPicked, ShowFails, RecordFails
<1>2. \/ UNCHANGED card
      \/ \E q \in Poster : RecordPicked(q) \/ ShowFails(q)
  BY DEF allComposeVars, composeVars, mailVars, CarouselRestart, CarouselStep, PickCard, ShowPicked,
         RecordFails
<1>3. \A c \in Card : /\ card'[c].status = card[c].status /\ card'[c].draft = card[c].draft
                      /\ card'[c].held = card[c].held
  <2>1. ASSUME NEW q \in Poster, RecordPicked(q) \/ ShowFails(q)
        PROVE  \A c \in Card : /\ card'[c].status = card[c].status /\ card'[c].draft = card[c].draft
                               /\ card'[c].held = card[c].held
    <3> DEFINE own == posting[q].card
    <3>1. ComposeTypes /\ DaemonTypes
      BY DraftRecords
    <3>2. posting[q].step # "idle" /\ PlacedPoster(q) /\ posting[q] \in PostRow
      BY <2>1, <3>1, ComposeRows DEF RecordPicked, ShowFails, PlaceInv
    <3>3. own \in Card /\ posting[q].at \in 0 .. MaxNow /\ now \in 0 .. MaxNow
      BY <3>1, <3>2 DEF PlacedPoster, PostRow, DaemonTypes
    <3>4. CASE RecordPicked(q)
      <4>1. Nudged(own, posting[q].at)
        BY <3>4 DEF RecordPicked
      <4> QED  BY <3>1, <3>3, <4>1, CardNudged DEF OnlyCard
    <3>5. CASE ShowFails(q)
      <4>1. card' = [card EXCEPT ![own].due = now + NudgeSpan]
        BY <3>5 DEF ShowFails
      <4> QED  BY <3>1, <3>3, <4>1, CardTimer DEF OnlyCard
    <3> QED  BY <2>1, <3>4, <3>5
  <2> QED  BY <1>2, <2>1
<1>4. /\ \A k \in Composer : composing[k].step = "link" => composing[k].card \in Card
      /\ \A k \in Composer : composing[k].step = "delete" => composing[k].old \in Card
      /\ updating.rows \subseteq Card
  BY DraftRecords
<1> QED  BY <1>1, <1>3, <1>4, QuietKeepsDrafts

\* The steps of a compose that touch no draft.
LEMMA ComposerKeepsDrafts ==
  ASSUME PlaceInv, KeepInv, NEW k \in Composer,
         ShowComposed(k) \/ RecordComposed(k) \/ Supersede(k) \/ ComposeStops(k)
  PROVE  KeepInv'
<1>1. UNCHANGED <<drafts, made, updating, crossed>>
  BY DEF ShowComposed, RecordComposed, Supersede, ComposeStops, mailVars
<1>2. /\ ComposeTypes /\ DaemonTypes /\ PlacedComposer(k)
      /\ (\A j \in Composer : composing[j].step = "link" => composing[j].card \in Card)
      /\ (\A j \in Composer : composing[j].step = "delete" => composing[j].old \in Card)
      /\ updating.rows \subseteq Card
  BY DraftRecords
<1>3. PICK step \in {"idle", "nudge", "replace", "delete"} :
         /\ Goes(k, step)
         /\ step = "delete" => Supersede(k) /\ card[composing[k].old].status = "pending"
  BY DEF ShowComposed, RecordComposed, Supersede, ComposeStops
<1>4. /\ OnlyComposer(k) /\ composing'[k].step = step /\ composing'[k].old = composing[k].old
      /\ composing'[k].oldDraft = composing[k].oldDraft
      /\ composing'[k].draft = composing[k].draft /\ composing'[k].card = composing[k].card
  BY <1>2, <1>3, GoesOn
<1>5. /\ \A c \in Card :
            /\ card'[c].draft = card[c].draft /\ card'[c].held = card[c].held
            /\ card'[c].status = "sending" => card[c].status = "sending"
            /\ card'[c].status \in Live => card[c].status \in Live
            /\ card'[c].status = "error" => card[c].status = "error"
            /\ card[c].status = "superseded" => card'[c].status = "superseded"
      /\ step = "delete" => card'[composing[k].old].status = "superseded"
  <2>1. CASE ShowComposed(k) \/ ComposeStops(k)
    <3>1. card' = card
      BY <2>1 DEF ShowComposed, ComposeStops, mailVars
    <3>2. step # "delete"
      BY <1>2, <1>4, <2>1, GoesOn DEF ShowComposed, ComposeStops
    <3> QED  BY <3>1, <3>2
  <2>2. CASE RecordComposed(k)
    <3>1. composing[k].card \in Card /\ Nudged(composing[k].card, now) /\ now \in 0 .. MaxNow
      BY <1>2, <2>2 DEF RecordComposed, Compose, PlacedComposer, DaemonTypes
    <3>2. step # "delete"
      BY <1>2, <1>4, <2>2, GoesOn DEF RecordComposed
    <3> QED  BY <1>2, <3>1, <3>2, CardNudged DEF OnlyCard
  <2>3. CASE Supersede(k)
    <3>1. composing[k].old \in Card
      BY <1>2, <2>3, DraftRecords DEF Supersede, Compose
    <3>2. CASE card[composing[k].old].status = "pending"
      <4>1. card' = [card EXCEPT ![composing[k].old].status = "superseded"]
        BY <2>3, <3>2 DEF Supersede
      <4>2. /\ OnlyCard(composing[k].old) /\ card'[composing[k].old].status = "superseded"
            /\ card'[composing[k].old].draft = card[composing[k].old].draft
            /\ card'[composing[k].old].held = card[composing[k].old].held
        BY <1>2, <3>1, <4>1, CardStatus
      <4>3. "superseded" \notin Live
        BY DEF Live
      <4> QED  BY <3>2, <4>2, <4>3 DEF OnlyCard
    <3>3. CASE card[composing[k].old].status # "pending"
      <4>1. card' = card
        BY <2>3, <3>3 DEF Supersede
      <4> QED  BY <1>3, <3>3, <4>1
    <3> QED  BY <3>2, <3>3
  <2> QED  BY <2>1, <2>2, <2>3
<1>6. \A j \in Composer :
         /\ composing'[j].draft = composing[j].draft /\ composing'[j].oldDraft = composing[j].oldDraft
         /\ composing'[j].old = composing[j].old /\ composing'[j].card = composing[j].card
         /\ composing'[j].step \in {"insert", "link"} => composing'[j].step = composing[j].step
         /\ composing'[j].step = "delete" =>
               composing[j].step = "delete" \/ card'[composing[j].old].status = "superseded"
  BY <1>3, <1>4, <1>5 DEF OnlyComposer
<1> QED  BY <1>1, <1>2, <1>5, <1>6, QuietKeepsDrafts

\* A compose that starts may come to delete the draft of the card it replaces.
LEMMA StartDrafts ==
  ASSUME PlaceInv, KeepInv, NEW k \in Composer, StartCompose(k)
  PROVE  KeepInv'
<1>1. UNCHANGED <<card, drafts, made, updating, crossed>>
  BY DEF StartCompose, mailVars
<1>2. /\ ComposeTypes
      /\ \A c \in Card : card[c].draft \in 0 .. MaxDrafts
      /\ \A j \in Composer : composing[j].step \in {"insert", "link"} => composing[j].draft \in Draft
      /\ drafts \subseteq Draft /\ made \in Nat /\ (\A d \in Draft : d # 0 /\ d \in Nat)
      /\ \A d \in 0 .. MaxDrafts : d # 0 <=> d \in Draft
  BY DraftRecords
<1> DEFINE old == composing'[k].old
           d == composing'[k].oldDraft
<1>3. /\ OnlyComposer(k) /\ composing'[k].step = "draft"
      /\ old = 0 => d = 0
      /\ old # 0 => old \in Card /\ d = card[old].draft
  BY <1>2, ComposeStarts
<1> HIDE DEF old, d
<1>4. \A e : \A c \in Card : Owns(c, e)' <=> Owns(c, e)
  BY <1>1 DEF Owns
<1>5. \A e : Unowned(e)' <=> Unowned(e)
  BY <1>1, <1>4 DEF Unowned
<1>6. OneOwner'
  BY <1>1, <1>4 DEF KeepInv, OneOwner
<1>7. d # 0 => d \in Draft /\ old \in Card /\ Owns(old, d)
  BY <1>2, <1>3 DEF Owns
<1>8. \A e : Unowned(e) => e # d
  BY <1>2, <1>7 DEF Unowned
<1>9. ASSUME NEW j \in Composer  PROVE OwnDraft(j)'
  <2> SUFFICES ASSUME HasDraft(j)'  PROVE OwnDraft(j)'
    BY DEF OwnDraft
  <2>1. j # k /\ composing'[j] = composing[j] /\ HasDraft(j)
    BY <1>3 DEF HasDraft, OnlyComposer
  <2>2. OwnDraft(j)
    BY DEF KeepInv
  <2>3. Unowned(composing[j].draft) /\ composing[j].draft # d
    BY <1>8, <2>1, <2>2 DEF OwnDraft
  <2>4. \A i \in Composer : i # k => composing'[i] = composing[i]
    BY <1>3 DEF OnlyComposer
  <2>5. ~HasDraft(k)' /\ composing'[k].step # "link"
    BY <1>3 DEF HasDraft
  <2>6. \A i \in Composer : HasDraft(i)' => i # k /\ HasDraft(i)
    BY <2>4, <2>5 DEF HasDraft
  <2>7. \A i \in Composer : composing'[i].oldDraft # composing[j].draft
    BY <2>1, <2>2, <2>3, <2>4 DEF OwnDraft, d
  <2> QED  BY <1>1, <1>5, <2>1, <2>2, <2>3, <2>4, <2>5, <2>6, <2>7 DEF OwnDraft
<1>10. ASSUME NEW j \in Composer  PROVE OldDraft(j)'
  <2>1. CASE j # k
    BY <1>1, <1>3, <1>4, <2>1 DEF KeepInv, OldDraft, OnlyComposer
  <2>2. CASE j = k
    <3>1. d <= made
      BY <1>2, <1>7 DEF KeepInv, OneOwner
    <3>2. ASSUME d # 0  PROVE old # 0 /\ \A c \in Card : Owns(c, d) => c = old
      BY <1>3, <1>7, <3>2 DEF KeepInv, OneOwner
    <3> QED  BY <1>1, <1>3, <1>4, <2>2, <3>1, <3>2 DEF OldDraft, old, d
  <2> QED  BY <2>1, <2>2
<1>11. UpdatedDraft'
  <2>1. UpdatedDraft
    BY DEF KeepInv
  <2>2. Spare' <=> Spare
    BY <1>1 DEF Spare
  <2>3. Spare => \A j \in Composer : composing'[j].oldDraft # updating.new
    BY <1>3, <1>8, <2>1 DEF UpdatedDraft, OnlyComposer, d
  <2> QED  BY <1>1, <1>5, <2>1, <2>2, <2>3 DEF UpdatedDraft
<1>12. Backed' /\ CardsKeepTheirDraft'
  BY <1>1 DEF KeepInv, Backed, CardsKeepTheirDraft, Rows
<1> QED  BY <1>6, <1>9, <1>10, <1>11, <1>12 DEF KeepInv

\* A draft that Gmail has just made is nobody's.
LEMMA NewIsUnowned ==
  ASSUME PlaceInv, KeepInv, UNCHANGED <<card, crossed>>, NEW n, n = made + 1, n \in 1 .. MaxDrafts,
         made' = n, drafts' = drafts \cup {n}
  PROVE  /\ OneOwner' /\ Backed' /\ Unowned(n)' /\ n \in Draft
         /\ \A d : Unowned(d) => Unowned(d)' /\ d # n
         /\ \A d : \A c \in Card : Owns(c, d)' <=> Owns(c, d)
         /\ \A d \in 0 .. MaxDrafts : d <= made => d <= n /\ d # n
<1>1. /\ drafts \subseteq Draft /\ made \in Nat /\ (\A d \in Draft : d # 0 /\ d \in Nat)
      /\ n \in Draft
  BY DraftRecords DEF Draft
<1>2. \A d : \A c \in Card : Owns(c, d)' <=> Owns(c, d)
  BY DEF Owns
<1>3. OneOwner /\ Backed
  BY DEF KeepInv
<1>4. \A d \in drafts : d \in Nat /\ d <= made /\ d # n
  <2> TAKE d \in drafts
  <2>1. d \in Nat /\ d <= made
    BY <1>1, <1>3 DEF OneOwner
  <2> QED  BY <1>1, <2>1
<1>5. \A c \in Card : ~Owns(c, n)
  <2> SUFFICES ASSUME NEW c \in Card, Owns(c, n)  PROVE FALSE
    OBVIOUS
  <2>1. n <= made
    BY <1>1, <1>3 DEF OneOwner
  <2> QED  BY <1>1, <2>1
<1>6. Unowned(n)'
  BY <1>2, <1>5 DEF Unowned
<1>7. \A d : Unowned(d) => Unowned(d)' /\ d # n
  BY <1>2, <1>4 DEF Unowned
<1>8. OneOwner'
  <2>1. \A c \in Card, d \in Draft : Owns(c, d)' => d <= made'
    <3> SUFFICES ASSUME NEW c \in Card, NEW d \in Draft, Owns(c, d)  PROVE d <= n
      BY <1>2
    <3>1. d <= made /\ d \in Nat
      BY <1>1, <1>3 DEF OneOwner
    <3> QED  BY <1>1, <3>1
  <2>2. \A d \in drafts' : d <= made'
    <3> SUFFICES ASSUME NEW d \in drafts'  PROVE d <= n
      OBVIOUS
    <3>1. d \in drafts \/ d = n
      OBVIOUS
    <3> QED  BY <1>1, <1>4, <3>1
  <2> QED  BY <1>2, <1>3, <2>1, <2>2 DEF OneOwner
<1>9. Backed'
  BY <1>3 DEF Backed
<1>10. \A d \in 0 .. MaxDrafts : d <= made => d <= n /\ d # n
  BY <1>1
<1> QED  BY <1>1, <1>2, <1>6, <1>7, <1>8, <1>9, <1>10

\* Gmail makes the draft of a compose.
LEMMA CreateKeepsDrafts ==
  ASSUME PlaceInv, KeepInv, NEW k \in Composer, CreateDraft(k)
  PROVE  KeepInv'
<1>1. UNCHANGED <<card, updating, crossed>>
  BY DEF CreateDraft
<1>2. /\ ComposeTypes
      /\ \A j \in Composer : /\ composing[j].oldDraft \in 0 .. MaxDrafts
                             /\ composing[j].step \in {"insert", "link"} => composing[j].draft \in Draft
      /\ updating.old \in 0 .. MaxDrafts /\ updating.new \in 0 .. MaxDrafts
  BY DraftRecords
<1>3. PICK n : n = made + 1
  OBVIOUS
<1>4. /\ OnlyComposer(k) /\ composing'[k].step = "insert" /\ composing'[k].draft = n
      /\ composing'[k].card = composing[k].card /\ composing'[k].old = composing[k].old
      /\ composing'[k].oldDraft = composing[k].oldDraft
      /\ made' = n /\ n \in 1 .. MaxDrafts /\ drafts' = drafts \cup {n}
  BY <1>2, <1>3, ComposeDrafts
<1>5. /\ OneOwner' /\ Backed' /\ Unowned(n)' /\ n \in Draft
      /\ \A d : Unowned(d) => Unowned(d)' /\ d # n
      /\ \A d : \A c \in Card : Owns(c, d)' <=> Owns(c, d)
      /\ \A d \in 0 .. MaxDrafts : d <= made => d <= n /\ d # n
  BY <1>1, <1>3, <1>4, NewIsUnowned
<1>6. \A j \in Composer : composing'[j].oldDraft = composing[j].oldDraft
  BY <1>4 DEF OnlyComposer
<1>7. \A j \in Composer : composing[j].oldDraft <= n /\ composing[j].oldDraft # n
  BY <1>2, <1>5 DEF KeepInv, OldDraft
<1>8. updating.old <= n /\ updating.new <= n /\ updating.old # n /\ updating.new # n
  BY <1>2, <1>5 DEF KeepInv, UpdatedDraft
<1>9. \A j \in Composer : j # k => composing'[j] = composing[j]
  BY <1>4 DEF OnlyComposer
<1>10. ASSUME NEW j \in Composer  PROVE OwnDraft(j)'
  <2> SUFFICES ASSUME HasDraft(j)'  PROVE OwnDraft(j)'
    BY DEF OwnDraft
  <2>1. CASE j = k
    <3>1. \A i \in Composer : i # k /\ HasDraft(i)' => composing'[i].draft # n
      BY <1>5, <1>9 DEF KeepInv, OwnDraft, HasDraft
    <3> QED  BY <1>1, <1>4, <1>5, <1>6, <1>7, <1>8, <2>1, <3>1 DEF OwnDraft
  <2>2. CASE j # k
    <3>1. HasDraft(j) /\ composing'[j] = composing[j]
      BY <1>9, <2>2 DEF HasDraft
    <3>2. OwnDraft(j)
      BY DEF KeepInv
    <3>3. Unowned(composing[j].draft)' /\ composing[j].draft # n
      BY <1>5, <3>1, <3>2 DEF OwnDraft
    <3>4. \A i \in Composer : i # j /\ HasDraft(i)' => composing'[i].draft # composing[j].draft
      BY <1>4, <1>9, <3>1, <3>2, <3>3 DEF OwnDraft, HasDraft
    <3>5. composing'[j].step = "link" => \A i \in Composer : i # j /\ composing'[i].step = "link"
                                             => composing'[i].card # composing[j].card
      BY <1>4, <1>9, <3>1, <3>2 DEF OwnDraft
    <3> QED  BY <1>1, <1>6, <3>1, <3>2, <3>3, <3>4, <3>5 DEF OwnDraft
  <2> QED  BY <2>1, <2>2
<1>11. ASSUME NEW j \in Composer  PROVE OldDraft(j)'
  <2>1. composing'[j].old = composing[j].old /\ (composing'[j].step = "delete" => composing[j].step = "delete")
    BY <1>4, <1>9
  <2> QED  BY <1>1, <1>4, <1>5, <1>6, <1>7, <2>1 DEF KeepInv, OldDraft
<1>12. UpdatedDraft'
  <2>1. UpdatedDraft
    BY DEF KeepInv
  <2>2. Spare' <=> Spare
    BY <1>1 DEF Spare
  <2> QED  BY <1>1, <1>4, <1>5, <1>6, <1>8, <2>1, <2>2 DEF UpdatedDraft
<1>13. CardsKeepTheirDraft'
  BY <1>1, <1>4 DEF KeepInv, CardsKeepTheirDraft, Rows
<1> QED  BY <1>5, <1>10, <1>11, <1>12, <1>13 DEF KeepInv

\* The row of a compose has no draft yet.
LEMMA InsertKeepsDrafts ==
  ASSUME PlaceInv, KeepInv, NEW k \in Composer, InsertRow(k)
  PROVE  KeepInv'
<1>1. UNCHANGED <<drafts, made, updating, crossed>> /\ composing[k].step = "insert"
  BY DEF InsertRow, Compose
<1>2. /\ ComposeTypes /\ \A c \in Card : card[c].status = "none" => card[c].draft = 0
      /\ \A j \in Composer : PlacedComposer(j)
      /\ PlacedUpdate
  BY DraftRecords DEF PlaceInv
<1>3. PICK c \in Card :
         /\ OnlyCard(c) /\ card[c].status = "none" /\ card'[c].status = "pending"
         /\ card'[c].draft = card[c].draft /\ card'[c].held = card[c].held
         /\ OnlyComposer(k)
         /\ composing'[k].step = "link" /\ composing'[k].card = c
         /\ composing'[k].draft = composing[k].draft /\ composing'[k].old = composing[k].old
         /\ composing'[k].oldDraft = composing[k].oldDraft
  BY <1>2, ComposeInserts
<1>4. /\ \A e \in Card : e # c => card'[e] = card[e]
      /\ \A j \in Composer : j # k => composing'[j] = composing[j]
      /\ card[c].draft = 0
  BY <1>2, <1>3 DEF OnlyCard, OnlyComposer
<1>5. \A d : \A e \in Card : Owns(e, d)' => Owns(e, d)
  BY <1>3, <1>4 DEF Owns
<1>6. \A d : Unowned(d) => Unowned(d)'
  BY <1>1, <1>5 DEF Unowned
<1>7. OneOwner'
  BY <1>1, <1>3, <1>4, <1>5 DEF KeepInv, OneOwner
<1>8. \A j \in Composer : composing'[j].oldDraft = composing[j].oldDraft
                          /\ composing'[j].old = composing[j].old
                          /\ composing'[j].draft = composing[j].draft /\ (HasDraft(j)' <=> HasDraft(j))
  BY <1>1, <1>3, <1>4 DEF HasDraft
<1>9. \A j \in Composer : composing[j].step = "link" => composing[j].card \in Card /\ composing[j].card # c
  BY <1>2, <1>3 DEF PlacedComposer
<1>10. ASSUME NEW j \in Composer  PROVE OwnDraft(j)'
  <2> SUFFICES ASSUME HasDraft(j)'  PROVE OwnDraft(j)'
    BY DEF OwnDraft
  <2>1. OwnDraft(j) /\ HasDraft(j)
    BY <1>8 DEF KeepInv
  <2>2. composing'[j].step = "link" =>
          /\ card'[composing'[j].card].draft = 0
          /\ \A i \in Composer : i # j /\ composing'[i].step = "link"
                                    => composing'[i].card # composing'[j].card
    BY <1>3, <1>4, <1>9, <2>1 DEF OwnDraft
  <2> QED  BY <1>1, <1>6, <1>8, <2>1, <2>2 DEF OwnDraft
<1>11. ASSUME NEW j \in Composer  PROVE OldDraft(j)'
  <2>1. OldDraft(j) /\ PlacedComposer(j)
    BY <1>2 DEF KeepInv
  <2>2. composing'[j].step = "delete" =>
           composing[j].step = "delete" /\ card'[composing[j].old].status = "superseded"
    <3>1. composing[j].step = "delete" => composing[j].old \in Card
      BY DraftRecords
    <3> QED  BY <1>3, <1>4, <2>1, <3>1 DEF OldDraft
  <2> QED  BY <1>1, <1>5, <1>8, <2>1, <2>2 DEF OldDraft
<1>12. UpdatedDraft'
  <2>1. UpdatedDraft /\ (updating.step # "idle" => updating.old # 0) /\ updating.rows \subseteq Card
    BY <1>2, DraftRecords DEF KeepInv, PlacedUpdate
  <2>2. Spare' <=> Spare
    BY <1>1 DEF Spare
  <2>3. \A e \in updating.rows : card'[e].draft = updating.old
    BY <1>3, <1>4, <2>1 DEF UpdatedDraft
  <2>4. updating.step = "repoint" =>
          \A e \in Card : card'[e].status \in Live /\ card'[e].draft = updating.old => e \in updating.rows
    BY <1>3, <1>4, <2>1 DEF UpdatedDraft
  <2>5. \A e \in Card : card'[e].status = "sending" /\ card'[e].held = updating.old => e \in crossed
    BY <1>3, <1>4, <2>1 DEF UpdatedDraft
  <2> QED  BY <1>1, <1>6, <1>8, <2>1, <2>2, <2>3, <2>4, <2>5 DEF UpdatedDraft
<1>13. Backed' /\ CardsKeepTheirDraft'
  <2>1. \A e \in Card : card'[e].status = "sending" => e # c
    BY <1>3
  <2>2. Backed'
    BY <1>1, <1>4, <2>1 DEF KeepInv, Backed
  <2>3. CardsKeepTheirDraft'
    BY <1>1, <1>3, <1>4 DEF KeepInv, CardsKeepTheirDraft, Rows
  <2> QED  BY <2>2, <2>3
<1> QED  BY <1>7, <1>10, <1>11, <1>12, <1>13 DEF KeepInv

\* The row of a compose gets its draft.
LEMMA LinkKeepsDrafts ==
  ASSUME PlaceInv, KeepInv, NEW k \in Composer, LinkDraft(k)
  PROVE  KeepInv'
<1> DEFINE own == composing[k].card
           new == composing[k].draft
<1>1. UNCHANGED <<drafts, made, updating, crossed>> /\ composing[k].step = "link"
      /\ card' = [card EXCEPT ![own].draft = new] /\ Goes(k, "show")
  BY DEF LinkDraft, Compose
<1>2. /\ ComposeTypes /\ PlacedUpdate /\ own \in Card /\ new \in 0 .. MaxDrafts
      /\ updating.rows \subseteq Card
      /\ \A j \in Composer : /\ composing[j].step = "link" => composing[j].card \in Card
                             /\ composing[j].step = "delete" => composing[j].old \in Card
  BY <1>1, DraftRecords DEF PlaceInv
<1>3. OnlyComposer(k) /\ composing'[k].step = "show" /\ composing'[k].old = composing[k].old
      /\ composing'[k].oldDraft = composing[k].oldDraft
  BY <1>1, <1>2, GoesOn
<1>4. OnlyCard(own) /\ card'[own].status = card[own].status /\ card'[own].draft = new
      /\ card'[own].held = card[own].held
  BY <1>1, <1>2, CardDraft
<1>5. /\ Unowned(new) /\ updating.old # new /\ updating.new # new
      /\ \A j \in Composer : /\ composing[j].oldDraft # new
                             /\ j # k /\ HasDraft(j) => composing[j].draft # new
                             /\ j # k /\ composing[j].step = "link" => composing[j].card # own
      /\ card[own].draft = 0
  BY <1>1 DEF KeepInv, OwnDraft, HasDraft
<1> HIDE DEF own, new
<1>6. /\ \A c \in Card : c # own => card'[c] = card[c]
      /\ \A c \in Card : card'[c].status = card[c].status /\ card'[c].held = card[c].held
      /\ \A j \in Composer : j # k => composing'[j] = composing[j]
  BY <1>3, <1>4 DEF OnlyCard, OnlyComposer
<1>7. \A d : \A c \in Card : Owns(c, d)' => Owns(c, d) \/ (c = own /\ d = new)
  BY <1>4, <1>6 DEF Owns
<1>8. \A d : Unowned(d) /\ d # new => Unowned(d)'
  BY <1>1, <1>7 DEF Unowned
<1>9. OneOwner'
  <2>1. new <= made /\ \A c \in Card : ~Owns(c, new)
    BY <1>5 DEF KeepInv, OneOwner, Unowned
  <2> QED  BY <1>1, <1>6, <1>7, <2>1 DEF KeepInv, OneOwner
<1>10. ASSUME NEW j \in Composer  PROVE OwnDraft(j)'
  <2> SUFFICES ASSUME HasDraft(j)'  PROVE OwnDraft(j)'
    BY DEF OwnDraft
  <2>1. j # k /\ HasDraft(j) /\ composing'[j] = composing[j]
    BY <1>3, <1>6 DEF HasDraft
  <2>2. OwnDraft(j) /\ composing[j].draft # new
    BY <1>5, <2>1 DEF KeepInv
  <2>3. Unowned(composing[j].draft)'
    BY <1>8, <2>1, <2>2 DEF OwnDraft
  <2>4. \A i \in Composer : /\ composing'[i].oldDraft = composing[i].oldDraft
                            /\ HasDraft(i)' => HasDraft(i) /\ composing'[i] = composing[i]
                            /\ composing'[i].step = "link" => composing[i].step = "link"
                                                              /\ composing'[i] = composing[i]
    BY <1>3, <1>6 DEF HasDraft
  <2>5. composing[j].step = "link" => card'[composing[j].card].draft = 0
    BY <1>2, <1>5, <1>6, <2>1, <2>2 DEF OwnDraft
  <2> QED  BY <1>1, <2>1, <2>2, <2>3, <2>4, <2>5 DEF OwnDraft
<1>11. ASSUME NEW j \in Composer  PROVE OldDraft(j)'
  <2>1. OldDraft(j) /\ composing[j].oldDraft # new
    BY <1>5 DEF KeepInv
  <2>2. /\ composing'[j].oldDraft = composing[j].oldDraft /\ composing'[j].old = composing[j].old
        /\ composing'[j].step = "delete" => composing[j].step = "delete"
    BY <1>3, <1>6
  <2>3. composing'[j].step = "delete" => card'[composing[j].old].status = "superseded"
    BY <1>2, <1>6, <2>1, <2>2 DEF OldDraft
  <2> QED  BY <1>1, <1>7, <2>1, <2>2, <2>3 DEF OldDraft
<1>12. UpdatedDraft'
  <2>1. UpdatedDraft /\ Spare' = Spare
    BY <1>1 DEF KeepInv, Spare
  <2>2. own \notin updating.rows
    BY <1>2, <1>5, <2>1 DEF UpdatedDraft, PlacedUpdate
  <2>3. \A c \in updating.rows : card'[c].draft = updating.old
    BY <1>2, <1>6, <2>1, <2>2 DEF UpdatedDraft
  <2>4. \A c \in Card : card'[c].status \in Live /\ card'[c].draft = updating.old
                          => card[c].status \in Live /\ card[c].draft = updating.old
    BY <1>4, <1>5, <1>6
  <2>5. Spare => Unowned(updating.new)'
    BY <1>1, <1>5, <1>8, <2>1 DEF UpdatedDraft
  <2>6. \A j \in Composer : composing'[j].oldDraft = composing[j].oldDraft
    BY <1>3, <1>6
  <2> QED  BY <1>1, <1>6, <2>1, <2>3, <2>4, <2>5, <2>6 DEF UpdatedDraft
<1>13. Backed' /\ CardsKeepTheirDraft'
  <2>1. Backed'
    BY <1>1, <1>6 DEF KeepInv, Backed
  <2>2. new \in drafts
    BY <1>5 DEF Unowned
  <2>3. CardsKeepTheirDraft'
    BY <1>1, <1>4, <1>6, <2>2 DEF KeepInv, CardsKeepTheirDraft, Rows
  <2> QED  BY <2>1, <2>3
<1> QED  BY <1>9, <1>10, <1>11, <1>12, <1>13 DEF KeepInv

\* The draft of the card that was replaced goes.
LEMMA DeleteOldKeepsDrafts ==
  ASSUME PlaceInv, KeepInv, NEW k \in Composer, DeleteOld(k)
  PROVE  KeepInv'
<1> DEFINE old == composing[k].old
           gone == composing[k].oldDraft
<1>1. /\ UNCHANGED <<card, made, updating, crossed>> /\ composing[k].step = "delete"
      /\ drafts' \in {drafts, drafts \ {gone}} /\ Goes(k, "idle")
  BY DEF DeleteOld, Compose
<1>2. ComposeTypes /\ drafts \subseteq Draft /\ (\A d \in Draft : d # 0) /\ old \in Card
  BY <1>1, DraftRecords
<1>3. OnlyComposer(k) /\ composing'[k].step = "idle" /\ composing'[k].old = old
      /\ composing'[k].oldDraft = gone
  BY <1>1, <1>2, GoesOn
<1>4. /\ gone # 0 => \A c \in Card : Owns(c, gone) => c = old
      /\ card[old].status = "superseded"
  BY <1>1 DEF KeepInv, OldDraft
<1> HIDE DEF old, gone
<1>5. \A j \in Composer : j # k => composing'[j] = composing[j]
  BY <1>3 DEF OnlyComposer
<1>6. \A d : \A c \in Card : Owns(c, d)' <=> Owns(c, d)
  BY <1>1 DEF Owns
<1>7. \A d : Unowned(d) /\ d # gone => Unowned(d)'
  BY <1>1, <1>6 DEF Unowned
<1>8. \A j \in Composer : composing'[j].oldDraft = composing[j].oldDraft
                          /\ composing'[j].old = composing[j].old
                          /\ (HasDraft(j)' => j # k /\ HasDraft(j))
                          /\ (composing'[j].step = "link" => j # k)
                          /\ (composing'[j].step = "delete" => composing[j].step = "delete")
  BY <1>3, <1>5 DEF HasDraft, old, gone
<1>9. OneOwner'
  BY <1>1, <1>6 DEF KeepInv, OneOwner
<1>10. ASSUME NEW j \in Composer  PROVE OwnDraft(j)'
  <2> SUFFICES ASSUME HasDraft(j)'  PROVE OwnDraft(j)'
    BY DEF OwnDraft
  <2>1. j # k /\ HasDraft(j) /\ composing'[j] = composing[j]
    BY <1>5, <1>8
  <2>2. OwnDraft(j) /\ composing[j].draft # gone
    BY <2>1 DEF KeepInv, OwnDraft, gone
  <2>3. Unowned(composing[j].draft)'
    BY <1>7, <2>1, <2>2 DEF OwnDraft
  <2> QED  BY <1>1, <1>5, <1>8, <2>1, <2>2, <2>3 DEF OwnDraft
<1>11. ASSUME NEW j \in Composer  PROVE OldDraft(j)'
  BY <1>1, <1>6, <1>8 DEF KeepInv, OldDraft
<1>12. UpdatedDraft'
  <2>1. UpdatedDraft /\ Spare' = Spare
    BY <1>1 DEF KeepInv, Spare
  <2>2. Spare => Unowned(updating.new)'
    BY <1>1, <1>7, <2>1 DEF UpdatedDraft, gone
  <2> QED  BY <1>1, <1>8, <2>1, <2>2 DEF UpdatedDraft
<1>13. Backed'
  <2> SUFFICES ASSUME NEW c \in Card, card[c].status = "sending"
               PROVE  card[c].held \in drafts' \/ c \in crossed
    BY <1>1 DEF Backed
  <2>1. card[c].held = gone /\ gone # 0 => FALSE
    BY <1>4 DEF Owns
  <2>2. card[c].held # 0 /\ (card[c].held \in drafts \/ c \in crossed)
    BY DEF KeepInv, OneOwner, Backed
  <2> QED  BY <1>1, <2>1, <2>2
<1>14. CardsKeepTheirDraft'
  <2>1. ASSUME NEW c \in Card, card[c].status \in Live  PROVE card[c].draft = gone => gone = 0
    <3>1. c # old
      BY <1>4, <2>1 DEF Live
    <3> QED  BY <1>4, <3>1 DEF Owns
  <2> QED  BY <1>1, <2>1 DEF KeepInv, CardsKeepTheirDraft, Rows
<1> QED  BY <1>9, <1>10, <1>11, <1>12, <1>13, <1>14 DEF KeepInv

\* An update of a draft no send has read begins.
LEMMA StartUpdateDrafts ==
  ASSUME PlaceInv, KeepInv, NEW d \in Draft, StartUpdate(d)
  PROVE  KeepInv'
<1>1. UNCHANGED <<card, drafts, made, crossed, composing>> /\ d \in drafts
      /\ (\A c \in Card : card[c].status = "sending" => card[c].draft # d)
      /\ updating.step = "idle" /\ updating'.step = "create" /\ updating'.old = d
      /\ updating'.new = 0 /\ updating'.rows = {}
  BY DEF StartUpdate, mailVars, Rows, NotUpdating
<1>2. PICK e \in Card : card[e].draft = d
  BY DEF StartUpdate
<1>3. /\ made \in Nat /\ d # 0
      /\ \A j \in Composer : composing[j].step \in {"insert", "link"} => composing[j].draft \in Draft
      /\ \A x \in Draft : x # 0
  BY DraftRecords
<1>4. \A x : \A c \in Card : Owns(c, x)' <=> Owns(c, x)
  BY <1>1 DEF Owns
<1>5. OneOwner' /\ d <= made
  BY <1>1, <1>4 DEF KeepInv, OneOwner
<1>6. \A x : Unowned(x) => Unowned(x)' /\ x # d
  BY <1>1, <1>2, <1>4 DEF Unowned, Owns
<1>7. ASSUME NEW j \in Composer  PROVE OwnDraft(j)'
  <2> SUFFICES ASSUME HasDraft(j)  PROVE OwnDraft(j)'
    BY <1>1 DEF OwnDraft, HasDraft
  <2>1. OwnDraft(j) /\ composing[j].draft # 0
    BY <1>3 DEF KeepInv, HasDraft
  <2>2. Unowned(composing[j].draft)' /\ composing[j].draft # d
    BY <1>1, <1>6, <2>1 DEF OwnDraft
  <2> QED  BY <1>1, <2>1, <2>2 DEF OwnDraft, HasDraft
<1>8. ASSUME NEW j \in Composer  PROVE OldDraft(j)'
  BY <1>1, <1>4 DEF KeepInv, OldDraft
<1>9. UpdatedDraft'
  <2>1. \A c \in Card : card[c].status = "sending" => card[c].held # d
    BY <1>1, <1>2 DEF KeepInv, OneOwner, Owns
  <2>2. ~Spare'
    BY <1>1 DEF Spare
  <2> QED  BY <1>1, <1>3, <1>5, <2>1, <2>2 DEF UpdatedDraft
<1>10. Backed' /\ CardsKeepTheirDraft'
  BY <1>1 DEF KeepInv, Backed, CardsKeepTheirDraft, Rows
<1> QED  BY <1>5, <1>7, <1>8, <1>9, <1>10 DEF KeepInv

\* Gmail makes the replacement.
LEMMA ReplacementDrafts ==
  ASSUME PlaceInv, KeepInv, CreateReplacement
  PROVE  KeepInv'
<1>1. UNCHANGED <<card, crossed, composing>> /\ updating.step = "create"
  BY DEF CreateReplacement
<1>2. /\ ComposeTypes /\ PlacedUpdate /\ updating.old \in 0 .. MaxDrafts
      /\ \A j \in Composer : composing[j].oldDraft \in 0 .. MaxDrafts
  BY DraftRecords DEF PlaceInv
<1>3. PICK n : n = made + 1
  OBVIOUS
<1>4. /\ updating'.step = "delete" /\ updating'.old = updating.old /\ updating'.new = n
      /\ updating'.rows = {} /\ made' = n /\ n \in 1 .. MaxDrafts /\ drafts' = drafts \cup {n}
  BY <1>1, <1>2, <1>3, UpdateMoves DEF UpdateStep, PlacedUpdate
<1>5. /\ OneOwner' /\ Backed' /\ Unowned(n)' /\ n \in Draft
      /\ \A d : Unowned(d) => Unowned(d)' /\ d # n
      /\ \A d : \A c \in Card : Owns(c, d)' <=> Owns(c, d)
      /\ \A d \in 0 .. MaxDrafts : d <= made => d <= n /\ d # n
  BY <1>1, <1>3, <1>4, NewIsUnowned
<1>6. \A j \in Composer : composing[j].oldDraft <= n /\ composing[j].oldDraft # n
  BY <1>2, <1>5 DEF KeepInv, OldDraft
<1>7. updating.old <= n /\ updating.old # n /\ n <= n
  BY <1>2, <1>4, <1>5 DEF KeepInv, UpdatedDraft
<1>8. ASSUME NEW j \in Composer  PROVE OwnDraft(j)'
  <2> SUFFICES ASSUME HasDraft(j)  PROVE OwnDraft(j)'
    BY <1>1 DEF OwnDraft, HasDraft
  <2>1. OwnDraft(j)
    BY DEF KeepInv
  <2>2. Unowned(composing[j].draft)' /\ composing[j].draft # n
    BY <1>1, <1>5, <2>1 DEF OwnDraft
  <2> QED  BY <1>1, <1>4, <2>1, <2>2 DEF OwnDraft, HasDraft
<1>9. ASSUME NEW j \in Composer  PROVE OldDraft(j)'
  BY <1>1, <1>4, <1>5, <1>6 DEF KeepInv, OldDraft
<1>10. UpdatedDraft'
  <2>1. Unowned(updating.new)'
    BY <1>4, <1>5
  <2> QED  BY <1>1, <1>4, <1>6, <1>7, <2>1 DEF KeepInv, UpdatedDraft
<1>11. CardsKeepTheirDraft'
  BY <1>1, <1>4 DEF KeepInv, CardsKeepTheirDraft, Rows
<1> QED  BY <1>5, <1>8, <1>9, <1>10, <1>11 DEF KeepInv

\* The draft that was replaced is deleted, or its deletion is refused.
LEMMA DeleteReplacedDrafts ==
  ASSUME PlaceInv, KeepInv, DeleteReplaced
  PROVE  KeepInv'
<1>1. UNCHANGED <<card, made, crossed, composing>> /\ updating.step = "delete"
      /\ drafts' \in {drafts, drafts \ {updating.old}}
  BY DEF DeleteReplaced
<1>2. ComposeTypes /\ PlacedUpdate
  BY DEF PlaceInv
<1>3. /\ updating'.step = "find" /\ updating'.old = updating.old
      /\ updating'.new = updating.new /\ updating'.rows = {}
  BY <1>1, <1>2, UpdateMoves DEF UpdateStep, PlacedUpdate
<1>4. \A d : \A c \in Card : Owns(c, d)' <=> Owns(c, d)
  BY <1>1 DEF Owns
<1>5. \A d : Unowned(d) /\ d # updating.old => Unowned(d)'
  BY <1>1, <1>4 DEF Unowned
<1>6. OneOwner'
  BY <1>1, <1>4 DEF KeepInv, OneOwner
<1>7. ASSUME NEW j \in Composer  PROVE OwnDraft(j)'
  <2> SUFFICES ASSUME HasDraft(j)  PROVE OwnDraft(j)'
    BY <1>1 DEF OwnDraft, HasDraft
  <2>1. OwnDraft(j)
    BY DEF KeepInv
  <2>2. Unowned(composing[j].draft)'
    BY <1>1, <1>5, <2>1 DEF OwnDraft
  <2> QED  BY <1>1, <1>3, <2>1, <2>2 DEF OwnDraft, HasDraft
<1>8. ASSUME NEW j \in Composer  PROVE OldDraft(j)'
  BY <1>1, <1>4 DEF KeepInv, OldDraft
<1>9. UpdatedDraft /\ Spare
  BY <1>1 DEF KeepInv, Spare
<1>10. Unowned(updating.new)'
  BY <1>3, <1>5, <1>9 DEF UpdatedDraft
<1>11. UpdatedDraft'
  BY <1>1, <1>3, <1>9, <1>10 DEF UpdatedDraft
<1>12. Backed'
  BY <1>1, <1>9 DEF KeepInv, Backed, UpdatedDraft
<1>13. CardsKeepTheirDraft'
  BY <1>1, <1>3 DEF KeepInv, CardsKeepTheirDraft, Rows
<1> QED  BY <1>6, <1>7, <1>8, <1>11, <1>12, <1>13 DEF KeepInv

\* The update looks for the open cards that show the old draft.
LEMMA FindRowsDrafts ==
  ASSUME PlaceInv, KeepInv, FindRows
  PROVE  KeepInv'
<1>1. UNCHANGED <<card, drafts, made, crossed, composing>> /\ updating.step = "find"
  BY DEF FindRows, mailVars
<1>2. ComposeTypes /\ PlacedUpdate
  BY DEF PlaceInv
<1>3. /\ updating'.step = "repoint" /\ updating'.old = updating.old /\ updating'.new = updating.new
      /\ updating'.rows = {c \in Rows(Live) : card[c].draft = updating.old}
  BY <1>2, UpdateMoves DEF UpdateStep
<1>4. \A d : \A c \in Card : Owns(c, d)' <=> Owns(c, d)
  BY <1>1 DEF Owns
<1>5. \A d : Unowned(d) <=> Unowned(d)'
  BY <1>1, <1>4 DEF Unowned
<1>6. OneOwner'
  BY <1>1, <1>4 DEF KeepInv, OneOwner
<1>7. ASSUME NEW j \in Composer  PROVE OwnDraft(j)'
  <2> SUFFICES ASSUME HasDraft(j)  PROVE OwnDraft(j)'
    BY <1>1 DEF OwnDraft, HasDraft
  <2>1. OwnDraft(j)
    BY DEF KeepInv
  <2>2. Unowned(composing[j].draft)'
    BY <1>1, <1>5, <2>1 DEF OwnDraft
  <2> QED  BY <1>1, <1>3, <2>1, <2>2 DEF OwnDraft, HasDraft
<1>8. ASSUME NEW j \in Composer  PROVE OldDraft(j)'
  BY <1>1, <1>4 DEF KeepInv, OldDraft
<1>9. UpdatedDraft /\ Spare
  BY <1>1 DEF KeepInv, Spare
<1>10. Unowned(updating.new)'
  BY <1>3, <1>5, <1>9 DEF UpdatedDraft
<1>11. UpdatedDraft'
  <2>1. \A c \in Card : card[c].status \in Live /\ card[c].draft = updating.old => c \in updating'.rows
    BY <1>3 DEF Rows
  <2>2. \A c \in updating'.rows : card[c].draft = updating.old
    BY <1>3
  <2> QED  BY <1>1, <1>3, <1>9, <1>10, <2>1, <2>2 DEF UpdatedDraft
<1>12. Backed' /\ CardsKeepTheirDraft'
  BY <1>1, <1>3 DEF KeepInv, Backed, CardsKeepTheirDraft, Rows
<1> QED  BY <1>6, <1>7, <1>8, <1>11, <1>12 DEF KeepInv

\* A card found before is given the replacement.
LEMMA RepointDrafts ==
  ASSUME PlaceInv, KeepInv, NEW c \in Card, Repoint(c)
  PROVE  KeepInv'
<1> DEFINE new == updating.new
           old == updating.old
<1>1. UNCHANGED <<drafts, made, crossed, composing>> /\ updating.step = "repoint"
      /\ c \in updating.rows /\ card' = [card EXCEPT ![c].draft = new]
  BY DEF Repoint
<1>2. /\ ComposeTypes /\ PlacedUpdate /\ new \in 0 .. MaxDrafts /\ old \in Draft
      /\ updating.rows \subseteq Card
      /\ \A j \in Composer : /\ composing[j].step = "link" => composing[j].card \in Card
                             /\ composing[j].step = "delete" => composing[j].old \in Card
      /\ \A d \in Draft : d # 0
  BY <1>1, DraftRecords DEF PlaceInv, PlacedUpdate
<1>3. /\ updating'.step = "repoint" /\ updating'.old = old /\ updating'.new = new
      /\ updating'.rows = updating.rows \ {c}
  BY <1>2, UpdateMoves DEF UpdateStep
<1>4. OnlyCard(c) /\ card'[c].status = card[c].status /\ card'[c].draft = new
      /\ card'[c].held = card[c].held
  BY <1>1, <1>2, CardDraft
<1>5. UpdatedDraft /\ Spare
  BY <1>1 DEF KeepInv, Spare
<1>6. /\ Unowned(new) /\ new # old /\ card[c].draft = old
      /\ \A j \in Composer : composing[j].oldDraft # new
      /\ \A e \in Card : card[e].draft = old => e = c
  BY <1>1, <1>2, <1>5 DEF UpdatedDraft, KeepInv, OneOwner, Owns
<1> HIDE DEF new, old
<1>7. updating'.rows = {}
  BY <1>2, <1>3, <1>5, <1>6 DEF UpdatedDraft, old
<1>8. /\ \A e \in Card : e # c => card'[e] = card[e]
      /\ \A e \in Card : card'[e].status = card[e].status /\ card'[e].held = card[e].held
  BY <1>4 DEF OnlyCard
<1>9. \A d : \A e \in Card : Owns(e, d)' => Owns(e, d) \/ (e = c /\ d = new)
  BY <1>4, <1>8 DEF Owns
<1>10. \A d : Unowned(d) /\ d # new => Unowned(d)'
  BY <1>1, <1>9 DEF Unowned
<1>11. OneOwner'
  <2>1. new <= made /\ \A e \in Card : ~Owns(e, new)
    BY <1>6 DEF KeepInv, OneOwner, Unowned
  <2> QED  BY <1>1, <1>8, <1>9, <2>1 DEF KeepInv, OneOwner
<1>12. ASSUME NEW j \in Composer  PROVE OwnDraft(j)'
  <2> SUFFICES ASSUME HasDraft(j)  PROVE OwnDraft(j)'
    BY <1>1 DEF OwnDraft, HasDraft
  <2>1. OwnDraft(j)
    BY DEF KeepInv
  <2>2. Unowned(composing[j].draft)'
    BY <1>1, <1>10, <2>1 DEF OwnDraft, new
  <2>3. composing[j].step = "link" => card'[composing[j].card].draft = 0
    BY <1>2, <1>6, <1>8, <2>1 DEF OwnDraft
  <2> QED  BY <1>1, <1>3, <2>1, <2>2, <2>3 DEF OwnDraft, HasDraft, new, old
<1>13. ASSUME NEW j \in Composer  PROVE OldDraft(j)'
  <2>1. OldDraft(j) /\ composing[j].oldDraft # new
    BY <1>6 DEF KeepInv
  <2>2. composing[j].step = "delete" => card'[composing[j].old].status = "superseded"
    BY <1>2, <1>8, <2>1 DEF OldDraft
  <2> QED  BY <1>1, <1>9, <2>1, <2>2 DEF OldDraft
<1>14. UpdatedDraft'
  <2>1. ~Spare'
    BY <1>3, <1>7 DEF Spare
  <2>2. \A e \in Card : card'[e].draft # old
    BY <1>4, <1>6, <1>8
  <2> QED  BY <1>1, <1>3, <1>5, <1>7, <1>8, <2>1, <2>2 DEF UpdatedDraft, new, old
<1>15. Backed' /\ CardsKeepTheirDraft'
  <2>1. Backed'
    BY <1>1, <1>8 DEF KeepInv, Backed
  <2>2. new \in drafts
    BY <1>6 DEF Unowned
  <2>3. CardsKeepTheirDraft'
    BY <1>1, <1>3, <1>4, <1>8, <2>2 DEF KeepInv, CardsKeepTheirDraft, Rows, old
  <2> QED  BY <2>1, <2>3
<1> QED  BY <1>11, <1>12, <1>13, <1>14, <1>15 DEF KeepInv

\* An update ends with no open card on the old draft, or stops and crosses those there are.
LEMMA UpdateEndDrafts ==
  ASSUME PlaceInv, KeepInv, EndUpdate \/ UpdateStops
  PROVE  KeepInv'
<1>1. UNCHANGED <<card, drafts, made, composing>> /\ crossed \subseteq crossed'
      /\ updating'.step = "idle" /\ updating'.old = 0 /\ updating'.new = 0 /\ updating'.rows = {}
  BY DEF EndUpdate, UpdateStops, mailVars, NotUpdating
<1>2. /\ made \in Nat
      /\ \A j \in Composer : composing[j].step \in {"insert", "link"} => composing[j].draft \in Draft
      /\ \A x \in Draft : x # 0
  BY DraftRecords
<1>3. \A c \in Card : card[c].status \in Live /\ card[c].draft = updating.old
                      /\ updating.step \in {"find", "repoint"} => c \in crossed'
  BY DEF EndUpdate, UpdateStops, KeepInv, UpdatedDraft
<1>4. \A d : \A c \in Card : Owns(c, d)' <=> Owns(c, d)
  BY <1>1 DEF Owns
<1>5. \A d : Unowned(d) => Unowned(d)'
  BY <1>1, <1>4 DEF Unowned
<1>6. OneOwner'
  BY <1>1, <1>4 DEF KeepInv, OneOwner
<1>7. ASSUME NEW j \in Composer  PROVE OwnDraft(j)'
  <2> SUFFICES ASSUME HasDraft(j)  PROVE OwnDraft(j)'
    BY <1>1 DEF OwnDraft, HasDraft
  <2>1. OwnDraft(j) /\ composing[j].draft # 0
    BY <1>2 DEF KeepInv, HasDraft
  <2>2. Unowned(composing[j].draft)'
    BY <1>1, <1>5, <2>1 DEF OwnDraft
  <2> QED  BY <1>1, <2>1, <2>2 DEF OwnDraft, HasDraft
<1>8. ASSUME NEW j \in Composer  PROVE OldDraft(j)'
  BY <1>1, <1>4 DEF KeepInv, OldDraft
<1>9. UpdatedDraft'
  <2>1. ~Spare' /\ 0 <= made
    BY <1>1, <1>2 DEF Spare
  <2>2. \A c \in Card : card[c].status = "sending" => card[c].held # 0
    BY DEF KeepInv, OneOwner
  <2> QED  BY <1>1, <2>1, <2>2 DEF UpdatedDraft
<1>10. Backed' /\ CardsKeepTheirDraft'
  BY <1>1, <1>3 DEF KeepInv, Backed, CardsKeepTheirDraft, Rows
<1> QED  BY <1>6, <1>7, <1>8, <1>9, <1>10 DEF KeepInv

\* A send reads the draft of its card.
LEMMA ClaimDrafts ==
  ASSUME PlaceInv, KeepInv, NEW c \in Card, Claim(c)
  PROVE  KeepInv'
<1>1. UNCHANGED <<drafts, made, composing, updating>>
      /\ card[c].status \in Live /\ card[c].draft # 0 /\ crossed \subseteq crossed'
      /\ (updating.step # "idle" /\ updating.old = card[c].draft => c \in crossed')
  BY DEF Claim
<1>2. /\ ComposeTypes
      /\ \A j \in Composer : /\ composing[j].step = "link" => composing[j].card \in Card
                             /\ composing[j].step = "delete" => composing[j].old \in Card
      /\ updating.rows \subseteq Card
  BY DraftRecords
<1>3. /\ OnlyCard(c) /\ card'[c].status = "sending" /\ card'[c].draft = card[c].draft
      /\ card'[c].held = card[c].draft
  BY <1>2, CardClaimed
<1>4. \A e \in Card : e # c => card'[e] = card[e]
  BY <1>3 DEF OnlyCard
<1>5. \A d : \A e \in Card : Owns(e, d)' => Owns(e, d)
  BY <1>3, <1>4 DEF Owns
<1>6. \A d : Unowned(d) => Unowned(d)'
  BY <1>1, <1>5 DEF Unowned
<1>7. OneOwner'
  BY <1>1, <1>3, <1>4, <1>5 DEF KeepInv, OneOwner
<1>8. \A e \in Card : /\ card'[e].draft = card[e].draft
                      /\ card'[e].status \in Live => card[e].status \in Live
                      /\ card'[e].status = "error" => card[e].status = "error"
                      /\ card[e].status = "superseded" => card'[e].status = "superseded"
  BY <1>1, <1>3, <1>4 DEF Live
<1>9. ASSUME NEW j \in Composer  PROVE OwnDraft(j)'
  <2> SUFFICES ASSUME HasDraft(j)  PROVE OwnDraft(j)'
    BY <1>1 DEF OwnDraft, HasDraft
  <2>1. OwnDraft(j)
    BY DEF KeepInv
  <2>2. Unowned(composing[j].draft)'
    BY <1>1, <1>6, <2>1 DEF OwnDraft
  <2>3. composing[j].step = "link" => card'[composing[j].card].draft = 0
    BY <1>2, <1>8, <2>1 DEF OwnDraft
  <2> QED  BY <1>1, <2>1, <2>2, <2>3 DEF OwnDraft, HasDraft
<1>10. ASSUME NEW j \in Composer  PROVE OldDraft(j)'
  <2>1. OldDraft(j)
    BY DEF KeepInv
  <2>2. composing[j].step = "delete" => card'[composing[j].old].status = "superseded"
    BY <1>2, <1>8, <2>1 DEF OldDraft
  <2> QED  BY <1>1, <1>5, <2>1, <2>2 DEF OldDraft
<1>11. UpdatedDraft'
  <2>1. UpdatedDraft /\ Spare' = Spare
    BY <1>1 DEF KeepInv, Spare
  <2>2. Spare => Unowned(updating.new)'
    BY <1>1, <1>6, <2>1 DEF UpdatedDraft
  <2>3. \A e \in updating.rows : card'[e].draft = updating.old
    BY <1>2, <1>8, <2>1 DEF UpdatedDraft
  <2>4. \A e \in Card : card'[e].status = "sending" /\ card'[e].held = updating.old => e \in crossed'
    BY <1>1, <1>3, <1>4, <2>1 DEF UpdatedDraft
  <2>5. updating.step = "repoint" =>
          \A e \in Card : card'[e].status \in Live /\ card'[e].draft = updating.old => e \in updating.rows
    BY <1>8, <2>1 DEF UpdatedDraft
  <2> QED  BY <1>1, <2>1, <2>2, <2>3, <2>4, <2>5 DEF UpdatedDraft
<1>12. Backed'
  <2>1. card[c].draft \in drafts \/ c \in crossed'
    BY <1>1 DEF KeepInv, CardsKeepTheirDraft, Rows
  <2> QED  BY <1>1, <1>3, <1>4, <2>1 DEF KeepInv, Backed
<1>13. CardsKeepTheirDraft'
  BY <1>1, <1>8 DEF KeepInv, CardsKeepTheirDraft, Rows
<1> QED  BY <1>7, <1>9, <1>10, <1>11, <1>12, <1>13 DEF KeepInv

\* Gmail sends the draft that was read and drops it; only a crossed send finds none.
LEMMA DeliverDrafts ==
  ASSUME PlaceInv, KeepInv, NEW c \in Card, Deliver(c)
  PROVE  KeepInv'
<1> DEFINE gone == card[c].held
           status == IF gone \in drafts THEN "sent" ELSE "error"
<1>1. UNCHANGED <<made, crossed, composing, updating>> /\ card[c].status = "sending"
      /\ drafts' = drafts \ {gone} /\ card' = [card EXCEPT ![c].status = status]
  BY DEF Deliver
<1>2. /\ ComposeTypes /\ gone \in Draft
      /\ \A j \in Composer : /\ composing[j].step = "link" => composing[j].card \in Card
                             /\ composing[j].step = "delete" => composing[j].old \in Card
      /\ updating.rows \subseteq Card
  BY <1>1, DraftRecords DEF KeepInv, OneOwner
<1>3. status \in {"sent", "error"} /\ (status = "error" => c \in crossed)
  BY <1>1 DEF KeepInv, Backed
<1>4. /\ OnlyCard(c) /\ card'[c].status = status /\ card'[c].draft = card[c].draft
      /\ card'[c].held = card[c].held
  <2> HIDE DEF status
  <2> QED  BY <1>1, <1>2, <1>3, CardStatus
<1>5. Owns(c, gone) /\ \A e \in Card : Owns(e, gone) => e = c
  BY <1>1, <1>2 DEF KeepInv, OneOwner, Owns
<1> HIDE DEF gone, status
<1>6. \A e \in Card : e # c => card'[e] = card[e]
  BY <1>4 DEF OnlyCard
<1>7. \A d : \A e \in Card : Owns(e, d)' => Owns(e, d)
  BY <1>3, <1>4, <1>6 DEF Owns
<1>8. \A d : Unowned(d) => Unowned(d)'
  BY <1>1, <1>5, <1>7 DEF Unowned
<1>9. /\ \A e \in Card : /\ card'[e].draft = card[e].draft /\ card'[e].held = card[e].held
                         /\ card'[e].status \in Live => card[e].status \in Live /\ e # c
                         /\ card'[e].status = "error" => card[e].status = "error" \/ e \in crossed
                         /\ card'[e].status = "sending" => card[e].status = "sending" /\ e # c
                         /\ card[e].status = "superseded" => card'[e].status = "superseded"
  BY <1>1, <1>3, <1>4, <1>6 DEF Live
<1>10. OneOwner'
  BY <1>1, <1>7, <1>9 DEF KeepInv, OneOwner
<1>11. ASSUME NEW j \in Composer  PROVE OwnDraft(j)'
  <2> SUFFICES ASSUME HasDraft(j)  PROVE OwnDraft(j)'
    BY <1>1 DEF OwnDraft, HasDraft
  <2>1. OwnDraft(j)
    BY DEF KeepInv
  <2>2. Unowned(composing[j].draft)'
    BY <1>1, <1>8, <2>1 DEF OwnDraft
  <2>3. composing[j].step = "link" => card'[composing[j].card].draft = 0
    BY <1>2, <1>9, <2>1 DEF OwnDraft
  <2> QED  BY <1>1, <2>1, <2>2, <2>3 DEF OwnDraft, HasDraft
<1>12. ASSUME NEW j \in Composer  PROVE OldDraft(j)'
  <2>1. OldDraft(j)
    BY DEF KeepInv
  <2>2. composing[j].step = "delete" => card'[composing[j].old].status = "superseded"
    BY <1>2, <1>9, <2>1 DEF OldDraft
  <2> QED  BY <1>1, <1>7, <2>1, <2>2 DEF OldDraft
<1>13. UpdatedDraft'
  <2>1. UpdatedDraft /\ Spare' = Spare
    BY <1>1 DEF KeepInv, Spare
  <2>2. Spare => Unowned(updating.new)'
    BY <1>1, <1>8, <2>1 DEF UpdatedDraft
  <2>3. \A e \in updating.rows : card'[e].draft = updating.old
    BY <1>2, <1>9, <2>1 DEF UpdatedDraft
  <2>4. \A e \in Card : card'[e].status = "sending" /\ card'[e].held = updating.old => e \in crossed
    BY <1>9, <2>1 DEF UpdatedDraft
  <2>5. updating.step = "repoint" =>
          \A e \in Card : card'[e].status \in Live /\ card'[e].draft = updating.old => e \in updating.rows
    BY <1>9, <2>1 DEF UpdatedDraft
  <2> QED  BY <1>1, <2>1, <2>2, <2>3, <2>4, <2>5 DEF UpdatedDraft
<1>14. Backed' /\ CardsKeepTheirDraft'
  <2>1. \A e \in Card : e # c => card[e].draft # gone /\ (card[e].status = "sending" => card[e].held # gone)
    BY <1>5 DEF Owns
  <2>2. Backed'
    BY <1>1, <1>9, <2>1 DEF KeepInv, Backed
  <2>3. CardsKeepTheirDraft'
    BY <1>1, <1>9, <2>1 DEF KeepInv, CardsKeepTheirDraft, Rows
  <2> QED  BY <2>2, <2>3
<1> QED  BY <1>10, <1>11, <1>12, <1>13, <1>14 DEF KeepInv

\* A click that settles a card without sending it.
LEMMA ResolveDrafts ==
  ASSUME PlaceInv, KeepInv, NEW c \in Card, NEW status \in {"rejected", "scheduled"},
         Resolve(c, status)
  PROVE  KeepInv'
<1>1. UNCHANGED <<drafts, made, crossed, composing, updating>> /\ card[c].status = "pending"
      /\ card' = [card EXCEPT ![c].status = status]
  BY DEF Resolve
<1>2. /\ ComposeTypes
      /\ \A j \in Composer : composing[j].step = "link" => composing[j].card \in Card
      /\ \A j \in Composer : composing[j].step = "delete" => composing[j].old \in Card
      /\ updating.rows \subseteq Card
  BY DraftRecords
<1>3. /\ OnlyCard(c) /\ card'[c].status = status /\ card'[c].draft = card[c].draft
      /\ card'[c].held = card[c].held
  BY <1>1, <1>2, CardStatus DEF Live
<1>4. \A e \in Card :
         /\ card'[e].draft = card[e].draft /\ card'[e].held = card[e].held
         /\ card'[e].status = "sending" => card[e].status = "sending"
         /\ card'[e].status \in Live => card[e].status \in Live
         /\ card'[e].status = "error" => card[e].status = "error"
         /\ card[e].status = "superseded" => card'[e].status = "superseded"
  BY <1>1, <1>3 DEF OnlyCard, Live
<1>5. \A j \in Composer :
         /\ composing'[j].draft = composing[j].draft /\ composing'[j].oldDraft = composing[j].oldDraft
         /\ composing'[j].old = composing[j].old /\ composing'[j].card = composing[j].card
         /\ composing'[j].step \in {"insert", "link"} => composing'[j].step = composing[j].step
         /\ composing'[j].step = "delete" =>
               composing[j].step = "delete" \/ card'[composing[j].old].status = "superseded"
  BY <1>1
<1> QED  BY <1>1, <1>2, <1>4, <1>5, QuietKeepsDrafts

\* The drafts stay in order through every step.
LEMMA StepDrafts == PlaceInv /\ KeepInv /\ [ComposeNext]_allComposeVars => KeepInv'
<1> SUFFICES ASSUME PlaceInv, KeepInv, [ComposeNext]_allComposeVars  PROVE KeepInv'
  OBVIOUS
<1>1. ASSUME NEW k \in Composer, StartCompose(k) \/ ComposeStep(k) \/ ComposeStops(k)  PROVE KeepInv'
  BY <1>1, StartDrafts, CreateKeepsDrafts, InsertKeepsDrafts, LinkKeepsDrafts, ComposerKeepsDrafts,
     DeleteOldKeepsDrafts DEF ComposeStep
<1>2. ASSUME (\E d \in Draft : StartUpdate(d)) \/ UpdateStep \/ UpdateStops  PROVE KeepInv'
  BY <1>2, StartUpdateDrafts, ReplacementDrafts, DeleteReplacedDrafts, FindRowsDrafts, RepointDrafts,
     UpdateEndDrafts DEF UpdateStep
<1>3. ASSUME NEW c \in Card, ClickStep(c)  PROVE KeepInv'
  BY <1>3, ClaimDrafts, DeliverDrafts, ResolveDrafts DEF ClickStep
<1> QED  BY <1>1, <1>2, <1>3, CarouselDrafts DEF ComposeNext

(* An open card shows a draft Gmail has, and no send fails for want of one,*)
(* but for the update under way and the cards it crossed.                  *)
THEOREM DraftsAreKept == ComposeSpec => []CardsKeepTheirDraft
<1>1. DaemonInit /\ ComposeInit => PlaceInv /\ KeepInv
  BY InitPlaces, InitDrafts
<1>2. PlaceInv /\ KeepInv /\ [ComposeNext]_allComposeVars => PlaceInv' /\ KeepInv'
  BY StepPlaces, StepDrafts
<1>3. PlaceInv /\ KeepInv => CardsKeepTheirDraft
  BY DEF KeepInv
<1> QED  BY <1>1, <1>2, <1>3, PTL DEF ComposeSpec

=============================================================================
