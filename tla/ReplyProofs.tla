----------------------------- MODULE ReplyProofs -----------------------------
(***************************************************************************)
(* Proofs, for every value of the constants, of the promises of            *)
(* ReplySafety.  The argument goes in layers, each the invariant of the    *)
(* one above: types and locals; the claim and the deliveries; the arming   *)
(* the engine judged; the exempt from the deadline; drafts of armed rows.  *)
(* On them rests the refinement of ReplyRefinement, which comes last.      *)
(***************************************************************************)
EXTENDS ReplySafety, ReplyRefinement, TLAPS

-----------------------------------------------------------------------------
(* Layer 1: types and locals.                                              *)

WellFormed == TypeOK /\ LocalInv

\* The cards of the initial state are well formed.
LEMMA InitWellFormed == Init => WellFormed
  BY StoreAssumption, ReplyAssumption
     DEF Init, WellFormed, TypeOK, RowTypeOK, LocalInv, Time, NoTime, Status, Label, Busy, Proc

\* Every statement keeps the columns well typed and a row's draft in place.
LEMMA StatementTypes ==
  ASSUME RowTypeOK, NEW a \in Action,
         \/ \E s \in Status : TryResolveAction(a, s) \/ SweepPending(a, s)
         \/ \E t \in Time : ScheduleAction(a, t)
         \/ \E d \in Draft : RefreshPendingDraft(a, d) \/ SetActionDraftId(a, d)
         \/ \E s \in Status : ClaimActionForSend(a, s)
         \/ FinishSendSent(a)
         \/ \E b \in BOOLEAN : FinishSendError(a, b)
         \/ UnscheduleAction(a) \/ CancelScheduledAction(a) \/ MarkScheduledSuperseded(a),
         now' = now
  PROVE  /\ RowTypeOK'
         /\ (\A b \in Action : draftId[b] \in Draft) => \A b \in Action : draftId'[b] \in Draft
  BY StoreAssumption
     DEF RowTypeOK, Status, Time, NoTime, rowVars, SetStatus, Touch, StampStatus, Schedule,
         TryResolveAction, SweepPending, ScheduleAction, RefreshPendingDraft, SetActionDraftId,
         ClaimActionForSend, FinishSendSent, FinishSendError, UnscheduleAction,
         CancelScheduledAction, MarkScheduledSuperseded

\* The shared tail of every claimed send keeps types and locals.
LEMMA SendWellFormed ==
  ASSUME WellFormed, NEW p \in Proc, SendStep(p) PROVE WellFormed'
<1> USE StoreAssumption, ReplyAssumption
    DEF WellFormed, TypeOK, RowTypeOK, LocalInv, Status, Label, Busy, Proc, Time, NoTime,
        SetStatus, Touch, StampStatus, Schedule, Goto, Begin, Release, Claimed,
        rowVars, mailVars, procVars, engineVars, sweepVars
<1>1. CASE LoadClaimed(p)
  BY <1>1 DEF LoadClaimed
<1>2. CASE GmailAccepts(p)
  BY <1>2 DEF GmailAccepts, Deliver
<1>3. CASE SendOk(p)
  <2> HIDE DEF RowTypeOK
  <2>1. RowTypeOK' /\ \A b \in Action : draftId'[b] \in Draft
    BY <1>3, StatementTypes DEF SendOk
  <2> QED  BY <1>3, <2>1 DEF SendOk
<1>4. CASE SendErr(p)
  <2> HIDE DEF RowTypeOK
  <2>1. RowTypeOK' /\ \A b \in Action : draftId'[b] \in Draft
    <3>1. exempt[p] \in BOOLEAN /\ act[p] \in Action
      BY <1>4 DEF SendErr
    <3>2. \E b \in BOOLEAN : FinishSendError(act[p], b)
      BY <1>4, <3>1, Zenon DEF SendErr
    <3> QED  BY <1>4, <3>1, <3>2, StatementTypes DEF SendErr
  <2> QED  BY <1>4, <2>1 DEF SendErr, StillUnderWay
<1>5. CASE SendTimesOut(p)
  <2> HIDE DEF RowTypeOK
  <2>1. RowTypeOK' /\ \A b \in Action : draftId'[b] \in Draft
    BY <1>5, StatementTypes DEF SendTimesOut, StillUnderWay
  <2> QED  BY <1>5, <2>1 DEF SendTimesOut, StillUnderWay
<1> QED  BY <1>1, <1>2, <1>3, <1>4, <1>5 DEF SendStep

\* Every step keeps types and locals.
LEMMA StepWellFormed == WellFormed /\ [Next]_vars => WellFormed'
<1> SUFFICES ASSUME WellFormed, [Next]_vars PROVE WellFormed'
  OBVIOUS
<1> USE StoreAssumption, ReplyAssumption
    DEF WellFormed, TypeOK, RowTypeOK, LocalInv, Status, Label, Busy, Proc, Time, NoTime,
        SetStatus, Touch, StampStatus, Schedule, Goto, Begin, Release, Claimed,
        rowVars, mailVars, procVars, engineVars, sweepVars
<1>1. ASSUME NEW p \in Handler, HandlerStep(p) PROVE WellFormed'
  <2>1. CASE ApproveRead(p)
    BY <1>1, <2>1 DEF ApproveRead, ProposalIsLive
  <2>2. CASE ApproveArm(p)
    BY <1>1, <2>2 DEF ApproveArm, ScheduleAction
  <2>3. CASE ApproveTooLate(p)
    BY <1>1, <2>3 DEF ApproveTooLate
  <2>4. CASE ApproveClaim(p)
    BY <1>1, <2>4 DEF ApproveClaim, ClaimActionForSend
  <2>5. CASE LoseRace(p)
    BY <1>1, <2>5 DEF LoseRace
  <2>6. CASE SkipResolve(p)
    BY <1>1, <2>6 DEF SkipResolve, TryResolveAction
  <2>7. CASE DeleteDraft(p)
    BY <1>1, <2>7 DEF DeleteDraft
  <2>8. CASE CreateRedraft(p)
    BY <1>1, <2>8 DEF CreateRedraft
  <2>9. CASE ReviseFails(p)
    BY <1>1, <2>9 DEF ReviseFails
  <2>10. CASE RefreshDraft(p)
    <3>1. RowTypeOK' /\ \A b \in Action : draftId'[b] \in Draft
      BY <1>1, <2>10, StatementTypes DEF RefreshDraft
    <3> HIDE DEF RowTypeOK
    <3> QED  BY <1>1, <2>10, <3>1 DEF RefreshDraft
  <2>11. CASE RepointDraft(p)
    BY <1>1, <2>11 DEF RepointDraft, SetActionDraftId
  <2>12. CASE RepointFails(p)
    BY <1>1, <2>12 DEF RepointFails
  <2>13. CASE CancelLoad(p)
    BY <1>1, <2>13 DEF CancelLoad
  <2>14. CASE SendStep(p)
    BY <1>1, <2>14, SendWellFormed
  <2> QED  BY <1>1, <2>1, <2>2, <2>3, <2>4, <2>5, <2>6, <2>7, <2>8, <2>9, <2>10, <2>11, <2>12, <2>13, <2>14 DEF HandlerStep
<1>2. ASSUME NEW p \in Handler, NEW a \in Action, Click(p, a) PROVE WellFormed'
  <2>1. CASE ApproveLoad(p, a)
    BY <1>2, <2>1 DEF ApproveLoad
  <2>2. CASE SkipLoad(p, a)
    BY <1>2, <2>2 DEF SkipLoad
  <2>3. CASE ReviseLoad(p, a)
    BY <1>2, <2>3 DEF ReviseLoad
  <2>4. CASE SendNow(p, a)
    BY <1>2, <2>4 DEF SendNow, ClaimActionForSend
  <2>5. CASE Cancel(p, a)
    BY <1>2, <2>5 DEF Cancel, CancelScheduledAction
  <2> QED  BY <1>2, <2>1, <2>2, <2>3, <2>4, <2>5 DEF Click
<1>3. CASE EngineStep
  <2>1. CASE EngineTick
    BY <1>3, <2>1 DEF EngineTick, StuckRows
  <2>2. CASE FlagStuck
    BY <1>3, <2>2 DEF FlagStuck, FinishSendError
  <2>3. CASE ListDue
    BY <1>3, <2>3 DEF ListDue
  <2>4. CASE FireSuperseded
    <3>1. RowTypeOK' /\ \A b \in Action : draftId'[b] \in Draft
      BY <1>3, <2>4, StatementTypes DEF FireSuperseded
    <3> HIDE DEF RowTypeOK
    <3> QED  BY <1>3, <2>4, <3>1 DEF FireSuperseded
  <2>5. CASE FireGuard
    BY <1>3, <2>5 DEF FireGuard
  <2>6. CASE FireClaim
    BY <1>3, <2>6 DEF FireClaim, ClaimDueActionForSend, ClaimActionForSend
  <2>7. CASE FireLosesClaim
    BY <1>3, <2>7 DEF FireLosesClaim
  <2>8. CASE FireLoadFails
    BY <1>3, <2>8 DEF FireLoadFails
  <2>9. CASE TickDone
    BY <1>3, <2>9 DEF TickDone
  <2>10. CASE SendStep(Engine)
    BY <2>10, SendWellFormed
  <2> QED  BY <1>3, <2>1, <2>2, <2>3, <2>4, <2>5, <2>6, <2>7, <2>8, <2>9, <2>10 DEF EngineStep
<1>4. ASSUME NEW a \in Action, ScheduleClick(a) \/ BackToQueue(a) \/ Sweep(a) PROVE WellFormed'
  <2>1. CASE ScheduleClick(a)
    BY <1>4, <2>1 DEF ScheduleClick, ScheduleAction
  <2>2. CASE BackToQueue(a)
    BY <1>4, <2>2 DEF BackToQueue, UnscheduleAction
  <2>3. CASE ObserveReply(a)
    <3>1. RowTypeOK' /\ \A b \in Action : draftId'[b] \in Draft
      BY <1>4, <2>3, StatementTypes DEF ObserveReply
    <3> HIDE DEF RowTypeOK
    <3> QED  BY <1>4, <2>3, <3>1 DEF ObserveReply
  <2>4. CASE RecordReply(a)
    BY <1>4, <2>4 DEF RecordReply
  <2>5. CASE ResolvePending(a)
    BY <1>4, <2>5 DEF ResolvePending, SweepPending
  <2>6. CASE ReconcileScheduled(a)
    <3>1. RowTypeOK' /\ \A b \in Action : draftId'[b] \in Draft
      BY <1>4, <2>6, StatementTypes DEF ReconcileScheduled
    <3> HIDE DEF RowTypeOK
    <3> QED  BY <1>4, <2>6, <3>1 DEF ReconcileScheduled
  <2> QED  BY <1>4, <2>1, <2>2, <2>3, <2>4, <2>5, <2>6 DEF Sweep
<1>5. CASE ReconcileList
  BY <1>5 DEF ReconcileList
<1>6. CASE LateDelivery
  <2>0. PICK e \in wire :
           /\ Deliver(e[1], e[2]) \/ UNCHANGED <<gmail, sentFor>>
           /\ wire' = wire \ {e}
    BY <1>6 DEF LateDelivery
  <2>1. e[1] \in Action /\ e[2] \in Draft
    OBVIOUS
  <2> QED  BY <1>6, <2>0, <2>1 DEF LateDelivery, Deliver
<1>7. CASE Crash
  <2>1. \A p \in Proc : pc[p] = "sending" => <<act[p], snap[p]>> \in Action \X Draft
    OBVIOUS
  <2>2. wire' \subseteq Action \X Draft
    BY <1>7, <2>1 DEF Crash
  <2> QED  BY <1>7, <2>2 DEF Crash
<1>8. CASE Tick
  BY <1>8 DEF Tick, InSend
<1>9. CASE UNCHANGED vars
  BY <1>9 DEF vars
<1> QED  BY <1>1, <1>2, <1>3, <1>4, <1>5, <1>6, <1>7, <1>8, <1>9 DEF Next

\* Type correctness of the whole model.
THEOREM TypeCorrect == Spec => []TypeOK
<1>1. Spec => []WellFormed
  BY InitWellFormed, StepWellFormed, PTL DEF Spec
<1> QED  BY <1>1, PTL DEF WellFormed

-----------------------------------------------------------------------------
(* Layer 2: the claim and the deliveries.  Most steps are quiet: they      *)
(* leave launched rows and live sends alone.                               *)

Launched == {"sending", "sent", "error"}

Quiet ==
    /\ now' = now /\ tickNow' = tickNow
    /\ stuck' \subseteq stuck
    /\ sentFor' = sentFor /\ wire' = wire
    /\ \A a \in Action :
          /\ status[a] \in Launched => status'[a] = status[a]
          /\ status[a] \notin Launched => status'[a] \notin Launched
          /\ updatedAt[a] <= updatedAt'[a] /\ updatedAt'[a] <= now
    /\ \A p \in Proc : InSend(p)' =>
          /\ InSend(p) /\ act'[p] = act[p] /\ deadline'[p] = deadline[p]
          /\ pc'[p] = "accepted" <=> pc[p] = "accepted"

SendInv == ClaimInv /\ DeliveryInv

\* Nothing is claimed and nothing delivered when the cards go up.
LEMMA InitSendInv == Init => SendInv
  BY StoreAssumption, ReplyAssumption
     DEF Init, SendInv, ClaimInv, ClaimIsHeld, OneSender, OnlyOrphansFlagged, SendMeetsDeadline,
         RowClocks, DeliveryInv, DeliveredIsOnRecord, SentWasDelivered, AtMostOneMessage,
         MayDeliver, InSend, Proc

\* A quiet step keeps the claim and the deliveries.
LEMMA QuietKeepsSendInv ==
  ASSUME WellFormed, WellFormed', SendInv, Quiet PROVE SendInv'
<1>1. ASSUME NEW p \in Proc, InSend(p)'
      PROVE  /\ InSend(p) /\ act'[p] = act[p] /\ act[p] \in Action
             /\ deadline'[p] = deadline[p]
             /\ pc'[p] = "accepted" <=> pc[p] = "accepted"
             /\ status'[act[p]] = "sending" /\ status[act[p]] = "sending"
  BY <1>1 DEF WellFormed, LocalInv, TypeOK, InSend, Busy, Label, Quiet, Launched, SendInv,
              ClaimInv, ClaimIsHeld
<1>2. ClaimIsHeld' /\ OneSender'
  BY <1>1 DEF ClaimIsHeld, OneSender, SendInv, ClaimInv
<1>3. OnlyOrphansFlagged'
  BY <1>1 DEF OnlyOrphansFlagged, SendInv, ClaimInv, Quiet, Launched, WellFormed, TypeOK
<1>4. RowClocks'
  BY DEF RowClocks, SendInv, ClaimInv, Quiet
<1>5. SendMeetsDeadline'
  <2> SUFFICES ASSUME NEW p \in Proc, InSend(p)'
               PROVE  now' <= deadline'[p] /\ deadline'[p] <= updatedAt'[act'[p]] + SendTimeout
    BY DEF SendMeetsDeadline
  <2>1. now <= deadline[p] /\ deadline[p] <= updatedAt[act[p]] + SendTimeout
    BY <1>1 DEF SendMeetsDeadline, SendInv, ClaimInv
  <2>2. /\ updatedAt[act[p]] \in Int /\ updatedAt'[act[p]] \in Int /\ deadline[p] \in Int
        /\ updatedAt[act[p]] <= updatedAt'[act[p]]
    BY <1>1, ReplyAssumption, StoreAssumption
       DEF WellFormed, TypeOK, RowTypeOK, Time, Quiet
  <2> QED  BY <1>1, <2>1, <2>2, ReplyAssumption DEF Quiet
<1>6. DeliveredIsOnRecord' /\ SentWasDelivered' /\ AtMostOneMessage'
  BY DEF DeliveredIsOnRecord, SentWasDelivered, AtMostOneMessage, MayDeliver, SendInv,
         DeliveryInv, Quiet, Launched
<1>8. \A p \in Proc : pc'[p] = "accepted" => sentFor'[act'[p]] # {}
  BY <1>1 DEF InSend, SendInv, DeliveryInv, Quiet
<1>9. (\A p \in Proc : pc[p] \in {"claimed", "sending"} => ~MayDeliver(act[p]))'
  <2> SUFFICES ASSUME NEW p \in Proc, pc'[p] \in {"claimed", "sending"}
               PROVE  sentFor'[act'[p]] = {} /\ \A d \in Draft : <<act'[p], d>> \notin wire'
    BY DEF MayDeliver
  <2>1. pc[p] \in {"claimed", "sending"} /\ act'[p] = act[p]
    BY <1>1 DEF InSend
  <2> QED  BY <2>1 DEF SendInv, DeliveryInv, MayDeliver, Quiet
<1>10. (\A p \in Proc, d \in Draft : InSend(p) => <<act[p], d>> \notin wire)'
  BY <1>1 DEF DeliveryInv, SendInv, Quiet
<1>11. DeliveryInv'
  BY <1>6, <1>8, <1>9, <1>10 DEF DeliveryInv, SendInv, Quiet
<1> QED  BY <1>2, <1>3, <1>4, <1>5, <1>11 DEF SendInv, ClaimInv

\* Handlers outside a claimed send are quiet.
LEMMA HandlersAreQuiet ==
  ASSUME WellFormed, RowClocks, NEW p \in Handler, HandlerStep(p), ~SendStep(p), ~ApproveClaim(p)
  PROVE  Quiet
<1> USE StoreAssumption, ReplyAssumption
    DEF WellFormed, TypeOK, RowTypeOK, LocalInv, Busy, Label, Proc, Status, Time, NoTime, InSend,
        Quiet, Launched,
        SetStatus, Touch, StampStatus, Schedule, Goto, Begin, Release,
        rowVars, mailVars, procVars, engineVars, sweepVars, RowClocks
<1>1. CASE ApproveRead(p)
  BY <1>1 DEF ApproveRead, ProposalIsLive
<1>2. CASE ApproveArm(p)
  BY <1>2 DEF ApproveArm, ScheduleAction
<1>3. CASE ApproveTooLate(p)
  BY <1>3 DEF ApproveTooLate
<1>4. CASE LoseRace(p)
  BY <1>4 DEF LoseRace
<1>5. CASE SkipResolve(p)
  BY <1>5 DEF SkipResolve, TryResolveAction
<1>6. CASE DeleteDraft(p)
  BY <1>6 DEF DeleteDraft
<1>7. CASE CreateRedraft(p)
  BY <1>7 DEF CreateRedraft
<1>8. CASE ReviseFails(p)
  BY <1>8 DEF ReviseFails
<1>9. CASE RefreshDraft(p)
  BY <1>9 DEF RefreshDraft, RefreshPendingDraft
<1>10. CASE RepointDraft(p)
  BY <1>10 DEF RepointDraft, SetActionDraftId
<1>11. CASE RepointFails(p)
  BY <1>11 DEF RepointFails
<1>12. CASE CancelLoad(p)
  BY <1>12 DEF CancelLoad
<1> QED  BY <1>1, <1>2, <1>3, <1>4, <1>5, <1>6, <1>7, <1>8, <1>9, <1>10, <1>11, <1>12 DEF HandlerStep

\* So are clicks that claim nothing.
LEMMA ClicksAreQuiet ==
  ASSUME WellFormed, RowClocks, NEW p \in Handler, NEW a \in Action, Click(p, a), ~SendNow(p, a)
  PROVE  Quiet
<1> USE StoreAssumption, ReplyAssumption
    DEF WellFormed, TypeOK, RowTypeOK, LocalInv, Busy, Label, Proc, Status, Time, NoTime, InSend,
        Quiet, Launched,
        SetStatus, Touch, StampStatus, Schedule, Goto, Begin, Release,
        rowVars, mailVars, procVars, engineVars, sweepVars, RowClocks
<1>1. CASE ApproveLoad(p, a)
  BY <1>1 DEF ApproveLoad
<1>2. CASE SkipLoad(p, a)
  BY <1>2 DEF SkipLoad
<1>3. CASE ReviseLoad(p, a)
  BY <1>3 DEF ReviseLoad
<1>4. CASE Cancel(p, a)
  BY <1>4 DEF Cancel, CancelScheduledAction
<1> QED  BY <1>1, <1>2, <1>3, <1>4 DEF Click

\* So is the engine between its claims and its flags.
LEMMA EngineIsQuiet ==
  ASSUME WellFormed, RowClocks, EngineStep, ~SendStep(Engine), ~EngineTick, ~FlagStuck, ~FireClaim
  PROVE  Quiet
<1> USE StoreAssumption, ReplyAssumption
    DEF WellFormed, TypeOK, RowTypeOK, LocalInv, Busy, Label, Proc, Status, Time, NoTime, InSend,
        Quiet, Launched,
        SetStatus, Touch, StampStatus, Schedule, Goto, Begin, Release,
        rowVars, mailVars, procVars, engineVars, sweepVars, RowClocks
<1>1. CASE ListDue
  BY <1>1 DEF ListDue
<1>2. CASE FireSuperseded
  BY <1>2 DEF FireSuperseded, MarkScheduledSuperseded
<1>3. CASE FireGuard
  BY <1>3 DEF FireGuard
<1>4. CASE FireLosesClaim
  BY <1>4 DEF FireLosesClaim
<1>5. CASE FireLoadFails
  BY <1>5 DEF FireLoadFails
<1>6. CASE TickDone
  BY <1>6 DEF TickDone
<1> QED  BY <1>1, <1>2, <1>3, <1>4, <1>5, <1>6 DEF EngineStep

\* So is everybody who is not sending: owner, observer, sweeps, bulk commands.
LEMMA OthersAreQuiet ==
  ASSUME WellFormed, RowClocks,
         ReconcileList \/ UNCHANGED vars
         \/ \E a \in Action : ScheduleClick(a) \/ BackToQueue(a) \/ Sweep(a)
  PROVE  Quiet
<1> USE StoreAssumption, ReplyAssumption
    DEF WellFormed, TypeOK, RowTypeOK, LocalInv, Busy, Label, Proc, Status, Time, NoTime, InSend,
        Quiet, Launched,
        SetStatus, Touch, StampStatus, Schedule, Goto, Begin, Release,
        rowVars, mailVars, procVars, engineVars, sweepVars, RowClocks
<1>1. CASE ReconcileList
  BY <1>1 DEF ReconcileList
<1>2. CASE UNCHANGED vars
  BY <1>2 DEF vars
<1>3. ASSUME NEW a \in Action, ScheduleClick(a) \/ BackToQueue(a) \/ Sweep(a) PROVE Quiet
  <2>1. CASE ScheduleClick(a)
    BY <1>3, <2>1 DEF ScheduleClick, ScheduleAction
  <2>2. CASE BackToQueue(a)
    BY <1>3, <2>2 DEF BackToQueue, UnscheduleAction
  <2>3. CASE ObserveReply(a)
    BY <1>3, <2>3 DEF ObserveReply, SweepPending
  <2>4. CASE RecordReply(a)
    BY <1>3, <2>4 DEF RecordReply
  <2>5. CASE ResolvePending(a)
    BY <1>3, <2>5 DEF ResolvePending, SweepPending
  <2>6. CASE ReconcileScheduled(a)
    BY <1>3, <2>6 DEF ReconcileScheduled, MarkScheduledSuperseded
  <2> QED  BY <1>3, <2>1, <2>2, <2>3, <2>4, <2>5, <2>6 DEF Sweep
<1> QED  BY <1>1, <1>2, <1>3

\* What the types say of the numbers and of the senders.
LEMMA TypedFacts ==
  ASSUME WellFormed
  PROVE  /\ now \in Int /\ SendTimeout \in Nat /\ Grace \in Int /\ SendTimeout < Grace
         /\ status \in [Action -> Status] /\ updatedAt \in [Action -> Time]
         /\ \A a \in Action : updatedAt[a] \in Int
         /\ \A p \in Proc : deadline[p] \in Int
         /\ \A p \in Proc : InSend(p) => act[p] \in Action
<1>1. \A p \in Proc : InSend(p) => act[p] \in Action
  BY DEF WellFormed, TypeOK, LocalInv, Busy, Label, InSend
<1> QED  BY <1>1, StoreAssumption, ReplyAssumption DEF WellFormed, TypeOK, RowTypeOK, Time

\* A process that takes a claim on a waiting row becomes its only sender.
LEMMA ClaimKeepsSendInv ==
  ASSUME WellFormed, WellFormed', SendInv, NEW p \in Proc, NEW a \in Action,
         ~InSend(p), status[a] \in {"pending", "scheduled"},
         status' = [status EXCEPT ![a] = "sending"],
         updatedAt' = [updatedAt EXCEPT ![a] = now],
         pc'[p] \in {"claimed", "sending"}, act'[p] = a, deadline'[p] = now + SendTimeout,
         \A q \in Proc : q # p =>
             pc'[q] = pc[q] /\ act'[q] = act[q] /\ deadline'[q] = deadline[q],
         UNCHANGED <<now, tickNow, stuck, sentFor, wire>>
  PROVE  SendInv'
<1> USE DEF SendInv, InSend
<1>1. /\ now \in Int /\ SendTimeout \in Nat /\ status \in [Action -> Status]
      /\ updatedAt \in [Action -> Time] /\ \A b \in Action : updatedAt[b] \in Int
      /\ \A q \in Proc : InSend(q) => act[q] \in Action
  BY TypedFacts
<1>2. /\ status'[a] = "sending" /\ updatedAt'[a] = now
      /\ \A b \in Action : b # a => status'[b] = status[b] /\ updatedAt'[b] = updatedAt[b]
  BY <1>1
<1>3. \A q \in Proc : InSend(q) => act[q] # a
  BY DEF ClaimInv, ClaimIsHeld
<1>4. ~MayDeliver(a)
  BY DEF DeliveryInv, DeliveredIsOnRecord
<1>5. ClaimIsHeld' /\ OneSender'
  BY <1>1, <1>2, <1>3 DEF ClaimInv, ClaimIsHeld, OneSender
<1>6. OnlyOrphansFlagged'
  BY <1>1, <1>2 DEF ClaimInv, OnlyOrphansFlagged
<1>7. SendMeetsDeadline'
  BY <1>1, <1>2, <1>3, TypedFacts DEF ClaimInv, SendMeetsDeadline
<1>8. RowClocks'
  BY <1>1, <1>2 DEF ClaimInv, RowClocks
<1>9. DeliveredIsOnRecord' /\ SentWasDelivered' /\ AtMostOneMessage'
  BY <1>2, <1>4 DEF DeliveryInv, DeliveredIsOnRecord, SentWasDelivered, AtMostOneMessage,
                    MayDeliver
<1>10. \A q \in Proc : pc'[q] = "accepted" => sentFor'[act'[q]] # {}
  BY DEF DeliveryInv
<1>11. (\A q \in Proc : pc[q] \in {"claimed", "sending"} => ~MayDeliver(act[q]))'
  BY <1>4 DEF DeliveryInv, MayDeliver
<1>12. (\A q \in Proc, d \in Draft : InSend(q) => <<act[q], d>> \notin wire)'
  BY <1>4 DEF DeliveryInv, MayDeliver
<1> QED  BY <1>5, <1>6, <1>7, <1>8, <1>9, <1>10, <1>11, <1>12 DEF ClaimInv, DeliveryInv

\* The three claims: Approve, Send Now, the engine.
LEMMA ClaimsKeepSendInv ==
  ASSUME WellFormed, WellFormed', SendInv,
         \/ \E p \in Handler : ApproveClaim(p) \/ \E a \in Action : SendNow(p, a)
         \/ FireClaim
  PROVE  SendInv'
<1>1. ASSUME NEW p \in Handler, ApproveClaim(p) PROVE SendInv'
  <2>1. p \in Proc /\ act[p] \in Action
    BY <1>1 DEF ApproveClaim, WellFormed, LocalInv, Busy, Label, Proc
  <2>2. /\ ~InSend(p) /\ status[act[p]] = "pending"
        /\ status' = [status EXCEPT ![act[p]] = "sending"]
        /\ updatedAt' = [updatedAt EXCEPT ![act[p]] = now]
        /\ pc' = [pc EXCEPT ![p] = "sending"] /\ act' = act
        /\ deadline' = [deadline EXCEPT ![p] = now + SendTimeout]
        /\ UNCHANGED <<now, tickNow, stuck, sentFor, wire>>
    BY <1>1 DEF ApproveClaim, ClaimActionForSend, Claimed, SetStatus, Touch, Goto, InSend,
                mailVars, engineVars
  <2> QED  BY <2>1, <2>2, ClaimKeepsSendInv DEF WellFormed, TypeOK
<1>2. ASSUME NEW p \in Handler, NEW a \in Action, SendNow(p, a) PROVE SendInv'
  <2>1. p \in Proc
    BY DEF Proc
  <2>2. /\ ~InSend(p) /\ status[a] = "scheduled"
        /\ status' = [status EXCEPT ![a] = "sending"]
        /\ updatedAt' = [updatedAt EXCEPT ![a] = now]
        /\ pc' = [pc EXCEPT ![p] = "claimed"] /\ act' = [act EXCEPT ![p] = a]
        /\ deadline' = [deadline EXCEPT ![p] = now + SendTimeout]
        /\ UNCHANGED <<now, tickNow, stuck, sentFor, wire>>
    BY <1>2 DEF SendNow, Begin, ClaimActionForSend, Claimed, SetStatus, Touch, Goto, InSend,
                mailVars, engineVars
  <2> QED  BY <2>1, <2>2, ClaimKeepsSendInv DEF WellFormed, TypeOK
<1>3. CASE FireClaim
  <2>1. Engine \in Proc /\ act[Engine] \in Action
    BY <1>3 DEF FireClaim, WellFormed, LocalInv, Busy, Label, Proc
  <2>2. /\ ~InSend(Engine) /\ status[act[Engine]] = "scheduled"
        /\ status' = [status EXCEPT ![act[Engine]] = "sending"]
        /\ updatedAt' = [updatedAt EXCEPT ![act[Engine]] = now]
        /\ pc' = [pc EXCEPT ![Engine] = "claimed"] /\ act' = act
        /\ deadline' = [deadline EXCEPT ![Engine] = now + SendTimeout]
        /\ UNCHANGED <<now, tickNow, stuck, sentFor, wire>>
    BY <1>3 DEF FireClaim, ClaimDueActionForSend, IsDue, ClaimActionForSend, Claimed, SetStatus,
                Touch, Goto, InSend, mailVars, engineVars
  <2> QED  BY <2>1, <2>2, ClaimKeepsSendInv DEF WellFormed, TypeOK
<1> QED  BY <1>1, <1>2, <1>3

\* The tail of a claimed send: the holder moves on, confirms or fails its row.
LEMMA SendKeepsSendInv ==
  ASSUME WellFormed, WellFormed', SendInv, NEW p \in Proc, SendStep(p)
  PROVE  SendInv'
<1> DEFINE a == act[p]
<1>0. /\ InSend(p) /\ a \in Action /\ status[a] = "sending"
      /\ \A q \in Proc : InSend(q) /\ act[q] = a => q = p
  BY TypedFacts
     DEF SendStep, LoadClaimed, GmailAccepts, SendOk, SendErr, SendTimesOut, InSend, SendInv,
         ClaimInv, ClaimIsHeld, OneSender
<1>1. CASE LoadClaimed(p)
  <2>1. Quiet
    BY <1>1, TypedFacts
       DEF LoadClaimed, Quiet, WellFormed, TypeOK, SendInv, ClaimInv, RowClocks, InSend, Goto, rowVars, mailVars,
           engineVars
  <2> QED  BY <2>1, QuietKeepsSendInv
<1>2. CASE GmailAccepts(p)
  <2>1. /\ UNCHANGED <<status, updatedAt, now, tickNow, stuck, wire, act, deadline>>
        /\ pc[p] = "sending" /\ pc' = [pc EXCEPT ![p] = "accepted"]
        /\ sentFor' = [sentFor EXCEPT ![a] = @ \cup {snap[p]}]
    BY <1>2 DEF GmailAccepts, Deliver, Goto, rowVars, engineVars
  <2>2. /\ pc'[p] = "accepted" /\ \A q \in Proc : q # p => pc'[q] = pc[q]
        /\ sentFor[a] = {} /\ sentFor'[a] = {snap[p]}
        /\ \A b \in Action : b # a => sentFor'[b] = sentFor[b]
    BY <1>0, <2>1 DEF WellFormed, TypeOK, SendInv, DeliveryInv, MayDeliver
  <2>3. \A q \in Proc : InSend(q)' <=> InSend(q)
    BY <2>1, <2>2 DEF InSend
  <2>4. ClaimInv'
    BY <2>1, <2>3 DEF SendInv, ClaimInv, ClaimIsHeld, OneSender, OnlyOrphansFlagged,
                      SendMeetsDeadline, RowClocks
  <2>5. DeliveredIsOnRecord' /\ SentWasDelivered' /\ AtMostOneMessage'
    BY <1>0, <2>1, <2>2 DEF SendInv, DeliveryInv, DeliveredIsOnRecord, SentWasDelivered,
                            AtMostOneMessage, MayDeliver
  <2>6. \A q \in Proc : pc'[q] = "accepted" => sentFor'[act'[q]] # {}
    BY <1>0, <2>1, <2>2, TypedFacts DEF SendInv, DeliveryInv, InSend
  <2>7. (\A q \in Proc : pc[q] \in {"claimed", "sending"} => ~MayDeliver(act[q]))'
    BY <1>0, <2>1, <2>2, TypedFacts DEF SendInv, DeliveryInv, MayDeliver, InSend
  <2>8. (\A q \in Proc, d \in Draft : InSend(q) => <<act[q], d>> \notin wire)'
    BY <2>1, <2>3 DEF SendInv, DeliveryInv
  <2>9. (\A b \in Action, d \in Draft : <<b, d>> \in wire => sentFor[b] = {})'
    BY <1>0, <2>1, <2>2 DEF SendInv, DeliveryInv
  <2> QED  BY <2>1, <2>4, <2>5, <2>6, <2>7, <2>8, <2>9 DEF SendInv, DeliveryInv
<1>3. ASSUME /\ pc' = [pc EXCEPT ![p] = IF p = Engine THEN "firing" ELSE "idle"]
             /\ act' = [act EXCEPT ![p] = NoAction]
             /\ deadline' = [deadline EXCEPT ![p] = 0]
             /\ updatedAt' = [updatedAt EXCEPT ![a] = now]
             /\ UNCHANGED <<now, tickNow, stuck, sentFor>>
             /\ \/ status' = [status EXCEPT ![a] = "sent"] /\ wire' = wire /\ pc[p] = "accepted"
                \/ /\ status' = [status EXCEPT ![a] = "error"]
                   /\ wire' = wire \/ (pc[p] = "sending" /\ wire' = wire \cup {<<a, snap[p]>>})
      PROVE  SendInv'
  <2>1. /\ \A q \in Proc : InSend(q)' => q # p /\ InSend(q)
        /\ \A q \in Proc : q # p => pc'[q] = pc[q] /\ act'[q] = act[q] /\ deadline'[q] = deadline[q]
    BY <1>3 DEF InSend, WellFormed, TypeOK
  <2>2. /\ status'[a] \in {"sent", "error"} /\ updatedAt'[a] = now
        /\ \A b \in Action : b # a => status'[b] = status[b] /\ updatedAt'[b] = updatedAt[b]
    BY <1>0, <1>3, TypedFacts
  <2>3. \A q \in Proc : InSend(q)' => act[q] \in Action /\ act[q] # a
    BY <1>0, <2>1, TypedFacts
  <2>4. a \notin stuck
    BY <1>0 DEF SendInv, ClaimInv, OnlyOrphansFlagged
  <2>5. ClaimIsHeld' /\ OneSender' /\ OnlyOrphansFlagged'
    <3>1. ClaimIsHeld'
      BY <2>1, <2>2, <2>3 DEF SendInv, ClaimInv, ClaimIsHeld
    <3>2. OneSender'
      BY <2>1 DEF SendInv, ClaimInv, OneSender
    <3>3. OnlyOrphansFlagged'
      BY <1>3, <2>1, <2>2, <2>4 DEF SendInv, ClaimInv, OnlyOrphansFlagged, WellFormed, TypeOK
    <3> QED  BY <3>1, <3>2, <3>3
  <2>6. SendMeetsDeadline'
    BY <1>3, <2>1, <2>2, <2>3, TypedFacts DEF SendInv, ClaimInv, SendMeetsDeadline
  <2>7. RowClocks'
    BY <1>3, <2>2, TypedFacts DEF SendInv, ClaimInv, RowClocks
  <2>8. /\ \A e \in wire' : e \in wire \/ (e = <<a, snap[p]>> /\ pc[p] = "sending")
        /\ \A d \in Draft : <<a, d>> \notin wire
        /\ pc[p] = "sending" => sentFor[a] = {}
        /\ pc[p] = "accepted" => sentFor[a] # {}
    BY <1>0, <1>3 DEF SendInv, DeliveryInv, MayDeliver
  <2>9. \A b \in Action, d \in Draft : <<b, d>> \in wire' =>
            <<b, d>> \in wire \/ (b = a /\ d = snap[p] /\ pc[p] = "sending")
    BY <2>8
  <2>10. DeliveredIsOnRecord' /\ SentWasDelivered' /\ AtMostOneMessage'
    <3>1. ASSUME NEW b \in Action, MayDeliver(b)' PROVE status'[b] \in {"sending", "sent", "error"}
      <4>1. CASE b = a
        BY <2>2, <4>1
      <4>2. CASE b # a
        BY <1>3, <2>2, <2>9, <3>1, <4>2 DEF SendInv, DeliveryInv, DeliveredIsOnRecord, MayDeliver
      <4> QED  BY <4>1, <4>2
    <3>2. ASSUME NEW b \in Action, status'[b] = "sent" PROVE sentFor'[b] # {}
      <4>1. CASE b = a
        BY <1>0, <1>3, <2>8, <3>2, <4>1, TypedFacts
      <4>2. CASE b # a
        BY <1>3, <2>2, <3>2, <4>2 DEF SendInv, DeliveryInv, SentWasDelivered
      <4> QED  BY <4>1, <4>2
    <3>3. AtMostOneMessage'
      BY <1>3 DEF SendInv, DeliveryInv, AtMostOneMessage
    <3> QED  BY <3>1, <3>2, <3>3 DEF DeliveredIsOnRecord, SentWasDelivered
  <2>11. \A q \in Proc : pc'[q] = "accepted" => sentFor'[act'[q]] # {}
    BY <1>3, <2>1 DEF SendInv, DeliveryInv, InSend
  <2>12. (\A q \in Proc : pc[q] \in {"claimed", "sending"} => ~MayDeliver(act[q]))'
    BY <1>3, <2>1, <2>3, <2>9 DEF SendInv, DeliveryInv, MayDeliver, InSend
  <2>13. (\A q \in Proc, d \in Draft : InSend(q) => <<act[q], d>> \notin wire)'
    BY <2>1, <2>3, <2>9 DEF SendInv, DeliveryInv
  <2>14. (\A b \in Action, d \in Draft : <<b, d>> \in wire => sentFor[b] = {})'
    BY <1>3, <2>8, <2>9 DEF SendInv, DeliveryInv
  <2>15. (\A b \in Action, d, e \in Draft : <<b, d>> \in wire /\ <<b, e>> \in wire => d = e)'
    BY <2>8, <2>9 DEF SendInv, DeliveryInv
  <2> QED  BY <2>5, <2>6, <2>7, <2>10, <2>11, <2>12, <2>13, <2>14, <2>15
              DEF SendInv, ClaimInv, DeliveryInv
<1>4. CASE SendOk(p)
  BY <1>0, <1>3, <1>4 DEF SendOk, FinishSendSent, SetStatus, Touch, Release, Goto, mailVars, engineVars
<1>5. CASE SendErr(p)
  BY <1>0, <1>3, <1>5
     DEF SendErr, FinishSendError, StillUnderWay, SetStatus, Touch, Release, Goto, engineVars
<1>6. CASE SendTimesOut(p)
  BY <1>0, <1>3, <1>6
     DEF SendTimesOut, FinishSendError, StillUnderWay, SetStatus, Touch, Release, Goto, engineVars
<1> QED  BY <1>1, <1>2, <1>4, <1>5, <1>6 DEF SendStep

\* The engine's verdict: what it lists as stuck has no sender left, and it only
\* fails rows of that list.
LEMMA FlagsKeepSendInv ==
  ASSUME WellFormed, WellFormed', SendInv, EngineTick \/ FlagStuck
  PROVE  SendInv'
<1>1. CASE EngineTick
  <2>1. /\ UNCHANGED <<status, updatedAt, now, sentFor, wire, act, deadline>>
        /\ stuck' = {b \in Action : status[b] = "sending" /\ updatedAt[b] + Grace <= now}
        /\ tickNow' = now
        /\ \A p \in Proc : InSend(p)' <=> InSend(p)
        /\ \A p \in Proc : InSend(p) => pc'[p] = pc[p]
    BY <1>1 DEF EngineTick, StuckRows, IsStuckSending, Goto, InSend, WellFormed, TypeOK, rowVars,
                mailVars
  <2>2. ASSUME NEW b \in stuck', NEW p \in Proc, InSend(p), act[p] = b PROVE FALSE
    <3>1. now <= deadline[p] /\ deadline[p] <= updatedAt[b] + SendTimeout
      BY <2>2 DEF SendInv, ClaimInv, SendMeetsDeadline
    <3>2. b \in Action /\ updatedAt[b] + Grace <= now
      BY <2>1, <2>2
    <3> QED  BY <3>1, <3>2, TypedFacts
  <2>3. OnlyOrphansFlagged'
    BY <2>1, <2>2 DEF OnlyOrphansFlagged
  <2>4. ClaimIsHeld' /\ OneSender' /\ SendMeetsDeadline' /\ RowClocks'
    BY <2>1, TypedFacts DEF SendInv, ClaimInv, ClaimIsHeld, OneSender, SendMeetsDeadline, RowClocks
  <2>5. DeliveryInv'
    BY <2>1 DEF SendInv, DeliveryInv, DeliveredIsOnRecord, SentWasDelivered, AtMostOneMessage,
                MayDeliver, InSend
  <2> QED  BY <2>3, <2>4, <2>5 DEF SendInv, ClaimInv
<1>2. CASE FlagStuck
  <2>1. PICK b \in stuck : FinishSendError(b, TRUE) /\ stuck' = stuck \ {b}
    BY <1>2 DEF FlagStuck
  <2>2. /\ b \in Action /\ status[b] = "sending"
        /\ \A p \in Proc : InSend(p) => act[p] # b /\ act[p] \in Action
    BY TypedFacts DEF SendInv, ClaimInv, OnlyOrphansFlagged, WellFormed, TypeOK
  <2>3. /\ status' = [status EXCEPT ![b] = "error"] /\ updatedAt' = [updatedAt EXCEPT ![b] = now]
        /\ UNCHANGED <<now, tickNow, sentFor, wire, pc, act, deadline>>
    BY <1>2, <2>1, <2>2 DEF FlagStuck, FinishSendError, SetStatus, Touch, mailVars, procVars
  <2>4. /\ status'[b] = "error" /\ updatedAt'[b] = now
        /\ \A c \in Action : c # b => status'[c] = status[c] /\ updatedAt'[c] = updatedAt[c]
    BY <2>2, <2>3, TypedFacts
  <2>5. ClaimIsHeld' /\ OneSender' /\ OnlyOrphansFlagged'
    BY <2>1, <2>2, <2>3, <2>4
       DEF SendInv, ClaimInv, ClaimIsHeld, OneSender, OnlyOrphansFlagged, InSend, WellFormed, TypeOK
  <2>6. SendMeetsDeadline' /\ RowClocks'
    BY <2>2, <2>3, <2>4, TypedFacts
       DEF SendInv, ClaimInv, SendMeetsDeadline, RowClocks, InSend
  <2>7. DeliveredIsOnRecord' /\ SentWasDelivered' /\ AtMostOneMessage'
    BY <2>2, <2>3, <2>4
       DEF SendInv, DeliveryInv, DeliveredIsOnRecord, SentWasDelivered, AtMostOneMessage, MayDeliver
  <2> QED  BY <2>3, <2>5, <2>6, <2>7 DEF SendInv, ClaimInv, DeliveryInv, MayDeliver, InSend
<1> QED  BY <1>1, <1>2

\* Gmail carries out an abandoned request: at most the one there is.
LEMMA LateDeliveryKeepsSendInv ==
  ASSUME WellFormed, WellFormed', SendInv, LateDelivery
  PROVE  SendInv'
<1>1. PICK e \in wire :
         /\ Deliver(e[1], e[2]) \/ UNCHANGED <<gmail, sentFor>>
         /\ wire' = wire \ {e}
  BY DEF LateDelivery
<1>2. PICK a \in Action, d \in Draft : e = <<a, d>> /\ e[1] = a /\ e[2] = d
  BY DEF WellFormed, TypeOK
<1>3. UNCHANGED <<status, updatedAt, now, tickNow, stuck, pc, act, deadline>>
  BY DEF LateDelivery, rowVars, procVars, engineVars
<1>4. /\ sentFor' = sentFor \/ sentFor' = [sentFor EXCEPT ![a] = @ \cup {d}]
      /\ sentFor[a] = {}
      /\ \A f \in Draft : <<a, f>> \in wire => f = d
      /\ status[a] \in {"sending", "sent", "error"}
      /\ \A p \in Proc : InSend(p) => act[p] # a /\ act[p] \in Action
  BY <1>1, <1>2, TypedFacts
     DEF Deliver, SendInv, DeliveryInv, DeliveredIsOnRecord, MayDeliver, InSend
<1>5. /\ sentFor'[a] \subseteq {d}
      /\ \A b \in Action : b # a => sentFor'[b] = sentFor[b]
      /\ \A f \in Draft : <<a, f>> \notin wire'
      /\ \A b \in Action, f \in Draft : <<b, f>> \in wire' => <<b, f>> \in wire /\ b # a
  BY <1>1, <1>2, <1>4 DEF WellFormed, TypeOK
<1>6. ClaimInv'
  BY <1>3 DEF SendInv, ClaimInv, ClaimIsHeld, OneSender, OnlyOrphansFlagged, SendMeetsDeadline,
              RowClocks, InSend
<1>7. DeliveredIsOnRecord' /\ AtMostOneMessage'
  BY <1>3, <1>4, <1>5 DEF SendInv, DeliveryInv, DeliveredIsOnRecord, AtMostOneMessage, MayDeliver
<1>8. SentWasDelivered'
  BY <1>3, <1>4, <1>5 DEF SendInv, DeliveryInv, SentWasDelivered
<1>9. (\A p \in Proc : pc[p] = "accepted" => sentFor[act[p]] # {})'
  BY <1>3, <1>4, <1>5 DEF SendInv, DeliveryInv, InSend
<1>10. (\A p \in Proc : pc[p] \in {"claimed", "sending"} => ~MayDeliver(act[p]))'
  BY <1>3, <1>4, <1>5 DEF SendInv, DeliveryInv, MayDeliver, InSend
<1>11. (\A p \in Proc, f \in Draft : InSend(p) => <<act[p], f>> \notin wire)'
  BY <1>1, <1>3 DEF SendInv, DeliveryInv, InSend
<1>12. (\A b \in Action, f \in Draft : <<b, f>> \in wire => sentFor[b] = {})'
  BY <1>5 DEF SendInv, DeliveryInv
<1>13. (\A b \in Action, f, g \in Draft : <<b, f>> \in wire /\ <<b, g>> \in wire => f = g)'
  BY <1>1 DEF SendInv, DeliveryInv
<1> QED  BY <1>6, <1>7, <1>8, <1>9, <1>10, <1>11, <1>12, <1>13 DEF SendInv, DeliveryInv

\* A restart leaves every claim without a holder and its request under way.
LEMMA CrashKeepsSendInv ==
  ASSUME WellFormed, WellFormed', SendInv, Crash
  PROVE  SendInv'
<1>1. /\ UNCHANGED <<status, updatedAt, now, tickNow, sentFor>>
      /\ stuck' = {} /\ \A p \in Proc : pc'[p] = "idle"
  BY DEF Crash, rowVars
<1>2. ASSUME NEW b \in Action, NEW d \in Draft, <<b, d>> \in wire'
      PROVE  \/ <<b, d>> \in wire
             \/ \E p \in Proc : pc[p] = "sending" /\ act[p] = b /\ snap[p] = d
  BY <1>2 DEF Crash
<1>3. ClaimInv'
  BY <1>1 DEF SendInv, ClaimInv, ClaimIsHeld, OneSender, OnlyOrphansFlagged, SendMeetsDeadline,
              RowClocks, InSend
<1>4. DeliveredIsOnRecord'
  BY <1>1, <1>2 DEF SendInv, ClaimInv, ClaimIsHeld, InSend, DeliveryInv, DeliveredIsOnRecord, MayDeliver
<1>5. SentWasDelivered' /\ AtMostOneMessage'
  BY <1>1 DEF SendInv, DeliveryInv, SentWasDelivered, AtMostOneMessage
<1>6. (\A b \in Action, d \in Draft : <<b, d>> \in wire => sentFor[b] = {})'
  BY <1>1, <1>2 DEF SendInv, DeliveryInv, MayDeliver
<1>7. (\A b \in Action, d, e \in Draft : <<b, d>> \in wire /\ <<b, e>> \in wire => d = e)'
  BY <1>2 DEF SendInv, ClaimInv, OneSender, DeliveryInv, InSend
<1> QED  BY <1>1, <1>3, <1>4, <1>5, <1>6, <1>7 DEF SendInv, DeliveryInv, InSend

\* Time does not pass a live deadline.
LEMMA TickKeepsSendInv ==
  ASSUME WellFormed, WellFormed', SendInv, Tick
  PROVE  SendInv'
<1>1. /\ UNCHANGED <<status, updatedAt, tickNow, stuck, sentFor, wire, pc, act, deadline>>
      /\ now' = now + 1 /\ \A p \in Proc : InSend(p) => now < deadline[p]
  BY DEF Tick, rowVars, mailVars, procVars, engineVars
<1>2. tickNow \in Int
  BY DEF WellFormed, TypeOK, Time
<1>3. SendMeetsDeadline' /\ RowClocks'
  BY <1>1, <1>2, TypedFacts DEF SendInv, ClaimInv, SendMeetsDeadline, RowClocks, InSend
<1>4. ClaimIsHeld' /\ OneSender' /\ OnlyOrphansFlagged'
  BY <1>1 DEF SendInv, ClaimInv, ClaimIsHeld, OneSender, OnlyOrphansFlagged, InSend
<1>5. DeliveryInv'
  BY <1>1 DEF SendInv, DeliveryInv, DeliveredIsOnRecord, SentWasDelivered, AtMostOneMessage,
              MayDeliver, InSend
<1> QED  BY <1>3, <1>4, <1>5 DEF SendInv, ClaimInv

\* Every step keeps the claim and the deliveries.
LEMMA StepSendInv ==
  ASSUME WellFormed, WellFormed', SendInv, [Next]_vars PROVE SendInv'
<1>0. RowClocks
  BY DEF SendInv, ClaimInv
<1>1. ASSUME NEW p \in Handler, HandlerStep(p) PROVE SendInv'
  <2>1. CASE SendStep(p)
    BY <2>1, SendKeepsSendInv DEF Proc
  <2>2. CASE ApproveClaim(p)
    BY <2>2, ClaimsKeepSendInv
  <2>3. CASE ~SendStep(p) /\ ~ApproveClaim(p)
    BY <1>0, <1>1, <2>3, HandlersAreQuiet, QuietKeepsSendInv
  <2> QED  BY <2>1, <2>2, <2>3
<1>2. ASSUME NEW p \in Handler, NEW a \in Action, Click(p, a) PROVE SendInv'
  <2>1. CASE SendNow(p, a)
    BY <2>1, ClaimsKeepSendInv
  <2>2. CASE ~SendNow(p, a)
    BY <1>0, <1>2, <2>2, ClicksAreQuiet, QuietKeepsSendInv
  <2> QED  BY <2>1, <2>2
<1>3. CASE EngineStep
  <2>1. CASE SendStep(Engine)
    BY <2>1, SendKeepsSendInv DEF Proc
  <2>2. CASE EngineTick \/ FlagStuck
    BY <2>2, FlagsKeepSendInv
  <2>3. CASE FireClaim
    BY <2>3, ClaimsKeepSendInv
  <2>4. CASE ~SendStep(Engine) /\ ~EngineTick /\ ~FlagStuck /\ ~FireClaim
    BY <1>0, <1>3, <2>4, EngineIsQuiet, QuietKeepsSendInv
  <2> QED  BY <2>1, <2>2, <2>3, <2>4
<1>4. CASE \/ ReconcileList \/ UNCHANGED vars
           \/ \E a \in Action : ScheduleClick(a) \/ BackToQueue(a) \/ Sweep(a)
  BY <1>0, <1>4, OthersAreQuiet, QuietKeepsSendInv
<1>5. CASE LateDelivery \/ Crash \/ Tick
  BY <1>5, LateDeliveryKeepsSendInv, CrashKeepsSendInv, TickKeepsSendInv
<1> QED  BY <1>1, <1>2, <1>3, <1>4, <1>5 DEF Next

\* Everything the two layers keep.
THEOREM Invariants == Spec => [](WellFormed /\ SendInv)
<1>1. Init => WellFormed /\ SendInv
  BY InitWellFormed, InitSendInv
<1>2. WellFormed /\ SendInv /\ [Next]_vars => (WellFormed /\ SendInv)'
  BY StepWellFormed, StepSendInv
<1> QED  BY <1>1, <1>2, PTL DEF Spec

\* While a send is running (approve, Send Now, engine) its row stays in
\* `sending`: no click, sweep or flag takes the row from under it.
THEOREM ClaimsAreHeld == Spec => []ClaimIsHeld
<1>1. WellFormed /\ SendInv => ClaimIsHeld
  BY DEF SendInv, ClaimInv
<1> QED  BY <1>1, Invariants, PTL

\* No row has two senders, whichever of a click, Send Now and the engine's tick
\* reached it first.
THEOREM SoleSender == Spec => []OneSender
<1>1. WellFormed /\ SendInv => OneSender
  BY DEF SendInv, ClaimInv
<1> QED  BY <1>1, Invariants, PTL

\* SEND_DRAFT_TIMEOUT against STUCK_SENDING_GRACE: the engine never flags a row
\* whose send is still running.
THEOREM NoLiveSendFlagged == Spec => [](OnlyOrphansFlagged /\ SendMeetsDeadline)
<1>1. WellFormed /\ SendInv => OnlyOrphansFlagged /\ SendMeetsDeadline
  BY DEF SendInv, ClaimInv
<1> QED  BY <1>1, Invariants, PTL

\* At most one message per row, and a row on record for it.
THEOREM OneMessage == Spec => [](AtMostOneMessage /\ DeliveredIsOnRecord /\ SentWasDelivered)
<1>1. WellFormed /\ SendInv => AtMostOneMessage /\ DeliveredIsOnRecord /\ SentWasDelivered
  BY DEF SendInv, DeliveryInv
<1> QED  BY <1>1, Invariants, PTL

-----------------------------------------------------------------------------
(* Layer 3: the engine fires the arming it judged.  Most steps are steady: *)
(* a row they touch leaves its arming or gets one due after the tick.      *)

Steady ==
    /\ tickNow' = tickNow /\ dueArmed' = dueArmed
    /\ \A a \in Action :
          /\ Judged(a)' => Judged(a)
          /\ \/ statusAt'[a] = statusAt[a] /\ status'[a] = status[a] /\ scheduledAt'[a] = scheduledAt[a]
             \/ status'[a] # "scheduled"
             \/ scheduledAt'[a] > tickNow
    /\ pc'[Engine] \in {"idle", "flagging"} => due' = {}

\* A step that leaves the due list and its rows' armings alone keeps the judgement.
LEMMA SteadyKeepsJudgement == JudgementInv /\ Steady => JudgementInv'
  BY DEF JudgementInv, Steady

\* At start nothing is on the due list.
LEMMA InitJudgement == Init => JudgementInv
  BY ReplyAssumption DEF Init, JudgementInv, Judged, Proc

\* No click and no handler re-arms a listed row within the tick's clock.
LEMMA HandlersAreSteady ==
  ASSUME WellFormed, RowClocks, JudgementInv, NEW p \in Handler,
         HandlerStep(p) \/ \E a \in Action : Click(p, a)
  PROVE  Steady
<1> USE StoreAssumption, ReplyAssumption
    DEF WellFormed, TypeOK, RowTypeOK, LocalInv, Busy, Label, Proc, Status, Time, NoTime,
        Steady, Judged, RowClocks, JudgementInv,
        SetStatus, Touch, StampStatus, Schedule, Goto, Begin, Release,
        rowVars, mailVars, procVars, engineVars, sweepVars
<1>1. ASSUME HandlerStep(p) PROVE Steady
  <2>1. CASE ApproveRead(p)
    BY <2>1 DEF ApproveRead, ProposalIsLive
  <2>2. CASE ApproveArm(p)
    BY <2>2 DEF ApproveArm, ScheduleAction, ValidSendAt
  <2>3. CASE ApproveTooLate(p)
    BY <2>3 DEF ApproveTooLate
  <2>4. CASE ApproveClaim(p)
    BY <2>4 DEF ApproveClaim, ClaimActionForSend, Claimed
  <2>5. CASE LoseRace(p)
    BY <2>5 DEF LoseRace
  <2>6. CASE SkipResolve(p)
    BY <2>6 DEF SkipResolve, TryResolveAction
  <2>7. CASE DeleteDraft(p)
    BY <2>7 DEF DeleteDraft
  <2>8. CASE CreateRedraft(p)
    BY <2>8 DEF CreateRedraft
  <2>9. CASE ReviseFails(p)
    BY <2>9 DEF ReviseFails
  <2>10. CASE RefreshDraft(p)
    BY <2>10 DEF RefreshDraft, RefreshPendingDraft
  <2>11. CASE RepointDraft(p)
    BY <2>11 DEF RepointDraft, SetActionDraftId
  <2>12. CASE RepointFails(p)
    BY <2>12 DEF RepointFails
  <2>13. CASE CancelLoad(p)
    BY <2>13 DEF CancelLoad
  <2>14. CASE LoadClaimed(p)
    BY <2>14 DEF LoadClaimed
  <2>15. CASE GmailAccepts(p)
    BY <2>15 DEF GmailAccepts
  <2>16. CASE SendOk(p)
    BY <2>16 DEF SendOk, FinishSendSent
  <2>17. CASE SendErr(p)
    BY <2>17 DEF SendErr, FinishSendError
  <2>18. CASE SendTimesOut(p)
    BY <2>18 DEF SendTimesOut, FinishSendError
  <2> QED  BY <1>1, <2>1, <2>2, <2>3, <2>4, <2>5, <2>6, <2>7, <2>8, <2>9, <2>10, <2>11, <2>12, <2>13, <2>14, <2>15, <2>16, <2>17, <2>18 DEF HandlerStep, SendStep
<1>2. ASSUME NEW a \in Action, Click(p, a) PROVE Steady
  <2>1. CASE ApproveLoad(p, a)
    BY <2>1 DEF ApproveLoad
  <2>2. CASE SkipLoad(p, a)
    BY <2>2 DEF SkipLoad
  <2>3. CASE ReviseLoad(p, a)
    BY <2>3 DEF ReviseLoad
  <2>4. CASE SendNow(p, a)
    BY <2>4 DEF SendNow, ClaimActionForSend, Claimed
  <2>5. CASE Cancel(p, a)
    BY <2>5 DEF Cancel, CancelScheduledAction
  <2> QED  BY <1>2, <2>1, <2>2, <2>3, <2>4, <2>5 DEF Click
<1> QED  BY <1>1, <1>2

\* The engine lists a row under its current arming, and keeps to its list.
LEMMA EngineKeepsJudgement ==
  ASSUME WellFormed, RowClocks, JudgementInv, EngineStep
  PROVE  JudgementInv'
<1> USE StoreAssumption, ReplyAssumption
    DEF WellFormed, TypeOK, RowTypeOK, LocalInv, Busy, Label, Proc, Status, Time, NoTime,
        Steady, Judged, RowClocks, JudgementInv,
        SetStatus, Touch, StampStatus, Schedule, Goto, Begin, Release,
        rowVars, mailVars, procVars, engineVars, sweepVars
<1>1. CASE FlagStuck
  <2>1. Steady
    BY <1>1 DEF FlagStuck, FinishSendError
  <2> QED  BY <2>1, SteadyKeepsJudgement
<1>2. CASE FireSuperseded
  <2>1. Steady
    BY <1>2 DEF FireSuperseded, MarkScheduledSuperseded
  <2> QED  BY <2>1, SteadyKeepsJudgement
<1>3. CASE FireGuard
  <2>1. Steady
    BY <1>3 DEF FireGuard
  <2> QED  BY <2>1, SteadyKeepsJudgement
<1>4. CASE FireClaim
  <2>1. Steady
    BY <1>4 DEF FireClaim, ClaimDueActionForSend, ClaimActionForSend, Claimed
  <2> QED  BY <2>1, SteadyKeepsJudgement
<1>5. CASE FireLosesClaim
  <2>1. Steady
    BY <1>5 DEF FireLosesClaim
  <2> QED  BY <2>1, SteadyKeepsJudgement
<1>6. CASE FireLoadFails
  <2>1. Steady
    BY <1>6 DEF FireLoadFails
  <2> QED  BY <2>1, SteadyKeepsJudgement
<1>7. CASE LoadClaimed(Engine)
  <2>1. Steady
    BY <1>7 DEF LoadClaimed
  <2> QED  BY <2>1, SteadyKeepsJudgement
<1>8. CASE GmailAccepts(Engine)
  <2>1. Steady
    BY <1>8 DEF GmailAccepts
  <2> QED  BY <2>1, SteadyKeepsJudgement
<1>9. CASE SendOk(Engine)
  <2>1. Steady
    BY <1>9 DEF SendOk, FinishSendSent
  <2> QED  BY <2>1, SteadyKeepsJudgement
<1>10. CASE SendErr(Engine)
  <2>1. Steady
    BY <1>10 DEF SendErr, FinishSendError
  <2> QED  BY <2>1, SteadyKeepsJudgement
<1>11. CASE SendTimesOut(Engine)
  <2>1. Steady
    BY <1>11 DEF SendTimesOut, FinishSendError
  <2> QED  BY <2>1, SteadyKeepsJudgement
<1>12. CASE EngineTick
  BY <1>12 DEF EngineTick, StuckRows
<1>13. CASE ListDue
  BY <1>13 DEF ListDue
<1>14. CASE TickDone
  BY <1>14 DEF TickDone
<1> QED  BY <1>1, <1>2, <1>3, <1>4, <1>5, <1>6, <1>7, <1>8, <1>9, <1>10, <1>11, <1>12, <1>13, <1>14 DEF EngineStep, SendStep

\* Nor do the owner's commands, the sweeps, Gmail, a restart or time.
LEMMA OthersAreSteady ==
  ASSUME WellFormed, RowClocks, JudgementInv,
         \/ ReconcileList \/ LateDelivery \/ Tick \/ UNCHANGED vars
         \/ \E a \in Action : ScheduleClick(a) \/ BackToQueue(a) \/ Sweep(a)
  PROVE  Steady
<1> USE StoreAssumption, ReplyAssumption
    DEF WellFormed, TypeOK, RowTypeOK, LocalInv, Busy, Label, Proc, Status, Time, NoTime,
        Steady, Judged, RowClocks, JudgementInv,
        SetStatus, Touch, StampStatus, Schedule, Goto, Begin, Release,
        rowVars, mailVars, procVars, engineVars, sweepVars
<1>1. CASE ReconcileList
  BY <1>1 DEF ReconcileList
<1>2. CASE LateDelivery
  BY <1>2 DEF LateDelivery
<1>3. CASE Tick
  BY <1>3 DEF Tick
<1>4. CASE UNCHANGED vars
  BY <1>4 DEF vars
<1>5. ASSUME NEW a \in Action, ScheduleClick(a) \/ BackToQueue(a) \/ Sweep(a) PROVE Steady
  <2>1. CASE ScheduleClick(a)
    BY <1>5, <2>1 DEF ScheduleClick, ScheduleAction, ValidSendAt
  <2>2. CASE BackToQueue(a)
    BY <1>5, <2>2 DEF BackToQueue, UnscheduleAction
  <2>3. CASE ObserveReply(a)
    BY <1>5, <2>3 DEF ObserveReply, SweepPending
  <2>4. CASE RecordReply(a)
    BY <1>5, <2>4 DEF RecordReply
  <2>5. CASE ResolvePending(a)
    BY <1>5, <2>5 DEF ResolvePending, SweepPending
  <2>6. CASE ReconcileScheduled(a)
    BY <1>5, <2>6 DEF ReconcileScheduled, MarkScheduledSuperseded
  <2> QED  BY <1>5, <2>1, <2>2, <2>3, <2>4, <2>5, <2>6 DEF Sweep
<1> QED  BY <1>1, <1>2, <1>3, <1>4, <1>5

\* Every step keeps the judgement.
LEMMA StepJudgement ==
  ASSUME WellFormed, SendInv, JudgementInv, [Next]_vars PROVE JudgementInv'
<1>1. RowClocks
  BY DEF SendInv, ClaimInv
<1>2. CASE EngineStep
  BY <1>1, <1>2, EngineKeepsJudgement
<1>3. CASE Crash
  BY <1>3 DEF Crash, JudgementInv, Judged, Proc
<1>4. CASE ~EngineStep /\ ~Crash
  <2>1. Steady
    BY <1>1, <1>4, HandlersAreSteady, OthersAreSteady DEF Next
  <2> QED  BY <2>1, SteadyKeepsJudgement
<1> QED  BY <1>2, <1>3, <1>4

\* Only FireClaim takes the engine from a guard to a claim.
LEMMA ClaimIsJudged ==
  ASSUME WellFormed, JudgementInv, [Next]_vars, pc[Engine] = "guarded", pc'[Engine] = "claimed"
  PROVE  statusAt[act[Engine]] = dueArmed[act[Engine]]
<1>1. CASE FireClaim
  <2>1. Engine \in Proc /\ act[Engine] \in Action /\ Judged(act[Engine])
    BY DEF WellFormed, LocalInv, Busy, Label, Proc, Judged
  <2>2. /\ status[act[Engine]] = "scheduled" /\ scheduledAt[act[Engine]] <= tickNow
        /\ scheduledAt[act[Engine]] \in Int /\ tickNow \in Int
    BY <1>1, <2>1, StoreAssumption
       DEF FireClaim, ClaimDueActionForSend, IsDue, WellFormed, TypeOK, RowTypeOK, Time, NoTime
  <2> QED  BY <2>1, <2>2 DEF JudgementInv
<1>2. CASE EngineStep /\ ~FireClaim
  BY <1>2 DEF EngineStep, SendStep, EngineTick, FlagStuck, ListDue, FireSuperseded, FireGuard,
              FireLosesClaim, FireLoadFails, TickDone, LoadClaimed, GmailAccepts, SendOk, SendErr,
              SendTimesOut, Release, Goto, WellFormed, TypeOK, Proc, procVars
<1>3. ASSUME NEW p \in Handler, HandlerStep(p) PROVE pc'[Engine] = pc[Engine]
  BY <1>3, ReplyAssumption
     DEF HandlerStep, SendStep, ApproveRead, ApproveArm, ApproveTooLate, ApproveClaim, LoseRace,
         SkipResolve, DeleteDraft, CreateRedraft, ReviseFails, RefreshDraft, RepointDraft,
         RepointFails, CancelLoad, LoadClaimed, GmailAccepts, SendOk, SendErr, SendTimesOut,
         Release, Goto, WellFormed, TypeOK, Proc
<1>4. ASSUME NEW p \in Handler, NEW a \in Action, Click(p, a) PROVE pc'[Engine] = pc[Engine]
  BY <1>4, ReplyAssumption
     DEF Click, ApproveLoad, SkipLoad, ReviseLoad, SendNow, Cancel, Begin, Goto, WellFormed,
         TypeOK, Proc
<1>5. ASSUME \/ UNCHANGED vars \/ ReconcileList \/ LateDelivery \/ Crash \/ Tick
             \/ \E a \in Action : ScheduleClick(a) \/ BackToQueue(a) \/ Sweep(a)
      PROVE  pc'[Engine] = pc[Engine] \/ pc'[Engine] = "idle"
  BY <1>5 DEF vars, procVars, ReconcileList, LateDelivery, Crash, Tick, ScheduleClick, BackToQueue,
              Sweep, ObserveReply, RecordReply, ResolvePending, ReconcileScheduled, Proc
<1> QED  BY <1>1, <1>2, <1>3, <1>4, <1>5 DEF Next

\* However long a batch takes, and however often a row was taken back and armed
\* again meanwhile, the engine claims it only under the arming it judged.
THEOREM JudgedArming == Spec => EngineSendsWhatItJudged
<1> DEFINE Inv == WellFormed /\ SendInv /\ JudgementInv
<1>1. Init => JudgementInv
  BY InitJudgement
<1>2. WellFormed /\ SendInv /\ JudgementInv /\ [Next]_vars => JudgementInv'
  BY StepJudgement
<1>3. Spec => []Inv
  BY <1>1, <1>2, Invariants, PTL DEF Spec
<1>4. Inv /\ [Next]_vars
        => [pc[Engine] = "guarded" /\ pc'[Engine] = "claimed"
              => statusAt[act[Engine]] = dueArmed[act[Engine]]]_vars
  BY ClaimIsJudged
<1> QED  BY <1>3, <1>4, PTL DEF Spec, EngineSendsWhatItJudged

-----------------------------------------------------------------------------
(* Layer 4: what may be retried.  A failure stamps its row as the claim    *)
(* said; most steps spare claims and failed rows.                          *)

ExemptInv ==
    /\ ScheduledSendsAreExempt
    /\ \A p \in Proc : InSend(p) /\ claimedFrom[act[p]] = "scheduled" => exempt[p]

Spared ==
    /\ claimedFrom' = claimedFrom
    /\ \A a \in Action : status'[a] = "error" => status[a] = "error" /\ retryCount'[a] = retryCount[a]
    /\ \A p \in Proc : InSend(p)' => InSend(p) /\ act'[p] = act[p] /\ exempt'[p] = exempt[p]

\* A step that spares them keeps the stamps.
LEMMA SparedKeepsExempt == WellFormed /\ ExemptInv /\ Spared => ExemptInv'
  BY DEF ExemptInv, ScheduledSendsAreExempt, Spared

\* Nothing has failed when the cards go up.
LEMMA InitExempt == Init => ExemptInv
  BY DEF Init, ExemptInv, ScheduledSendsAreExempt, InSend

\* Handlers and clicks that neither claim nor send.
LEMMA HandlersSpare ==
  ASSUME WellFormed, NEW p \in Handler,
         \/ HandlerStep(p) /\ ~SendStep(p) /\ ~ApproveClaim(p)
         \/ \E a \in Action : Click(p, a) /\ ~SendNow(p, a)
  PROVE  Spared
<1> USE StoreAssumption, ReplyAssumption
    DEF WellFormed, TypeOK, RowTypeOK, LocalInv, Busy, Label, Proc, Status, InSend, Spared,
        SetStatus, Touch, StampStatus, Schedule, Goto, Begin, Release,
        rowVars, mailVars, procVars, engineVars, sweepVars
<1>1. CASE ApproveRead(p)
  BY <1>1 DEF ApproveRead, ProposalIsLive
<1>2. CASE ApproveArm(p)
  BY <1>2 DEF ApproveArm, ScheduleAction
<1>3. CASE ApproveTooLate(p)
  BY <1>3 DEF ApproveTooLate
<1>4. CASE LoseRace(p)
  BY <1>4 DEF LoseRace
<1>5. CASE SkipResolve(p)
  BY <1>5 DEF SkipResolve, TryResolveAction
<1>6. CASE DeleteDraft(p)
  BY <1>6 DEF DeleteDraft
<1>7. CASE CreateRedraft(p)
  BY <1>7 DEF CreateRedraft
<1>8. CASE ReviseFails(p)
  BY <1>8 DEF ReviseFails
<1>9. CASE RefreshDraft(p)
  BY <1>9 DEF RefreshDraft, RefreshPendingDraft
<1>10. CASE RepointDraft(p)
  BY <1>10 DEF RepointDraft, SetActionDraftId
<1>11. CASE RepointFails(p)
  BY <1>11 DEF RepointFails
<1>12. CASE CancelLoad(p)
  BY <1>12 DEF CancelLoad
<1>13. ASSUME NEW a \in Action, ApproveLoad(p, a) \/ SkipLoad(p, a) \/ ReviseLoad(p, a)  PROVE Spared
  BY <1>13 DEF ApproveLoad, SkipLoad, ReviseLoad
<1>14. ASSUME NEW a \in Action, Cancel(p, a)  PROVE Spared
  BY <1>14 DEF Cancel, CancelScheduledAction
<1> QED  BY <1>1, <1>2, <1>3, <1>4, <1>5, <1>6, <1>7, <1>8, <1>9, <1>10, <1>11, <1>12, <1>13, <1>14
         DEF HandlerStep, Click

\* The engine between its claims and its flags, and everybody else.
LEMMA OthersSpare ==
  ASSUME WellFormed,
         \/ EngineTick \/ ListDue \/ FireSuperseded \/ FireGuard \/ FireLosesClaim \/ FireLoadFails
         \/ TickDone \/ ReconcileList \/ LateDelivery \/ Crash \/ Tick \/ UNCHANGED vars
         \/ \E a \in Action : ScheduleClick(a) \/ BackToQueue(a) \/ Sweep(a)
  PROVE  Spared
<1> USE StoreAssumption, ReplyAssumption
    DEF WellFormed, TypeOK, RowTypeOK, LocalInv, Busy, Label, Proc, Status, InSend, Spared,
        SetStatus, Touch, StampStatus, Schedule, Goto, Begin, Release,
        rowVars, mailVars, procVars, engineVars, sweepVars
<1>1. CASE EngineTick \/ ListDue \/ FireGuard \/ FireLosesClaim \/ FireLoadFails \/ TickDone
  BY <1>1 DEF EngineTick, ListDue, FireGuard, FireLosesClaim, FireLoadFails, TickDone
<1>2. CASE FireSuperseded
  BY <1>2 DEF FireSuperseded, MarkScheduledSuperseded
<1>3. CASE ReconcileList \/ LateDelivery \/ Tick \/ UNCHANGED vars
  BY <1>3 DEF ReconcileList, LateDelivery, Tick, vars
<1>4. CASE Crash
  BY <1>4 DEF Crash
<1>5. ASSUME NEW a \in Action, ScheduleClick(a) \/ BackToQueue(a)  PROVE Spared
  BY <1>5 DEF ScheduleClick, ScheduleAction, BackToQueue, UnscheduleAction
<1>6. ASSUME NEW a \in Action, ObserveReply(a) \/ RecordReply(a) \/ ResolvePending(a)  PROVE Spared
  BY <1>6 DEF ObserveReply, RecordReply, ResolvePending, SweepPending
<1>7. ASSUME NEW a \in Action, ReconcileScheduled(a)  PROVE Spared
  BY <1>7 DEF ReconcileScheduled, MarkScheduledSuperseded
<1> QED  BY <1>1, <1>2, <1>3, <1>4, <1>5, <1>6, <1>7 DEF Sweep

\* Process p claims row a, under a policy that exempts what was scheduled.
ClaimMade(p, a, from, policy) ==
    /\ ClaimActionForSend(a, from) /\ Claimed(p, a, from, policy)
    /\ from = "scheduled" => policy
    /\ act'[p] = a /\ \A q \in Proc \ {p} : pc'[q] = pc[q] /\ act'[q] = act[q]

\* A claim sets the policy of its send: exempt when it is out of a schedule.
LEMMA ClaimsKeepExempt ==
  ASSUME WellFormed, SendInv, ExemptInv,
         \/ FireClaim
         \/ \E p \in Handler : ApproveClaim(p) \/ \E a \in Action : SendNow(p, a)
  PROVE  ExemptInv'
<1> DEFINE Made == \E p \in Proc, a \in Action, from \in {"pending", "scheduled"}, policy \in BOOLEAN :
                      ClaimMade(p, a, from, policy)
<1>0. Made
  <2>1. CASE FireClaim
    <3>1. Engine \in Proc /\ act[Engine] \in Action
      BY <2>1 DEF FireClaim, WellFormed, LocalInv, Busy, Label, Proc
    <3>2. /\ ClaimActionForSend(act[Engine], "scheduled") /\ Claimed(Engine, act[Engine], "scheduled", TRUE)
          /\ act' = act /\ \A q \in Proc \ {Engine} : pc'[q] = pc[q]
      BY <2>1 DEF FireClaim, ClaimDueActionForSend, Goto, WellFormed, TypeOK
    <3> QED  BY <3>1, <3>2 DEF ClaimMade
  <2>2. ASSUME NEW p \in Handler, ApproveClaim(p)  PROVE Made
    <3>1. p \in Proc /\ act[p] \in Action
      BY <2>2 DEF ApproveClaim, WellFormed, LocalInv, Busy, Label, Proc
    <3>2. /\ ClaimActionForSend(act[p], "pending") /\ Claimed(p, act[p], "pending", FALSE)
          /\ act' = act /\ \A q \in Proc \ {p} : pc'[q] = pc[q]
      BY <2>2 DEF ApproveClaim, Goto, WellFormed, TypeOK
    <3> QED  BY <3>1, <3>2 DEF ClaimMade
  <2>3. ASSUME NEW p \in Handler, NEW a \in Action, SendNow(p, a)  PROVE Made
    <3>1. p \in Proc
      BY DEF Proc
    <3>2. /\ ClaimActionForSend(a, "scheduled") /\ Claimed(p, a, "scheduled", TRUE)
          /\ act'[p] = a /\ \A q \in Proc \ {p} : pc'[q] = pc[q] /\ act'[q] = act[q]
      BY <2>3, <3>1 DEF SendNow, Begin, Goto, WellFormed, TypeOK
    <3> QED  BY <3>1, <3>2 DEF ClaimMade
  <2> QED  BY <2>1, <2>2, <2>3
<1>1. PICK p \in Proc, a \in Action, from \in {"pending", "scheduled"}, policy \in BOOLEAN :
         ClaimMade(p, a, from, policy)
  BY <1>0
<1>2. \A q \in Proc \ {p} : InSend(q) => act[q] # a
  BY <1>1 DEF ClaimMade, ClaimActionForSend, SendInv, ClaimInv, ClaimIsHeld
<1>3. /\ claimedFrom'[a] = from /\ \A b \in Action \ {a} : claimedFrom'[b] = claimedFrom[b]
      /\ exempt'[p] = policy /\ \A q \in Proc \ {p} : exempt'[q] = exempt[q]
  BY <1>1 DEF ClaimMade, Claimed, WellFormed, TypeOK
<1>4. /\ status'[a] = "sending" /\ \A b \in Action \ {a} : status'[b] = status[b]
      /\ retryCount' = retryCount
  BY <1>1 DEF ClaimMade, ClaimActionForSend, SetStatus, WellFormed, TypeOK, RowTypeOK
<1>5. ScheduledSendsAreExempt'
  BY <1>3, <1>4 DEF ExemptInv, ScheduledSendsAreExempt
<1>6. ASSUME NEW q \in Proc, InSend(q)', claimedFrom'[act'[q]] = "scheduled"  PROVE exempt'[q]
  <2>1. CASE q = p
    BY <1>1, <1>3, <1>6, <2>1 DEF ClaimMade
  <2>2. CASE q # p
    <3>1. InSend(q) /\ act'[q] = act[q] /\ act[q] # a /\ act[q] \in Action
      BY <1>1, <1>2, <1>6, <2>2 DEF ClaimMade, InSend, WellFormed, LocalInv, Busy, Label
    <3> QED  BY <1>3, <1>6, <2>2, <3>1 DEF ExemptInv
  <2> QED  BY <2>1, <2>2
<1> QED  BY <1>5, <1>6 DEF ExemptInv

\* A send ends and stamps its row as the claim said; a flag always stamps.
LEMMA SendsKeepExempt ==
  ASSUME WellFormed, ExemptInv, FlagStuck \/ \E p \in Proc : SendStep(p)
  PROVE  ExemptInv'
<1> USE StoreAssumption, ReplyAssumption DEF WellFormed, TypeOK, RowTypeOK
<1>1. ASSUME NEW a \in Action, NEW stamp \in BOOLEAN, FinishSendError(a, stamp),
             claimedFrom[a] = "scheduled" => stamp, claimedFrom' = claimedFrom
      PROVE  ScheduledSendsAreExempt'
  BY <1>1 DEF FinishSendError, SetStatus, ExemptInv, ScheduledSendsAreExempt, rowVars
<1>2. CASE FlagStuck
  <2>1. PICK a \in Action : FinishSendError(a, TRUE)
    BY <1>2 DEF FlagStuck
  <2>2. UNCHANGED <<claimedFrom, pc, act, exempt>>
    BY <1>2 DEF FlagStuck, procVars
  <2>3. ScheduledSendsAreExempt'
    BY <1>1, <2>1, <2>2
  <2> QED  BY <2>2, <2>3 DEF ExemptInv, InSend
<1>3. ASSUME NEW p \in Proc, LoadClaimed(p) \/ GmailAccepts(p)  PROVE ExemptInv'
  BY <1>3 DEF LoadClaimed, GmailAccepts, Goto, rowVars, ExemptInv, ScheduledSendsAreExempt, InSend
<1>4. ASSUME NEW p \in Proc, SendOk(p) \/ SendErr(p) \/ SendTimesOut(p)  PROVE ExemptInv'
  <2>1. InSend(p) /\ act[p] \in Action /\ exempt[p] \in BOOLEAN
    BY <1>4 DEF SendOk, SendErr, SendTimesOut, InSend, LocalInv, Busy, Label
  <2>2. claimedFrom' = claimedFrom /\ Release(p)
    BY <1>4 DEF SendOk, SendErr, SendTimesOut
  <2>3. ScheduledSendsAreExempt'
    <3>1. CASE SendOk(p)
      BY <2>2, <3>1 DEF SendOk, FinishSendSent, SetStatus, rowVars, ExemptInv, ScheduledSendsAreExempt
    <3>2. CASE SendErr(p)
      <4>1. FinishSendError(act[p], exempt[p])
        BY <3>2 DEF SendErr
      <4>2. claimedFrom[act[p]] = "scheduled" => exempt[p]
        BY <2>1 DEF ExemptInv
      <4> QED  BY <1>1, <2>1, <2>2, <4>1, <4>2
    <3>3. CASE SendTimesOut(p)
      <4>1. FinishSendError(act[p], TRUE)
        BY <3>3 DEF SendTimesOut
      <4> QED  BY <1>1, <2>1, <2>2, <4>1
    <3> QED  BY <1>4, <3>1, <3>2, <3>3
  <2>4. \A q \in Proc : InSend(q)' => InSend(q) /\ act'[q] = act[q] /\ exempt'[q] = exempt[q]
    BY <2>2 DEF Release, Goto, InSend, Proc
  <2> QED  BY <2>2, <2>3, <2>4 DEF ExemptInv
<1> QED  BY <1>2, <1>3, <1>4 DEF SendStep

\* A send that was claimed out of a schedule, by the engine or by Send Now, and
\* fails in whatever way, leaves a row that RETRY_EXEMPT_RETRY_COUNT takes off
\* the generic retry tick.
THEOREM ScheduledSendsStayExempt == Spec => []ScheduledSendsAreExempt
<1> DEFINE Inv == WellFormed /\ SendInv
<1>1. Inv /\ ExemptInv /\ [Next]_vars => ExemptInv'
  <2> SUFFICES ASSUME Inv, ExemptInv, [Next]_vars  PROVE ExemptInv'
    OBVIOUS
  <2>1. CASE FlagStuck \/ \E p \in Proc : SendStep(p)
    BY <2>1, SendsKeepExempt
  <2>2. CASE \/ FireClaim
             \/ \E p \in Handler : ApproveClaim(p) \/ \E a \in Action : SendNow(p, a)
    BY <2>2, ClaimsKeepExempt
  <2>3. ASSUME NEW p \in Handler,
               \/ HandlerStep(p) /\ ~SendStep(p) /\ ~ApproveClaim(p)
               \/ \E a \in Action : Click(p, a) /\ ~SendNow(p, a)
        PROVE  ExemptInv'
    BY <2>3, HandlersSpare, SparedKeepsExempt
  <2>4. CASE \/ EngineTick \/ ListDue \/ FireSuperseded \/ FireGuard \/ FireLosesClaim \/ FireLoadFails
             \/ TickDone \/ ReconcileList \/ LateDelivery \/ Crash \/ Tick \/ UNCHANGED vars
             \/ \E a \in Action : ScheduleClick(a) \/ BackToQueue(a) \/ Sweep(a)
    BY <2>4, OthersSpare, SparedKeepsExempt
  <2> QED  BY <2>1, <2>2, <2>3, <2>4 DEF Next, EngineStep, Proc
<1>2. Init => ExemptInv
  BY InitExempt
<1>3. ExemptInv => ScheduledSendsAreExempt
  BY DEF ExemptInv
<1>4. Spec => []Inv
  BY Invariants
<1> QED  BY <1>1, <1>2, <1>3, <1>4, PTL DEF Spec

-----------------------------------------------------------------------------
(* Layer 5: drafts.  Each belongs to one row, and a redraft to the handler *)
(* that made it until the row points at it; what is about to be deleted is *)
(* not what a row that may still be sent points at.                        *)

Redrafting(p) == pc[p] \in {"redrafted", "refreshed"}

Holds(a, d) ==
    \/ draftId[a] = d
    \/ <<a, d>> \in wire
    \/ \E p \in Proc : act[p] = a /\ (snap[p] = d \/ (Redrafting(p) /\ fresh[p] = d))

Waiting == {"pending", "scheduled"}

DraftInv ==
    /\ \A a \in Action, d \in Draft : Holds(a, d) => gmail[d] # "none"
    /\ \A a, b \in Action, d \in Draft : Holds(a, d) /\ Holds(b, d) => a = b
    /\ \A p \in Proc : Redrafting(p) =>
          /\ gmail[fresh[p]] = "live"
          /\ \A a \in Action : draftId[a] # fresh[p] /\ <<a, fresh[p]>> \notin wire
          /\ \A q \in Proc : snap[q] # fresh[p]
          /\ \A q \in Proc \ {p} : Redrafting(q) => fresh[q] # fresh[p]
    /\ \A p \in Proc : pc[p] \notin Busy => act[p] = NoAction /\ snap[p] = NoDraft
    /\ \A p \in Proc : pc[p] = "cancelled" => status[act[p]] = "rejected"
    /\ \A p \in Proc : pc[p] = "discarding" =>
          status[act[p]] = "rejected" \/ snap[p] # draftId[act[p]]
    /\ \A p \in Proc : pc[p] = "retiring" => snap[p] # draftId[act[p]]
    /\ \A a \in Action : status[a] \in Waiting => gmail[draftId[a]] = "live"

\* A step that makes, deletes and sends no draft and points no row elsewhere.
DraftsKept ==
    /\ draftId' = draftId /\ gmail' = gmail
    /\ \A a \in Action, d \in Draft :
          <<a, d>> \in wire' => <<a, d>> \in wire \/ \E p \in Proc : act[p] = a /\ snap[p] = d
    /\ \A p \in Proc :
          /\ \/ snap'[p] = NoDraft
             \/ act'[p] = act[p] /\ snap'[p] = snap[p]
             \/ act'[p] \in Action /\ snap'[p] = draftId[act'[p]]
          /\ Redrafting(p)' => Redrafting(p) /\ act'[p] = act[p] /\ fresh'[p] = fresh[p]
          /\ pc'[p] \notin Busy => act'[p] = NoAction /\ snap'[p] = NoDraft
          /\ pc'[p] = "cancelled" =>
                status'[act'[p]] = "rejected" \/ (pc[p] = "cancelled" /\ act'[p] = act[p])
          /\ pc'[p] = "discarding" =>
                \/ status'[act'[p]] = "rejected"
                \/ pc[p] = "discarding" /\ act'[p] = act[p] /\ snap'[p] = snap[p]
          /\ pc'[p] = "retiring" => pc[p] = "retiring" /\ act'[p] = act[p] /\ snap'[p] = snap[p]
    /\ \A a \in Action : /\ status'[a] \in Waiting => status[a] \in Waiting
                         /\ status[a] = "rejected" => status'[a] = "rejected"

\* The cards go up with a live draft each.
LEMMA InitDrafts == Init => DraftInv
<1> SUFFICES ASSUME Init  PROVE DraftInv
  OBVIOUS
<1>1. \A p \in Proc : pc[p] = "idle" /\ act[p] = NoAction /\ snap[p] = NoDraft
  BY DEF Init
<1>2. NoAction \notin Action /\ wire = {}
  BY ReplyAssumption DEF Init
<1>3. \A a \in Action, d \in Draft : Holds(a, d) <=> draftId[a] = d
  BY <1>1, <1>2 DEF Holds
<1>4. \A a, b \in Action : draftId[a] = draftId[b] => a = b
  BY DEF Init
<1>5. \A a \in Action : draftId[a] \in Draft /\ gmail[draftId[a]] = "live"
  <2>1. draftId \in [Action -> Draft]
    BY DEF Init
  <2>2. \A d \in Draft : (\E a \in Action : draftId[a] = d) => gmail[d] = "live"
    BY DEF Init
  <2> QED  BY <2>1, <2>2
<1> QED  BY <1>1, <1>3, <1>4, <1>5 DEF DraftInv, Redrafting

\* Such a step keeps the drafts apart.
LEMMA KeptDrafts ==
  ASSUME WellFormed, WellFormed', DraftInv, DraftsKept
  PROVE  DraftInv'
<1>1. \A p \in Proc : act[p] \in Action \cup {NoAction} /\ snap[p] \in Draft \cup {NoDraft}
  BY DEF WellFormed, TypeOK
<1>2. NoAction \notin Action /\ NoDraft \notin Draft
  BY ReplyAssumption, StoreAssumption
<1>3. ASSUME NEW a \in Action, NEW d \in Draft, Holds(a, d)'  PROVE Holds(a, d)
  <2>1. draftId'[a] = d => Holds(a, d)
    BY DEF DraftsKept, Holds
  <2>2. <<a, d>> \in wire' => Holds(a, d)
    BY DEF DraftsKept, Holds
  <2>3. ASSUME NEW p \in Proc, act'[p] = a, snap'[p] = d  PROVE Holds(a, d)
    BY <1>2, <2>3 DEF DraftsKept, Holds
  <2>4. ASSUME NEW p \in Proc, act'[p] = a, Redrafting(p)', fresh'[p] = d  PROVE Holds(a, d)
    BY <2>4 DEF DraftsKept, Holds
  <2> QED  BY <1>3, <2>1, <2>2, <2>3, <2>4 DEF Holds
<1>4. /\ \A a \in Action, d \in Draft : Holds(a, d)' => gmail'[d] # "none"
      /\ \A a, b \in Action, d \in Draft : Holds(a, d)' /\ Holds(b, d)' => a = b
  BY <1>3 DEF DraftInv, DraftsKept
<1>5. ASSUME NEW p \in Proc, Redrafting(p)'
      PROVE  /\ gmail'[fresh'[p]] = "live"
             /\ \A a \in Action : draftId'[a] # fresh'[p] /\ <<a, fresh'[p]>> \notin wire'
             /\ \A q \in Proc : snap'[q] # fresh'[p]
             /\ \A q \in Proc \ {p} : Redrafting(q)' => fresh'[q] # fresh'[p]
  <2>1. Redrafting(p) /\ fresh'[p] = fresh[p] /\ fresh[p] \in Draft
    BY <1>5 DEF DraftsKept, WellFormed, LocalInv, Redrafting
  <2>2. /\ gmail[fresh[p]] = "live"
        /\ \A a \in Action : draftId[a] # fresh[p] /\ <<a, fresh[p]>> \notin wire
        /\ \A q \in Proc : snap[q] # fresh[p]
        /\ \A q \in Proc \ {p} : Redrafting(q) => fresh[q] # fresh[p]
    BY <2>1 DEF DraftInv
  <2>3. \A a \in Action : <<a, fresh[p]>> \notin wire'
    BY <2>1, <2>2 DEF DraftsKept
  <2>4. ASSUME NEW q \in Proc  PROVE snap'[q] # fresh[p]
    <3>1. CASE snap'[q] = NoDraft
      BY <1>2, <2>1, <3>1
    <3>2. CASE snap'[q] = snap[q]
      BY <2>2, <3>2
    <3>3. CASE act'[q] \in Action /\ snap'[q] = draftId[act'[q]]
      BY <2>2, <3>3
    <3> QED  BY <3>1, <3>2, <3>3 DEF DraftsKept
  <2>5. \A q \in Proc \ {p} : Redrafting(q)' => fresh'[q] # fresh[p]
    BY <2>2 DEF DraftsKept
  <2> QED  BY <2>1, <2>2, <2>3, <2>4, <2>5 DEF DraftsKept
<1>6. ASSUME NEW p \in Proc
      PROVE  /\ pc'[p] \notin Busy => act'[p] = NoAction /\ snap'[p] = NoDraft
             /\ pc'[p] = "cancelled" => status'[act'[p]] = "rejected"
             /\ pc'[p] = "discarding" => status'[act'[p]] = "rejected" \/ snap'[p] # draftId'[act'[p]]
             /\ pc'[p] = "retiring" => snap'[p] # draftId'[act'[p]]
  <2>1. pc[p] \in Busy => act[p] \in Action
    BY DEF WellFormed, LocalInv
  <2>2. \A l \in {"cancelled", "discarding", "retiring"} : l \in Busy
    BY DEF Busy, Label
  <2> QED  BY <2>1, <2>2 DEF DraftInv, DraftsKept
<1>7. \A a \in Action : status'[a] \in Waiting => gmail'[draftId'[a]] = "live"
  BY DEF DraftInv, DraftsKept
<1> QED  BY <1>4, <1>5, <1>6, <1>7 DEF DraftInv

\* Handlers, apart from those that make, point at, delete or send a draft.
LEMMA HandlersKeepDrafts ==
  ASSUME WellFormed, DraftInv, ~StoreFails, NEW p \in Handler,
         \/ /\ HandlerStep(p)
            /\ ~SendStep(p) /\ ~CreateRedraft(p) /\ ~RefreshDraft(p) /\ ~RepointDraft(p) /\ ~DeleteDraft(p)
         \/ \E a \in Action : Click(p, a)
  PROVE  DraftsKept
<1> USE StoreAssumption, ReplyAssumption
    DEF WellFormed, TypeOK, RowTypeOK, LocalInv, Busy, Label, Proc, Status, Redrafting, Waiting,
        DraftsKept, SetStatus, Touch, StampStatus, Schedule, Goto, Begin, Release,
        rowVars, mailVars, procVars, engineVars, sweepVars
<1>0. \A q \in Proc : pc[q] \notin Busy => act[q] = NoAction /\ snap[q] = NoDraft
  BY DEF DraftInv
<1>1. CASE ApproveRead(p)
  BY <1>0, <1>1 DEF ApproveRead, ProposalIsLive
<1>2. CASE ApproveArm(p)
  BY <1>0, <1>2 DEF ApproveArm, ScheduleAction
<1>3. CASE ApproveTooLate(p) \/ LoseRace(p) \/ ReviseFails(p)
  BY <1>0, <1>3 DEF ApproveTooLate, LoseRace, ReviseFails
<1>4. CASE ApproveClaim(p)
  BY <1>0, <1>4 DEF ApproveClaim, ClaimActionForSend, Claimed
<1>5. CASE SkipResolve(p)
  BY <1>0, <1>5 DEF SkipResolve, TryResolveAction
<1>6. CASE CancelLoad(p)
  <2>1. status[act[p]] = "rejected"
    BY <1>6 DEF DraftInv, CancelLoad
  <2> QED  BY <1>0, <1>6, <2>1 DEF CancelLoad
<1>7. ASSUME NEW a \in Action, ApproveLoad(p, a) \/ SkipLoad(p, a) \/ ReviseLoad(p, a)  PROVE DraftsKept
  BY <1>0, <1>7 DEF ApproveLoad, SkipLoad, ReviseLoad
<1>8. ASSUME NEW a \in Action, SendNow(p, a)  PROVE DraftsKept
  BY <1>0, <1>8 DEF SendNow, ClaimActionForSend, Claimed
<1>9. ASSUME NEW a \in Action, Cancel(p, a)  PROVE DraftsKept
  BY <1>0, <1>9 DEF Cancel, CancelScheduledAction
<1>10. CASE RepointFails(p)
  BY <1>10 DEF RepointFails
<1> QED  BY <1>1, <1>2, <1>3, <1>4, <1>5, <1>6, <1>7, <1>8, <1>9, <1>10 DEF HandlerStep, Click

\* A claimed send, up to what Gmail accepts of it.
LEMMA SendsKeepDrafts ==
  ASSUME WellFormed, DraftInv, NEW p \in Proc, SendStep(p), ~GmailAccepts(p)
  PROVE  DraftsKept
<1> USE StoreAssumption, ReplyAssumption
    DEF WellFormed, TypeOK, RowTypeOK, LocalInv, Busy, Label, Proc, Status, Redrafting, Waiting,
        DraftsKept, SetStatus, Touch, StampStatus, Goto, Release,
        rowVars, mailVars, procVars, engineVars, sweepVars
<1>0. \A q \in Proc : pc[q] \notin Busy => act[q] = NoAction /\ snap[q] = NoDraft
  BY DEF DraftInv
<1>1. CASE LoadClaimed(p)
  BY <1>0, <1>1 DEF LoadClaimed
<1>2. CASE SendOk(p)
  BY <1>0, <1>2 DEF SendOk, FinishSendSent
<1>3. CASE SendErr(p)
  BY <1>0, <1>3 DEF SendErr, FinishSendError, StillUnderWay
<1>4. CASE SendTimesOut(p)
  BY <1>0, <1>4 DEF SendTimesOut, FinishSendError, StillUnderWay
<1> QED  BY <1>1, <1>2, <1>3, <1>4 DEF SendStep

\* The engine and everybody else.
LEMMA OthersKeepDrafts ==
  ASSUME WellFormed, DraftInv,
         \/ EngineTick \/ FlagStuck \/ ListDue \/ FireSuperseded \/ FireGuard \/ FireClaim
         \/ FireLosesClaim \/ FireLoadFails \/ TickDone \/ ReconcileList \/ Crash \/ Tick \/ UNCHANGED vars
         \/ \E a \in Action : ScheduleClick(a) \/ BackToQueue(a) \/ Sweep(a)
  PROVE  DraftsKept
<1> USE StoreAssumption, ReplyAssumption
    DEF WellFormed, TypeOK, RowTypeOK, LocalInv, Busy, Label, Proc, Status, Redrafting, Waiting,
        DraftsKept, SetStatus, Touch, StampStatus, Schedule, Goto, Release,
        rowVars, mailVars, procVars, engineVars, sweepVars
<1>0. \A q \in Proc : pc[q] \notin Busy => act[q] = NoAction /\ snap[q] = NoDraft
  BY DEF DraftInv
<1>1. CASE EngineTick \/ ListDue \/ FireGuard \/ TickDone
  BY <1>0, <1>1 DEF EngineTick, ListDue, FireGuard, TickDone
<1>2. CASE FireLosesClaim \/ FireLoadFails
  BY <1>0, <1>2 DEF FireLosesClaim, FireLoadFails
<1>3. CASE FlagStuck
  BY <1>0, <1>3 DEF FlagStuck, FinishSendError
<1>4. CASE FireSuperseded
  BY <1>0, <1>4 DEF FireSuperseded, MarkScheduledSuperseded
<1>5. CASE FireClaim
  BY <1>0, <1>5 DEF FireClaim, ClaimDueActionForSend, ClaimActionForSend, Claimed
<1>6. CASE ReconcileList \/ Tick \/ UNCHANGED vars
  BY <1>0, <1>6 DEF ReconcileList, Tick, vars
<1>7. CASE Crash
  BY <1>7 DEF Crash
<1>8. ASSUME NEW a \in Action, ScheduleClick(a) \/ BackToQueue(a)  PROVE DraftsKept
  BY <1>0, <1>8 DEF ScheduleClick, ScheduleAction, BackToQueue, UnscheduleAction
<1>9. ASSUME NEW a \in Action, ObserveReply(a) \/ RecordReply(a) \/ ResolvePending(a)  PROVE DraftsKept
  BY <1>0, <1>9 DEF ObserveReply, RecordReply, ResolvePending, SweepPending
<1>10. ASSUME NEW a \in Action, ReconcileScheduled(a)  PROVE DraftsKept
  BY <1>0, <1>10 DEF ReconcileScheduled, MarkScheduledSuperseded
<1> QED  BY <1>1, <1>2, <1>3, <1>4, <1>5, <1>6, <1>7, <1>8, <1>9, <1>10 DEF Sweep

\* A draft stops being live because Gmail sent it or a handler deleted it; no
\* row that may still be sent points at it, and nobody redrafts with it.
LEMMA DraftGoes ==
  ASSUME WellFormed, DraftInv, NEW b \in Action, NEW d \in Draft, Holds(b, d),
         gmail[d] = "live", NEW end \in {"sent", "deleted"}, gmail' = [gmail EXCEPT ![d] = end],
         \A p \in Proc : Redrafting(p) => fresh[p] # d,
         status[b] \in Waiting => draftId[b] # d
  PROVE  /\ \A a \in Action, e \in Draft : Holds(a, e) => gmail'[e] # "none"
         /\ \A p \in Proc : Redrafting(p) => gmail'[fresh[p]] = "live"
         /\ \A a \in Action : status[a] \in Waiting => gmail'[draftId[a]] = "live"
<1>1. gmail' \in [Draft -> {"none", "live", "sent", "deleted"}] /\ gmail'[d] = end
      /\ \A e \in Draft \ {d} : gmail'[e] = gmail[e]
  BY DEF WellFormed, TypeOK
<1>2. \A p \in Proc : Redrafting(p) => fresh[p] \in Draft
  BY DEF WellFormed, LocalInv, Redrafting
<1>3. \A a \in Action : draftId[a] \in Draft
  BY DEF WellFormed, LocalInv
<1>4. \A a \in Action, e \in Draft : Holds(a, e) => gmail'[e] # "none"
  BY <1>1 DEF DraftInv
<1>5. \A p \in Proc : Redrafting(p) => gmail'[fresh[p]] = "live"
  BY <1>1, <1>2 DEF DraftInv
<1>6. ASSUME NEW a \in Action, status[a] \in Waiting  PROVE gmail'[draftId[a]] = "live"
  <2>1. draftId[a] # d
    <3>1. draftId[a] = d => Holds(a, d)
      BY DEF Holds
    <3>2. Holds(a, d) => a = b
      BY DEF DraftInv
    <3> QED  BY <1>6, <3>1, <3>2
  <2> QED  BY <1>1, <1>3, <1>6, <2>1 DEF DraftInv
<1> QED  BY <1>4, <1>5, <1>6

\* Gmail sends a draft: its row is on record for it, and the draft is no redraft.
LEMMA DeliveriesKeepDrafts ==
  ASSUME WellFormed, WellFormed', SendInv, DraftInv,
         LateDelivery \/ \E p \in Proc : GmailAccepts(p)
  PROVE  DraftInv'
<1>1. ASSUME NEW b \in Action, NEW d \in Draft, Holds(b, d), gmail[d] = "live",
             gmail' = [gmail EXCEPT ![d] = "sent"], status[b] \notin Waiting,
             \A p \in Proc : Redrafting(p) => fresh[p] # d,
             wire' \subseteq wire, UNCHANGED <<draftId, status, act, snap, fresh>>,
             \A p \in Proc : pc'[p] # pc[p] => pc[p] = "sending" /\ pc'[p] = "accepted"
      PROVE  DraftInv'
  <2>1. /\ \A a \in Action, e \in Draft : Holds(a, e) => gmail'[e] # "none"
        /\ \A p \in Proc : Redrafting(p) => gmail'[fresh[p]] = "live"
        /\ \A a \in Action : status[a] \in Waiting => gmail'[draftId[a]] = "live"
    BY <1>1, DraftGoes
  <2>2. \A p \in Proc : Redrafting(p)' <=> Redrafting(p)
    BY <1>1 DEF Redrafting
  <2>3. \A a \in Action, e \in Draft : Holds(a, e)' => Holds(a, e)
    BY <1>1, <2>2 DEF Holds
  <2>4. /\ \A a \in Action, e \in Draft : Holds(a, e)' => gmail'[e] # "none"
        /\ \A a, c \in Action, e \in Draft : Holds(a, e)' /\ Holds(c, e)' => a = c
    BY <2>1, <2>3 DEF DraftInv
  <2>5. \A p \in Proc : Redrafting(p)' =>
          /\ gmail'[fresh'[p]] = "live"
          /\ \A a \in Action : draftId'[a] # fresh'[p] /\ <<a, fresh'[p]>> \notin wire'
          /\ \A q \in Proc : snap'[q] # fresh'[p]
          /\ \A q \in Proc \ {p} : Redrafting(q)' => fresh'[q] # fresh'[p]
    BY <1>1, <2>1, <2>2 DEF DraftInv
  <2>6. \A p \in Proc :
          /\ pc'[p] \notin Busy => act'[p] = NoAction /\ snap'[p] = NoDraft
          /\ pc'[p] = "cancelled" => status'[act'[p]] = "rejected"
          /\ pc'[p] = "discarding" => status'[act'[p]] = "rejected" \/ snap'[p] # draftId'[act'[p]]
          /\ pc'[p] = "retiring" => snap'[p] # draftId'[act'[p]]
    BY <1>1 DEF DraftInv, Busy, Label
  <2>7. \A a \in Action : status'[a] \in Waiting => gmail'[draftId'[a]] = "live"
    BY <1>1, <2>1
  <2> QED  BY <2>4, <2>5, <2>6, <2>7 DEF DraftInv
<1>2. ASSUME NEW p \in Proc, GmailAccepts(p)  PROVE DraftInv'
  <2>1. /\ pc[p] = "sending" /\ act[p] \in Action /\ snap[p] \in Draft /\ status[act[p]] = "sending"
        /\ gmail[snap[p]] = "live" /\ gmail' = [gmail EXCEPT ![snap[p]] = "sent"]
        /\ UNCHANGED <<draftId, status, act, snap, fresh, wire>> /\ pc' = [pc EXCEPT ![p] = "accepted"]
    BY <1>2 DEF GmailAccepts, Deliver, Goto, rowVars, WellFormed, LocalInv, Busy, Label, InSend,
                SendInv, ClaimInv, ClaimIsHeld
  <2>2. Holds(act[p], snap[p]) /\ \A q \in Proc : Redrafting(q) => fresh[q] # snap[p]
    BY DEF Holds, DraftInv
  <2>3. \A q \in Proc : pc'[q] # pc[q] => pc[q] = "sending" /\ pc'[q] = "accepted"
    BY <2>1 DEF WellFormed, TypeOK
  <2>4. status[act[p]] \notin Waiting /\ wire' \subseteq wire
    BY <2>1 DEF Waiting
  <2> QED  BY <1>1, <2>1, <2>2, <2>3, <2>4
<1>3. CASE LateDelivery
  <2>1. PICK e \in wire : /\ Deliver(e[1], e[2]) \/ UNCHANGED <<gmail, sentFor>>
                          /\ wire' = wire \ {e}
                          /\ UNCHANGED <<rowVars, now, claimedFrom, procVars, engineVars, sweepVars, crashes>>
    BY <1>3 DEF LateDelivery
  <2> DEFINE b == e[1]
             d == e[2]
  <2>2. b \in Action /\ d \in Draft /\ e = <<b, d>>
    BY DEF WellFormed, TypeOK
  <2>3. UNCHANGED <<draftId, status, act, snap, fresh, pc>> /\ wire' \subseteq wire
    BY <2>1 DEF rowVars, procVars
  <2>4. CASE gmail[d] = "live" /\ gmail' = [gmail EXCEPT ![d] = "sent"]
    <3> HIDE DEF b, d
    <3>1. <<b, d>> \in wire
      BY <2>2
    <3>2. Holds(b, d) /\ \A q \in Proc : Redrafting(q) => fresh[q] # d
      BY <2>2, <3>1 DEF Holds, DraftInv
    <3>3. status[b] \notin Waiting
      BY <2>2, <3>1 DEF SendInv, DeliveryInv, DeliveredIsOnRecord, MayDeliver, Waiting
    <3> QED  BY <1>1, <2>2, <2>3, <2>4, <3>2, <3>3
  <2>5. CASE gmail' = gmail
    <3>1. /\ \A p \in Proc : Redrafting(p)' <=> Redrafting(p)
          /\ draftId' = draftId
          /\ \A a \in Action, f \in Draft : <<a, f>> \in wire' => <<a, f>> \in wire
      BY <2>3 DEF Redrafting
    <3>2. DraftsKept
      BY <2>3, <2>5, <3>1 DEF DraftsKept, DraftInv
    <3> QED  BY <3>2, KeptDrafts
  <2> QED  BY <2>1, <2>4, <2>5 DEF Deliver
<1> QED  BY <1>2, <1>3

\* A handler deletes the draft of a row that is rejected, or one that no row
\* points at any more.
LEMMA DeletesKeepDrafts ==
  ASSUME WellFormed, WellFormed', DraftInv, NEW p \in Handler, DeleteDraft(p)
  PROVE  DraftInv'
<1>0. p \in Proc /\ p # Engine
  BY ReplyAssumption DEF Proc
<1>1. /\ pc[p] \in {"discarding", "retiring"} /\ act[p] \in Action
      /\ status[act[p]] = "rejected" \/ snap[p] # draftId[act[p]]
  BY <1>0 DEF DeleteDraft, DraftInv, WellFormed, LocalInv, Busy, Label
<1>2. UNCHANGED <<draftId, status, wire>> /\ Release(p)
  BY DEF DeleteDraft, rowVars
<1>3. /\ pc'[p] = "idle" /\ act'[p] = NoAction /\ snap'[p] = NoDraft
      /\ \A q \in Proc \ {p} : /\ pc'[q] = pc[q] /\ act'[q] = act[q] /\ snap'[q] = snap[q]
                               /\ fresh'[q] = fresh[q]
  BY <1>0, <1>2 DEF Release, Goto, WellFormed, TypeOK
<1>4. ~Redrafting(p)' /\ \A q \in Proc \ {p} : Redrafting(q)' <=> Redrafting(q)
  BY <1>3 DEF Redrafting
<1>5. CASE gmail' = gmail
  <2>1. DraftsKept
    <3>1. "idle" \notin Busy
      BY DEF Busy
    <3> QED  BY <1>2, <1>3, <1>4, <1>5, <3>1 DEF DraftsKept, DraftInv
  <2> QED  BY <2>1, KeptDrafts
<1>6. CASE snap[p] \in Draft /\ gmail[snap[p]] = "live" /\ gmail' = [gmail EXCEPT ![snap[p]] = "deleted"]
  <2>1. Holds(act[p], snap[p]) /\ \A q \in Proc : Redrafting(q) => fresh[q] # snap[p]
    BY <1>0 DEF Holds, DraftInv
  <2>2. status[act[p]] \in Waiting => draftId[act[p]] # snap[p]
    BY <1>1 DEF Waiting
  <2>3. /\ \A a \in Action, e \in Draft : Holds(a, e) => gmail'[e] # "none"
        /\ \A q \in Proc : Redrafting(q) => gmail'[fresh[q]] = "live"
        /\ \A a \in Action : status[a] \in Waiting => gmail'[draftId[a]] = "live"
    BY <1>1, <1>6, <2>1, <2>2, DraftGoes
  <2>4. \A a \in Action, e \in Draft : Holds(a, e)' => Holds(a, e)
    <3>1. NoAction \notin Action
      BY ReplyAssumption
    <3> QED  BY <1>2, <1>3, <1>4, <3>1 DEF Holds
  <2>5. /\ \A a \in Action, e \in Draft : Holds(a, e)' => gmail'[e] # "none"
        /\ \A a, c \in Action, e \in Draft : Holds(a, e)' /\ Holds(c, e)' => a = c
    BY <2>3, <2>4 DEF DraftInv
  <2>6. ASSUME NEW q \in Proc, Redrafting(q)'
        PROVE  /\ gmail'[fresh'[q]] = "live"
               /\ \A a \in Action : draftId'[a] # fresh'[q] /\ <<a, fresh'[q]>> \notin wire'
               /\ \A r \in Proc : snap'[r] # fresh'[q]
               /\ \A r \in Proc \ {q} : Redrafting(r)' => fresh'[r] # fresh'[q]
    <3>1. Redrafting(q) /\ q # p /\ fresh'[q] = fresh[q] /\ fresh[q] \in Draft
      BY <1>3, <1>4, <2>6 DEF WellFormed, LocalInv, Redrafting
    <3>2. \A r \in Proc : snap'[r] # fresh[q]
      <4>1. snap'[p] # fresh[q]
        BY <1>3, <3>1, StoreAssumption
      <4>2. \A r \in Proc \ {p} : snap'[r] # fresh[q]
        BY <1>3, <3>1 DEF DraftInv
      <4> QED  BY <4>1, <4>2
    <3>3. \A r \in Proc \ {q} : Redrafting(r)' => fresh'[r] # fresh[q]
      BY <1>3, <1>4, <3>1 DEF DraftInv
    <3> QED  BY <1>2, <2>3, <3>1, <3>2, <3>3 DEF DraftInv
  <2>7. ASSUME NEW q \in Proc
        PROVE  /\ pc'[q] \notin Busy => act'[q] = NoAction /\ snap'[q] = NoDraft
               /\ pc'[q] = "cancelled" => status'[act'[q]] = "rejected"
               /\ pc'[q] = "discarding" => status'[act'[q]] = "rejected" \/ snap'[q] # draftId'[act'[q]]
               /\ pc'[q] = "retiring" => snap'[q] # draftId'[act'[q]]
    BY <1>2, <1>3 DEF DraftInv
  <2>8. \A a \in Action : status'[a] \in Waiting => gmail'[draftId'[a]] = "live"
    BY <1>2, <2>3
  <2> QED  BY <2>5, <2>6, <2>7, <2>8 DEF DraftInv
<1> QED  BY <1>5, <1>6 DEF DeleteDraft

\* A handler makes a redraft, is given up on, or points its row at it.
LEMMA RedraftsKeepDrafts ==
  ASSUME WellFormed, WellFormed', DraftInv, NEW p \in Handler,
         CreateRedraft(p) \/ RefreshDraft(p) \/ RepointDraft(p)
  PROVE  DraftInv'
<1> DEFINE a == act[p]
<1>0. p \in Proc /\ NoDraft \notin Draft
  BY StoreAssumption DEF Proc
<1>1. a \in Action
  BY <1>0 DEF CreateRedraft, RefreshDraft, RepointDraft, WellFormed, LocalInv, Busy, Label
<1> HIDE DEF a
<1>2. CASE CreateRedraft(p)
  <2>1. PICK d \in Draft : /\ gmail[d] = "none" /\ gmail' = [gmail EXCEPT ![d] = "live"]
                           /\ fresh' = [fresh EXCEPT ![p] = d]
    BY <1>2 DEF CreateRedraft
  <2>2. pc[p] = "revising" /\ pc' = [pc EXCEPT ![p] = "redrafted"]
        /\ UNCHANGED <<draftId, status, wire, act, snap>>
    BY <1>2 DEF CreateRedraft, Goto, rowVars
  <2>3. /\ pc'[p] = "redrafted" /\ fresh'[p] = d /\ gmail'[d] = "live"
        /\ \A q \in Proc \ {p} : pc'[q] = pc[q] /\ fresh'[q] = fresh[q]
        /\ \A e \in Draft \ {d} : gmail'[e] = gmail[e]
    BY <1>0, <2>1, <2>2 DEF WellFormed, TypeOK
  <2>4. \A b \in Action : ~Holds(b, d)
    BY <2>1 DEF DraftInv
  <2>5. Redrafting(p)' /\ ~Redrafting(p) /\ \A q \in Proc \ {p} : Redrafting(q)' <=> Redrafting(q)
    BY <2>2, <2>3 DEF Redrafting
  <2>6. \A b \in Action, e \in Draft : Holds(b, e)' => Holds(b, e) \/ (b = a /\ e = d)
    BY <2>2, <2>3, <2>5 DEF Holds, a
  <2>7. /\ \A b \in Action, e \in Draft : Holds(b, e)' => gmail'[e] # "none"
        /\ \A b, c \in Action, e \in Draft : Holds(b, e)' /\ Holds(c, e)' => b = c
    BY <2>3, <2>4, <2>6 DEF DraftInv
  <2>8. \A q \in Proc : snap[q] # d
    <3>1. \A q \in Proc : act[q] \in Action => snap[q] # d
      BY <2>4 DEF Holds
    <3>2. \A q \in Proc : act[q] \notin Action => snap[q] = NoDraft
      BY DEF DraftInv, WellFormed, LocalInv
    <3> QED  BY <1>0, <3>1, <3>2
  <2>9. \A q \in Proc : Redrafting(q) => fresh[q] # d /\ fresh[q] \in Draft
    BY <2>1 DEF DraftInv, WellFormed, LocalInv, Redrafting
  <2>10. \A b \in Action : draftId[b] # d /\ <<b, d>> \notin wire
    BY <2>4 DEF Holds
  <2>11. ASSUME NEW q \in Proc, Redrafting(q)'
         PROVE  /\ gmail'[fresh'[q]] = "live"
                /\ \A b \in Action : draftId'[b] # fresh'[q] /\ <<b, fresh'[q]>> \notin wire'
                /\ \A r \in Proc : snap'[r] # fresh'[q]
                /\ \A r \in Proc \ {q} : Redrafting(r)' => fresh'[r] # fresh'[q]
    <3>1. CASE q = p
      BY <2>2, <2>3, <2>5, <2>8, <2>9, <2>10, <3>1
    <3>2. CASE q # p
      BY <2>2, <2>3, <2>5, <2>9, <2>11, <3>2 DEF DraftInv
    <3> QED  BY <3>1, <3>2
  <2>12. ASSUME NEW q \in Proc
         PROVE  /\ pc'[q] \notin Busy => act'[q] = NoAction /\ snap'[q] = NoDraft
                /\ pc'[q] = "cancelled" => status'[act'[q]] = "rejected"
                /\ pc'[q] = "discarding" => status'[act'[q]] = "rejected" \/ snap'[q] # draftId'[act'[q]]
                /\ pc'[q] = "retiring" => snap'[q] # draftId'[act'[q]]
    BY <2>2, <2>3 DEF DraftInv, Busy, Label
  <2>13. ASSUME NEW b \in Action, status'[b] \in Waiting  PROVE gmail'[draftId'[b]] = "live"
    BY <2>2, <2>3, <2>10, <2>13 DEF DraftInv, WellFormed, LocalInv
  <2> QED  BY <2>7, <2>11, <2>12, <2>13 DEF DraftInv
<1>3. CASE RefreshDraft(p)
  <2>1. pc[p] = "redrafted" /\ UNCHANGED <<draftId, status, gmail, wire, act, fresh>>
    BY <1>3 DEF RefreshDraft, RefreshPendingDraft, mailVars, rowVars
  <2>2. CASE Goto(p, "refreshed") /\ UNCHANGED snap
    <3>1. pc'[p] = "refreshed" /\ \A q \in Proc \ {p} : pc'[q] = pc[q]
      BY <1>0, <2>2 DEF Goto, WellFormed, TypeOK
    <3>2. DraftsKept
      BY <2>1, <2>2, <3>1 DEF DraftsKept, Redrafting, DraftInv, Busy, Label
    <3> QED  BY <3>2, KeptDrafts
  <2>3. CASE Goto(p, "discarding") /\ snap' = [snap EXCEPT ![p] = fresh[p]]
    <3>1. /\ pc'[p] = "discarding" /\ snap'[p] = fresh[p]
          /\ \A q \in Proc \ {p} : pc'[q] = pc[q] /\ snap'[q] = snap[q]
      BY <1>0, <2>3 DEF Goto, WellFormed, TypeOK
    <3>2. Redrafting(p) /\ ~Redrafting(p)' /\ \A q \in Proc \ {p} : Redrafting(q)' <=> Redrafting(q)
      BY <2>1, <3>1 DEF Redrafting
    <3>3. fresh[p] \in Draft /\ draftId[a] # fresh[p]
      BY <1>0, <1>1, <3>2 DEF DraftInv, WellFormed, LocalInv, Redrafting
    <3>4. \A b \in Action, e \in Draft : Holds(b, e)' => Holds(b, e)
      BY <1>0, <2>1, <3>1, <3>2 DEF Holds
    <3>5. /\ \A b \in Action, e \in Draft : Holds(b, e)' => gmail'[e] # "none"
          /\ \A b, c \in Action, e \in Draft : Holds(b, e)' /\ Holds(c, e)' => b = c
      BY <2>1, <3>4 DEF DraftInv
    <3>6. ASSUME NEW q \in Proc, Redrafting(q)'
          PROVE  /\ gmail'[fresh'[q]] = "live"
                 /\ \A b \in Action : draftId'[b] # fresh'[q] /\ <<b, fresh'[q]>> \notin wire'
                 /\ \A r \in Proc : snap'[r] # fresh'[q]
                 /\ \A r \in Proc \ {q} : Redrafting(r)' => fresh'[r] # fresh'[q]
      <4>1. Redrafting(q) /\ q # p
        BY <3>2, <3>6
      <4>2. fresh[p] # fresh[q]
        BY <1>0, <3>2, <4>1 DEF DraftInv
      <4> QED  BY <2>1, <3>1, <3>2, <4>1, <4>2 DEF DraftInv
    <3>7. ASSUME NEW q \in Proc
          PROVE  /\ pc'[q] \notin Busy => act'[q] = NoAction /\ snap'[q] = NoDraft
                 /\ pc'[q] = "cancelled" => status'[act'[q]] = "rejected"
                 /\ pc'[q] = "discarding" => status'[act'[q]] = "rejected" \/ snap'[q] # draftId'[act'[q]]
                 /\ pc'[q] = "retiring" => snap'[q] # draftId'[act'[q]]
      <4>1. CASE q = p
        BY <2>1, <3>1, <3>3, <4>1 DEF Busy, Label, a
      <4>2. CASE q # p
        BY <2>1, <3>1, <4>2 DEF DraftInv
      <4> QED  BY <4>1, <4>2
    <3>8. \A b \in Action : status'[b] \in Waiting => gmail'[draftId'[b]] = "live"
      BY <2>1 DEF DraftInv
    <3> QED  BY <3>5, <3>6, <3>7, <3>8 DEF DraftInv
  <2> QED  BY <1>3, <2>2, <2>3 DEF RefreshDraft
<1>4. CASE RepointDraft(p)
  <2>1. /\ pc[p] = "refreshed" /\ UNCHANGED <<status, gmail, wire, act, snap, fresh>>
        /\ draftId' = [draftId EXCEPT ![a] = fresh[p]] /\ pc' = [pc EXCEPT ![p] = "retiring"]
    BY <1>4 DEF RepointDraft, SetActionDraftId, Goto, mailVars, a
  <2>2. /\ pc'[p] = "retiring" /\ draftId'[a] = fresh[p]
        /\ \A q \in Proc \ {p} : pc'[q] = pc[q]
        /\ \A b \in Action \ {a} : draftId'[b] = draftId[b]
    BY <1>0, <1>1, <2>1 DEF WellFormed, TypeOK, RowTypeOK
  <2>3. Redrafting(p) /\ ~Redrafting(p)' /\ \A q \in Proc \ {p} : Redrafting(q)' <=> Redrafting(q)
    BY <2>1, <2>2 DEF Redrafting
  <2>4. /\ fresh[p] \in Draft /\ gmail[fresh[p]] = "live" /\ \A q \in Proc : snap[q] # fresh[p]
        /\ Holds(a, fresh[p])
    BY <1>0, <2>3 DEF DraftInv, Holds, WellFormed, LocalInv, Redrafting, a
  <2>5. \A b \in Action, e \in Draft : Holds(b, e)' => Holds(b, e)
    BY <2>1, <2>2, <2>3, <2>4 DEF Holds
  <2>6. /\ \A b \in Action, e \in Draft : Holds(b, e)' => gmail'[e] # "none"
        /\ \A b, c \in Action, e \in Draft : Holds(b, e)' /\ Holds(c, e)' => b = c
    BY <2>1, <2>5 DEF DraftInv
  <2>7. ASSUME NEW q \in Proc, Redrafting(q)'
        PROVE  /\ gmail'[fresh'[q]] = "live"
               /\ \A b \in Action : draftId'[b] # fresh'[q] /\ <<b, fresh'[q]>> \notin wire'
               /\ \A r \in Proc : snap'[r] # fresh'[q]
               /\ \A r \in Proc \ {q} : Redrafting(r)' => fresh'[r] # fresh'[q]
    <3>1. Redrafting(q) /\ q # p
      BY <2>3, <2>7
    <3>2. fresh[p] # fresh[q]
      BY <1>0, <2>3, <3>1 DEF DraftInv
    <3>3. \A b \in Action : draftId[b] # fresh[q]
      BY <3>1 DEF DraftInv
    <3>4. \A b \in Action : draftId'[b] # fresh[q]
      BY <2>2, <3>2, <3>3
    <3> QED  BY <2>1, <2>3, <3>1, <3>4 DEF DraftInv
  <2>8. ASSUME NEW q \in Proc
        PROVE  /\ pc'[q] \notin Busy => act'[q] = NoAction /\ snap'[q] = NoDraft
               /\ pc'[q] = "cancelled" => status'[act'[q]] = "rejected"
               /\ pc'[q] = "discarding" => status'[act'[q]] = "rejected" \/ snap'[q] # draftId'[act'[q]]
               /\ pc'[q] = "retiring" => snap'[q] # draftId'[act'[q]]
    <3>1. pc[q] \in Busy => act[q] \in Action
      BY DEF WellFormed, LocalInv
    <3>2. "retiring" \in Busy /\ "discarding" \in Busy
      BY DEF Busy, Label
    <3>3. CASE q = p
      BY <2>1, <2>2, <2>4, <3>2, <3>3 DEF a
    <3>4. CASE q # p
      BY <2>1, <2>2, <2>4, <3>1, <3>2, <3>4 DEF DraftInv
    <3> QED  BY <3>3, <3>4
  <2>9. \A b \in Action : status'[b] \in Waiting => gmail'[draftId'[b]] = "live"
    BY <2>1, <2>2, <2>4 DEF DraftInv
  <2> QED  BY <2>6, <2>7, <2>8, <2>9 DEF DraftInv
<1> QED  BY <1>2, <1>3, <1>4

\* As long as the store takes the repoint of a Revise, an armed schedule points
\* at a draft Gmail still has, whatever is revised, skipped, cancelled or sent
\* beside it (run_revise, delete_draft).
THEOREM ArmedDraftsStayLive ==
  ASSUME ~StoreFails
  PROVE  Spec => []ArmedDraftIsLive
<1> DEFINE Inv == WellFormed /\ SendInv
<1>1. Inv /\ Inv' /\ DraftInv /\ [Next]_vars => DraftInv'
  <2> SUFFICES ASSUME Inv, Inv', DraftInv, [Next]_vars  PROVE DraftInv'
    OBVIOUS
  <2>0. WellFormed'
    OBVIOUS
  <2>1. CASE LateDelivery \/ \E p \in Proc : GmailAccepts(p)
    BY <2>0, <2>1, DeliveriesKeepDrafts
  <2>2. ASSUME NEW p \in Handler, CreateRedraft(p) \/ RefreshDraft(p) \/ RepointDraft(p)  PROVE DraftInv'
    BY <2>0, <2>2, RedraftsKeepDrafts
  <2>3. ASSUME NEW p \in Handler, DeleteDraft(p)  PROVE DraftInv'
    BY <2>0, <2>3, DeletesKeepDrafts
  <2>4. ASSUME NEW p \in Proc, SendStep(p), ~GmailAccepts(p)  PROVE DraftInv'
    BY <2>0, <2>4, SendsKeepDrafts, KeptDrafts
  <2>5. ASSUME NEW p \in Handler,
               \/ /\ HandlerStep(p)
                  /\ ~SendStep(p) /\ ~CreateRedraft(p) /\ ~RefreshDraft(p) /\ ~RepointDraft(p) /\ ~DeleteDraft(p)
               \/ \E a \in Action : Click(p, a)
        PROVE  DraftInv'
    BY <2>0, <2>5, HandlersKeepDrafts, KeptDrafts
  <2>6. CASE \/ EngineTick \/ FlagStuck \/ ListDue \/ FireSuperseded \/ FireGuard \/ FireClaim
             \/ FireLosesClaim \/ FireLoadFails \/ TickDone \/ ReconcileList \/ Crash \/ Tick \/ UNCHANGED vars
             \/ \E a \in Action : ScheduleClick(a) \/ BackToQueue(a) \/ Sweep(a)
    BY <2>0, <2>6, OthersKeepDrafts, KeptDrafts
  <2> QED  BY <2>1, <2>2, <2>3, <2>4, <2>5, <2>6 DEF Next, EngineStep, Proc
<1>2. Init => DraftInv
  BY InitDrafts
<1>3. DraftInv => ArmedDraftIsLive
  BY DEF DraftInv, ArmedDraftIsLive, Waiting
<1>4. Spec => []Inv
  BY Invariants
<1> QED  BY <1>1, <1>2, <1>3, <1>4, PTL DEF Spec

-----------------------------------------------------------------------------
(* The refinement: ReplyAction implements SendOnce.                        *)

\* The status changes a row may go through.
Legal(a, s) ==
    \/ status[a] = "pending"
       /\ s \in {"scheduled", "sending", "rejected", "superseded", "approved", "timed_out"}
    \/ status[a] = "scheduled" /\ s \in {"pending", "sending", "rejected", "superseded"}
    \/ status[a] = "sending" /\ (s = "error" \/ (s = "sent" /\ sentFor[a] # {}))

\* What any step does to statuses and deliveries.
Effect ==
    \/ UNCHANGED <<status, sentFor>>
    \/ \E a \in Action, s \in Status :
          Legal(a, s) /\ status' = [status EXCEPT ![a] = s] /\ sentFor' = sentFor
    \/ \E a \in Action, d \in Draft :
          /\ status[a] \in {"sending", "error"} /\ sentFor[a] = {}
          /\ status' = status /\ sentFor' = [sentFor EXCEPT ![a] = {d}]

\* An effect is a step of SendOnce under the mapping.
LEMMA EffectRefines ==
  ASSUME WellFormed, Effect PROVE [Promise!Next]_(Promise!vars)
<1> DEFINE ph == [a \in Action |-> Phase(status[a])]
<1>0. status \in [Action -> Status] /\ sentFor \in [Action -> SUBSET Draft]
  BY DEF WellFormed, TypeOK, RowTypeOK
<1>1. CASE UNCHANGED <<status, sentFor>>
  BY <1>1 DEF Promise!vars
<1>2. ASSUME NEW a \in Action, NEW s \in Status,
             Legal(a, s), status' = [status EXCEPT ![a] = s], sentFor' = sentFor
      PROVE  [Promise!Next]_(Promise!vars)
  <2>1. ph' = [ph EXCEPT ![a] = Phase(s)]
    <3>1. \A b \in Action : status'[b] = IF b = a THEN s ELSE status[b]
      BY <1>0, <1>2
    <3>2. ph' = [b \in Action |-> Phase(status'[b])]
      OBVIOUS
    <3> QED  BY <3>1, <3>2
  <2>2. ph[a] = Phase(status[a])
    OBVIOUS
  <2>3. CASE status[a] = "pending" /\ s = "scheduled"
    <3>1. Promise!Arm(a)
      BY <1>2, <2>1, <2>2, <2>3 DEF Promise!Arm, Promise!Move, Phase
    <3> QED  BY <3>1 DEF Promise!Next
  <2>4. CASE status[a] = "scheduled" /\ s = "pending"
    <3>1. Promise!Disarm(a)
      BY <1>2, <2>1, <2>2, <2>4 DEF Promise!Disarm, Promise!Move, Phase
    <3> QED  BY <3>1 DEF Promise!Next
  <2>5. CASE status[a] \in {"pending", "scheduled"} /\ s = "sending"
    <3>1. Promise!Launch(a)
      BY <1>2, <2>1, <2>2, <2>5 DEF Promise!Launch, Promise!Move, Phase
    <3> QED  BY <3>1 DEF Promise!Next
  <2>6. CASE status[a] \in {"pending", "scheduled"}
             /\ s \in {"rejected", "superseded", "approved", "timed_out"}
    <3>1. Promise!Close(a)
      BY <1>2, <2>1, <2>2, <2>6 DEF Promise!Close, Promise!Move, Phase
    <3> QED  BY <3>1 DEF Promise!Next
  <2>7. CASE status[a] = "sending" /\ s = "error"
    <3>1. Promise!Fail(a)
      BY <1>2, <2>1, <2>2, <2>7 DEF Promise!Fail, Promise!Move, Phase
    <3> QED  BY <3>1 DEF Promise!Next
  <2>8. CASE status[a] = "sending" /\ s = "sent" /\ sentFor[a] # {}
    <3>1. Promise!Confirm(a)
      BY <1>2, <2>1, <2>2, <2>8 DEF Promise!Confirm, Promise!Move, Phase
    <3> QED  BY <3>1 DEF Promise!Next
  <2> QED  BY <1>2, <2>3, <2>4, <2>5, <2>6, <2>7, <2>8 DEF Legal
<1>3. ASSUME NEW a \in Action, NEW d \in Draft,
             status[a] \in {"sending", "error"}, sentFor[a] = {},
             status' = status, sentFor' = [sentFor EXCEPT ![a] = {d}]
      PROVE  [Promise!Next]_(Promise!vars)
  <2>1. Promise!Deliver(a)
    BY <1>0, <1>3 DEF Promise!Deliver, Phase
  <2> QED  BY <2>1 DEF Promise!Next
<1> QED  BY <1>1, <1>2, <1>3 DEF Effect

\* The tail of a send, by whoever holds the claim.
LEMMA SendEffect ==
  ASSUME WellFormed, SendInv, NEW p \in Proc, SendStep(p) PROVE Effect
<1>0. /\ InSend(p) /\ act[p] \in Action /\ status[act[p]] = "sending"
  BY TypedFacts
     DEF SendStep, LoadClaimed, GmailAccepts, SendOk, SendErr, SendTimesOut, InSend, SendInv,
         ClaimInv, ClaimIsHeld
<1>1. CASE LoadClaimed(p)
  BY <1>1 DEF LoadClaimed, rowVars, mailVars, Effect
<1>2. CASE GmailAccepts(p)
  <2>1. sentFor[act[p]] = {} /\ snap[p] \in Draft
    BY <1>2 DEF GmailAccepts, SendInv, DeliveryInv, MayDeliver, WellFormed, LocalInv
  <2>2. status' = status /\ sentFor' = [sentFor EXCEPT ![act[p]] = @ \cup {snap[p]}]
    BY <1>2 DEF GmailAccepts, Deliver, rowVars
  <2>3. sentFor' = [sentFor EXCEPT ![act[p]] = {snap[p]}]
    BY <2>1, <2>2
  <2> QED  BY <1>0, <2>1, <2>2, <2>3 DEF Effect
<1>3. CASE SendOk(p)
  <2>1. sentFor[act[p]] # {}
    BY <1>3 DEF SendOk, SendInv, DeliveryInv
  <2> QED  BY <1>0, <1>3, <2>1 DEF SendOk, FinishSendSent, SetStatus, mailVars, Effect, Legal, Status
<1>4. CASE SendErr(p)
  BY <1>0, <1>4 DEF SendErr, FinishSendError, SetStatus, Effect, Legal, Status
<1>5. CASE SendTimesOut(p)
  BY <1>0, <1>5 DEF SendTimesOut, FinishSendError, SetStatus, Effect, Legal, Status
<1> QED  BY <1>1, <1>2, <1>3, <1>4, <1>5 DEF SendStep

\* Clicks and the tasks they started.
LEMMA HandlerEffect ==
  ASSUME WellFormed, SendInv, NEW p \in Handler, HandlerStep(p) \/ \E a \in Action : Click(p, a)
  PROVE  Effect
<1> USE StoreAssumption, ReplyAssumption
    DEF Legal, Effect, WellFormed, TypeOK, RowTypeOK, LocalInv, Busy, Label, Proc, Status,
        SetStatus, rowVars, mailVars
<1>1. CASE SendStep(p)
  BY <1>1, SendEffect
<1>2. ASSUME HandlerStep(p), ~SendStep(p) PROVE Effect
  <2>1. CASE ApproveRead(p)
    BY <2>1 DEF ApproveRead
  <2>2. CASE ApproveArm(p)
    BY <2>2 DEF ApproveArm, ScheduleAction
  <2>3. CASE ApproveTooLate(p)
    BY <2>3 DEF ApproveTooLate
  <2>4. CASE ApproveClaim(p)
    BY <2>4 DEF ApproveClaim, ClaimActionForSend
  <2>5. CASE LoseRace(p)
    BY <2>5 DEF LoseRace
  <2>6. CASE SkipResolve(p)
    BY <2>6 DEF SkipResolve, TryResolveAction
  <2>7. CASE DeleteDraft(p)
    BY <2>7 DEF DeleteDraft
  <2>8. CASE CreateRedraft(p)
    BY <2>8 DEF CreateRedraft
  <2>9. CASE ReviseFails(p)
    BY <2>9 DEF ReviseFails
  <2>10. CASE RefreshDraft(p)
    BY <2>10 DEF RefreshDraft, RefreshPendingDraft
  <2>11. CASE RepointDraft(p)
    BY <2>11 DEF RepointDraft, SetActionDraftId
  <2>12. CASE RepointFails(p)
    BY <2>12 DEF RepointFails
  <2>13. CASE CancelLoad(p)
    BY <2>13 DEF CancelLoad
  <2> QED  BY <1>2, <2>1, <2>2, <2>3, <2>4, <2>5, <2>6, <2>7, <2>8, <2>9, <2>10, <2>11, <2>12, <2>13 DEF HandlerStep
<1>3. ASSUME NEW a \in Action, Click(p, a) PROVE Effect
  <2>1. CASE ApproveLoad(p, a)
    BY <2>1 DEF ApproveLoad
  <2>2. CASE SkipLoad(p, a)
    BY <2>2 DEF SkipLoad
  <2>3. CASE ReviseLoad(p, a)
    BY <2>3 DEF ReviseLoad
  <2>4. CASE SendNow(p, a)
    BY <2>4 DEF SendNow, ClaimActionForSend
  <2>5. CASE Cancel(p, a)
    BY <2>5 DEF Cancel, CancelScheduledAction
  <2> QED  BY <1>3, <2>1, <2>2, <2>3, <2>4, <2>5 DEF Click
<1> QED  BY <1>1, <1>2, <1>3

\* The engine.
LEMMA EngineEffect ==
  ASSUME WellFormed, SendInv, EngineStep PROVE Effect
<1> USE StoreAssumption, ReplyAssumption
    DEF Legal, Effect, WellFormed, TypeOK, RowTypeOK, LocalInv, Busy, Label, Proc, Status,
        SetStatus, rowVars, mailVars
<1>1. CASE EngineTick
  BY <1>1 DEF EngineTick
<1>2. CASE FlagStuck
  BY <1>2 DEF FlagStuck, FinishSendError, SendInv, ClaimInv, OnlyOrphansFlagged
<1>3. CASE ListDue
  BY <1>3 DEF ListDue
<1>4. CASE FireSuperseded
  BY <1>4 DEF FireSuperseded, MarkScheduledSuperseded
<1>5. CASE FireGuard
  BY <1>5 DEF FireGuard
<1>6. CASE FireClaim
  BY <1>6 DEF FireClaim, ClaimDueActionForSend, ClaimActionForSend
<1>7. CASE FireLosesClaim
  BY <1>7 DEF FireLosesClaim
<1>8. CASE FireLoadFails
  BY <1>8 DEF FireLoadFails
<1>9. CASE TickDone
  BY <1>9 DEF TickDone
<1>10. CASE SendStep(Engine)
  BY <1>10, SendEffect
<1> QED  BY <1>1, <1>2, <1>3, <1>4, <1>5, <1>6, <1>7, <1>8, <1>9, <1>10 DEF EngineStep

\* Owner, observer, sweeps, bulk commands, Gmail, restarts, time.
LEMMA OtherEffect ==
  ASSUME WellFormed, SendInv,
         \/ ReconcileList \/ LateDelivery \/ Crash \/ Tick \/ UNCHANGED vars
         \/ \E a \in Action : ScheduleClick(a) \/ BackToQueue(a) \/ Sweep(a)
  PROVE  Effect
<1> USE StoreAssumption, ReplyAssumption
    DEF Legal, Effect, WellFormed, TypeOK, RowTypeOK, LocalInv, Busy, Label, Proc, Status,
        SetStatus, rowVars, mailVars
<1>1. CASE ReconcileList \/ Crash \/ Tick \/ UNCHANGED vars
  BY <1>1 DEF ReconcileList, Crash, Tick, vars
<1>2. CASE LateDelivery
  <2>1. PICK e \in wire :
           /\ Deliver(e[1], e[2]) \/ UNCHANGED <<gmail, sentFor>>
           /\ status' = status
    BY <1>2 DEF LateDelivery
  <2>2. PICK a \in Action, d \in Draft : e = <<a, d>> /\ e[1] = a /\ e[2] = d
    OBVIOUS
  <2>3. sentFor[a] = {} /\ status[a] \in {"sending", "sent", "error"} /\ status[a] # "sent"
    BY <2>2 DEF SendInv, DeliveryInv, DeliveredIsOnRecord, SentWasDelivered, MayDeliver
  <2>4. CASE Deliver(a, d)
    <3>1. sentFor' = [sentFor EXCEPT ![a] = {d}]
      BY <2>3, <2>4 DEF Deliver
    <3> QED  BY <2>1, <2>3, <3>1
  <2> QED  BY <2>1, <2>2, <2>4
<1>3. ASSUME NEW a \in Action, ScheduleClick(a) \/ BackToQueue(a) \/ Sweep(a) PROVE Effect
  <2>1. CASE ScheduleClick(a)
    BY <2>1 DEF ScheduleClick, ScheduleAction
  <2>2. CASE BackToQueue(a)
    BY <2>2 DEF BackToQueue, UnscheduleAction
  <2>3. CASE ObserveReply(a)
    BY <2>3 DEF ObserveReply, SweepPending
  <2>4. CASE RecordReply(a)
    BY <2>4 DEF RecordReply
  <2>5. CASE ResolvePending(a)
    BY <2>5 DEF ResolvePending, SweepPending
  <2>6. CASE ReconcileScheduled(a)
    BY <2>6 DEF ReconcileScheduled, MarkScheduledSuperseded
  <2> QED  BY <1>3, <2>1, <2>2, <2>3, <2>4, <2>5, <2>6 DEF Sweep
<1> QED  BY <1>1, <1>2, <1>3

\* Every step of the daemon is a step of SendOnce or invisible to it.
LEMMA StepRefines ==
  ASSUME WellFormed, SendInv, [Next]_vars PROVE [Promise!Next]_(Promise!vars)
<1>1. Effect
  BY HandlerEffect, EngineEffect, OtherEffect DEF Next
<1> QED  BY <1>1, EffectRefines

\* The daemon keeps the promise of SendOnce: a reply is launched once, never
\* waits again, is never closed after its launch, and delivers one message.
THEOREM DaemonImplementsSendOnce == Spec => ImplementsSendOnce
<1>1. Init => Promise!Init
  BY DEF Init, Promise!Init, Phase
<1>2. WellFormed /\ SendInv /\ [Next]_vars => [Promise!Next]_(Promise!vars)
  BY StepRefines
<1> QED  BY <1>1, <1>2, Invariants, PTL DEF Spec, ImplementsSendOnce, Promise!Spec

=============================================================================
