----------------------------- MODULE ChainProofs -----------------------------
(***************************************************************************)
(* Proofs about the reasoner chain: the permits of every process's gate    *)
(* balance, and no interleaving of stale writes to the cooldown file skips *)
(* a provider longer than a reported outage excuses.                       *)
(***************************************************************************)
EXTENDS ReasonerChain, FiniteSetTheorems, TLAPS

(* The records of ChainTypes.                                              *)
Call == [phase : {"idle", "walk", "queue", "run", "latch", "clear", "done"},
         class : Class, at : Nat, again : BOOLEAN,
         error : {"none", "outage", "local"}, skipped : SUBSET Provider,
         until : Until, copy : [Provider -> Until],
         result : {"none", "ok", "outage", "local", "content", "dropped"}]

(* A call at a provider of the chain, past the policy and the latch, works *)
(* with that provider until it leaves it; only a gated one is queued for.  *)
InPlace ==
    \A j \in Job :
        /\ job[j].at >= 1
        /\ job[j].phase \in {"queue", "run", "latch", "clear"} => More(j)
        /\ job[j].phase = "queue" => Gated(Here(j))

Running(q) == {j \in Job : Home[j] = q /\ Step(j, "run") /\ Gated(Here(j))}

Balance ==
    \A q \in Process :
        IsFiniteSet(Running(q)) /\ slots[q] + Cardinality(Running(q)) = Slots

(* What a call is about to write is excused as well as what the file holds.*)
ExcusedWrites ==
    /\ \A p \in Provider : latch[p] <= excused[p]
    /\ \A j \in Job : job[j].phase \in {"latch", "clear"} =>
                         \A p \in Provider : job[j].copy[p] <= excused[p]
    /\ \A j \in Job : job[j].phase = "latch" => job[j].until <= excused[Here(j)]

(* Types but for the upper bound of the permits, which the balance gives.  *)
LooseTypes ==
    /\ job \in [Job -> Call]
    /\ latch \in [Provider -> Until]
    /\ slots \in [Process -> Nat]
    /\ excused \in [Provider -> Until]

ChainInv == DaemonTypes /\ LooseTypes /\ InPlace /\ Balance /\ ExcusedWrites

-----------------------------------------------------------------------------
(* Operators. *)

(* A call in place is at a provider.                                       *)
LEMMA HereIsAProvider ==
  ASSUME NEW j \in Job, job[j].at \in Nat, job[j].at >= 1, More(j)
  PROVE  Here(j) \in Provider
<1>1. Chain \in Seq(Provider)
  BY ChainAssumption
<1> QED  BY <1>1 DEF Here, More

(* A latch lasts no longer than the longest span.                          *)
LEMMA LatchEnds ==
  ASSUME DaemonTypes, NEW provider \in Provider, NEW answer \in Outage, NEW hint \in ResetHint(provider)
  PROVE  LatchUntil(answer, hint) \in Until
<1>1. now \in 0 .. MaxNow /\ MaxNow \in Nat
  BY DaemonAssumption DEF DaemonTypes
<1>2. hint \in 0 .. now + HintSpan /\ QuotaSpan \in Nat /\ DownSpan \in Nat /\ HintSpan \in Nat
  BY <1>1, ChainAssumption DEF ResetHint
<1>3. LatchUntil(answer, hint) \in {hint, now + QuotaSpan, now + DownSpan}
  BY <1>2 DEF LatchUntil, Outage
<1> QED  BY <1>1, <1>2, <1>3 DEF Until

-----------------------------------------------------------------------------
(* Steps. *)

\* No call is under way, no latch is set and no permit is out.
LEMMA InitChain == DaemonInit /\ ChainInit => ChainInv
<1> SUFFICES ASSUME DaemonInit, ChainInit PROVE ChainInv
  OBVIOUS
<1>1. DaemonTypes
  BY DaemonAssumption DEF DaemonInit, DaemonTypes
<1>2. 0 \in Until /\ Slots \in Nat
  BY ChainAssumption, DaemonAssumption DEF Until
<1>3. LooseTypes
  BY <1>2 DEF ChainInit, LooseTypes, Call, Class
<1>4. InPlace /\ ExcusedWrites
  BY <1>2 DEF ChainInit, InPlace, ExcusedWrites
<1>5. \A q \in Process : Running(q) = {}
  BY DEF ChainInit, Running, Step
<1>6. Balance
  <2>1. \A q \in Process : slots[q] = Slots /\ IsFiniteSet(Running(q)) /\ Cardinality(Running(q)) = 0
    BY <1>5, FS_EmptySet DEF ChainInit
  <2> QED  BY <1>2, <2>1 DEF Balance
<1> QED  BY <1>1, <1>3, <1>4, <1>6 DEF ChainInv

(* Where a step may take one call: what it leaves alone stays in place.    *)
LEMMA Moves ==
  ASSUME LooseTypes, InPlace, NEW j \in Job, NEW row \in Call,
         job' = [job EXCEPT ![j] = row],
         row.at >= 1,
         row.phase \in {"queue", "run", "latch", "clear"} => row.at <= Len(Chain),
         row.phase = "queue" => Gated(Chain[row.at])
  PROVE  job' \in [Job -> Call] /\ InPlace'
<1>1. job' \in [Job -> Call] /\ job'[j] = row /\ \A i \in Job \ {j} : job'[i] = job[i]
  BY DEF LooseTypes
<1> QED  BY <1>1 DEF InPlace, More, Here, Gated

(* Every step of a call, a dropped caller and a restart keeps types and    *)
(* keeps the calls in place.                                               *)
LEMMA StepInPlace ==
  DaemonTypes /\ LooseTypes /\ InPlace /\ [ChainNext]_allChainVars
     => DaemonTypes' /\ LooseTypes' /\ InPlace'
<1> SUFFICES ASSUME DaemonTypes, LooseTypes, InPlace, [ChainNext]_allChainVars
             PROVE  DaemonTypes' /\ LooseTypes' /\ InPlace'
  OBVIOUS
<1> DEFINE Goal == DaemonTypes' /\ LooseTypes' /\ InPlace'
<1>t. /\ 0 \in Until /\ Slots \in Nat /\ now \in Nat /\ latch \in [Provider -> Until]
      /\ \A j \in Job : /\ job[j] \in Call /\ job[j].at \in Nat /\ job[j].at >= 1
                         /\ job[j].at + 1 \in Nat /\ job[j].at + 1 >= 1
      /\ \A j \in Job : job[j].phase \in {"queue", "run", "latch", "clear"} =>
                            job[j].at <= Len(Chain) /\ Here(j) \in Provider
      /\ \A j \in Job : job[j].phase = "queue" => Gated(Here(j))
  <2>1. \A j \in Job : job[j] \in Call /\ job[j].at \in Nat /\ job[j].at >= 1
    BY DEF LooseTypes, InPlace, Call
  <2>2. \A j \in Job : job[j].phase \in {"queue", "run", "latch", "clear"} => Here(j) \in Provider
    BY <2>1, HereIsAProvider DEF InPlace
  <2> QED  BY <2>1, <2>2, ChainAssumption, DaemonAssumption
              DEF Until, DaemonTypes, InPlace, LooseTypes, More
<1>f. ASSUME NEW j \in Job, FreeSlot(j)  PROVE slots' \in [Process -> Nat]
  <2>1. Home[j] \in Process
    BY ChainAssumption
  <2> QED  BY <1>f, <2>1 DEF FreeSlot, LooseTypes
<1>1. ASSUME NEW j \in Job, NEW class \in Class, Ask(j, class)  PROVE Goal
  <2> DEFINE row == [job[j] EXCEPT !.phase = "walk", !.class = class]
  <2>1. row \in Call /\ row.at = job[j].at /\ row.phase = "walk"
    BY <1>t DEF Call
  <2>2. job' = [job EXCEPT ![j] = row] /\ UNCHANGED <<latch, slots, excused, daemonVars>>
    BY <1>1 DEF Ask
  <2>3. job' \in [Job -> Call] /\ InPlace'
    <3> HIDE DEF row
    <3> QED  BY <1>t, <2>1, <2>2, Moves
  <2> QED  BY <2>2, <2>3 DEF LooseTypes, DaemonTypes, daemonVars
<1>2. ASSUME NEW j \in Job, SkipDisallowed(j)  PROVE Goal
  <2> DEFINE row == [job[j] EXCEPT !.at = @ + 1]
  <2>1. row \in Call /\ row.at = job[j].at + 1 /\ row.phase = "walk"
    BY <1>2, <1>t DEF Call, SkipDisallowed, Step
  <2>2. job' = [job EXCEPT ![j] = row] /\ UNCHANGED <<latch, slots, excused, daemonVars>>
    BY <1>2 DEF SkipDisallowed
  <2>3. job' \in [Job -> Call] /\ InPlace'
    <3> HIDE DEF row
    <3> QED  BY <1>t, <2>1, <2>2, Moves
  <2> QED  BY <2>2, <2>3 DEF LooseTypes, DaemonTypes, daemonVars
<1>3. ASSUME NEW j \in Job, SkipLatched(j)  PROVE Goal
  <2> DEFINE row == [job[j] EXCEPT !.at = job[j].at + 1, !.skipped = job[j].skipped \cup {Here(j)}]
  <2>1. Here(j) \in Provider
    BY <1>3, <1>t, HereIsAProvider DEF SkipLatched
  <2>2. row \in Call /\ row.at = job[j].at + 1 /\ row.phase = "walk"
    BY <1>3, <1>t, <2>1 DEF Call, SkipLatched, Step
  <2>3. job' = [job EXCEPT ![j] = row] /\ UNCHANGED <<latch, slots, excused, daemonVars>>
    BY <1>3 DEF SkipLatched
  <2>4. job' \in [Job -> Call] /\ InPlace'
    <3> HIDE DEF row
    <3> QED  BY <1>t, <2>2, <2>3, Moves
  <2> QED  BY <2>3, <2>4 DEF LooseTypes, DaemonTypes, daemonVars
<1>4. ASSUME NEW j \in Job, StartCall(j)  PROVE Goal
  <2> DEFINE row == [job[j] EXCEPT !.phase = IF Gated(Here(j)) THEN "queue" ELSE "run"]
  <2>1. row \in Call /\ row.at = job[j].at
    BY <1>t DEF Call
  <2>2. row.phase = "queue" => Gated(Here(j))
    BY <1>t DEF Call
  <2>3. job' = [job EXCEPT ![j] = row] /\ UNCHANGED <<latch, slots, excused, daemonVars>>
    BY <1>4 DEF StartCall
  <2>4. job[j].at <= Len(Chain)
    BY <1>4 DEF StartCall, More
  <2>5. job' \in [Job -> Call] /\ InPlace'
    BY <1>t, <2>1, <2>2, <2>3, <2>4, Moves DEF Here
  <2> QED  BY <2>3, <2>5 DEF LooseTypes, DaemonTypes, daemonVars
<1>5. ASSUME NEW j \in Job, TakeSlot(j)  PROVE Goal
  <2> DEFINE row == [job[j] EXCEPT !.phase = "run"]
  <2>1. row \in Call /\ row.at = job[j].at /\ row.phase = "run" /\ job[j].at <= Len(Chain)
    BY <1>5, <1>t DEF Call, TakeSlot, Step
  <2>2. job' = [job EXCEPT ![j] = row] /\ UNCHANGED <<latch, excused, daemonVars>>
    BY <1>5 DEF TakeSlot
  <2>3. job' \in [Job -> Call] /\ InPlace'
    <3> HIDE DEF row
    <3> QED  BY <1>t, <2>1, <2>2, Moves
  <2>4. Home[j] \in Process
    BY ChainAssumption
  <2>5. slots' \in [Process -> Nat]
    BY <1>5, <2>4 DEF TakeSlot, LooseTypes
  <2> QED  BY <2>2, <2>3, <2>5 DEF LooseTypes, DaemonTypes, daemonVars
<1>6. ASSUME NEW j \in Job, Succeed(j)  PROVE Goal
  <2> DEFINE row == [job[j] EXCEPT !.phase = IF latch[Here(j)] = 0 THEN "done" ELSE "clear",
                                   !.copy = latch, !.result = "ok"]
  <2>1. row \in Call /\ row.at = job[j].at /\ row.phase \in {"done", "clear"}
    BY <1>t DEF Call
  <2>2. job' = [job EXCEPT ![j] = row] /\ UNCHANGED <<latch, excused, daemonVars>>
    BY <1>6 DEF Succeed
  <2>3. job[j].at <= Len(Chain)
    BY <1>6, <1>t DEF Succeed, Step
  <2>4. job' \in [Job -> Call] /\ InPlace'
    BY <1>t, <2>1, <2>2, <2>3, Moves
  <2>5. slots' \in [Process -> Nat]
    BY <1>6, <1>f DEF Succeed
  <2> QED  BY <2>2, <2>4, <2>5 DEF LooseTypes, DaemonTypes, daemonVars
<1>7. ASSUME NEW j \in Job, WriteClear(j)  PROVE Goal
  <2> DEFINE row == [job[j] EXCEPT !.phase = "done"]
  <2>1. row \in Call /\ row.at = job[j].at /\ row.phase = "done"
    BY <1>t DEF Call
  <2>2. job' = [job EXCEPT ![j] = row] /\ UNCHANGED <<slots, excused, daemonVars>>
    BY <1>7 DEF WriteClear
  <2>3. job' \in [Job -> Call] /\ InPlace'
    <3> HIDE DEF row
    <3> QED  BY <1>t, <2>1, <2>2, Moves
  <2>4. job[j].copy \in [Provider -> Until]
    BY <1>t DEF Call
  <2>5. latch' \in [Provider -> Until]
    BY <1>7, <1>t, <2>4 DEF WriteClear
  <2> QED  BY <2>2, <2>3, <2>5 DEF LooseTypes, DaemonTypes, daemonVars
<1>8. ASSUME NEW j \in Job, WriteLatch(j)  PROVE Goal
  <2> DEFINE row == [job[j] EXCEPT !.phase = "walk", !.at = job[j].at + 1]
  <2>1. row \in Call /\ row.at = job[j].at + 1 /\ row.phase = "walk"
    BY <1>t DEF Call
  <2>2. job' = [job EXCEPT ![j] = row] /\ UNCHANGED <<slots, excused, daemonVars>>
    BY <1>8 DEF WriteLatch
  <2>3. job' \in [Job -> Call] /\ InPlace'
    <3> HIDE DEF row
    <3> QED  BY <1>t, <2>1, <2>2, Moves
  <2>4. job[j].copy \in [Provider -> Until] /\ job[j].until \in Until
    BY <1>t DEF Call
  <2>5. latch' \in [Provider -> Until]
    BY <1>8, <1>t, <2>4 DEF WriteLatch
  <2> QED  BY <2>2, <2>3, <2>5 DEF LooseTypes, DaemonTypes, daemonVars
<1>9. ASSUME NEW j \in Job, NEW answer \in Outage, NEW hint \in ResetHint(Here(j)),
             FailOver(j, answer, hint)
      PROVE  Goal
  <2> DEFINE until == LatchUntil(answer, hint)
             writes == Latchworthy(answer, job[j].class) /\ ~Keeps(Here(j), until)
             row == [job[j] EXCEPT !.phase = IF writes THEN "latch" ELSE "walk",
                                   !.at = job[j].at + (IF writes THEN 0 ELSE 1),
                                   !.error = "outage", !.until = until, !.copy = latch]
  <2>1. job[j].at <= Len(Chain) /\ Here(j) \in Provider
    BY <1>9, <1>t DEF FailOver, Step
  <2>2. until \in Until
    BY <2>1, LatchEnds
  <2>3. job' = [job EXCEPT ![j] = row] /\ UNCHANGED <<latch, daemonVars>>
    BY <1>9 DEF FailOver
  <2> HIDE DEF until
  <2> HIDE DEF writes
  <2>9. /\ job[j].at + (IF writes THEN 0 ELSE 1) \in {job[j].at, job[j].at + 1}
        /\ writes => job[j].at + (IF writes THEN 0 ELSE 1) = job[j].at
    BY <1>t
  <2>4. row \in Call /\ row.at \in {job[j].at, job[j].at + 1} /\ row.phase \in {"latch", "walk"}
    BY <1>t, <2>2, <2>9 DEF Call
  <2>5. row.phase = "latch" => row.at = job[j].at
    BY <1>t, <2>9 DEF Call
  <2>6. job' \in [Job -> Call] /\ InPlace'
    <3> HIDE DEF row
    <3> QED  BY <1>t, <2>1, <2>3, <2>4, <2>5, Moves
  <2>7. excused' \in [Provider -> Until]
    BY <1>9, <2>1, <2>2 DEF FailOver, LooseTypes, until
  <2>8. slots' \in [Process -> Nat]
    BY <1>9, <1>f DEF FailOver
  <2> QED  BY <2>3, <2>6, <2>7, <2>8 DEF LooseTypes, DaemonTypes, daemonVars
<1>10. ASSUME NEW j \in Job, FailLocally(j)  PROVE Goal
  <2> DEFINE row == [job[j] EXCEPT !.phase = "walk", !.at = job[j].at + 1,
                                   !.error = IF job[j].error = "outage" THEN "outage" ELSE "local"]
  <2>1. row \in Call /\ row.at = job[j].at + 1 /\ row.phase = "walk"
    BY <1>t DEF Call
  <2>2. job' = [job EXCEPT ![j] = row] /\ UNCHANGED <<latch, excused, daemonVars>>
    BY <1>10 DEF FailLocally
  <2>3. job' \in [Job -> Call] /\ InPlace'
    <3> HIDE DEF row
    <3> QED  BY <1>t, <2>1, <2>2, Moves
  <2>4. slots' \in [Process -> Nat]
    BY <1>10, <1>f DEF FailLocally
  <2> QED  BY <2>2, <2>3, <2>4 DEF LooseTypes, DaemonTypes, daemonVars
<1>11. ASSUME NEW j \in Job, Recover(j)  PROVE Goal
  <2> DEFINE row == [job[j] EXCEPT !.phase = "queue", !.again = TRUE]
  <2>1. row \in Call /\ row.at = job[j].at
    BY <1>t DEF Call
  <2>2. job' = [job EXCEPT ![j] = row] /\ UNCHANGED <<latch, excused, daemonVars>>
    BY <1>11 DEF Recover
  <2>3. job[j].at <= Len(Chain) /\ Gated(Chain[job[j].at])
    BY <1>11, <1>t DEF Recover, Step, Gated, Here
  <2>4. job' \in [Job -> Call] /\ InPlace'
    BY <1>t, <2>1, <2>2, <2>3, Moves
  <2>5. slots' \in [Process -> Nat]
    BY <1>11, <1>f DEF Recover
  <2> QED  BY <2>2, <2>4, <2>5 DEF LooseTypes, DaemonTypes, daemonVars
<1>12. ASSUME NEW j \in Job, EndOnContent(j) \/ GiveUp(j) \/ DropCall(j)  PROVE Goal
  <2>1. PICK result \in {"ok", "outage", "local", "content", "dropped"} :
            job' = [job EXCEPT ![j] = [@ EXCEPT !.phase = "done", !.result = result]]
    BY <1>12 DEF EndOnContent, GiveUp, DropCall
  <2> DEFINE row == [job[j] EXCEPT !.phase = "done", !.result = result]
  <2>2. row \in Call /\ row.at = job[j].at /\ row.phase = "done" /\ job' = [job EXCEPT ![j] = row]
    BY <1>t, <2>1 DEF Call
  <2>3. job' \in [Job -> Call] /\ InPlace'
    <3> HIDE DEF row
    <3> QED  BY <1>t, <2>1, <2>2, Moves
  <2>4. slots' \in [Process -> Nat] /\ UNCHANGED <<latch, excused, daemonVars>>
    BY <1>12, <1>f DEF EndOnContent, GiveUp, DropCall, LooseTypes
  <2> QED  BY <2>3, <2>4 DEF LooseTypes, DaemonTypes, daemonVars
<1>13. ASSUME NEW q \in Process, ProcessDies(q)  PROVE Goal
  <2>1. ASSUME NEW j \in Job
        PROVE  /\ job'[j] \in Call
               /\ job'[j].at = job[j].at /\ job'[j].phase \in {job[j].phase, "done"}
    <3>1. PICK result \in {"none", "ok", "outage", "local", "content", "dropped"} :
              job'[j] \in {job[j], [job[j] EXCEPT !.phase = "done", !.result = result]}
      BY <1>13, <1>t DEF ProcessDies, Call
    <3> QED  BY <1>t, <3>1 DEF Call
  <2>2. job' \in [Job -> Call]
    BY <1>13, <2>1 DEF ProcessDies
  <2>3. InPlace'
    BY <2>1 DEF InPlace, More, Here, Gated
  <2>4. slots' \in [Process -> Nat] /\ UNCHANGED <<latch, excused>>
    BY <1>13, <1>t DEF ProcessDies, LooseTypes
  <2>5. DaemonTypes'
    <3>1. Restarts
      BY <1>13 DEF ProcessDies
    <3> QED  BY <3>1, DaemonAssumption DEF Restarts, DaemonTypes
  <2> QED  BY <2>2, <2>3, <2>4, <2>5 DEF LooseTypes
<1>14. CASE UNCHANGED chainVars /\ (Tick \/ UNCHANGED daemonVars)
  BY <1>14, DaemonAssumption
     DEF chainVars, daemonVars, Tick, DaemonTypes, LooseTypes, InPlace, More, Here, Gated
<1> QED
  BY <1>1, <1>2, <1>3, <1>4, <1>5, <1>6, <1>7, <1>8, <1>9, <1>10, <1>11, <1>12, <1>13, <1>14,
     ChainAssumption DEF ChainNext, CallStep, allChainVars

-----------------------------------------------------------------------------
(* The permits. *)

(* A step that takes no permit and ends or starts no gated child.          *)
LEMMA SameChildren ==
  ASSUME Balance, UNCHANGED slots,
         \A j \in Job : (Step(j, "run") /\ Gated(Here(j)))' = (Step(j, "run") /\ Gated(Here(j)))
  PROVE  Balance'
<1>1. \A q \in Process : Running(q)' = Running(q)
  BY DEF Running
<1> QED  BY <1>1 DEF Balance

(* A child that ends gives its permit back.                                *)
LEMMA ChildEnds ==
  ASSUME Balance, LooseTypes, NEW j \in Job, FreeSlot(j),
         ~(Step(j, "run") /\ Gated(Here(j)))',
         \A i \in Job \ {j} : job'[i] = job[i]
  PROVE  Balance'
<1> USE ChainAssumption
<1>1. SUFFICES ASSUME NEW q \in Process
               PROVE  IsFiniteSet(Running(q)') /\ slots'[q] + Cardinality(Running(q)') = Slots
  BY DEF Balance
<1>2. Running(q)' = Running(q) \ {j}
  BY DEF Running, Step, Here
<1>3. IsFiniteSet(Running(q)) /\ Cardinality(Running(q)) \in Nat
      /\ slots[q] + Cardinality(Running(q)) = Slots /\ slots[q] \in Nat
  BY FS_CardinalityType DEF Balance, LooseTypes
<1>4. CASE j \in Running(q)
  <2>1. slots'[q] = slots[q] + 1
    BY <1>4 DEF Running, FreeSlot, LooseTypes
  <2>2. IsFiniteSet(Running(q) \ {j}) /\ Cardinality(Running(q) \ {j}) = Cardinality(Running(q)) - 1
    BY <1>3, <1>4, FS_RemoveElement
  <2> QED  BY <1>2, <1>3, <2>1, <2>2
<1>5. CASE j \notin Running(q)
  <2>1. slots'[q] = slots[q]
    BY <1>5 DEF Running, FreeSlot, LooseTypes
  <2>2. Running(q) \ {j} = Running(q)
    BY <1>5
  <2> QED  BY <1>2, <1>3, <2>1, <2>2
<1> QED  BY <1>4, <1>5

(* A child that starts takes one of its process's permits.                 *)
LEMMA ChildStarts ==
  ASSUME Balance, LooseTypes, InPlace, NEW j \in Job, TakeSlot(j)
  PROVE  Balance'
<1> USE ChainAssumption
<1>1. SUFFICES ASSUME NEW q \in Process
               PROVE  IsFiniteSet(Running(q)') /\ slots'[q] + Cardinality(Running(q)') = Slots
  BY DEF Balance
<1>2. /\ job'[j].phase = "run" /\ Here(j)' = Here(j) /\ job[j].phase = "queue" /\ Gated(Here(j))
      /\ \A i \in Job \ {j} : job'[i] = job[i]
  BY DEF TakeSlot, Step, InPlace, Here, LooseTypes, Call
<1>3. IsFiniteSet(Running(q)) /\ Cardinality(Running(q)) \in Nat
      /\ slots[q] + Cardinality(Running(q)) = Slots /\ slots[q] \in Nat
  BY FS_CardinalityType DEF Balance, LooseTypes
<1>4. CASE Home[j] = q
  <2>1. Running(q)' = Running(q) \cup {j}
    BY <1>2, <1>4 DEF Running, Step, Here, Gated
  <2>2. j \notin Running(q)
    BY <1>2 DEF Running, Step
  <2>3. slots'[q] = slots[q] - 1
    BY <1>4 DEF TakeSlot, LooseTypes
  <2>4. IsFiniteSet(Running(q) \cup {j}) /\ Cardinality(Running(q) \cup {j}) = Cardinality(Running(q)) + 1
    BY <1>3, <2>2, FS_AddElement
  <2> QED  BY <1>3, <2>1, <2>3, <2>4
<1>5. CASE Home[j] # q
  <2>1. Running(q)' = Running(q)
    BY <1>2, <1>5 DEF Running, Step, Here, Gated
  <2>2. slots'[q] = slots[q]
    BY <1>5 DEF TakeSlot, LooseTypes
  <2> QED  BY <1>3, <2>1, <2>2
<1> QED  BY <1>4, <1>5

(* Every step keeps the permits in balance.                                *)
LEMMA StepBalance ==
  LooseTypes /\ InPlace /\ Balance /\ [ChainNext]_allChainVars => Balance'
<1> SUFFICES ASSUME LooseTypes, InPlace, Balance, [ChainNext]_allChainVars  PROVE Balance'
  OBVIOUS
<1>t. \A j \in Job : job[j] \in Call
  BY DEF LooseTypes
<1>1. ASSUME NEW j \in Job, NEW class \in Class, Ask(j, class)  PROVE Balance'
  <2>1. job[j].phase = "idle" /\ job'[j].phase = "walk" /\ \A i \in Job \ {j} : job'[i] = job[i]
    BY <1>1, <1>t DEF Ask, Step, Call, LooseTypes
  <2> QED  BY <1>1, <2>1, SameChildren DEF Ask, Step, Here
<1>2. ASSUME NEW j \in Job, SkipDisallowed(j) \/ SkipLatched(j)  PROVE Balance'
  <2>1. job[j].phase = "walk" /\ job'[j].phase = "walk" /\ \A i \in Job \ {j} : job'[i] = job[i]
    BY <1>2, <1>t DEF SkipDisallowed, SkipLatched, Step, Call, LooseTypes
  <2> QED  BY <1>2, <2>1, SameChildren DEF SkipDisallowed, SkipLatched, Step, Here
<1>3. ASSUME NEW j \in Job, StartCall(j)  PROVE Balance'
  <2>1. job[j].phase = "walk" /\ Here(j)' = Here(j) /\ \A i \in Job \ {j} : job'[i] = job[i]
    BY <1>3, <1>t DEF StartCall, Step, Call, LooseTypes, Here
  <2>2. job'[j].phase = "run" => ~Gated(Here(j))
    BY <1>3, <1>t DEF StartCall, Call, LooseTypes
  <2> QED  BY <1>3, <2>1, <2>2, SameChildren DEF StartCall, Step, Here, Gated
<1>4. ASSUME NEW j \in Job, TakeSlot(j)  PROVE Balance'
  BY <1>4, ChildStarts
<1>5. ASSUME NEW j \in Job, WriteClear(j) \/ WriteLatch(j) \/ GiveUp(j)  PROVE Balance'
  <2>1. /\ job[j].phase # "run" /\ job'[j].phase # "run" /\ UNCHANGED slots
        /\ \A i \in Job \ {j} : job'[i] = job[i]
    <3>1. CASE WriteClear(j)
      BY <3>1, <1>t DEF WriteClear, Step, Call, LooseTypes
    <3>2. CASE WriteLatch(j)
      BY <3>2, <1>t DEF WriteLatch, Step, Call, LooseTypes
    <3>3. CASE GiveUp(j)
      BY <3>3, <1>t DEF GiveUp, Step, Call, LooseTypes
    <3> QED  BY <1>5, <3>1, <3>2, <3>3
  <2> QED  BY <2>1, SameChildren DEF Step, Here
<1>6. ASSUME NEW j \in Job,
             \/ Succeed(j) \/ FailLocally(j) \/ Recover(j) \/ EndOnContent(j) \/ DropCall(j)
             \/ \E answer \in Outage, hint \in ResetHint(Here(j)) : FailOver(j, answer, hint)
      PROVE  Balance'
  <2>1. FreeSlot(j)
    BY <1>6 DEF Succeed, FailLocally, Recover, EndOnContent, DropCall, FailOver
  <2>2. job'[j].phase # "run" /\ \A i \in Job \ {j} : job'[i] = job[i]
    <3>1. CASE Succeed(j)
      BY <3>1, <1>t DEF Succeed, Call, LooseTypes
    <3>2. CASE FailLocally(j)
      BY <3>2, <1>t DEF FailLocally, Call, LooseTypes
    <3>3. CASE Recover(j)
      BY <3>3, <1>t DEF Recover, Call, LooseTypes
    <3>4. CASE EndOnContent(j)
      BY <3>4, <1>t DEF EndOnContent, Call, LooseTypes
    <3>5. CASE DropCall(j)
      BY <3>5, <1>t DEF DropCall, Call, LooseTypes
    <3>6. ASSUME NEW answer \in Outage, NEW hint \in ResetHint(Here(j)), FailOver(j, answer, hint)
          PROVE  job'[j].phase # "run" /\ \A i \in Job \ {j} : job'[i] = job[i]
      BY <3>6, <1>t DEF FailOver, Call, LooseTypes
    <3> QED  BY <1>6, <3>1, <3>2, <3>3, <3>4, <3>5, <3>6
  <2> QED  BY <2>1, <2>2, ChildEnds DEF Step
<1>7. ASSUME NEW q \in Process, ProcessDies(q)  PROVE Balance'
  <2>1. \A j \in Job : Home[j] = q => job'[j].phase # "run"
    BY <1>7, <1>t DEF ProcessDies, Call
  <2>2. \A j \in Job : Home[j] # q => job'[j] = job[j]
    BY <1>7 DEF ProcessDies
  <2>3. Running(q)' = {}
    BY <2>1 DEF Running, Step
  <2>4. \A p \in Process \ {q} : Running(p)' = Running(p)
    BY <2>2 DEF Running, Step, Here
  <2>5. \A p \in Process \ {q} : slots'[p] = slots[p]
    BY <1>7 DEF ProcessDies, LooseTypes
  <2>6. slots'[q] = Slots
    BY <1>7 DEF ProcessDies, LooseTypes
  <2>7. IsFiniteSet(Running(q)') /\ slots'[q] + Cardinality(Running(q)') = Slots
    BY <2>3, <2>6, FS_EmptySet, ChainAssumption
  <2> QED  BY <2>4, <2>5, <2>7 DEF Balance
<1>8. CASE UNCHANGED chainVars
  BY <1>8, SameChildren DEF chainVars, Step, Here
<1> QED
  BY <1>1, <1>2, <1>3, <1>4, <1>5, <1>6, <1>7, <1>8, ChainAssumption
     DEF ChainNext, CallStep, allChainVars

-----------------------------------------------------------------------------
(* The cooldown file. *)

(* A step that only takes calls out of the two writes, or leaves them      *)
(* there with the copy they have.                                          *)
LEMMA NothingNewWritten ==
  ASSUME ExcusedWrites, UNCHANGED <<latch, excused>>,
         \A j \in Job : job'[j].phase \in {"latch", "clear"} => job'[j] = job[j]
  PROVE  ExcusedWrites'
  BY DEF ExcusedWrites, Here

(* Every step writes what is excused.                                      *)
LEMMA StepExcused ==
  DaemonTypes /\ LooseTypes /\ InPlace /\ ExcusedWrites /\ [ChainNext]_allChainVars => ExcusedWrites'
<1> SUFFICES ASSUME DaemonTypes, LooseTypes, InPlace, ExcusedWrites, [ChainNext]_allChainVars
             PROVE  ExcusedWrites'
  OBVIOUS
<1>t. \A j \in Job : job[j] \in Call /\ job[j].copy \in [Provider -> Until]
  BY DEF LooseTypes, Call
<1>u. /\ \A p \in Provider : latch[p] \in Nat /\ excused[p] \in Nat
      /\ \A j \in Job : job[j].until \in Nat /\ \A p \in Provider : job[j].copy[p] \in Nat
      /\ latch \in [Provider -> Until] /\ excused \in [Provider -> Until] /\ Until \subseteq Nat
  <2>1. Until \subseteq Nat
    BY ChainAssumption, DaemonAssumption DEF Until
  <2>2. \A j \in Job : job[j].until \in Until
    BY <1>t DEF Call
  <2> QED  BY <1>t, <2>1, <2>2 DEF LooseTypes
<1>h. ASSUME NEW j \in Job, job[j].phase \in {"queue", "run", "latch", "clear"}
      PROVE  Here(j) \in Provider
  BY <1>h, <1>t, HereIsAProvider DEF InPlace, Call
<1>1. ASSUME NEW j \in Job, NEW class \in Class, Ask(j, class)  PROVE ExcusedWrites'
  <2>1. job'[j].phase = "walk" /\ \A i \in Job \ {j} : job'[i] = job[i]
    BY <1>1, <1>t DEF Ask, Call, LooseTypes
  <2> QED  BY <1>1, <2>1, NothingNewWritten DEF Ask
<1>2. ASSUME NEW j \in Job, SkipDisallowed(j) \/ SkipLatched(j)  PROVE ExcusedWrites'
  <2>1. job'[j].phase = "walk" /\ \A i \in Job \ {j} : job'[i] = job[i]
    BY <1>2, <1>t DEF SkipDisallowed, SkipLatched, Step, Call, LooseTypes
  <2> QED  BY <1>2, <2>1, NothingNewWritten DEF SkipDisallowed, SkipLatched
<1>3. ASSUME NEW j \in Job, StartCall(j) \/ TakeSlot(j)  PROVE ExcusedWrites'
  <2>1. job'[j].phase \in {"queue", "run"} /\ \A i \in Job \ {j} : job'[i] = job[i]
    BY <1>3, <1>t DEF StartCall, TakeSlot, Call, LooseTypes
  <2> QED  BY <1>3, <2>1, NothingNewWritten DEF StartCall, TakeSlot
<1>4. ASSUME NEW j \in Job, FailLocally(j) \/ Recover(j)  PROVE ExcusedWrites'
  <2>1. job'[j].phase \in {"walk", "queue"} /\ \A i \in Job \ {j} : job'[i] = job[i]
    <3>1. CASE FailLocally(j)
      BY <3>1, <1>t DEF FailLocally, Call, LooseTypes
    <3>2. CASE Recover(j)
      BY <3>2, <1>t DEF Recover, Call, LooseTypes
    <3> QED  BY <1>4, <3>1, <3>2
  <2> QED  BY <1>4, <2>1, NothingNewWritten DEF FailLocally, Recover
<1>5. ASSUME NEW j \in Job, EndOnContent(j) \/ GiveUp(j) \/ DropCall(j)  PROVE ExcusedWrites'
  <2>1. job'[j].phase = "done" /\ \A i \in Job \ {j} : job'[i] = job[i]
    <3>1. CASE EndOnContent(j)
      BY <3>1, <1>t DEF EndOnContent, Call, LooseTypes
    <3>2. CASE GiveUp(j)
      BY <3>2, <1>t DEF GiveUp, Call, LooseTypes
    <3>3. CASE DropCall(j)
      BY <3>3, <1>t DEF DropCall, Call, LooseTypes
    <3> QED  BY <1>5, <3>1, <3>2, <3>3
  <2> QED  BY <1>5, <2>1, NothingNewWritten DEF EndOnContent, GiveUp, DropCall
<1>6. ASSUME NEW j \in Job, Succeed(j)  PROVE ExcusedWrites'
  <2>1. job'[j].phase \in {"done", "clear"} /\ job'[j].copy = latch /\ \A i \in Job \ {j} : job'[i] = job[i]
    BY <1>6, <1>t DEF Succeed, Call, LooseTypes
  <2> QED  BY <1>6, <2>1 DEF Succeed, ExcusedWrites, Here
<1>7. ASSUME NEW j \in Job, WriteClear(j)  PROVE ExcusedWrites'
  <2>1. job[j].phase = "clear" /\ UNCHANGED excused
    BY <1>7 DEF WriteClear, Step
  <2>2. job'[j].phase = "done" /\ \A i \in Job \ {j} : job'[i] = job[i]
    BY <1>7, <1>t DEF WriteClear, Call, LooseTypes
  <2>3. \A p \in Provider : latch'[p] \in {0, job[j].copy[p]}
    BY <1>7, <1>t DEF WriteClear
  <2>4. \A p \in Provider : latch'[p] <= excused'[p]
    BY <1>u, <2>1, <2>3 DEF ExcusedWrites
  <2> QED  BY <2>1, <2>2, <2>4 DEF ExcusedWrites, Here
<1>8. ASSUME NEW j \in Job, WriteLatch(j)  PROVE ExcusedWrites'
  <2>1. job[j].phase = "latch" /\ UNCHANGED excused
    BY <1>8 DEF WriteLatch, Step
  <2>2. job'[j].phase = "walk" /\ \A i \in Job \ {j} : job'[i] = job[i]
    BY <1>8, <1>t DEF WriteLatch, Call, LooseTypes
  <2>3. \A p \in Provider : latch'[p] = IF p = Here(j) THEN job[j].until ELSE job[j].copy[p]
    BY <1>8, <1>t DEF WriteLatch
  <2>4. \A p \in Provider : latch'[p] <= excused'[p]
    BY <1>u, <2>1, <2>3 DEF ExcusedWrites
  <2> QED  BY <2>1, <2>2, <2>4 DEF ExcusedWrites, Here
<1>9. ASSUME NEW j \in Job, NEW answer \in Outage, NEW hint \in ResetHint(Here(j)),
             FailOver(j, answer, hint)
      PROVE  ExcusedWrites'
  <2> DEFINE until == LatchUntil(answer, hint)
             excuses == answer # "timeout" \/ job[j].class \in {"text", "read"}
             writes == Latchworthy(answer, job[j].class) /\ ~Keeps(Here(j), until)
  <2>1. Here(j) \in Provider /\ UNCHANGED latch
    BY <1>9, <1>h DEF FailOver, Step
  <2>2. until \in Nat
    BY <2>1, <1>u, LatchEnds
  <2>3. /\ job'[j].phase = "latch" => writes /\ job'[j].until = until /\ Here(j)' = Here(j)
        /\ job'[j].phase \in {"latch", "walk"} /\ job'[j].copy = latch
        /\ \A i \in Job \ {j} : job'[i] = job[i]
    <3> DEFINE row == [job[j] EXCEPT !.phase = IF writes THEN "latch" ELSE "walk",
                                     !.at = job[j].at + (IF writes THEN 0 ELSE 1),
                                     !.error = "outage", !.until = until, !.copy = latch]
    <3>1. job' = [job EXCEPT ![j] = row]
      BY <1>9 DEF FailOver
    <3> HIDE DEF until, writes
    <3>2. /\ row.phase \in {"latch", "walk"} /\ row.until = until /\ row.copy = latch
          /\ row.phase = "latch" => writes /\ row.at = job[j].at + 0
      BY <1>t DEF Call
    <3>3. job[j].at + 0 = job[j].at
      BY <1>t DEF Call
    <3>4. job'[j] = row /\ \A i \in Job \ {j} : job'[i] = job[i]
      BY <3>1 DEF LooseTypes
    <3> HIDE DEF row
    <3> QED  BY <3>2, <3>3, <3>4 DEF Here
  <2>4. excused' = IF excuses /\ until > excused[Here(j)]
                   THEN [excused EXCEPT ![Here(j)] = until] ELSE excused
    BY <1>9 DEF FailOver
  <2>5. writes => excuses
    BY DEF Latchworthy
  <2> HIDE DEF until, writes, excuses
  <2>6. /\ \A p \in Provider : excused[p] <= excused'[p] /\ excused'[p] \in Nat
        /\ writes => until <= excused'[Here(j)]
    BY <1>u, <2>1, <2>2, <2>4, <2>5
  <2>7. \A p \in Provider : latch'[p] <= excused'[p]
    BY <1>u, <2>1, <2>6 DEF ExcusedWrites
  <2>8. ASSUME NEW i \in Job \ {j}
        PROVE  /\ job'[i].phase \in {"latch", "clear"} =>
                    \A p \in Provider : job'[i].copy[p] <= excused'[p]
               /\ job'[i].phase = "latch" => job'[i].until <= excused'[Here(i)']
    <3>1. job'[i] = job[i] /\ Here(i)' = Here(i)
      BY <2>3 DEF Here
    <3>2. job[i].phase \in {"latch", "clear"} => \A p \in Provider : job[i].copy[p] <= excused'[p]
      BY <1>u, <2>6 DEF ExcusedWrites
    <3>3. job[i].phase = "latch" => job[i].until <= excused'[Here(i)]
      BY <1>u, <1>h, <2>6 DEF ExcusedWrites
    <3> QED  BY <3>1, <3>2, <3>3
  <2>9. /\ \A p \in Provider : job'[j].copy[p] <= excused'[p]
        /\ job'[j].phase = "latch" => job'[j].until <= excused'[Here(j)']
    BY <2>1, <2>3, <2>6, <2>7
  <2> QED  BY <2>7, <2>8, <2>9 DEF ExcusedWrites
<1>10. ASSUME NEW q \in Process, ProcessDies(q)  PROVE ExcusedWrites'
  <2>1. \A j \in Job : job'[j] = job[j] \/ job'[j].phase = "done"
    BY <1>10, <1>t DEF ProcessDies, Call
  <2> QED  BY <1>10, <2>1, NothingNewWritten DEF ProcessDies
<1>11. CASE UNCHANGED chainVars
  BY <1>11, NothingNewWritten DEF chainVars
<1> QED
  BY <1>1, <1>2, <1>3, <1>4, <1>5, <1>6, <1>7, <1>8, <1>9, <1>10, <1>11, ChainAssumption
     DEF ChainNext, CallStep, allChainVars

-----------------------------------------------------------------------------
(* Theorems. *)

\* Every step of a call or a restart keeps the invariant.
LEMMA StepChain == ChainInv /\ [ChainNext]_allChainVars => ChainInv'
  BY StepInPlace, StepBalance, StepExcused DEF ChainInv

\* A call that runs holds a permit, so that permits are counted in range.
LEMMA ChainInvTypes == ChainInv => ChainTypes
<1> SUFFICES ASSUME ChainInv PROVE ChainTypes
  OBVIOUS
<1>1. ASSUME NEW q \in Process  PROVE slots[q] \in 0 .. Slots
  BY FS_CardinalityType, ChainAssumption DEF ChainInv, LooseTypes, Balance
<1> QED  BY <1>1 DEF ChainInv, LooseTypes, ChainTypes, Call

(* Calls, latches and permits keep their types, for any chain of distinct  *)
(* providers, any number of calls and any capacity of the gates.           *)
THEOREM ChainTypesHold == ChainSpec => []ChainTypes
  BY ChainInvTypes, InitChain, StepChain, PTL DEF ChainSpec

(* No permit of a gate leaks and none is handed out twice, whatever        *)
(* recovery, dropped callers, dying processes and failing providers do.    *)
THEOREM SlotsAreBalanced == ChainSpec => []SlotsBalance
<1>1. ChainInv => SlotsBalance
  BY DEF ChainInv, Balance, Running, SlotsBalance
<1> QED  BY <1>1, InitChain, StepChain, PTL DEF ChainSpec

(* No interleaving of the two halves of a latch write skips a provider     *)
(* longer than an outage it reported excuses.                              *)
THEOREM LatchesAreExcused == ChainSpec => []LatchIsExcused
<1>1. ChainInv => LatchIsExcused
  BY DEF ChainInv, ExcusedWrites, LatchIsExcused
<1> QED  BY <1>1, InitChain, StepChain, PTL DEF ChainSpec

=============================================================================
