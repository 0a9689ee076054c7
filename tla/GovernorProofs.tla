---------------------------- MODULE GovernorProofs ----------------------------
(***************************************************************************)
(* The caps of the rate governor, for any number of callers, any caps and  *)
(* windows.  permit() counts what is recorded and reserves nothing, so the *)
(* invariant counts, beside what a window holds, the callers that hold a   *)
(* permit in it and the ones whose count would still let them have one:    *)
(* all of them together stay within the cap and one for every other caller.*)
(*                                                                         *)
(* The scheduled posts, which the governor may defer, come after it.       *)
(***************************************************************************)
EXTENDS ScheduledPost, FiniteSetTheorems, TLAPS

(* Callers that have added to the window that ends now, or still may: the  *)
(* ones whose permit falls in it, and the ones whose own count, taken at   *)
(* the clock they read, leaves room.                                       *)
Contend(kind, span, cap) ==
    {c \in Caller :
        /\ asking[c].kind = kind
        /\ \/ asking[c].step \in {"permitted", "acted"} /\ asking[c].at \in (now - span) .. now
           \/ /\ asking[c].step = "counting"
              /\ Cardinality(Spent(kind, asking[c].at - span, asking[c].at)) < cap}

Pressure(kind, span, cap) ==
    Cardinality(Spent(kind, now - span, now)) + Cardinality(Contend(kind, span, cap))
        <= cap + Overrun

(* Nothing is dated in the future, permits have numbers, and nothing is    *)
(* asked or recorded before the warmup row exists.                         *)
Dated ==
    /\ \A c \in Caller : asking[c].at <= now
    /\ \A e \in events : e.at <= now
    /\ \A c \in Caller : asking[c].step \in {"permitted", "acted"} =>
           asking[c].id > 0 /\ asking[c].kind \in Kind
    /\ \A c \in Caller : asking[c].step = "counting" => asking[c].kind \in Kind
    /\ warmup = Unseeded => events = {} /\ \A c \in Caller : asking[c].step = "idle"
    /\ warmup <= now

GovernorInv == DaemonTypes /\ GovernorTypes /\ IsFiniteSet(events) /\ Dated

-----------------------------------------------------------------------------
(* Types and dates. *)

\* Nothing is spent and nobody asks.
LEMMA InitGovernorInv == DaemonInit /\ GovernorInit => GovernorInv
  BY DaemonAssumption, GovernorAssumption, FS_EmptySet
     DEF DaemonInit, GovernorInit, GovernorInv, DaemonTypes, GovernorTypes, Dated, Idle, Unseeded

(* Every step keeps the rows and requests well typed and dated.            *)
LEMMA StepGovernorInv == GovernorInv /\ [GovernorNext]_<<daemonVars, govVars>> => GovernorInv'
<1> SUFFICES ASSUME GovernorInv, [GovernorNext]_<<daemonVars, govVars>> PROVE GovernorInv'
  OBVIOUS
<1> USE DaemonAssumption, GovernorAssumption
    DEF GovernorInv, DaemonTypes, GovernorTypes, Dated, Idle, Request, Unseeded,
        daemonVars, govVars
<1>1. ASSUME NEW c \in Caller, GovernorStep(c) PROVE GovernorInv'
  <2>1. ASSUME NEW kind \in Kind, PassGates(c, kind) PROVE GovernorInv'
    BY <2>1 DEF PassGates
  <2>2. CASE Grant(c)
    BY <2>2 DEF Grant
  <2>3. CASE Deny(c)
    BY <2>3 DEF Deny
  <2>4. CASE Act(c)
    BY <2>4 DEF Act
  <2>5. ASSUME NEW outcome \in Outcomes, Record(c, outcome) PROVE GovernorInv'
    <3> DEFINE e == [id |-> asking[c].id, kind |-> asking[c].kind,
                     at |-> asking[c].at, status |-> outcome]
    <3>1. e \in Event /\ e.at <= now
      BY <2>5 DEF Record, Event
    <3>2. IsFiniteSet(events \cup {e})
      BY FS_AddElement
    <3>3. events' = events \cup {e}
      BY <2>5 DEF Record
    <3> QED  BY <2>5, <3>1, <3>2, <3>3 DEF Record
  <2>6. CASE HaltOnSuspicion(c)
    BY <2>6 DEF HaltOnSuspicion, SetHalt
  <2> QED  BY <1>1, <2>1, <2>2, <2>3, <2>4, <2>5, <2>6 DEF GovernorStep
<1>2. ASSUME NEW span \in 1 .. HaltSpan, RecordHalt(span) PROVE GovernorInv'
  BY <1>2 DEF RecordHalt, SetHalt
<1>3. CASE GovernorRestart
  BY <1>3 DEF GovernorRestart, Restarts
<1>4. CASE Tick /\ UNCHANGED govVars
  BY <1>4 DEF Tick, Event
<1>5. CASE UNCHANGED <<daemonVars, govVars>>
  BY <1>5
<1> QED  BY <1>1, <1>2, <1>3, <1>4, <1>5 DEF GovernorNext

(* The governor's rows and requests keep their types, whatever the callers *)
(* and restarts do.                                                        *)
THEOREM GovernorTypesHold == GovernorSpec => []GovernorTypes
<1>1. GovernorInv => GovernorTypes
  BY DEF GovernorInv
<1> QED  BY <1>1, InitGovernorInv, StepGovernorInv, PTL DEF GovernorSpec

-----------------------------------------------------------------------------
(* Counting. *)

(* What a window holds is finite, and a smaller set counts less.           *)
LEMMA Finite ==
  ASSUME GovernorInv, NEW kind, NEW span \in Nat, NEW cap \in Nat, NEW t \in Int
  PROVE  /\ IsFiniteSet(Spent(kind, t - span, t))
         /\ Cardinality(Spent(kind, t - span, t)) \in Nat
         /\ IsFiniteSet(Contend(kind, span, cap))
         /\ Cardinality(Contend(kind, span, cap)) \in Nat
         /\ Cardinality(Contend(kind, span, cap)) <= Cardinality(Caller)
         /\ IsFiniteSet(Promised(kind, t - span, t))
         /\ Cardinality(Promised(kind, t - span, t)) \in Nat
         /\ Cardinality(Caller) \in Nat \ {0}
<1>1. /\ Spent(kind, t - span, t) \subseteq events
      /\ Contend(kind, span, cap) \subseteq Caller
      /\ Promised(kind, t - span, t) \subseteq Caller
  BY DEF Spent, Contend, Promised
<1>2. IsFiniteSet(events) /\ IsFiniteSet(Caller) /\ Caller # {}
  BY GovernorAssumption DEF GovernorInv
<1>3. Cardinality(Caller) \in Nat /\ Cardinality(Caller) # 0
  BY <1>2, FS_CardinalityType, FS_EmptySet
<1>4. /\ IsFiniteSet(Spent(kind, t - span, t))
      /\ IsFiniteSet(Contend(kind, span, cap))
      /\ IsFiniteSet(Promised(kind, t - span, t))
      /\ Cardinality(Contend(kind, span, cap)) <= Cardinality(Caller)
  BY <1>1, <1>2, FS_Subset
<1> QED  BY <1>3, <1>4, FS_CardinalityType

(* The counting argument: nothing joined either set, or what joined one    *)
(* left the other.                                                         *)
LEMMA NoLarger ==
  ASSUME NEW S, NEW C, NEW S2, NEW C2, IsFiniteSet(S), C \subseteq Caller,
         \/ S2 \subseteq S /\ C2 \subseteq C
         \/ \E e : \E c \in C : S2 \subseteq S \cup {e} /\ C2 \subseteq C \ {c}
  PROVE  Cardinality(S2) + Cardinality(C2) <= Cardinality(S) + Cardinality(C)
<1>1. IsFiniteSet(C)
  BY GovernorAssumption, FS_Subset
<1>2. Cardinality(S) \in Nat /\ Cardinality(C) \in Nat
  BY <1>1, FS_CardinalityType
<1>3. CASE S2 \subseteq S /\ C2 \subseteq C
  <2>1. /\ IsFiniteSet(S2) /\ Cardinality(S2) <= Cardinality(S)
        /\ IsFiniteSet(C2) /\ Cardinality(C2) <= Cardinality(C)
    BY <1>1, <1>3, FS_Subset
  <2>2. Cardinality(S2) \in Nat /\ Cardinality(C2) \in Nat
    BY <2>1, FS_CardinalityType
  <2> QED  BY <1>2, <2>1, <2>2
<1>4. CASE \E e : \E c \in C : S2 \subseteq S \cup {e} /\ C2 \subseteq C \ {c}
  <2>1. PICK e : \E c \in C : S2 \subseteq S \cup {e} /\ C2 \subseteq C \ {c}
    BY <1>4
  <2>2. PICK c \in C : S2 \subseteq S \cup {e} /\ C2 \subseteq C \ {c}
    BY <2>1
  <2>3. IsFiniteSet(S \cup {e}) /\ Cardinality(S \cup {e}) <= Cardinality(S) + 1
    <3>1. /\ IsFiniteSet(S \cup {e})
          /\ Cardinality(S \cup {e}) = IF e \in S THEN Cardinality(S) ELSE Cardinality(S) + 1
      BY FS_AddElement, Zenon
    <3> QED  BY <1>2, <3>1
  <2>4. IsFiniteSet(C \ {c}) /\ Cardinality(C \ {c}) = Cardinality(C) - 1
    BY <1>1, FS_RemoveElement
  <2>5. IsFiniteSet(S2) /\ Cardinality(S2) <= Cardinality(S \cup {e})
    BY <2>2, <2>3, FS_Subset
  <2>6. IsFiniteSet(C2) /\ Cardinality(C2) <= Cardinality(C \ {c})
    BY <2>2, <2>4, FS_Subset
  <2>7. /\ Cardinality(S2) \in Nat /\ Cardinality(C2) \in Nat
        /\ Cardinality(S \cup {e}) \in Nat
    BY <2>3, <2>5, <2>6, FS_CardinalityType
  <2> QED  BY <1>2, <2>3, <2>4, <2>5, <2>6, <2>7
<1> QED  BY <1>3, <1>4

(* Or else the window has room for every caller.                           *)
LEMMA StaysBounded ==
  ASSUME NEW S, NEW C, NEW S2, NEW C2, NEW cap \in Nat,
         IsFiniteSet(S), C \subseteq Caller, C2 \subseteq Caller,
         Cardinality(S) + Cardinality(C) <= cap + Overrun,
         \/ S2 \subseteq S /\ C2 \subseteq C
         \/ S2 \subseteq S /\ Cardinality(S) < cap
         \/ \E e : \E c \in C : S2 \subseteq S \cup {e} /\ C2 \subseteq C \ {c}
  PROVE  Cardinality(S2) + Cardinality(C2) <= cap + Overrun
<1>1. CASE S2 \subseteq S /\ Cardinality(S) < cap
  <2>1. /\ IsFiniteSet(Caller) /\ IsFiniteSet(S2) /\ IsFiniteSet(C2)
        /\ Cardinality(S2) <= Cardinality(S) /\ Cardinality(C2) <= Cardinality(Caller)
    BY <1>1, GovernorAssumption, FS_Subset
  <2>2. /\ Cardinality(Caller) \in Nat /\ Cardinality(S) \in Nat
        /\ Cardinality(S2) \in Nat /\ Cardinality(C2) \in Nat
    BY <2>1, FS_CardinalityType
  <2> QED  BY <1>1, <2>1, <2>2 DEF Overrun
<1>2. CASE \/ S2 \subseteq S /\ C2 \subseteq C
           \/ \E e : \E c \in C : S2 \subseteq S \cup {e} /\ C2 \subseteq C \ {c}
  <2>1. Cardinality(S2) + Cardinality(C2) <= Cardinality(S) + Cardinality(C)
    BY <1>2, NoLarger
  <2>2. /\ IsFiniteSet(Caller) /\ IsFiniteSet(C) /\ IsFiniteSet(C2)
    BY GovernorAssumption, FS_Subset
  <2>3. IsFiniteSet(S2)
    <3>1. \A e : IsFiniteSet(S \cup {e})
      BY FS_AddElement
    <3> QED  BY <1>2, <3>1, FS_Subset
  <2>4. /\ Cardinality(Caller) \in Nat /\ Cardinality(S) \in Nat /\ Cardinality(C) \in Nat
        /\ Cardinality(S2) \in Nat /\ Cardinality(C2) \in Nat
    BY <2>2, <2>3, FS_CardinalityType
  <2> QED  BY <2>1, <2>4 DEF Overrun
<1> QED  BY <1>1, <1>2

(* Spent, with the table as an argument. *)
Held(table, kind, from, to) ==
    {e \in table : e.kind = kind /\ e.at \in from .. to /\ e.status # "rolled_back"}

\* More rows hold no less of a cap.
LEMMA HeldGrows ==
  ASSUME NEW S, NEW T, S \subseteq T, IsFiniteSet(T), NEW kind, NEW from, NEW to
  PROVE  /\ Cardinality(Held(S, kind, from, to)) <= Cardinality(Held(T, kind, from, to))
         /\ Cardinality(Held(S, kind, from, to)) \in Nat
         /\ Cardinality(Held(T, kind, from, to)) \in Nat
<1>1. Held(T, kind, from, to) \subseteq T /\ Held(S, kind, from, to) \subseteq Held(T, kind, from, to)
  BY DEF Held
<1>2. IsFiniteSet(Held(T, kind, from, to))
  BY <1>1, FS_Subset
<1> QED  BY <1>1, <1>2, FS_Subset, FS_CardinalityType

(* Who contends after a step that left its request alone did before: its   *)
(* count can only have grown, and the window can only have moved on.       *)
LEMMA StillContends ==
  ASSUME GovernorInv, GovernorInv', events \subseteq events', now <= now',
         NEW kind, NEW span \in Nat, NEW cap \in Nat,
         NEW c \in Caller, asking'[c] = asking[c], c \in Contend(kind, span, cap)'
  PROVE  c \in Contend(kind, span, cap)
<1>1. /\ now \in Int /\ now' \in Int /\ asking[c].at \in Int /\ asking[c].at <= now
      /\ IsFiniteSet(events')
  BY DEF GovernorInv, DaemonTypes, GovernorTypes, Dated
<1>2. /\ asking[c].kind = kind
      /\ \/ asking[c].step \in {"permitted", "acted"} /\ asking[c].at \in (now' - span) .. now'
         \/ /\ asking[c].step = "counting"
            /\ Cardinality(Held(events', kind, asking[c].at - span, asking[c].at)) < cap
  BY DEF Contend, Spent, Held
<1>3. /\ Cardinality(Held(events, kind, asking[c].at - span, asking[c].at))
           <= Cardinality(Held(events', kind, asking[c].at - span, asking[c].at))
      /\ Cardinality(Held(events, kind, asking[c].at - span, asking[c].at)) \in Nat
      /\ Cardinality(Held(events', kind, asking[c].at - span, asking[c].at)) \in Nat
  BY <1>1, HeldGrows
<1>4. Spent(kind, asking[c].at - span, asking[c].at)
        = Held(events, kind, asking[c].at - span, asking[c].at)
  BY DEF Spent, Held
<1> QED  BY <1>1, <1>2, <1>3, <1>4 DEF Contend

-----------------------------------------------------------------------------
(* One window. *)

(* The state a proof about one window starts from: it is a window for      *)
(* which Grant asks for headroom.                                          *)
Guarded(kind, span, cap) ==
    \A c \in Caller :
        Grant(c) /\ asking[c].kind = kind =>
            Cardinality(Spent(kind, asking[c].at - span, asking[c].at)) < cap

(* Only a request of another step or date can join the contenders, and it  *)
(* joins by passing the gates.                                             *)
LEMMA StepPressure ==
  ASSUME GovernorInv, [GovernorNext]_<<daemonVars, govVars>>,
         NEW kind \in Kind, NEW span \in Nat, NEW cap \in Nat,
         Guarded(kind, span, cap), Pressure(kind, span, cap)
  PROVE  Pressure(kind, span, cap)'
<1> DEFINE S == Spent(kind, now - span, now)
           C == Contend(kind, span, cap)
<1>1. GovernorInv' /\ now \in Int /\ now' \in Int
  BY StepGovernorInv DEF GovernorInv, DaemonTypes
<1>2. now <= now' /\ now' <= now + 1
  BY <1>1 DEF GovernorNext, GovernorStep, PassGates, Grant, Deny, Act, Record, HaltOnSuspicion,
       RecordHalt, GovernorRestart, Restarts, Tick, daemonVars
<1>3. IsFiniteSet(S) /\ C \subseteq Caller /\ C' \subseteq Caller
  BY <1>1, Finite DEF Contend
<1>4. SUFFICES \/ S' \subseteq S /\ C' \subseteq C
               \/ S' \subseteq S /\ Cardinality(S) < cap
               \/ \E e : \E c \in C : S' \subseteq S \cup {e} /\ C' \subseteq C \ {c}
  <2>1. Cardinality(S) + Cardinality(C) <= cap + Overrun
    BY DEF Pressure
  <2>2. Cardinality(S') + Cardinality(C') <= cap + Overrun
    BY <1>3, <1>4, <2>1, StaysBounded
  <2> QED  BY <2>2 DEF Pressure, Overrun
<1>5. ASSUME UNCHANGED events PROVE S' \subseteq S
  BY <1>1, <1>2, <1>5 DEF Spent, GovernorInv, GovernorTypes, Dated, Event
<1>6. ASSUME UNCHANGED events, NEW c \in Caller, asking'[c].step \notin {"counting", "permitted", "acted"},
             \A d \in Caller \ {c} : asking'[d] = asking[d]
      PROVE  S' \subseteq S /\ C' \subseteq C
  <2>1. c \notin C'
    BY <1>6 DEF Contend
  <2>2. \A d \in Caller \ {c} : d \in C' => d \in C
    BY <1>1, <1>2, <1>6, StillContends
  <2> QED  BY <1>3, <1>5, <1>6, <2>1, <2>2
<1>7. ASSUME NEW c \in Caller, NEW k \in Kind, PassGates(c, k)
      PROVE  S' \subseteq S /\ (C' \subseteq C \/ Cardinality(S) < cap)
  <2>1. /\ UNCHANGED <<events, now>>
        /\ asking'[c] = Request("counting", k, now, 0)
        /\ \A d \in Caller \ {c} : asking'[d] = asking[d]
    BY <1>7 DEF PassGates, GovernorInv, GovernorTypes, daemonVars
  <2>2. \A d \in Caller \ {c} : d \in C' => d \in C
    BY <1>1, <1>2, <2>1, StillContends
  <2>3. c \in C' => Cardinality(S) < cap
    <3>1. c \in C' => Cardinality(Spent(kind, asking[c].at - span, asking[c].at)') < cap
      BY <2>1 DEF Contend, Request
    <3>2. Spent(kind, asking[c].at - span, asking[c].at)' = S
      BY <2>1 DEF Spent, Request
    <3> QED  BY <3>1, <3>2
  <2> QED  BY <1>3, <1>5, <2>1, <2>2, <2>3
<1>8. ASSUME NEW c \in Caller, Grant(c) PROVE S' \subseteq S /\ C' \subseteq C
  <2>1. /\ UNCHANGED <<events, now>>
        /\ asking[c].step = "counting"
        /\ asking'[c] = Request("permitted", asking[c].kind, now, permits + 1)
        /\ \A d \in Caller \ {c} : asking'[d] = asking[d]
    BY <1>8 DEF Grant, GovernorInv, GovernorTypes, daemonVars
  <2>2. \A d \in Caller \ {c} : d \in C' => d \in C
    BY <1>1, <1>2, <2>1, StillContends
  <2>3. c \in C' => c \in C
    BY <1>8, <2>1 DEF Contend, Request, Guarded
  <2> QED  BY <1>3, <1>5, <2>1, <2>2, <2>3
<1>9. ASSUME NEW c \in Caller, Act(c) PROVE S' \subseteq S /\ C' \subseteq C
  <2>1. /\ UNCHANGED <<events, now>>
        /\ asking[c].step = "permitted"
        /\ asking'[c] = [asking[c] EXCEPT !.step = "acted"]
        /\ \A d \in Caller \ {c} : asking'[d] = asking[d]
    BY <1>9 DEF Act, GovernorInv, GovernorTypes, daemonVars
  <2>2. \A d \in Caller \ {c} : d \in C' => d \in C
    BY <1>1, <1>2, <2>1, StillContends
  <2>3. asking'[c].kind = asking[c].kind /\ asking'[c].at = asking[c].at /\ asking'[c].step = "acted"
    BY <2>1 DEF GovernorInv, GovernorTypes
  <2>4. c \in C' => c \in C
    BY <2>1, <2>3 DEF Contend
  <2> QED  BY <1>3, <1>5, <2>1, <2>2, <2>4
<1>10. ASSUME NEW c \in Caller, NEW outcome \in Outcomes, Record(c, outcome)
       PROVE  \/ S' \subseteq S /\ C' \subseteq C
              \/ \E e : \E d \in C : S' \subseteq S \cup {e} /\ C' \subseteq C \ {d}
  <2> DEFINE e == [id |-> asking[c].id, kind |-> asking[c].kind,
                   at |-> asking[c].at, status |-> outcome]
  <2>1. /\ events' = events \cup {e} /\ UNCHANGED now
        /\ asking[c].step = "acted"
        /\ asking'[c].step \in {"suspicious", "idle"}
        /\ \A d \in Caller \ {c} : asking'[d] = asking[d]
    BY <1>10 DEF Record, GovernorInv, GovernorTypes, daemonVars, Idle
  <2>2. \A d \in Caller \ {c} : d \in C' => d \in C
    BY <1>1, <1>2, <2>1, StillContends
  <2>3. c \notin C'
    BY <2>1 DEF Contend
  <2>4. S' \subseteq S \cup {e}
    BY <2>1 DEF Spent
  <2>5. CASE c \in C
    BY <1>3, <2>2, <2>3, <2>4, <2>5
  <2>6. CASE c \notin C
    <3>1. asking[c].kind # kind \/ asking[c].at \notin (now - span) .. now
      BY <2>1, <2>6 DEF Contend
    <3>2. e \notin S'
      BY <2>1, <3>1 DEF Spent
    <3> QED  BY <1>3, <2>2, <2>3, <2>4, <3>2
  <2> QED  BY <2>5, <2>6
<1>11. ASSUME NEW c \in Caller, Deny(c) \/ HaltOnSuspicion(c) PROVE S' \subseteq S /\ C' \subseteq C
  BY <1>6, <1>11 DEF Deny, HaltOnSuspicion, GovernorInv, GovernorTypes, Idle
<1>12. ASSUME UNCHANGED <<events, asking>> PROVE S' \subseteq S /\ C' \subseteq C
  <2>1. \A d \in Caller : d \in C' => d \in C
    BY <1>1, <1>2, <1>12, StillContends
  <2> QED  BY <1>3, <1>5, <1>12, <2>1
<1>13. CASE GovernorRestart
  <2>1. C' = {}
    BY <1>13 DEF GovernorRestart, Contend, Idle
  <2> QED  BY <1>5, <1>13, <2>1 DEF GovernorRestart
<1>14. CASE \E c \in Caller : GovernorStep(c)
  BY <1>7, <1>8, <1>9, <1>10, <1>11, <1>14 DEF GovernorStep
<1> QED  BY <1>12, <1>13, <1>14 DEF GovernorNext, RecordHalt, govVars

(* What a window that lies behind holds can only be given back: a permit   *)
(* is reserved at the present, and recording it moves it from the caller   *)
(* to the table.                                                           *)
LEMMA PastLoad ==
  ASSUME GovernorInv, [GovernorNext]_<<daemonVars, govVars>>,
         NEW kind \in Kind, NEW span \in Nat, NEW t \in Nat, t < now'
  PROVE  t <= now /\ Load(kind, t - span, t)' <= Load(kind, t - span, t)
<1> DEFINE S == Spent(kind, t - span, t)
           C == Promised(kind, t - span, t)
<1>1. GovernorInv' /\ now \in Int /\ now' \in Int
  BY StepGovernorInv DEF GovernorInv, DaemonTypes
<1>2. t <= now /\ (t < now \/ UNCHANGED govVars)
  BY <1>1 DEF GovernorNext, GovernorStep, PassGates, Grant, Deny, Act, Record, HaltOnSuspicion,
       RecordHalt, GovernorRestart, Restarts, Tick, daemonVars
<1>3. IsFiniteSet(S) /\ C \subseteq Caller
  BY FS_Subset DEF Spent, Promised, GovernorInv
<1>4. SUFFICES \/ S' \subseteq S /\ C' \subseteq C
               \/ \E e : \E c \in C : S' \subseteq S \cup {e} /\ C' \subseteq C \ {c}
  <2>1. Cardinality(S') + Cardinality(C') <= Cardinality(S) + Cardinality(C)
    BY <1>3, <1>4, NoLarger
  <2> QED  BY <1>2, <2>1 DEF Load
<1> USE DEF Spent, Promised
<1>5. CASE UNCHANGED govVars
  BY <1>5 DEF govVars
<1>6. CASE t < now
  <2>1. ASSUME NEW c \in Caller, GovernorStep(c), ~ \E outcome \in Outcomes : Record(c, outcome)
        PROVE  S' \subseteq S /\ C' \subseteq C
    BY <1>1, <1>6, <2>1
       DEF GovernorStep, PassGates, Grant, Deny, Act, HaltOnSuspicion, Request, Idle,
           GovernorInv, GovernorTypes
  <2>2. ASSUME NEW c \in Caller, NEW outcome \in Outcomes, Record(c, outcome)
        PROVE  \/ S' \subseteq S /\ C' \subseteq C
               \/ \E e : \E d \in C : S' \subseteq S \cup {e} /\ C' \subseteq C \ {d}
    <3> DEFINE e == [id |-> asking[c].id, kind |-> asking[c].kind,
                     at |-> asking[c].at, status |-> outcome]
    <3>1. /\ events' = events \cup {e}
          /\ asking[c].step = "acted" /\ asking'[c].step \in {"suspicious", "idle"}
          /\ \A d \in Caller \ {c} : asking'[d] = asking[d]
      BY <2>2 DEF Record, GovernorInv, GovernorTypes, Idle
    <3>2. S' \subseteq S \cup {e} /\ C' \subseteq C \ {c}
      BY <3>1
    <3>3. c \notin C => e \notin S'
      BY <3>1
    <3> QED  BY <3>2, <3>3
  <2>3. CASE GovernorRestart
    BY <2>3 DEF GovernorRestart, Idle
  <2>4. ASSUME NEW until \in 1 .. HaltSpan, RecordHalt(until) PROVE S' \subseteq S /\ C' \subseteq C
    BY <2>4 DEF RecordHalt
  <2> QED  BY <1>5, <2>1, <2>2, <2>3, <2>4 DEF GovernorNext
<1> QED  BY <1>2, <1>5, <1>6

(* What holds a permit in the present window contends for it.              *)
LEMMA PresentLoad ==
  ASSUME GovernorInv, NEW kind, NEW span \in Nat, NEW cap \in Nat, Pressure(kind, span, cap)
  PROVE  Load(kind, now - span, now) <= cap + Overrun
<1>1. now \in Int
  BY DEF GovernorInv, DaemonTypes
<1>2. Promised(kind, now - span, now) \subseteq Contend(kind, span, cap)
  BY DEF Promised, Contend
<1>3. Cardinality(Promised(kind, now - span, now)) <= Cardinality(Contend(kind, span, cap))
  BY <1>1, <1>2, Finite, FS_Subset
<1>4. /\ Cardinality(Spent(kind, now - span, now)) \in Nat
      /\ Cardinality(Contend(kind, span, cap)) \in Nat
      /\ Cardinality(Promised(kind, now - span, now)) \in Nat
      /\ Cardinality(Caller) \in Nat
  BY <1>1, Finite
<1> QED  BY <1>3, <1>4 DEF Pressure, Load, Overrun

-----------------------------------------------------------------------------
(* The caps. *)

(* The first step of the warmup curve, as far as the present goes.         *)
Early == warmup = Unseeded \/ now - warmup < WeekSpan

Bounded(kind, span, cap, t) == Load(kind, t - span, t) <= cap + Overrun

PastWindows ==
    \A kind \in Kind, t \in Nat : t < now =>
        /\ Bounded(kind, GapSpan - 1, 1, t)
        /\ Bounded(kind, BurstSpan, BurstCap, t)
        /\ Bounded(kind, DaySpan, DayCap, t)
        /\ warmup # Unseeded /\ t - warmup < WeekSpan =>
              Bounded(kind, DaySpan, Scaled(DayCap, 25), t)

PresentWindows ==
    \A kind \in Kind :
        /\ Pressure(kind, GapSpan - 1, 1)
        /\ Pressure(kind, BurstSpan, BurstCap)
        /\ Pressure(kind, DaySpan, DayCap)
        /\ Early => Pressure(kind, DaySpan, Scaled(DayCap, 25))

CapsInv == GovernorInv /\ PresentWindows /\ PastWindows

(* Warmup never raises a cap, and the young account has the lowest share.  *)
LEMMA ScaledCaps ==
  /\ Scaled(DayCap, 25) \in Nat \ {0}
  /\ \A age \in Int : Scaled(DayCap, WarmupPercent(age)) <= DayCap
  /\ \A age \in Int : age < WeekSpan => Scaled(DayCap, WarmupPercent(age)) = Scaled(DayCap, 25)
<1>1. \A n \in Nat \ {0} :
         /\ (n * 25) \div 100 \in Nat /\ (n * 25) \div 100 <= n
         /\ (n * 50) \div 100 \in Nat /\ (n * 50) \div 100 <= n
         /\ (n * 75) \div 100 \in Nat /\ (n * 75) \div 100 <= n
         /\ (n * 90) \div 100 \in Nat /\ (n * 90) \div 100 <= n
         /\ (n * 100) \div 100 \in Nat /\ (n * 100) \div 100 <= n
  OBVIOUS
<1>2. \A percent \in {25, 50, 75, 90, 100} :
         Scaled(DayCap, percent) \in Nat \ {0} /\ Scaled(DayCap, percent) <= DayCap
  BY <1>1, GovernorAssumption DEF Scaled
<1>3. ASSUME NEW age \in Int
      PROVE  /\ WarmupPercent(age) \in {25, 50, 75, 90, 100}
             /\ age < WeekSpan => WarmupPercent(age) = 25
  <2>1. WeekSpan \in Int /\ 2 * WeekSpan > WeekSpan /\ 3 * WeekSpan > WeekSpan /\ 4 * WeekSpan > WeekSpan
    BY GovernorAssumption
  <2>2. CASE age < WeekSpan
    BY <2>1, <2>2 DEF WarmupPercent
  <2>3. CASE ~(age < WeekSpan)
    BY <2>1, <2>3 DEF WarmupPercent
  <2> QED  BY <2>2, <2>3
<1> QED  BY <1>2, <1>3

(* Every grant has headroom in each of the windows.                        *)
LEMMA GrantsAreGuarded ==
  ASSUME GovernorInv, NEW kind \in Kind
  PROVE  /\ Guarded(kind, GapSpan - 1, 1)
         /\ Guarded(kind, BurstSpan, BurstCap)
         /\ Guarded(kind, DaySpan, DayCap)
         /\ Early => Guarded(kind, DaySpan, Scaled(DayCap, 25))
<1> SUFFICES ASSUME NEW c \in Caller, Grant(c), asking[c].kind = kind
             PROVE  /\ Cardinality(Spent(kind, asking[c].at - (GapSpan - 1), asking[c].at)) < 1
                    /\ Cardinality(Spent(kind, asking[c].at - BurstSpan, asking[c].at)) < BurstCap
                    /\ Cardinality(Spent(kind, asking[c].at - DaySpan, asking[c].at)) < DayCap
                    /\ Early => Cardinality(Spent(kind, asking[c].at - DaySpan, asking[c].at))
                                  < Scaled(DayCap, 25)
  BY DEF Guarded
<1> DEFINE t == asking[c].at
<1>1. t \in Int /\ now \in Int /\ warmup \in Int /\ t <= now /\ warmup # Unseeded
  BY DEF GovernorInv, GovernorTypes, DaemonTypes, Dated, Grant, Unseeded
<1>2. GapHeadroom(kind, t) /\ BurstHeadroom(kind, t) /\ DayHeadroom(kind, t)
  BY DEF Grant, Headroom
<1>3. Spent(kind, t - (GapSpan - 1), t) = {}
  BY <1>1, <1>2, GovernorAssumption DEF GapHeadroom, Spent, GovernorInv, GovernorTypes, Event
<1>4. Cardinality(Spent(kind, t - DaySpan, t)) < Scaled(DayCap, WarmupPercent(t - warmup))
  BY <1>2 DEF DayHeadroom
<1>5. Cardinality(Spent(kind, t - DaySpan, t)) \in Nat
  <2>1. IsFiniteSet(Spent(kind, t - DaySpan, t))
    BY FS_Subset DEF Spent, GovernorInv
  <2> QED  BY <2>1, FS_CardinalityType
<1>6. /\ Scaled(DayCap, 25) \in Nat /\ Scaled(DayCap, WarmupPercent(t - warmup)) <= DayCap
      /\ t - warmup < WeekSpan => Scaled(DayCap, WarmupPercent(t - warmup)) = Scaled(DayCap, 25)
  BY <1>1, ScaledCaps
<1>7. Scaled(DayCap, WarmupPercent(t - warmup)) \in Int
  BY <1>1, GovernorAssumption DEF Scaled, WarmupPercent
<1>8. Early => t - warmup < WeekSpan
  BY <1>1, GovernorAssumption DEF Early
<1>9. Cardinality(Spent(kind, t - (GapSpan - 1), t)) < 1
  BY <1>3, FS_EmptySet
<1>10. Cardinality(Spent(kind, t - BurstSpan, t)) < BurstCap
  BY <1>2 DEF BurstHeadroom
<1>11. Cardinality(Spent(kind, t - DaySpan, t)) < DayCap
  BY <1>4, <1>5, <1>6, <1>7, GovernorAssumption
<1> QED  BY <1>4, <1>6, <1>8, <1>9, <1>10, <1>11

\* With nothing spent, the caps hold.
LEMMA InitCaps == DaemonInit /\ GovernorInit => CapsInv
<1> SUFFICES ASSUME DaemonInit, GovernorInit PROVE CapsInv
  OBVIOUS
<1>1. GovernorInv /\ now = 0
  BY InitGovernorInv DEF DaemonInit
<1>2. ASSUME NEW kind \in Kind, NEW span \in Nat, NEW cap \in Nat \ {0} PROVE Pressure(kind, span, cap)
  <2>1. Spent(kind, now - span, now) = {} /\ Contend(kind, span, cap) = {}
    BY DEF GovernorInit, Spent, Contend, Idle
  <2>2. Cardinality(Caller) \in Nat \ {0}
    BY <1>1, Finite
  <2> QED  BY <2>1, <2>2, FS_EmptySet DEF Pressure, Overrun
<1>3. PresentWindows
  BY <1>2, ScaledCaps, GovernorAssumption DEF PresentWindows
<1>4. PastWindows
  BY <1>1 DEF PastWindows
<1> QED  BY <1>1, <1>3, <1>4 DEF CapsInv

(* The present windows stay bounded: a step that grants had headroom.      *)
LEMMA StepPresent == CapsInv /\ [GovernorNext]_<<daemonVars, govVars>> => PresentWindows'
<1> SUFFICES ASSUME CapsInv, [GovernorNext]_<<daemonVars, govVars>>, NEW kind \in Kind
             PROVE  /\ Pressure(kind, GapSpan - 1, 1)'
                    /\ Pressure(kind, BurstSpan, BurstCap)'
                    /\ Pressure(kind, DaySpan, DayCap)'
                    /\ Early' => Pressure(kind, DaySpan, Scaled(DayCap, 25))'
  BY DEF PresentWindows
<1>1. GovernorInv /\ PresentWindows
  BY DEF CapsInv
<1>2. /\ GapSpan - 1 \in Nat /\ 1 \in Nat /\ BurstSpan \in Nat /\ BurstCap \in Nat
      /\ DaySpan \in Nat /\ DayCap \in Nat /\ Scaled(DayCap, 25) \in Nat
  BY GovernorAssumption, ScaledCaps
<1>3. Early' => Early
  BY <1>1, GovernorAssumption, DaemonAssumption
     DEF Early, GovernorNext, GovernorStep, PassGates, Grant, Deny, Act, Record, HaltOnSuspicion,
         RecordHalt, GovernorRestart, Restarts, Tick, daemonVars, govVars,
         GovernorInv, GovernorTypes, DaemonTypes, Unseeded
<1>4. /\ Guarded(kind, GapSpan - 1, 1) /\ Guarded(kind, BurstSpan, BurstCap)
      /\ Guarded(kind, DaySpan, DayCap)
      /\ Early => Guarded(kind, DaySpan, Scaled(DayCap, 25))
  BY <1>1, GrantsAreGuarded
<1>5. /\ Pressure(kind, GapSpan - 1, 1) /\ Pressure(kind, BurstSpan, BurstCap)
      /\ Pressure(kind, DaySpan, DayCap)
      /\ Early => Pressure(kind, DaySpan, Scaled(DayCap, 25))
  BY <1>1 DEF PresentWindows
<1>6. Pressure(kind, GapSpan - 1, 1)'
  BY <1>1, <1>2, <1>4, <1>5, StepPressure
<1>7. Pressure(kind, BurstSpan, BurstCap)'
  BY <1>1, <1>2, <1>4, <1>5, StepPressure
<1>8. Pressure(kind, DaySpan, DayCap)'
  BY <1>1, <1>2, <1>4, <1>5, StepPressure
<1>9. Early' => Pressure(kind, DaySpan, Scaled(DayCap, 25))'
  BY <1>1, <1>2, <1>3, <1>4, <1>5, StepPressure
<1> QED  BY <1>6, <1>7, <1>8, <1>9

(* A window stays bounded when the clock leaves it behind.                 *)
LEMMA StepPast == CapsInv /\ [GovernorNext]_<<daemonVars, govVars>> => PastWindows'
<1> SUFFICES ASSUME CapsInv, [GovernorNext]_<<daemonVars, govVars>>,
                    NEW kind \in Kind, NEW t \in Nat, t < now'
             PROVE  /\ Bounded(kind, GapSpan - 1, 1, t)'
                    /\ Bounded(kind, BurstSpan, BurstCap, t)'
                    /\ Bounded(kind, DaySpan, DayCap, t)'
                    /\ (warmup # Unseeded /\ t - warmup < WeekSpan)' =>
                          Bounded(kind, DaySpan, Scaled(DayCap, 25), t)'
  BY DEF PastWindows
<1>1. GovernorInv /\ PresentWindows /\ PastWindows /\ GovernorInv'
  BY StepGovernorInv DEF CapsInv
<1>2. /\ GapSpan - 1 \in Nat /\ 1 \in Nat /\ BurstSpan \in Nat /\ BurstCap \in Nat
      /\ DaySpan \in Nat /\ DayCap \in Nat /\ Scaled(DayCap, 25) \in Nat
      /\ Cardinality(Caller) \in Nat \ {0}
  BY <1>1, GovernorAssumption, ScaledCaps, Finite
<1>3. \A span \in Nat : t <= now /\ Load(kind, t - span, t)' <= Load(kind, t - span, t)
  BY <1>1, PastLoad
<1>4. \A span \in Nat : Load(kind, t - span, t) \in Int /\ Load(kind, t - span, t)' \in Int
  <2>1. ASSUME NEW span \in Nat
        PROVE  /\ IsFiniteSet(Spent(kind, t - span, t)) /\ IsFiniteSet(Spent(kind, t - span, t))'
               /\ IsFiniteSet(Promised(kind, t - span, t)) /\ IsFiniteSet(Promised(kind, t - span, t))'
    BY <1>1, GovernorAssumption, FS_Subset DEF Spent, Promised, GovernorInv
  <2> QED  BY <2>1, FS_CardinalityType DEF Load
<1>5. ASSUME t = now
      PROVE  /\ Bounded(kind, GapSpan - 1, 1, t) /\ Bounded(kind, BurstSpan, BurstCap, t)
             /\ Bounded(kind, DaySpan, DayCap, t)
             /\ Early => Bounded(kind, DaySpan, Scaled(DayCap, 25), t)
  BY <1>1, <1>2, <1>5, PresentLoad DEF PresentWindows, Bounded
<1>6. ASSUME t < now
      PROVE  /\ Bounded(kind, GapSpan - 1, 1, t) /\ Bounded(kind, BurstSpan, BurstCap, t)
             /\ Bounded(kind, DaySpan, DayCap, t)
             /\ warmup # Unseeded /\ t - warmup < WeekSpan =>
                   Bounded(kind, DaySpan, Scaled(DayCap, 25), t)
  BY <1>1, <1>6 DEF PastWindows
<1>7. t = now \/ t < now
  BY <1>1, <1>2, <1>3 DEF GovernorInv, DaemonTypes
<1>8. /\ Bounded(kind, GapSpan - 1, 1, t) /\ Bounded(kind, BurstSpan, BurstCap, t)
      /\ Bounded(kind, DaySpan, DayCap, t)
  BY <1>5, <1>6, <1>7
<1>9. Bounded(kind, GapSpan - 1, 1, t)'
  BY <1>2, <1>3, <1>4, <1>8 DEF Bounded, Overrun
<1>10. Bounded(kind, BurstSpan, BurstCap, t)'
  BY <1>2, <1>3, <1>4, <1>8 DEF Bounded, Overrun
<1>11. Bounded(kind, DaySpan, DayCap, t)'
  BY <1>2, <1>3, <1>4, <1>8 DEF Bounded, Overrun
<1>12. ASSUME (warmup # Unseeded /\ t - warmup < WeekSpan)'
       PROVE  Bounded(kind, DaySpan, Scaled(DayCap, 25), t)'
  <2>1. CASE warmup' = warmup
    <3>1. Bounded(kind, DaySpan, Scaled(DayCap, 25), t)
      BY <1>5, <1>6, <1>7, <1>12, <2>1 DEF Early
    <3> QED  BY <1>2, <1>3, <1>4, <3>1 DEF Bounded, Overrun
  <2>2. CASE warmup = Unseeded
    <3>1. Spent(kind, t - DaySpan, t) = {} /\ Promised(kind, t - DaySpan, t) = {}
      BY <1>1, <2>2 DEF GovernorInv, Dated, Spent, Promised
    <3>2. Load(kind, t - DaySpan, t) = 0
      BY <3>1, FS_EmptySet DEF Load
    <3> QED  BY <1>2, <1>3, <1>4, <3>2 DEF Bounded, Overrun
  <2>3. warmup' = warmup \/ warmup = Unseeded
    BY DEF GovernorNext, GovernorStep, PassGates, Grant, Deny, Act, Record, HaltOnSuspicion,
           RecordHalt, GovernorRestart, Restarts, Tick, daemonVars, govVars
  <2> QED  BY <2>1, <2>2, <2>3
<1> QED  BY <1>9, <1>10, <1>11, <1>12

(* No window exceeds its cap by more than one for every other caller,      *)
(* whatever the callers, the clock, suspicions and restarts do.            *)
THEOREM CapsAreKept == GovernorSpec => []CapsHold
<1>1. CapsInv => CapsHold
  <2> SUFFICES ASSUME CapsInv, NEW kind \in Kind, NEW t \in 0 .. now
               PROVE  /\ Load(kind, t - GapSpan + 1, t) <= 1 + Overrun
                      /\ Load(kind, t - BurstSpan, t) <= BurstCap + Overrun
                      /\ Load(kind, t - DaySpan, t) <= DayCap + Overrun
                      /\ warmup # Unseeded /\ t - warmup < WeekSpan =>
                            Load(kind, t - DaySpan, t) <= Scaled(DayCap, 25) + Overrun
    BY DEF CapsHold
  <2>1. GovernorInv /\ PresentWindows /\ PastWindows /\ now \in Nat
    BY DEF CapsInv, GovernorInv, DaemonTypes
  <2>2. /\ GapSpan - 1 \in Nat /\ 1 \in Nat /\ BurstSpan \in Nat /\ BurstCap \in Nat
        /\ DaySpan \in Nat /\ DayCap \in Nat /\ Scaled(DayCap, 25) \in Nat
        /\ t - GapSpan + 1 = t - (GapSpan - 1)
    BY <2>1, GovernorAssumption, ScaledCaps
  <2>3. CASE t = now
    BY <2>1, <2>2, <2>3, PresentLoad DEF PresentWindows, Early
  <2>4. CASE t < now
    BY <2>1, <2>2, <2>4 DEF PastWindows, Bounded
  <2> QED  BY <2>1, <2>3, <2>4
<1>2. CapsInv /\ [GovernorNext]_<<daemonVars, govVars>> => CapsInv'
  BY StepGovernorInv, StepPresent, StepPast DEF CapsInv
<1> QED  BY <1>1, <1>2, InitCaps, PTL DEF GovernorSpec

-----------------------------------------------------------------------------
(* Scheduled posts. *)

(* Publications of a post that no fault accounts for: none before it is    *)
(* published, at most one while the engine holds its outcome.              *)
Unpublished(p) == published[p] <= broken[p]

Answered(p) == p \in engine.hand /\ engine.phase \in Answer

(* One post is in hand at a time, and only between a card or a publication *)
(* and the row's update; what is listed is not in hand.                    *)
HandInv ==
    /\ \A p, q \in engine.hand : p = q
    /\ engine.hand # {} => engine.phase \in {"carded"} \cup Answer
    /\ engine.hand \cap engine.todo = {}

(* What may still be published, or go back to the queue, was not published.*)
OutcomeInv ==
    \A p \in Post :
        /\ published[p] <= 1 + broken[p]
        /\ p \in engine.todo => Unpublished(p)
        /\ p \in engine.hand /\ engine.phase = "carded" => Unpublished(p)
        /\ post[p].status \in {"none"} \cup Pending /\ ~Answered(p) => Unpublished(p)

PostInv == DaemonTypes /\ PostTypes /\ HandInv /\ OutcomeInv

\* No post is at work, published or answered.
LEMMA InitPosts == DaemonInit /\ PostInit => PostInv
  BY DaemonAssumption, PostAssumption
     DEF DaemonInit, PostInit, PostInv, DaemonTypes, PostTypes, HandInv, OutcomeInv, Unpublished,
         Answered, Answer, Pending, Resting

(* Every step of the engine, the owner and the faults keeps types.         *)
LEMMA StepPostTypes ==
  PostTypes /\ DaemonTypes /\ [PostNext]_allPostVars => PostTypes' /\ DaemonTypes'
<1> SUFFICES ASSUME PostTypes, DaemonTypes, [PostNext]_allPostVars PROVE PostTypes' /\ DaemonTypes'
  OBVIOUS
<1> USE DaemonAssumption, PostAssumption
    DEF DaemonTypes, PostTypes, Answer, Pending, Resting, daemonVars
<1>1. CASE StartPass
  BY <1>1 DEF StartPass, DueForPreview
<1>2. CASE LoadReady
  BY <1>2 DEF LoadReady, DueToFire
<1>3. CASE EndPass
  BY <1>3 DEF EndPass
<1>4. ASSUME NEW p \in Post, ShowCard(p) PROVE PostTypes' /\ DaemonTypes'
  BY <1>4 DEF ShowCard
<1>5. ASSUME NEW p \in Post, MarkPreviewed(p) PROVE PostTypes' /\ DaemonTypes'
  BY <1>5 DEF MarkPreviewed
<1>6. ASSUME NEW p \in Post, Defer(p) PROVE PostTypes' /\ DaemonTypes'
  BY <1>6 DEF Defer
<1>7. ASSUME NEW p \in Post, NEW answer \in Answer, Publish(p, answer)
      PROVE  PostTypes' /\ DaemonTypes'
  <2>1. engine' = [phase |-> answer, todo |-> engine.todo \ {p}, hand |-> {p}, at |-> engine.at]
    BY <1>7 DEF Publish
  <2>2. published' \in [Post -> Nat]
    BY <1>7 DEF Publish
  <2> QED  BY <1>7, <2>1, <2>2 DEF Publish
<1>8. ASSUME NEW p \in Post, MarkOutcome(p) PROVE PostTypes' /\ DaemonTypes'
  <2>1. /\ engine' = [phase |-> "fire", todo |-> engine.todo, hand |-> {}, at |-> engine.at]
        /\ \E s \in {"posted", "failed"} : post' = [post EXCEPT ![p].status = s]
    BY <1>8 DEF MarkOutcome
  <2> QED  BY <1>8, <2>1 DEF MarkOutcome
<1>9. ASSUME NEW p \in Post, NEW at \in 0 .. PostHorizon, Enqueue(p, at)
      PROVE  PostTypes' /\ DaemonTypes'
  <2>1. at \in 0 .. MaxNow
    OBVIOUS
  <2> QED  BY <1>9, <2>1 DEF Enqueue
<1>10. ASSUME NEW p \in Post, CancelPost(p) PROVE PostTypes' /\ DaemonTypes'
  BY <1>10 DEF CancelPost
<1>11. ASSUME NEW p \in Post, CardFails(p) PROVE PostTypes' /\ DaemonTypes'
  BY <1>11 DEF CardFails
<1>12. ASSUME NEW p \in Post, MarkFails(p) PROVE PostTypes' /\ DaemonTypes'
  <2>1. engine' \in {Resting, [phase |-> "fire", todo |-> engine.todo, hand |-> {}, at |-> engine.at]}
    BY <1>12 DEF MarkFails
  <2>2. broken' \in [Post -> 0 .. MaxFaults]
    BY <1>12 DEF MarkFails, MayStrike, Struck
  <2>3. engine' \in [phase : {"rest", "preview", "carded", "load", "fire", "sent", "refused"},
                   todo : SUBSET Post, hand : SUBSET Post, at : 0 .. MaxNow]
    BY <2>1
  <2> QED  BY <1>12, <2>2, <2>3 DEF MarkFails
<1>13. CASE EngineRestart
  BY <1>13 DEF EngineRestart, Restarts, MayStrike, Struck
<1>14. CASE UNCHANGED postVars /\ (RecordHalt(HaltSpan) \/ Tick \/ UNCHANGED daemonVars)
  BY <1>14 DEF postVars, RecordHalt, Tick
<1> QED
  BY <1>1, <1>2, <1>3, <1>4, <1>5, <1>6, <1>7, <1>8, <1>9, <1>10, <1>11, <1>12, <1>13, <1>14
     DEF PostNext, EngineStep, allPostVars

(* Every step of the engine, the owner and the faults keeps the lists      *)
(* apart and the publications accounted for.                               *)
LEMMA StepPosts == PostInv /\ [PostNext]_allPostVars => PostInv'
<1> SUFFICES ASSUME PostInv, [PostNext]_allPostVars PROVE PostInv'
  OBVIOUS
<1>0. PostTypes' /\ DaemonTypes' /\ PostTypes
  BY StepPostTypes DEF PostInv
<1> SUFFICES HandInv' /\ OutcomeInv'
  BY <1>0 DEF PostInv
<1>h. HandInv /\ OutcomeInv /\ PostTypes
  BY DEF PostInv
<1> USE DEF HandInv, OutcomeInv, Unpublished, Answered, Answer, Pending, Resting
<1>1. CASE StartPass
  BY <1>1, <1>h DEF StartPass, DueForPreview
<1>2. CASE LoadReady
  BY <1>2, <1>h DEF LoadReady, DueToFire
<1>3. CASE EndPass
  BY <1>3, <1>h DEF EndPass
<1>4. ASSUME NEW p \in Post, ShowCard(p) PROVE HandInv' /\ OutcomeInv'
  <2>1. engine' = [phase |-> "carded", todo |-> engine.todo \ {p}, hand |-> {p}, at |-> engine.at]
    BY <1>4, <1>h DEF ShowCard, PostTypes
  <2>2. p \in engine.todo /\ engine.phase = "preview" /\ UNCHANGED <<post, published, broken>>
    BY <1>4 DEF ShowCard, Soonest
  <2> QED  BY <1>h, <2>1, <2>2
<1>5. ASSUME NEW p \in Post, MarkPreviewed(p) PROVE HandInv' /\ OutcomeInv'
  <2>1. engine' = [phase |-> "preview", todo |-> engine.todo, hand |-> {}, at |-> engine.at]
    BY <1>5, <1>h DEF MarkPreviewed, PostTypes
  <2>2. post'[p].status = "previewed" /\ \A q \in Post \ {p} : post'[q] = post[q]
    BY <1>5, <1>h DEF MarkPreviewed, PostTypes
  <2>3. p \in engine.hand /\ engine.phase = "carded" /\ UNCHANGED <<published, broken>>
    BY <1>5 DEF MarkPreviewed
  <2> QED  BY <1>h, <2>1, <2>2, <2>3
<1>6. ASSUME NEW p \in Post, Defer(p) PROVE HandInv' /\ OutcomeInv'
  <2>1. engine' = [phase |-> "fire", todo |-> engine.todo \ {p}, hand |-> engine.hand, at |-> engine.at]
    BY <1>6, <1>h DEF Defer, PostTypes
  <2> QED  BY <1>6, <1>h, <2>1 DEF Defer
<1>7. ASSUME NEW p \in Post, NEW answer \in Answer, Publish(p, answer) PROVE HandInv' /\ OutcomeInv'
  <2>1. engine' = [phase |-> answer, todo |-> engine.todo \ {p}, hand |-> {p}, at |-> engine.at]
    BY <1>7, <1>h DEF Publish, PostTypes
  <2>2. p \in engine.todo /\ engine.phase = "fire" /\ UNCHANGED <<post, broken>>
    BY <1>7 DEF Publish, Soonest
  <2>3. published'[p] \in {published[p], published[p] + 1}
        /\ \A q \in Post \ {p} : published'[q] = published[q]
    BY <1>7, <1>h DEF Publish, PostTypes
  <2>4. published[p] \in Nat /\ broken[p] \in Nat
    BY <1>h DEF PostTypes
  <2>5. published'[p] <= 1 + broken'[p]
    BY <1>h, <2>2, <2>3, <2>4
  <2> QED  BY <1>h, <2>1, <2>2, <2>3, <2>5
<1>8. ASSUME NEW p \in Post, MarkOutcome(p) PROVE HandInv' /\ OutcomeInv'
  <2>1. engine' = [phase |-> "fire", todo |-> engine.todo, hand |-> {}, at |-> engine.at]
    BY <1>8, <1>h DEF MarkOutcome, PostTypes
  <2>2. post'[p].status \in {"posted", "failed"} /\ \A q \in Post \ {p} : post'[q] = post[q]
    BY <1>8, <1>h DEF MarkOutcome, PostTypes
  <2>3. p \in engine.hand /\ engine.phase \in {"sent", "refused"} /\ UNCHANGED <<published, broken>>
    BY <1>8 DEF MarkOutcome
  <2> QED  BY <1>h, <2>1, <2>2, <2>3
<1>9. ASSUME NEW p \in Post, NEW at \in 0 .. PostHorizon, Enqueue(p, at)
      PROVE  HandInv' /\ OutcomeInv'
  <2>1. post'[p].status = "queued" /\ \A q \in Post \ {p} : post'[q] = post[q]
    BY <1>9, <1>h DEF Enqueue, PostTypes
  <2>2. post[p].status = "none" /\ UNCHANGED <<engine, published, broken>>
    BY <1>9 DEF Enqueue
  <2> QED  BY <1>h, <2>1, <2>2
<1>10. ASSUME NEW p \in Post, CancelPost(p) PROVE HandInv' /\ OutcomeInv'
  <2>1. post'[p].status = "cancelled" /\ \A q \in Post \ {p} : post'[q] = post[q]
    BY <1>10, <1>h DEF CancelPost, PostTypes
  <2> QED  BY <1>10, <1>h, <2>1 DEF CancelPost
<1>11. ASSUME NEW p \in Post, CardFails(p) PROVE HandInv' /\ OutcomeInv'
  <2>1. engine' = [phase |-> "preview", todo |-> engine.todo \ {p}, hand |-> engine.hand,
                   at |-> engine.at]
    BY <1>11, <1>h DEF CardFails, PostTypes
  <2> QED  BY <1>11, <1>h, <2>1 DEF CardFails
<1>12. ASSUME NEW p \in Post, MarkFails(p) PROVE HandInv' /\ OutcomeInv'
  <2>1. engine'.hand = {} /\ engine'.todo \subseteq engine.todo
    BY <1>12, <1>h DEF MarkFails, PostTypes
  <2>2. broken'[p] = broken[p] + 1 /\ \A q \in Post \ {p} : broken'[q] = broken[q]
    BY <1>12 DEF MarkFails, Struck
  <2>3. \A q \in Post : published[q] \in Nat /\ broken[q] \in Nat
    BY <1>h DEF PostTypes
  <2>4. p \in engine.hand /\ UNCHANGED <<post, published>>
    BY <1>12 DEF MarkFails
  <2>5. \A q \in Post \ {p} : q \notin engine.hand
    BY <1>h, <2>4
  <2>6. engine'.hand = {} /\ engine'.todo \cap engine'.hand = {}
    BY <2>1
  <2>7. p \notin engine'.todo
    BY <1>h, <2>1, <2>4
  <2>8. \A q \in Post \ {p} : Unpublished(q) => Unpublished(q)'
    BY <2>2, <2>4
  <2>9. published[p] <= 1 + broken[p]
    BY <1>h
  <2>10. published'[p] <= broken'[p]
    BY <2>2, <2>3, <2>4, <2>9
  <2>11. \A q \in Post \ {p} : published'[q] <= 1 + broken'[q]
    BY <1>h, <2>2, <2>4
  <2> QED  BY <1>h, <2>1, <2>2, <2>3, <2>4, <2>5, <2>6, <2>7, <2>8, <2>10, <2>11
<1>13. CASE EngineRestart
  <2>1. engine'.hand = {} /\ engine'.todo = {}
    BY <1>13 DEF EngineRestart
  <2>2. \A q \in Post : broken'[q] = IF q \in engine.hand THEN broken[q] + 1 ELSE broken[q]
    BY <1>13 DEF EngineRestart, Struck
  <2>3. \A q \in Post : published[q] \in Nat /\ broken[q] \in Nat
    BY <1>h DEF PostTypes
  <2>4. UNCHANGED <<post, published>>
    BY <1>13 DEF EngineRestart
  <2> QED  BY <1>h, <2>1, <2>2, <2>3, <2>4
<1>14. CASE UNCHANGED postVars
  BY <1>14, <1>h DEF postVars
<1> QED
  BY <1>1, <1>2, <1>3, <1>4, <1>5, <1>6, <1>7, <1>8, <1>9, <1>10, <1>11, <1>12, <1>13, <1>14
     DEF PostNext, EngineStep, allPostVars

(* The posts, the engine's pass and the faults counted keep their types.   *)
THEOREM PostTypesHold == PostSpec => []PostTypes
<1>1. PostInv => PostTypes
  BY DEF PostInv
<1> QED  BY <1>1, InitPosts, StepPosts, PTL DEF PostSpec

(* A post goes out at most once and once more for each fault that hit it   *)
(* between a publication and the row's update.                             *)
THEOREM RepublicationsAreFaults == PostSpec => []RepublishedOnlyByFault
<1>1. PostInv => RepublishedOnlyByFault
  BY DEF PostInv, OutcomeInv, RepublishedOnlyByFault
<1> QED  BY <1>1, InitPosts, StepPosts, PTL DEF PostSpec

(* A cancelled post that no pass has listed is left alone for good.        *)
THEOREM CancelsHold == PostSpec => CancelHolds
<1>1. PostInv /\ [PostNext]_allPostVars
        => [\A p \in Post : post[p].status = "cancelled" /\ p \notin engine.todo \cup engine.hand =>
               /\ p \notin engine'.todo \cup engine'.hand
               /\ published'[p] = published[p]
               /\ post'[p] = post[p]]_allPostVars
  <2> SUFFICES ASSUME PostInv, PostNext, NEW p \in Post, post[p].status = "cancelled",
                      p \notin engine.todo \cup engine.hand
               PROVE  /\ p \notin engine'.todo \cup engine'.hand
                      /\ published'[p] = published[p]
                      /\ post'[p] = post[p]
    OBVIOUS
  <2> DEFINE Kept == /\ p \notin engine'.todo \cup engine'.hand
                     /\ published'[p] = published[p]
                     /\ post'[p] = post[p]
  <2> USE DEF Pending, Resting
  <2>0. PostTypes /\ engine.hand \cap engine.todo = {}
    BY DEF PostInv, HandInv
  <2>1. CASE StartPass
    <3>1. engine'.hand = {} /\ engine'.todo \subseteq {q \in Post : post[q].status = "queued"}
      BY <2>1 DEF StartPass, DueForPreview
    <3> QED  BY <2>1, <3>1 DEF StartPass
  <2>9. CASE LoadReady
    <3>1. engine' = [phase |-> "fire", todo |-> DueToFire(engine.at), hand |-> engine.hand,
                     at |-> engine.at]
      BY <2>0, <2>9 DEF LoadReady, PostTypes
    <3>2. p \notin DueToFire(engine.at)
      BY DEF DueToFire
    <3> QED  BY <2>9, <3>1, <3>2 DEF LoadReady
  <2>8. CASE EndPass \/ EngineRestart \/ UNCHANGED postVars
    BY <2>8 DEF EndPass, EngineRestart, postVars, Resting
  <2>2. ASSUME NEW q \in Post, ShowCard(q) \/ Defer(q) \/ CardFails(q)  PROVE Kept
    <3>1. q \in engine.todo /\ engine'.todo = engine.todo \ {q}
      BY <2>0, <2>2 DEF ShowCard, Defer, CardFails, Soonest, PostTypes
    <3>2. engine'.hand \subseteq engine.hand \cup {q}
      BY <2>0, <2>2 DEF ShowCard, Defer, CardFails, PostTypes
    <3> QED  BY <2>2, <3>1, <3>2 DEF ShowCard, Defer, CardFails
  <2>3. ASSUME NEW q \in Post, NEW answer \in Answer, Publish(q, answer)  PROVE Kept
    <3>1. q \in engine.todo /\ post' = post
      BY <2>3 DEF Publish, Soonest
    <3>2. engine'.todo = engine.todo \ {q} /\ engine'.hand = {q}
      BY <2>0, <2>3 DEF Publish, PostTypes
    <3>3. q # p
      BY <3>1
    <3>4. published'[p] = published[p]
      BY <2>0, <2>3, <3>3 DEF Publish, PostTypes
    <3> QED  BY <3>1, <3>2, <3>3, <3>4
  <2>4. ASSUME NEW q \in Post, MarkPreviewed(q) \/ MarkOutcome(q)  PROVE Kept
    <3>1. q # p
      BY <2>4 DEF MarkPreviewed, MarkOutcome
    <3>2. post'[p] = post[p] /\ published' = published
      BY <2>0, <2>4, <3>1 DEF MarkPreviewed, MarkOutcome, PostTypes
    <3>3. engine'.todo = engine.todo /\ engine'.hand = {}
      BY <2>0, <2>4 DEF MarkPreviewed, MarkOutcome, PostTypes
    <3> QED  BY <3>2, <3>3
  <2>5. ASSUME NEW q \in Post, MarkFails(q)  PROVE Kept
    <3>1. engine'.todo \subseteq engine.todo /\ engine'.hand = {}
      BY <2>0, <2>5 DEF MarkFails, PostTypes
    <3> QED  BY <2>5, <3>1 DEF MarkFails
  <2>6. ASSUME NEW q \in Post, NEW at \in 0 .. PostHorizon, Enqueue(q, at)  PROVE Kept
    BY <2>0, <2>6 DEF Enqueue, PostTypes
  <2>7. ASSUME NEW q \in Post, CancelPost(q)  PROVE Kept
    BY <2>0, <2>7 DEF CancelPost, PostTypes
  <2> QED  BY <2>1, <2>2, <2>3, <2>4, <2>5, <2>6, <2>7, <2>8, <2>9
     DEF PostNext, EngineStep
<1>2. PostSpec => []PostInv
  BY InitPosts, StepPosts, PTL DEF PostSpec
<1> QED  BY <1>1, <1>2, PTL DEF PostSpec, CancelHolds

-----------------------------------------------------------------------------
(* The posts implement PostPromise. *)

(* What is taken up still waits or was cancelled meanwhile, and between    *)
(* two passes nothing is taken up.                                         *)
TakenInv ==
    /\ \A p \in engine.todo \cup engine.hand : post[p].status \in Pending \cup {"cancelled"}
    /\ engine.phase = "rest" => engine.todo = {}

\* No post is found anywhere else and none changes hands.
SamePlaces == \A p \in Post : FoundAt(p)' = FoundAt(p)
SameHolds == \A p \in Post : HeldAs(p)' = HeldAs(p)

\* A step that shows in nothing the promise speaks of.
LEMMA Invisible ==
  ASSUME SamePlaces, SameHolds, UNCHANGED <<published, broken>>
  PROVE  UNCHANGED Public!vars
  BY DEF SamePlaces, SameHolds, Public!vars

\* A command moves one post.
LEMMA CommandRefines ==
  ASSUME NEW p \in Post, NEW from, NEW to, <<from, to>> \in {<<"none", "waiting">>, <<"waiting", "cancelled">>},
         FoundAt(p) = from, \A q \in Post : FoundAt(q)' = IF q = p THEN to ELSE FoundAt(q),
         SameHolds, UNCHANGED <<published, broken>>
  PROVE  Public!Next
<1>1. Public!Move(p, from, to)
  BY DEF SameHolds, Public!Move
<1>2. Public!Queue(p) \/ Public!Cancel(p)
  BY <1>1 DEF Public!Queue, Public!Cancel
<1> QED  BY <1>2 DEF Public!Next

\* A list is made.
LEMMA TakeRefines ==
  ASSUME NEW posts \in SUBSET Post, \A p \in Post : HeldAs(p) = "free",
         \A p \in posts : FoundAt(p) = "waiting",
         \A p \in Post : HeldAs(p)' = IF p \in posts THEN "taken" ELSE "free",
         SamePlaces, UNCHANGED <<published, broken>>
  PROVE  Public!Next
<1>1. Public!Take(posts)
  BY DEF SamePlaces, Public!Take
<1> QED  BY <1>1 DEF Public!Next

\* Posts are let go, those struck after a fault.
LEMMA LetGoRefines ==
  ASSUME NEW posts \in SUBSET Post, NEW struck \in SUBSET posts,
         \A p \in posts : HeldAs(p) # "free" /\ (HeldAs(p) \in Answer => p \in struck),
         \A p \in Post : HeldAs(p)' = IF p \in posts THEN "free" ELSE HeldAs(p),
         broken' = [p \in Post |-> IF p \in struck THEN broken[p] + 1 ELSE broken[p]],
         SamePlaces, UNCHANGED published
  PROVE  Public!Next
<1>1. Public!LetGo(posts, struck)
  BY DEF SamePlaces, Public!LetGo, Public!Tried, Answer
<1> QED  BY <1>1 DEF Public!Next


\* A post in hand is put back, tried, or its answer written.
LEMMA ReturnRefines ==
  ASSUME NEW p \in Post, HeldAs(p) = "taken", FoundAt(p) \in {"waiting", "cancelled"},
         \A q \in Post : FoundAt(q)' = IF q = p THEN "waiting" ELSE FoundAt(q),
         \A q \in Post : HeldAs(q)' = IF q = p THEN "free" ELSE HeldAs(q),
         UNCHANGED <<published, broken>>
  PROVE  Public!Next
<1>1. Public!Return(p)
  BY DEF Public!Return
<1> QED  BY <1>1 DEF Public!Next

LEMMA TryRefines ==
  ASSUME NEW p \in Post, NEW answer \in Answer,
         HeldAs(p) = "taken", FoundAt(p) \in {"waiting", "cancelled"},
         \A q \in Post : HeldAs(q)' = IF q = p THEN answer ELSE HeldAs(q),
         \E taken \in {answer = "sent", TRUE} :
            published' = [published EXCEPT ![p] = IF taken THEN @ + 1 ELSE @],
         SamePlaces, UNCHANGED broken
  PROVE  Public!Next
<1>1. Public!Try(p, answer)
  BY DEF SamePlaces, Public!Try
<1>2. answer \in Public!Tried
  BY DEF Answer, Public!Tried
<1> QED  BY <1>1, <1>2 DEF Public!Next

LEMMA SettleRefines ==
  ASSUME NEW p \in Post, HeldAs(p) \in Answer,
         \A q \in Post : FoundAt(q)' = IF q = p THEN IF HeldAs(p) = "sent" THEN "posted" ELSE "failed"
                                       ELSE FoundAt(q),
         \A q \in Post : HeldAs(q)' = IF q = p THEN "free" ELSE HeldAs(q),
         UNCHANGED <<published, broken>>
  PROVE  Public!Next
<1>1. Public!Settle(p)
  BY DEF Public!Settle, Public!Tried, Answer
<1> QED  BY <1>1 DEF Public!Next

\* Nothing is taken up before the first pass, and every post is new.
LEMMA InitPromise == DaemonInit /\ PostInit => TakenInv /\ Public!Init
<1> SUFFICES ASSUME PostInit  PROVE TakenInv /\ Public!Init
  OBVIOUS
<1>1. engine = Resting /\ \A p \in Post : post[p].status = "none"
  BY DEF PostInit
<1>2. \A p \in Post : FoundAt(p) = "none" /\ HeldAs(p) = "free"
  BY <1>1 DEF FoundAt, HeldAs, Pending, Resting
<1> QED  BY <1>1, <1>2 DEF PostInit, TakenInv, Resting, Public!Init

\* A post is taken up while it waits; from then on it is cancelled, or its
\* outcome written, and only out of hand.
LEMMA StepTaken ==
  ASSUME PostInv, TakenInv, PostNext \/ UNCHANGED allPostVars  PROVE TakenInv'
<1>0. PostTypes /\ HandInv /\ TakenInv
  BY DEF PostInv
<1> USE DEF TakenInv, Pending, Resting
<1>1. CASE StartPass
  BY <1>0, <1>1 DEF StartPass, DueForPreview
<1>2. CASE LoadReady
  BY <1>0, <1>2 DEF LoadReady, DueToFire, PostTypes, HandInv
<1>3. CASE EndPass \/ EngineRestart
  BY <1>0, <1>3 DEF EndPass, EngineRestart
<1>4. ASSUME NEW p \in Post, ShowCard(p) \/ Defer(p) \/ CardFails(p)  PROVE TakenInv'
  <2>1. /\ p \in engine.todo /\ engine'.todo = engine.todo \ {p}
        /\ engine'.hand \subseteq engine.hand \cup {p} /\ engine'.phase # "rest" /\ post' = post
    BY <1>0, <1>4 DEF ShowCard, Defer, CardFails, Soonest, PostTypes
  <2> QED  BY <1>0, <2>1
<1>5. ASSUME NEW p \in Post, NEW answer \in Answer, Publish(p, answer)  PROVE TakenInv'
  <2>1. /\ p \in engine.todo /\ engine'.todo = engine.todo \ {p}
        /\ engine'.hand = {p} /\ engine'.phase = answer /\ post' = post
    BY <1>0, <1>5 DEF Publish, Soonest, PostTypes
  <2> QED  BY <1>0, <2>1 DEF Answer
<1>6. ASSUME NEW p \in Post, MarkPreviewed(p) \/ MarkOutcome(p)  PROVE TakenInv'
  <2>1. p \in engine.hand /\ \A q \in Post \ {p} : post'[q] = post[q]
    BY <1>0, <1>6 DEF MarkPreviewed, MarkOutcome, PostTypes
  <2>2. engine'.todo = engine.todo /\ engine'.hand = {} /\ engine'.phase # "rest"
    BY <1>0, <1>6 DEF MarkPreviewed, MarkOutcome, PostTypes
  <2>3. p \notin engine.todo
    BY <1>0, <2>1 DEF HandInv
  <2>4. engine.todo \subseteq Post
    BY <1>0 DEF PostTypes
  <2> QED  BY <1>0, <2>1, <2>2, <2>3, <2>4
<1>7. ASSUME NEW p \in Post, MarkFails(p)  PROVE TakenInv'
  <2>1. /\ engine'.todo \subseteq engine.todo /\ engine'.hand = {}
        /\ engine'.phase = "rest" => engine'.todo = {}
    BY <1>0, <1>7 DEF MarkFails, PostTypes
  <2> QED  BY <1>0, <1>7, <2>1 DEF MarkFails
<1>8. ASSUME NEW p \in Post, NEW at \in 0 .. PostHorizon, Enqueue(p, at) \/ CancelPost(p)
      PROVE  TakenInv'
  <2>1. engine' = engine /\ \A q \in Post \ {p} : post'[q] = post[q]
    BY <1>0, <1>8 DEF Enqueue, CancelPost, PostTypes
  <2>2. post'[p].status \in {"queued", "cancelled"}
    <3>1. CASE Enqueue(p, at)
      BY <1>0, <3>1 DEF Enqueue, PostTypes
    <3>2. CASE CancelPost(p)
      BY <1>0, <3>2 DEF CancelPost, PostTypes
    <3> QED  BY <1>8, <3>1, <3>2
  <2>3. engine.todo \cup engine.hand \subseteq Post
    BY <1>0 DEF PostTypes
  <2> QED  BY <1>0, <2>1, <2>2, <2>3
<1>9. CASE UNCHANGED postVars
  BY <1>0, <1>9 DEF postVars
<1>10. ASSUME NEW p \in Post, CancelPost(p)  PROVE TakenInv'
  BY <1>8, <1>10, PostAssumption, 0 \in 0 .. PostHorizon
<1> QED
  BY <1>1, <1>2, <1>3, <1>4, <1>5, <1>6, <1>7, <1>8, <1>9, <1>10
     DEF PostNext, EngineStep, allPostVars


\* A step of a pass, of the owner or of a fault is one of PostPromise.
LEMMA StepPromise ==
  ASSUME PostInv, TakenInv, PostNext  PROVE Public!Next \/ UNCHANGED Public!vars
<1> DEFINE Goal == Public!Next \/ UNCHANGED Public!vars
<1>0. PostTypes /\ HandInv /\ TakenInv
  BY DEF PostInv
<1>s. ASSUME post' = post  PROVE SamePlaces
  BY <1>s DEF SamePlaces, FoundAt
<1>f. ASSUME engine.todo = {}, engine.hand = {}  PROVE \A p \in Post : HeldAs(p) = "free"
  BY <1>f DEF HeldAs
<1>1. CASE StartPass
  <2>1. engine.todo = {} /\ engine.hand = {}
    BY <1>0, <1>1 DEF StartPass, TakenInv, HandInv, Answer
  <2>2. /\ engine'.todo = DueForPreview(now) /\ engine'.hand = {} /\ engine'.phase = "preview"
        /\ post' = post /\ UNCHANGED <<published, broken>>
    BY <1>1 DEF StartPass
  <2>3. DueForPreview(now) \in SUBSET Post /\ \A p \in DueForPreview(now) : FoundAt(p) = "waiting"
    BY DEF DueForPreview, FoundAt, Pending
  <2>4. \A p \in Post : HeldAs(p)' = IF p \in DueForPreview(now) THEN "taken" ELSE "free"
    BY <2>2 DEF HeldAs
  <2> QED  BY <1>s, <1>f, <2>1, <2>2, <2>3, <2>4, TakeRefines
<1>2. CASE LoadReady
  <2> DEFINE due == DueToFire(engine.at)
  <2>1. engine.todo = {} /\ engine.hand = {}
    BY <1>0, <1>2 DEF LoadReady, HandInv, Answer
  <2>2. /\ engine'.todo = due /\ engine'.hand = {} /\ engine'.phase = "fire"
        /\ post' = post /\ UNCHANGED <<published, broken>>
    BY <1>0, <1>2, <2>1 DEF LoadReady, PostTypes
  <2>3. due \in SUBSET Post /\ \A p \in due : FoundAt(p) = "waiting"
    BY DEF DueToFire, FoundAt
  <2>4. \A p \in Post : HeldAs(p)' = IF p \in due THEN "taken" ELSE "free"
    BY <2>2 DEF HeldAs
  <2> HIDE DEF due
  <2> QED  BY <1>s, <1>f, <2>1, <2>2, <2>3, <2>4, TakeRefines
<1>3. CASE EndPass
  <2>1. engine.todo = {} /\ engine.hand = {}
    BY <1>0, <1>3 DEF EndPass, HandInv, Answer
  <2>2. engine'.todo = {} /\ engine'.hand = {} /\ post' = post /\ UNCHANGED <<published, broken>>
    BY <1>3 DEF EndPass, Resting
  <2>3. SameHolds
    BY <2>1, <2>2 DEF SameHolds, HeldAs
  <2> QED  BY <1>s, <2>2, <2>3, Invisible
<1>4. ASSUME NEW p \in Post, ShowCard(p)  PROVE Goal
  <2>1. /\ p \in engine.todo /\ engine.phase = "preview" /\ engine'.phase = "carded"
        /\ engine'.todo = engine.todo \ {p} /\ engine'.hand = {p}
        /\ post' = post /\ UNCHANGED <<published, broken>>
    BY <1>0, <1>4 DEF ShowCard, Soonest, PostTypes
  <2>2. engine.hand = {}
    BY <1>0, <2>1 DEF HandInv, Answer
  <2>3. SameHolds
    BY <2>1, <2>2 DEF SameHolds, HeldAs, Answer
  <2> QED  BY <1>s, <2>1, <2>3, Invisible
<1>5. ASSUME NEW p \in Post, Defer(p) \/ CardFails(p)  PROVE Goal
  <2>1. /\ p \in engine.todo /\ engine.phase \in {"preview", "fire"} /\ engine'.phase = engine.phase
        /\ engine'.todo = engine.todo \ {p} /\ engine'.hand = engine.hand
        /\ post' = post /\ UNCHANGED <<published, broken>>
    BY <1>0, <1>5 DEF Defer, CardFails, Soonest, PostTypes
  <2>2. engine.hand = {}
    BY <1>0, <2>1 DEF HandInv, Answer
  <2>3. HeldAs(p) = "taken" /\ HeldAs(p) \notin Answer
    BY <2>1, <2>2 DEF HeldAs, Answer
  <2>4. \A q \in Post : HeldAs(q)' = IF q \in {p} THEN "free" ELSE HeldAs(q)
    BY <2>1, <2>2 DEF HeldAs
  <2>5. broken' = [q \in Post |-> IF q \in {} THEN broken[q] + 1 ELSE broken[q]]
    BY <1>0, <2>1 DEF PostTypes
  <2>6. {p} \in SUBSET Post /\ {} \in SUBSET {p}
    OBVIOUS
  <2>7. \A q \in {p} : HeldAs(q) # "free" /\ (HeldAs(q) \in Answer => q \in {})
    BY <2>3
  <2>8. SamePlaces /\ UNCHANGED published
    BY <1>s, <2>1
  <2>9. Public!Next
    BY <2>4, <2>5, <2>6, <2>7, <2>8, LetGoRefines
  <2> QED  BY <2>9
<1>6. ASSUME NEW p \in Post, MarkPreviewed(p)  PROVE Goal
  <2>1. /\ p \in engine.hand /\ engine.phase = "carded" /\ engine'.phase = "preview"
        /\ engine'.todo = engine.todo /\ engine'.hand = {} /\ UNCHANGED <<published, broken>>
    BY <1>0, <1>6 DEF MarkPreviewed, PostTypes
  <2>2. post'[p].status = "previewed" /\ \A q \in Post \ {p} : post'[q] = post[q]
    BY <1>0, <1>6 DEF MarkPreviewed, PostTypes
  <2>3. engine.hand = {p} /\ p \notin engine.todo
    BY <1>0, <2>1 DEF HandInv
  <2>4. HeldAs(p) = "taken" /\ FoundAt(p) \in {"waiting", "cancelled"}
    BY <1>0, <2>1, <2>3 DEF HeldAs, FoundAt, Answer, TakenInv, Pending
  <2>5. \A q \in Post : HeldAs(q)' = IF q = p THEN "free" ELSE HeldAs(q)
    BY <2>1, <2>3 DEF HeldAs, Answer
  <2>6. \A q \in Post : FoundAt(q)' = IF q = p THEN "waiting" ELSE FoundAt(q)
    BY <2>2 DEF FoundAt, Pending
  <2>7. Public!Next
    BY <2>1, <2>4, <2>5, <2>6, ReturnRefines
  <2> QED  BY <2>7
<1>7. ASSUME NEW p \in Post, NEW answer \in Answer, Publish(p, answer)  PROVE Goal
  <2>1. /\ p \in engine.todo /\ engine.phase = "fire" /\ engine'.phase = answer
        /\ engine'.todo = engine.todo \ {p} /\ engine'.hand = {p}
        /\ post' = post /\ UNCHANGED broken
    BY <1>0, <1>7 DEF Publish, Soonest, PostTypes
  <2>2. engine.hand = {}
    BY <1>0, <2>1 DEF HandInv, Answer
  <2>3. HeldAs(p) = "taken" /\ FoundAt(p) \in {"waiting", "cancelled"}
    BY <1>0, <2>1, <2>2 DEF HeldAs, FoundAt, TakenInv, Pending
  <2>4. \A q \in Post : HeldAs(q)' = IF q = p THEN answer ELSE HeldAs(q)
    BY <2>1, <2>2 DEF HeldAs
  <2>5. \E taken \in {answer = "sent", TRUE} :
           published' = [published EXCEPT ![p] = IF taken THEN @ + 1 ELSE @]
    BY <1>7 DEF Publish
  <2>6. Public!Next
    BY <1>s, <2>1, <2>3, <2>4, <2>5, TryRefines
  <2> QED  BY <2>6

<1>8. ASSUME NEW p \in Post, MarkOutcome(p)  PROVE Goal
  <2>1. /\ p \in engine.hand /\ engine.phase \in Answer /\ engine'.phase = "fire"
        /\ engine'.todo = engine.todo /\ engine'.hand = {} /\ UNCHANGED <<published, broken>>
    BY <1>0, <1>8 DEF MarkOutcome, PostTypes, Answer
  <2>2. /\ post'[p].status = IF engine.phase = "sent" THEN "posted" ELSE "failed"
        /\ \A q \in Post \ {p} : post'[q] = post[q]
    BY <1>0, <1>8 DEF MarkOutcome, PostTypes
  <2>3. engine.hand = {p} /\ p \notin engine.todo
    BY <1>0, <2>1 DEF HandInv
  <2>4. HeldAs(p) = engine.phase
    BY <2>1 DEF HeldAs
  <2>5. \A q \in Post : HeldAs(q)' = IF q = p THEN "free" ELSE HeldAs(q)
    BY <2>1, <2>3 DEF HeldAs, Answer
  <2>6. \A q \in Post : FoundAt(q)' = IF q = p
                                      THEN IF HeldAs(p) = "sent" THEN "posted" ELSE "failed"
                                      ELSE FoundAt(q)
    BY <2>2, <2>4 DEF FoundAt, Pending
  <2>7. Public!Next
    BY <2>1, <2>4, <2>5, <2>6, SettleRefines
  <2> QED  BY <2>7
<1>9. ASSUME NEW p \in Post, MarkFails(p)  PROVE Goal
  <2>1. /\ p \in engine.hand /\ post' = post /\ UNCHANGED published /\ broken' = Struck({p})
        /\ engine'.hand = {} /\ engine.phase \in {"carded"} \cup Answer
    BY <1>0, <1>9 DEF MarkFails, PostTypes, Resting, Answer
  <2>2. engine.hand = {p} /\ p \notin engine.todo
    BY <1>0, <2>1 DEF HandInv
  <2>3. broken' = [q \in Post |-> IF q \in {p} THEN broken[q] + 1 ELSE broken[q]]
    BY <2>1 DEF Struck
  <2>4. HeldAs(p) # "free" /\ \A q \in engine.todo : HeldAs(q) = "taken"
    BY <2>1, <2>2 DEF HeldAs, Answer
  <2>5. SamePlaces
    BY <1>s, <2>1
  <2>6. CASE engine.phase = "carded"
    <3> DEFINE gone == engine.todo \cup {p}
    <3>1. engine'.todo = {}
      BY <1>9, <2>6 DEF MarkFails, Resting
    <3>2. \A q \in Post : HeldAs(q)' = IF q \in gone THEN "free" ELSE HeldAs(q)
      BY <2>1, <2>2, <3>1 DEF HeldAs
    <3>3. gone \in SUBSET Post /\ {p} \in SUBSET gone
      BY <1>0 DEF PostTypes
    <3>4. \A q \in gone : HeldAs(q) # "free" /\ (HeldAs(q) \in Answer => q \in {p})
      BY <2>4 DEF Answer
    <3> HIDE DEF gone
    <3>5. Public!Next
      BY <2>1, <2>3, <2>5, <3>2, <3>3, <3>4, LetGoRefines
    <3> QED  BY <3>5
  <2>7. CASE engine.phase \in Answer
    <3>1. engine'.todo = engine.todo /\ engine'.phase = "fire"
      BY <1>0, <1>9, <2>7 DEF MarkFails, Answer, PostTypes
    <3>2. \A q \in Post : HeldAs(q)' = IF q \in {p} THEN "free" ELSE HeldAs(q)
      BY <2>1, <2>2, <3>1 DEF HeldAs, Answer
    <3>3. {p} \in SUBSET Post /\ {p} \in SUBSET {p}
      OBVIOUS
    <3>4. \A q \in {p} : HeldAs(q) # "free" /\ (HeldAs(q) \in Answer => q \in {p})
      BY <2>4
    <3>5. Public!Next
      BY <2>1, <2>3, <2>5, <3>2, <3>3, <3>4, LetGoRefines
    <3> QED  BY <3>5
  <2> QED  BY <2>1, <2>6, <2>7
<1>10. CASE EngineRestart
  <2> DEFINE gone == engine.todo \cup engine.hand
             struck == engine.hand
  <2>1. /\ engine' = Resting /\ post' = post /\ UNCHANGED published
        /\ broken' = [q \in Post |-> IF q \in struck THEN broken[q] + 1 ELSE broken[q]]
    BY <1>10 DEF EngineRestart, Struck
  <2>2. \A q \in Post : HeldAs(q)' = IF q \in gone THEN "free" ELSE HeldAs(q)
    BY <2>1 DEF HeldAs, Resting
  <2>3. gone \in SUBSET Post /\ struck \in SUBSET gone
    BY <1>0 DEF PostTypes
  <2>4. \A q \in gone : HeldAs(q) # "free" /\ (HeldAs(q) \in Answer => q \in struck)
    BY DEF HeldAs, Answer
  <2>5. SamePlaces
    BY <1>s, <2>1
  <2> HIDE DEF gone, struck
  <2>6. Public!Next
    BY <2>1, <2>2, <2>3, <2>4, <2>5, LetGoRefines
  <2> QED  BY <2>6
<1>11. ASSUME NEW p \in Post, NEW at \in 0 .. PostHorizon, Enqueue(p, at)  PROVE Goal
  <2>1. /\ UNCHANGED <<engine, published, broken>> /\ post[p].status = "none"
        /\ post'[p].status = "queued" /\ \A q \in Post \ {p} : post'[q] = post[q]
    BY <1>0, <1>11 DEF Enqueue, PostTypes
  <2>2. FoundAt(p) = "none" /\ \A q \in Post : FoundAt(q)' = IF q = p THEN "waiting" ELSE FoundAt(q)
    BY <2>1 DEF FoundAt, Pending
  <2>3. SameHolds
    BY <2>1 DEF SameHolds, HeldAs
  <2>4. Public!Next
    BY <2>1, <2>2, <2>3, CommandRefines
  <2> QED  BY <2>4
<1>12. ASSUME NEW p \in Post, CancelPost(p)  PROVE Goal
  <2>1. /\ UNCHANGED <<engine, published, broken>> /\ post[p].status \in Pending
        /\ post'[p].status = "cancelled" /\ \A q \in Post \ {p} : post'[q] = post[q]
    BY <1>0, <1>12 DEF CancelPost, PostTypes
  <2>2. FoundAt(p) = "waiting" /\ \A q \in Post : FoundAt(q)' = IF q = p THEN "cancelled" ELSE FoundAt(q)
    BY <2>1 DEF FoundAt, Pending
  <2>3. SameHolds
    BY <2>1 DEF SameHolds, HeldAs
  <2>4. Public!Next
    BY <2>1, <2>2, <2>3, CommandRefines
  <2> QED  BY <2>4
<1>13. CASE UNCHANGED postVars
  <2>1. SameHolds
    BY <1>13 DEF SameHolds, HeldAs, postVars
  <2> QED  BY <1>13, <1>s, <2>1, Invisible DEF postVars
<1> QED
  BY <1>1, <1>2, <1>3, <1>4, <1>5, <1>6, <1>7, <1>8, <1>9, <1>10, <1>11, <1>12, <1>13
     DEF PostNext, EngineStep

(* Every behaviour of the engine, the owner's commands and the faults is a *)
(* behaviour of PostPromise, for any posts, platforms, spans and bounds.   *)
THEOREM EngineImplementsPostPromise == PostSpec => ImplementsPostPromise
<1>1. PostInv /\ TakenInv /\ [PostNext]_allPostVars => TakenInv'
  BY StepTaken
<1>2. PostInv /\ TakenInv /\ [PostNext]_allPostVars => [Public!Next]_(Public!vars)
  <2>1. ASSUME UNCHANGED allPostVars  PROVE UNCHANGED Public!vars
    <3>1. SamePlaces /\ SameHolds /\ UNCHANGED <<published, broken>>
      BY <2>1 DEF allPostVars, postVars, SamePlaces, SameHolds, FoundAt, HeldAs
    <3> QED  BY <3>1, Invisible
  <2> QED  BY <2>1, StepPromise
<1> QED
  BY <1>1, <1>2, InitPosts, StepPosts, InitPromise, PTL
     DEF PostSpec, ImplementsPostPromise, Public!Spec

=============================================================================
