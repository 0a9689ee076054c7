---------------------------- MODULE RateGovernor ----------------------------
(***************************************************************************)
(* The rate governor for one platform and one account: a caller asks for a *)
(* permit, acts on the platform, and records the outcome.  All the state   *)
(* is in SQLite (rate_events, rate_halts, rate_warmup); a permit is not, so*)
(* nothing is reserved between permit() and record().                      *)
(*                                                                         *)
(* permit() is two steps, its gates and its counts, because every store    *)
(* call takes the connection anew; a denial that writes nothing is no step.*)
(***************************************************************************)
EXTENDS Daemon, FiniteSets

CONSTANTS
    Caller,            \* tasks and processes that act on the platform
    Kind,              \* the action kinds they ask for
    MaxPermits,        \* bound on permits granted
    BurstCap, DayCap,  \* the table's row: burst_5m and day
    GapSpan,           \* min_gap
    BurstSpan, DaySpan,
    WeekSpan,          \* a step of the warmup curve
    HaltSpan,          \* how long a suspicion halts the platform
    Quiet              \* instants inside the quiet hours

ASSUME GovernorAssumption ==
    /\ IsFiniteSet(Caller) /\ Caller # {}
    /\ MaxPermits \in Nat
    /\ BurstCap \in Nat \ {0} /\ DayCap \in Nat \ {0}
    /\ GapSpan \in Nat \ {0} /\ BurstSpan \in Nat /\ DaySpan \in Nat
    /\ WeekSpan \in Nat \ {0} /\ HaltSpan \in Nat \ {0}

VARIABLES
    events,        \* rate_events
    halt,          \* rate_halts.paused_until_ms, 0 for no row
    warmup,        \* rate_warmup.warmup_started_at_ms, -1 for no row
    asking,        \* what each caller asks for or holds a permit for
    permits        \* number of permits granted so far

govVars == <<events, halt, warmup, asking, permits>>

Unseeded == -1
(* `ok` and `failed` both spend quota: the call was made. *)
Outcomes == {"spent", "rolled_back", "suspicion"}

(* A caller's request: `at` is the clock evaluate() read, then the moment  *)
(* the permit was reserved.                                                *)
Idle == [step |-> "idle", kind |-> "none", at |-> 0, id |-> 0]
Request(step, kind, at, id) == [step |-> step, kind |-> kind, at |-> at, id |-> id]

Event == [id : 1 .. MaxPermits, kind : Kind, at : 0 .. MaxNow, status : Outcomes]

GovernorTypes ==
    /\ events \subseteq Event
    /\ halt \in 0 .. (MaxNow + HaltSpan)
    /\ warmup \in 0 .. MaxNow \cup {Unseeded}
    /\ asking \in [Caller -> [step : {"idle", "counting", "permitted", "acted", "suspicious"},
                              kind : Kind \cup {"none"}, at : 0 .. MaxNow, id : 0 .. MaxPermits]]
    /\ permits \in 0 .. MaxPermits

GovernorInit ==
    /\ events = {}
    /\ halt = 0
    /\ warmup = Unseeded
    /\ asking = [c \in Caller |-> Idle]
    /\ permits = 0

-----------------------------------------------------------------------------
(* The pure rules. *)

(* Which requests need the owner whatever the caps say: everything that    *)
(* writes text, every batch, and a Follow unless the target is a known     *)
(* contact and the risk is low.                                            *)
RequiresApproval(kind, mass, trusted) ==
    \/ mass
    \/ kind \in {"comment", "reply", "post", "connection_invite", "dm"}
    \/ kind = "follow" /\ ~trusted

(* Percent of a cap an account of this age may use. *)
WarmupPercent(age) ==
    CASE age < WeekSpan -> 25
      [] WeekSpan <= age /\ age < 2 * WeekSpan -> 50
      [] 2 * WeekSpan <= age /\ age < 3 * WeekSpan -> 75
      [] 3 * WeekSpan <= age /\ age < 4 * WeekSpan -> 90
      [] OTHER -> 100

Scaled(cap, percent) ==
    LET floor == (cap * percent) \div 100 IN IF floor < 1 THEN 1 ELSE floor

Spent(kind, from, to) ==
    {e \in events : e.kind = kind /\ e.at \in from .. to /\ e.status # "rolled_back"}

Halted(t) == halt > t

(* The windowed gates, at the clock the request read: both ends of a window*)
(* count, the gap is open at its far end.  Only the day is scaled.         *)
GapHeadroom(kind, t) ==
    \A e \in events : e.kind = kind /\ e.status # "rolled_back" => t - e.at >= GapSpan

\* Mutant: the cap itself still passes.
BurstUpToCap(kind, t) == Cardinality(Spent(kind, t - BurstSpan, t)) <= BurstCap

BurstHeadroom(kind, t) == Cardinality(Spent(kind, t - BurstSpan, t)) < BurstCap

DayHeadroom(kind, t) ==
    Cardinality(Spent(kind, t - DaySpan, t)) < Scaled(DayCap, WarmupPercent(t - warmup))

Headroom(kind, t) ==
    GapHeadroom(kind, t) /\ BurstHeadroom(kind, t) /\ DayHeadroom(kind, t)

-----------------------------------------------------------------------------
(* permit() and record(). *)

(* The gates before the counts: the halt, the approval matrix, the quiet   *)
(* hours; then the account's warmup row is seeded if it is missing.        *)
PassGates(c, kind) ==
    /\ asking[c].step = "idle"
    /\ ~Halted(now)
    /\ \E mass, trusted \in BOOLEAN : ~RequiresApproval(kind, mass, trusted)
    /\ now \notin Quiet
    /\ warmup' = IF warmup = Unseeded THEN now ELSE warmup
    /\ asking' = [asking EXCEPT ![c] = Request("counting", kind, now, 0)]
    /\ UNCHANGED <<events, halt, permits, daemonVars>>

Grant(c) ==
    /\ asking[c].step = "counting"
    /\ permits < MaxPermits
    /\ Headroom(asking[c].kind, asking[c].at)
    /\ permits' = permits + 1
    /\ asking' = [asking EXCEPT ![c] = Request("permitted", asking[c].kind, now, permits + 1)]
    /\ UNCHANGED <<events, halt, warmup, daemonVars>>

Deny(c) ==
    /\ asking[c].step = "counting"
    /\ ~Headroom(asking[c].kind, asking[c].at)
    /\ asking' = [asking EXCEPT ![c] = Idle]
    /\ UNCHANGED <<events, halt, warmup, permits, daemonVars>>

(* The call to the platform, after the caller's jitter. *)
Act(c) ==
    /\ asking[c].step = "permitted"
    /\ asking' = [asking EXCEPT ![c].step = "acted"]
    /\ UNCHANGED <<events, halt, warmup, permits, daemonVars>>

(* The event carries the moment the permit was reserved, not the moment it *)
(* was used.  A suspicion goes on to open a halt, in a statement of its own.*)
Record(c, outcome) ==
    /\ asking[c].step = "acted"
    /\ events' = events \cup {[id |-> asking[c].id, kind |-> asking[c].kind,
                               at |-> asking[c].at, status |-> outcome]}
    /\ asking' = [asking EXCEPT ![c] = IF outcome = "suspicion"
                                       THEN [asking[c] EXCEPT !.step = "suspicious"]
                                       ELSE Idle]
    /\ UNCHANGED <<halt, warmup, permits, daemonVars>>

SetHalt(until) == halt' = until

HaltOnSuspicion(c) ==
    /\ asking[c].step = "suspicious"
    /\ SetHalt(now + HaltSpan)
    /\ asking' = [asking EXCEPT ![c] = Idle]
    /\ UNCHANGED <<events, warmup, permits, daemonVars>>

(* record_halt(): a poll loop that meets a challenge or a rate-limit toast *)
(* halts the platform for a time of its own; the row is replaced.          *)
RecordHalt(span) ==
    /\ SetHalt(now + span)
    /\ UNCHANGED <<events, warmup, asking, permits, daemonVars>>

(* A restart forgets every permit, also of actions the platform has seen. *)
GovernorRestart ==
    /\ Restarts
    /\ asking' = [c \in Caller |-> Idle]
    /\ UNCHANGED <<events, halt, warmup, permits>>

GovernorStep(c) ==
    \/ \E kind \in Kind : PassGates(c, kind)
    \/ Grant(c)
    \/ Deny(c)
    \/ Act(c)
    \/ \E outcome \in Outcomes : Record(c, outcome)
    \/ HaltOnSuspicion(c)

GovernorNext ==
    \/ \E c \in Caller : GovernorStep(c)
    \/ \E span \in 1 .. HaltSpan : RecordHalt(span)
    \/ GovernorRestart
    \/ Tick /\ UNCHANGED govVars

GovernorSpec == DaemonInit /\ GovernorInit /\ [][GovernorNext]_<<daemonVars, govVars>>

-----------------------------------------------------------------------------
(* Properties. *)

(* Actions of a kind a window holds: recorded, or permitted and not yet    *)
(* recorded.                                                               *)
Promised(kind, from, to) ==
    {c \in Caller : /\ asking[c].step \in {"permitted", "acted"}
                    /\ asking[c].kind = kind
                    /\ asking[c].at \in from .. to}

Load(kind, from, to) ==
    Cardinality(Spent(kind, from, to)) + Cardinality(Promised(kind, from, to))

Overrun == Cardinality(Caller) - 1

(* The caps of governor/mod.rs under concurrent callers: permit() counts   *)
(* what is recorded and reserves nothing, so a window can exceed its cap   *)
(* by one for every other caller that is between permit() and record() -   *)
(* and never by more, whatever the callers, the warmup and restarts do.    *)
CapsHold ==
    \A kind \in Kind, t \in 0 .. now :
        /\ Load(kind, t - GapSpan + 1, t) <= 1 + Overrun
        /\ Load(kind, t - BurstSpan, t) <= BurstCap + Overrun
        /\ Load(kind, t - DaySpan, t) <= DayCap + Overrun
        /\ warmup # Unseeded /\ t - warmup < WeekSpan =>
              Load(kind, t - DaySpan, t) <= Scaled(DayCap, 25) + Overrun

=============================================================================
