---------------------------- MODULE ReasonerChain ----------------------------
(***************************************************************************)
(* A model call: one pass over the provider chain, the cooldown latch that *)
(* all processes share through a file, and the gate that bounds how many   *)
(* CLI children one process runs.                                          *)
(*                                                                         *)
(* The file is replaced atomically but read, changed and written in two    *)
(* steps, so a write may carry a copy of the other providers that another  *)
(* process has changed in between.                                         *)
(***************************************************************************)
EXTENDS Daemon, Sequences, FiniteSets

CONSTANTS
    Job,             \* model calls
    Process,         \* the daemon and the one-shot commands
    Home,            \* the process of each call
    Asked,           \* capability classes the calls of a run have
    Chain,           \* AUGMENTAGENT_REASONER_CHAIN, parsed
    Slots,           \* capacity of a process's gate
    QuotaSpan, DownSpan, HintSpan   \* 30 minutes, 60 seconds, 6 hours

Provider == {"claude", "codex", "gemini", "cerebras"}

Class == {"text", "read", "write", "agentic"}

ASSUME ChainAssumption ==
    /\ Home \in [Job -> Process] /\ Asked \subseteq Class
    /\ Chain \in Seq(Provider) /\ Chain # <<>>
    /\ \A i, k \in DOMAIN Chain : Chain[i] = Chain[k] => i = k
    /\ Slots \in Nat \ {0}
    /\ QuotaSpan \in Nat /\ DownSpan \in Nat /\ HintSpan \in Nat

VARIABLES
    job,        \* each call: where it stands, its class, its errors, its copy of the file
    latch,      \* the cooldown file: until when each provider is skipped, 0 when absent
    slots,      \* free permits of each process's gate
    excused     \* history: how long the outages reported so far excuse a latch

chainVars == <<job, latch, slots, excused>>
allChainVars == <<daemonVars, chainVars>>

Until == 0 .. MaxNow + QuotaSpan + DownSpan + HintSpan

ChainTypes ==
    /\ job \in [Job -> [phase : {"idle", "walk", "queue", "run", "latch", "clear", "done"},
                        class : Class, at : Nat, again : BOOLEAN,
                        error : {"none", "outage", "local"}, skipped : SUBSET Provider,
                        until : Until, copy : [Provider -> Until],
                        result : {"none", "ok", "outage", "local", "content", "dropped"}]]
    /\ latch \in [Provider -> Until]
    /\ slots \in [Process -> 0 .. Slots]
    /\ excused \in [Provider -> Until]

ChainInit ==
    /\ job = [j \in Job |->
                 [phase |-> "idle", class |-> "text", at |-> 1, again |-> FALSE,
                  error |-> "none", skipped |-> {}, until |-> 0,
                  copy |-> [p \in Provider |-> 0], result |-> "none"]]
    /\ latch = [p \in Provider |-> 0]
    /\ slots = [q \in Process |-> Slots]
    /\ excused = [p \in Provider |-> 0]

-----------------------------------------------------------------------------
(* The policy of providers.rs and what each adapter can answer. *)

AllowedFor(provider, class) ==
    CASE provider = "claude" -> TRUE
      [] provider = "gemini" -> class \in {"text", "read"}
      [] OTHER -> class = "text"

(* A quota refusal is a successful completion whose text says so; empty    *)
(* output is content, and a corrupted configuration can be restored.       *)
ClaudeAnswer == {"ok", "quota", "down", "missing", "empty", "corrupted", "timeout"}

(* Here a run without text is an outage. *)
CodexAnswer == {"ok", "quota", "down", "missing", "timeout"}

GeminiAnswer == {"ok", "quota", "down", "missing", "timeout"}

(* An HTTP call, with no child and no gate; a rejected key counts as local. *)
CerebrasAnswer == {"ok", "quota", "down", "missing", "timeout"}

AnswerOf(provider) ==
    CASE provider = "claude" -> ClaudeAnswer
      [] provider = "codex" -> CodexAnswer
      [] provider = "gemini" -> GeminiAnswer
      [] OTHER -> CerebrasAnswer

Gated(provider) == provider # "cerebras"

Outage == {"quota", "down", "timeout"}

\* Mutant: a long call that ran out of time counts as an outage.
AnyOutage(answer, class) == answer \in Outage

(* A long call that ran out of time says nothing about the provider. *)
Latchworthy(answer, class) ==
    answer \in Outage /\ (answer = "timeout" => class \in {"text", "read"})

(* parse_reset_hint: at most six hours ahead, or no hint at all; only the  *)
(* claude and codex adapters look for one.                                 *)
ResetHint(provider) ==
    IF provider \in {"claude", "codex"} THEN {0} \cup (now + 1) .. (now + HintSpan) ELSE {0}

LatchUntil(answer, hint) ==
    CASE answer = "quota" /\ hint > 0 -> hint
      [] answer = "quota" /\ hint = 0 -> now + QuotaSpan
      [] OTHER -> now + DownSpan

Latched(provider) == latch[provider] > now

-----------------------------------------------------------------------------
(* One call. *)

Step(j, phase) == job[j].phase = phase

Here(j) == Chain[job[j].at]

More(j) == job[j].at <= Len(Chain)

Ask(j, class) ==
    /\ Step(j, "idle")
    /\ job' = [job EXCEPT ![j] = [@ EXCEPT !.phase = "walk", !.class = class]]
    /\ UNCHANGED <<latch, slots, excused, daemonVars>>

SkipDisallowed(j) ==
    /\ Step(j, "walk") /\ More(j) /\ ~AllowedFor(Here(j), job[j].class)
    /\ job' = [job EXCEPT ![j].at = @ + 1]
    /\ UNCHANGED <<latch, slots, excused, daemonVars>>

\* Mutant: a latched provider is noted and not passed.
SkipInPlace(j) ==
    /\ Step(j, "walk") /\ More(j) /\ AllowedFor(Here(j), job[j].class)
    /\ Latched(Here(j))
    /\ job' = [job EXCEPT ![j].skipped = @ \cup {Here(j)}]
    /\ UNCHANGED <<latch, slots, excused, daemonVars>>

SkipLatched(j) ==
    /\ Step(j, "walk") /\ More(j) /\ AllowedFor(Here(j), job[j].class)
    /\ Latched(Here(j))
    /\ job' = [job EXCEPT ![j] = [@ EXCEPT !.at = job[j].at + 1,
                                           !.skipped = job[j].skipped \cup {Here(j)}]]
    /\ UNCHANGED <<latch, slots, excused, daemonVars>>

StartCall(j) ==
    /\ Step(j, "walk") /\ More(j) /\ AllowedFor(Here(j), job[j].class)
    /\ ~Latched(Here(j))
    /\ job' = [job EXCEPT ![j].phase = IF Gated(Here(j)) THEN "queue" ELSE "run"]
    /\ UNCHANGED <<latch, slots, excused, daemonVars>>

\* Mutant: a child is started without waiting for a permit.
TakeAnySlot(j) ==
    /\ Step(j, "queue")
    /\ slots' = [slots EXCEPT ![Home[j]] = @ - 1]
    /\ job' = [job EXCEPT ![j].phase = "run"]
    /\ UNCHANGED <<latch, excused, daemonVars>>

(* The permit is taken before the watchdog starts. *)
TakeSlot(j) ==
    /\ Step(j, "queue") /\ slots[Home[j]] > 0
    /\ slots' = [slots EXCEPT ![Home[j]] = @ - 1]
    /\ job' = [job EXCEPT ![j].phase = "run"]
    /\ UNCHANGED <<latch, excused, daemonVars>>

(* The permit goes with the child, whatever ends it. *)
FreeSlot(j) ==
    slots' = IF Step(j, "run") /\ Gated(Here(j))
             THEN [slots EXCEPT ![Home[j]] = @ + 1] ELSE slots

(* A success clears the provider's entry, if the file has one. *)
Succeed(j) ==
    /\ Step(j, "run")
    /\ FreeSlot(j)
    /\ job' = [job EXCEPT ![j] = [@ EXCEPT !.phase = IF latch[Here(j)] = 0 THEN "done" ELSE "clear",
                                           !.copy = latch, !.result = "ok"]]
    /\ UNCHANGED <<latch, excused, daemonVars>>

WriteClear(j) ==
    /\ Step(j, "clear")
    /\ latch' = [job[j].copy EXCEPT ![Here(j)] = 0]
    /\ job' = [job EXCEPT ![j].phase = "done"]
    /\ UNCHANGED <<slots, excused, daemonVars>>

(* A later entry that is still running stands; a shorter one is replaced.  *)
Keeps(provider, until) == latch[provider] >= until /\ Latched(provider)

(* The first provider-side error is the one the caller will see. *)
FailOver(j, answer, hint) ==
    LET until == LatchUntil(answer, hint)
        writes == Latchworthy(answer, job[j].class) /\ ~Keeps(Here(j), until)
        excuses == answer # "timeout" \/ job[j].class \in {"text", "read"}
    IN  /\ Step(j, "run")
        /\ answer \in AnswerOf(Here(j)) \cap Outage
        /\ FreeSlot(j)
        /\ excused' = IF excuses /\ until > excused[Here(j)]
                      THEN [excused EXCEPT ![Here(j)] = until] ELSE excused
        /\ job' = [job EXCEPT ![j] = [@ EXCEPT !.phase = IF writes THEN "latch" ELSE "walk",
                                               !.at = job[j].at + (IF writes THEN 0 ELSE 1),
                                               !.error = "outage",
                                               !.until = until, !.copy = latch]]
        /\ UNCHANGED <<latch, daemonVars>>

WriteLatch(j) ==
    /\ Step(j, "latch")
    /\ latch' = [job[j].copy EXCEPT ![Here(j)] = job[j].until]
    /\ job' = [job EXCEPT ![j] = [@ EXCEPT !.phase = "walk", !.at = job[j].at + 1]]
    /\ UNCHANGED <<slots, excused, daemonVars>>

(* A local fault is never latched and hides no provider-side error. *)
FailLocally(j) ==
    /\ Step(j, "run")
    /\ FreeSlot(j)
    /\ job' = [job EXCEPT ![j] = [@ EXCEPT !.phase = "walk", !.at = job[j].at + 1,
                                           !.error = IF job[j].error = "outage" THEN "outage" ELSE "local"]]
    /\ UNCHANGED <<latch, excused, daemonVars>>

\* Mutant: the permit of the child that died is not given back.
RecoverHolding(j) ==
    /\ Step(j, "run") /\ Here(j) = "claude" /\ ~job[j].again
    /\ job' = [job EXCEPT ![j] = [@ EXCEPT !.phase = "queue", !.again = TRUE]]
    /\ UNCHANGED <<latch, slots, excused, daemonVars>>

(* Claude's configuration is restored from a backup and the call is queued *)
(* again, once; without a backup, or the second time, the fault is local.  *)
Recover(j) ==
    /\ Step(j, "run") /\ Here(j) = "claude" /\ ~job[j].again
    /\ FreeSlot(j)
    /\ job' = [job EXCEPT ![j] = [@ EXCEPT !.phase = "queue", !.again = TRUE]]
    /\ UNCHANGED <<latch, excused, daemonVars>>

(* An untyped error ends the call at once. *)
EndOnContent(j) ==
    /\ Step(j, "run") /\ "empty" \in AnswerOf(Here(j))
    /\ FreeSlot(j)
    /\ job' = [job EXCEPT ![j] = [@ EXCEPT !.phase = "done", !.result = "content"]]
    /\ UNCHANGED <<latch, excused, daemonVars>>

(* Nobody answered; with every provider latched or barred the chain itself *)
(* is reported unavailable.                                                *)
GiveUp(j) ==
    /\ Step(j, "walk") /\ ~More(j)
    /\ job' = [job EXCEPT ![j] = [@ EXCEPT !.phase = "done",
                                           !.result = IF job[j].error = "local" THEN "local" ELSE "outage"]]
    /\ UNCHANGED <<latch, slots, excused, daemonVars>>

(* The caller's future is dropped: the child dies with its permit. *)
DropCall(j) ==
    /\ job[j].phase \in {"queue", "run"}
    /\ FreeSlot(j)
    /\ job' = [job EXCEPT ![j] = [@ EXCEPT !.phase = "done", !.result = "dropped"]]
    /\ UNCHANGED <<latch, excused, daemonVars>>

ProcessDies(q) ==
    /\ Restarts
    /\ job' = [j \in Job |-> IF Home[j] = q /\ job[j].phase # "idle"
                             THEN [job[j] EXCEPT !.phase = "done", !.result =
                                       IF job[j].phase = "done" THEN @ ELSE "dropped"]
                             ELSE job[j]]
    /\ slots' = [slots EXCEPT ![q] = Slots]
    /\ UNCHANGED <<latch, excused>>

CallStep(j) ==
    \/ SkipDisallowed(j) \/ SkipLatched(j) \/ StartCall(j) \/ TakeSlot(j)
    \/ Succeed(j) \/ WriteClear(j)
    \/ /\ Step(j, "run")
       /\ \E answer \in Outage, hint \in ResetHint(Here(j)) : FailOver(j, answer, hint)
    \/ WriteLatch(j) \/ FailLocally(j) \/ Recover(j) \/ EndOnContent(j) \/ GiveUp(j)

ChainNext ==
    \/ \E j \in Job : \/ \E class \in Asked : Ask(j, class)
                      \/ CallStep(j)
                      \/ DropCall(j)
    \/ \E q \in Process : ProcessDies(q)
    \/ Tick /\ UNCHANGED chainVars

(* The watchdog ends every child; the gate is first in, first out.         *)
ChainFairness == \A j \in Job : WF_allChainVars(CallStep(j))

ChainSpec == DaemonInit /\ ChainInit /\ [][ChainNext]_allChainVars /\ ChainFairness

-----------------------------------------------------------------------------
(* Properties. *)

(* Every permit is free or with a running child, also across recovery,     *)
(* dropped callers and failing providers (#898): none leaks, none is       *)
(* handed out twice.                                                       *)
SlotsBalance ==
    \A q \in Process :
        slots[q] + Cardinality({j \in Job : /\ Home[j] = q /\ Step(j, "run")
                                            /\ Gated(Here(j))}) = Slots

(* No interleaving of stale writes skips a provider longer than an outage  *)
(* it reported excuses; a long call that timed out excuses nothing.        *)
LatchIsExcused == \A p \in Provider : latch[p] <= excused[p]

(* Every call ends: queues, recoveries and failovers are finite.           *)
CallsEnd == \A j \in Job : job[j].phase = "walk" ~> job[j].phase = "done"

=============================================================================
