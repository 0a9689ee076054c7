----------------------------- MODULE JournalSync -----------------------------
(***************************************************************************)
(* The ShadowNote journal poller: a delta query over entries that change   *)
(* while it pages through them, a pass that may stop after any page and be *)
(* taken up again from a persisted cursor, and a watermark that moves when *)
(* a pass is complete.  The daemon polls, and so may a CLI one-shot in     *)
(* another process (`journal poll-once`, `backfill`), while the owner may  *)
(* skip to now.  A step is what a poller does between two awaits.          *)
(*                                                                         *)
(* The server files an entry on a page by its key, answers a page with the *)
(* entries as they are then, and returns what changed at or after the      *)
(* instant it is asked for.  Tombstones and dry runs, which only count,    *)
(* are left out.                                                           *)
(***************************************************************************)
EXTENDS Daemon, FiniteSets, Sequences

CONSTANTS
    Entry,           \* keys of journal entries
    MaxVersion,      \* bound on edits of one entry
    Pages,           \* pages of a query
    PageOf,          \* the page an entry is filed on
    PerPoll,         \* max_entries_per_poll
    PagesPerPoll,    \* max_pages_per_poll
    BaseSize,        \* base_sync_threshold
    MaxBreaks        \* bound on failed requests and decryptions

ASSUME JournalAssumption ==
    /\ MaxVersion \in Nat /\ MaxBreaks \in Nat
    /\ Pages \in Nat \ {0} /\ PerPoll \in Nat \ {0}
    /\ PagesPerPoll \in Nat \ {0} /\ BaseSize \in Nat \ {0}
    /\ PageOf \in [Entry -> 1 .. Pages]

VARIABLES
    version,      \* entries on the server: 0 until first written
    changedAt,    \* _lastChangedAt
    watermark,    \* journal_sync_state
    cursor,       \* journal_sync_cursor
    ingested,     \* journal_ingested: entries and versions
    pass,         \* the poll under way in each process
    clearing,     \* the owner's skip-to-now is between its two statements
    breaks,       \* number of failures so far
    lost,         \* history: versions in hand when their poll was dropped
    waived        \* history: versions the owner skipped

journalVars ==
    <<version, changedAt, watermark, cursor, ingested, pass, clearing, breaks, lost, waived>>
allJournalVars == <<daemonVars, journalVars>>

Poller == {"serve", "cli"}
Never == -1
Instant == 0 .. MaxNow
NoCursor == [since |-> Never, started |-> Never, token |-> 0]
Nothing == <<>>

Version == Entry \X (1 .. MaxVersion)
Cursors == [since : Instant \cup {Never}, started : Instant, token : 1 .. Pages]
Sheet == [token : 1 .. Pages, items : SUBSET Version]

(* A poll: the query it runs, the pages it read ahead, the one it is on,   *)
(* what is left of its budgets, and the entry it is decrypting.            *)
NoPass ==
    [step |-> "rest", resumed |-> FALSE, since |-> Never, started |-> Never, token |-> 1,
     ahead |-> <<>>, on |-> 1, items |-> {}, spent |-> FALSE, budget |-> 0, fetched |-> 0,
     held |-> Nothing]

JournalTypes ==
    /\ version \in [Entry -> 0 .. MaxVersion]
    /\ changedAt \in [Entry -> Instant]
    /\ watermark \in Instant \cup {Never}
    /\ cursor \in Cursors \cup {NoCursor}
    /\ ingested \subseteq Version /\ lost \subseteq Version /\ waived \subseteq Version
    /\ clearing \in BOOLEAN
    /\ breaks \in 0 .. MaxBreaks
    /\ pass \in [Poller ->
          [step : {"rest", "screen", "fetch", "page", "decrypt", "complete", "clear"},
           resumed : BOOLEAN, since : Instant \cup {Never}, started : Instant \cup {Never},
           token : 1 .. Pages + 1, ahead : Seq(Sheet), on : 1 .. Pages, items : SUBSET Version,
           spent : BOOLEAN, budget : 0 .. PerPoll, fetched : 0 .. PagesPerPoll,
           held : Version \cup {Nothing}]]

JournalInit ==
    /\ version = [e \in Entry |-> 0]
    /\ changedAt = [e \in Entry |-> 0]
    /\ watermark = Never
    /\ cursor = NoCursor
    /\ ingested = {} /\ lost = {} /\ waived = {}
    /\ pass = [p \in Poller |-> NoPass]
    /\ clearing = FALSE
    /\ breaks = 0

-----------------------------------------------------------------------------
(* The server and the owner.                                               *)

Current == {<<e, version[e]>> : e \in {e \in Entry : version[e] > 0}}

(* One page of `syncEntries(lastSync)`.                                    *)
SheetOf(token, since) ==
    [token |-> token,
     items |-> {i \in Current : PageOf[i[1]] = token /\ changedAt[i[1]] >= since}]

WriteEntry(e) ==
    /\ version[e] < MaxVersion
    /\ version' = [version EXCEPT ![e] = @ + 1]
    /\ changedAt' = [changedAt EXCEPT ![e] = now]
    /\ UNCHANGED <<daemonVars, watermark, cursor, ingested, pass, clearing, breaks, lost, waived>>

(* run_journal_skip_to_now: the cursor goes, then the watermark is set.    *)
SkipClears ==
    /\ ~clearing
    /\ clearing' = TRUE
    /\ cursor' = NoCursor
    /\ UNCHANGED <<daemonVars, version, changedAt, watermark, ingested, pass, breaks, lost, waived>>

SkipToNow ==
    /\ clearing
    /\ clearing' = FALSE
    /\ watermark' = now
    /\ waived' = waived \cup Current
    /\ UNCHANGED <<daemonVars, version, changedAt, cursor, ingested, pass, breaks, lost>>

-----------------------------------------------------------------------------
(* poll_once.                                                              *)

InPass(p, step) == pass[p].step = step

Become(p, record) == pass' = [pass EXCEPT ![p] = record]

Break == breaks < MaxBreaks /\ breaks' = breaks + 1

(* A pass that was interrupted goes on; a delta query of a fresh one is    *)
(* first screened, unless the owner asked for a full import (a backfill,   *)
(* whose own limit on entries is taken to be PerPoll).                     *)
Begin(p, allowBase) ==
    LET fresh == cursor = NoCursor
        since == IF fresh THEN watermark ELSE cursor.since
    IN Become(p, [NoPass EXCEPT
            !.step = IF fresh /\ since # Never /\ ~allowBase THEN "screen" ELSE "fetch",
            !.resumed = ~fresh,
            !.since = since,
            !.started = IF fresh THEN Never ELSE cursor.started,
            !.token = IF fresh THEN 1 ELSE cursor.token,
            !.budget = PerPoll])

BeginPoll(p) ==
    /\ InPass(p, "rest")
    /\ \E allowBase \in IF p = "cli" THEN BOOLEAN ELSE {FALSE} : Begin(p, allowBase)
    /\ UNCHANGED <<daemonVars, version, changedAt, watermark, cursor, ingested, clearing, breaks,
                   lost, waived>>

(* The server dates a pass by its first answer.                            *)
Fetched(q) ==
    [q EXCEPT !.started = IF @ = Never THEN now ELSE @, !.token = @ + 1, !.fetched = @ + 1]

RowsIn(ahead) == Cardinality(UNION {ahead[i].items : i \in DOMAIN ahead})

(* Phase A: pages are only read, until the pass ends, the page budget is   *)
(* gone, or there are so many rows that this is no delta: then nothing of  *)
(* the pass is kept.                                                       *)
Screen(p) ==
    LET q == Fetched(pass[p])
        ahead == Append(q.ahead, SheetOf(pass[p].token, q.since))
    IN /\ InPass(p, "screen")
       /\ Become(p, IF RowsIn(ahead) >= BaseSize THEN NoPass
                    ELSE IF q.token > Pages \/ q.fetched >= PagesPerPoll
                         THEN [q EXCEPT !.ahead = ahead, !.step = "fetch"]
                         ELSE [q EXCEPT !.ahead = ahead])
       /\ UNCHANGED <<daemonVars, version, changedAt, watermark, cursor, ingested, clearing,
                      breaks, lost, waived>>

OnSheet(q, sheet) ==
    [q EXCEPT !.step = "page", !.on = sheet.token, !.items = sheet.items, !.spent = FALSE]

(* Phase B: the next page, read ahead or asked for now.                    *)
NextPage(p) ==
    /\ InPass(p, "fetch")
    /\ \/ /\ pass[p].ahead # <<>>
          /\ Become(p, OnSheet([pass[p] EXCEPT !.ahead = Tail(@)], Head(pass[p].ahead)))
       \/ /\ pass[p].ahead = <<>> /\ pass[p].fetched < PagesPerPoll
          /\ Become(p, OnSheet(Fetched(pass[p]), SheetOf(pass[p].token, pass[p].since)))
       \/ /\ pass[p].ahead = <<>> /\ pass[p].fetched >= PagesPerPoll
          /\ Become(p, NoPass)
    /\ UNCHANGED <<daemonVars, version, changedAt, watermark, cursor, ingested, clearing, breaks,
                   lost, waived>>

(* A page has been asked for and has not come.                             *)
Asking(p) ==
    \/ InPass(p, "screen")
    \/ InPass(p, "fetch") /\ pass[p].ahead = <<>> /\ pass[p].fetched < PagesPerPoll

(* A request that fails ends the poll.  A resumed pass gives its cursor up *)
(* then: the next tick asks afresh.                                        *)
RequestFails(p) ==
    /\ Asking(p)
    /\ Break
    /\ Become(p, NoPass)
    /\ cursor' = IF pass[p].resumed THEN NoCursor ELSE cursor
    /\ UNCHANGED <<daemonVars, version, changedAt, watermark, ingested, clearing, lost, waived>>

(* A row of the page: known already, over the budget, or marked and then   *)
(* decrypted, which is a call to the key service.                          *)
TakeEntry(p) ==
    /\ InPass(p, "page")
    /\ \E i \in pass[p].items :
          LET rest == [pass[p] EXCEPT !.items = @ \ {i}]
          IN \/ /\ i \in ingested
                /\ Become(p, rest)
                /\ UNCHANGED ingested
             \/ /\ i \notin ingested /\ pass[p].budget = 0
                /\ Become(p, [rest EXCEPT !.spent = TRUE])
                /\ UNCHANGED ingested
             \/ /\ i \notin ingested /\ pass[p].budget > 0
                /\ ingested' = ingested \cup {i}
                /\ Become(p, [rest EXCEPT !.step = "decrypt", !.held = i, !.budget = @ - 1])
    /\ UNCHANGED <<daemonVars, version, changedAt, watermark, cursor, clearing, breaks, lost,
                   waived>>

(* Handed to ingest, or given up as one that cannot be read.               *)
IngestEntry(p) ==
    /\ InPass(p, "decrypt")
    /\ Become(p, [pass[p] EXCEPT !.step = "page", !.held = Nothing])
    /\ UNCHANGED <<daemonVars, version, changedAt, watermark, cursor, ingested, clearing, breaks,
                   lost, waived>>

DecryptFails(p) ==
    /\ InPass(p, "decrypt")
    /\ Break
    /\ Become(p, [pass[p] EXCEPT !.step = "page", !.held = Nothing])
    /\ UNCHANGED <<daemonVars, version, changedAt, watermark, cursor, ingested, clearing, lost,
                   waived>>

PageDone(p) == InPass(p, "page") /\ pass[p].items = {}

PassDone(p) == PageDone(p) /\ ~pass[p].spent /\ pass[p].on = Pages

(* Where the next poll starts: this page again if rows of it had to wait,  *)
(* else the next one.                                                      *)
\* Mutant: the page is done with, whatever had to wait.
ResumeAfter(q) == q.on + 1

ResumeToken(q) == IF q.spent THEN q.on ELSE q.on + 1

SaveCursor(p) ==
    LET q == pass[p]
    IN /\ PageDone(p) /\ ~PassDone(p)
       /\ cursor' = [since |-> q.since, started |-> q.started, token |-> ResumeToken(q)]
       /\ Become(p, IF q.spent \/ q.budget = 0 THEN NoPass ELSE [q EXCEPT !.step = "fetch"])
       /\ UNCHANGED <<daemonVars, version, changedAt, watermark, ingested, clearing, breaks,
                      lost, waived>>

(* The instant the pass began becomes the watermark; then the cursor goes. *)
CompletePass(p) ==
    /\ PassDone(p)
    /\ watermark' = pass[p].started
    /\ Become(p, [pass[p] EXCEPT !.step = "clear"])
    /\ UNCHANGED <<daemonVars, version, changedAt, cursor, ingested, clearing, breaks, lost,
                   waived>>

\* Mutant: the cursor is left to the next pass.
KeepCursor(p) ==
    /\ InPass(p, "clear")
    /\ Become(p, NoPass)
    /\ UNCHANGED <<daemonVars, version, changedAt, watermark, cursor, ingested, clearing, breaks, lost,
                   waived>>

ClearCursor(p) ==
    /\ InPass(p, "clear")
    /\ cursor' = NoCursor
    /\ Become(p, NoPass)
    /\ UNCHANGED <<daemonVars, version, changedAt, watermark, ingested, clearing, breaks, lost,
                   waived>>

EndsEarly(p) ==
    /\ Become(p, NoPass)
    /\ lost' = lost \cup ({pass[p].held} \ {Nothing})

(* A poll may not outlive half the interval: its future is dropped at      *)
(* whatever call it is waiting for.                                        *)
DropPoll ==
    /\ Asking("serve") \/ InPass("serve", "decrypt")
    /\ Break
    /\ EndsEarly("serve")
    /\ UNCHANGED <<daemonVars, version, changedAt, watermark, cursor, ingested, clearing, waived>>

(* Either process may die; what it wrote stays.                            *)
JournalRestarts ==
    /\ Restarts
    /\ \E p \in Poller : ~InPass(p, "rest") /\ EndsEarly(p)
    /\ UNCHANGED <<version, changedAt, watermark, cursor, ingested, clearing, breaks, waived>>

PassStep(p) ==
    \/ BeginPoll(p) \/ Screen(p) \/ NextPage(p) \/ TakeEntry(p) \/ IngestEntry(p)
    \/ SaveCursor(p) \/ CompletePass(p) \/ ClearCursor(p)

JournalNext ==
    \/ \E e \in Entry : WriteEntry(e)
    \/ SkipClears \/ SkipToNow
    \/ \E p \in Poller : PassStep(p) \/ RequestFails(p) \/ DecryptFails(p)
    \/ DropPoll
    \/ JournalRestarts
    \/ Tick /\ UNCHANGED journalVars

JournalSpec == DaemonInit /\ JournalInit /\ [][JournalNext]_allJournalVars

-----------------------------------------------------------------------------
(* Safety.                                                                 *)

(* What the watermark tells the server not to send again has been taken up *)
(* or was skipped by the owner, whatever was edited, deferred, dropped,    *)
(* resumed or polled by two processes at once.                             *)
WatermarkIsHonest ==
    \A i \in Current : changedAt[i[1]] < watermark => i \in ingested \cup waived

(* "Dropping the future mid-pass is safe: the cursor is persisted per page *)
(* (#900), so the next tick resumes rather than replays" (run): an entry   *)
(* that was in hand when a poll ended is not recorded as dealt with.       *)
DropIsSafe == lost \cap ingested = {}

-----------------------------------------------------------------------------
(* Progress.                                                               *)

(* The ticker goes on and a poll that has begun goes on; requests may fail *)
(* and polls be dropped, not for ever.                                     *)
FairJournalSpec == JournalSpec /\ WF_allJournalVars(PassStep("serve"))

(* The delta the next poll would ask for is refused as too large (#900):   *)
(* it waits for the owner.                                                 *)
TooLarge ==
    /\ cursor = NoCursor /\ watermark # Never
    /\ Cardinality({i \in Current : changedAt[i[1]] >= watermark}) >= BaseSize

(* Every version of an entry is taken up in the end, unless it is edited   *)
(* again first, the owner skips it, or the poller refuses the delta.       *)
EntriesComeIn ==
    \A e \in Entry, v \in 1 .. MaxVersion :
        version[e] = v ~> version[e] # v \/ <<e, v>> \in ingested \cup waived \/ TooLarge

=============================================================================
