------------------------------- MODULE MCReply -------------------------------
(* Small instances of ReplyAction for TLC.                                  *)
EXTENDS ReplySafety, ReplyRefinement, TLC

CONSTANT Beside      \* rows that are only scheduled, beside the one acted on

\* Handlers are interchangeable, and so are drafts.
Symmetry == Permutations(Handler) \cup Permutations(Draft)

\* Either the owner, the sweeps and the faults act on one row, or, beside
\* it, another is scheduled at once and both wait for the engine alone.
Quiet ==
    /\ crashes' = 0
    /\ \A h \in Handler : pc'[h] = "idle"
    /\ \A a \in Action :
          /\ status'[a] \in {"pending", "scheduled", "sending", "sent", "error"}
          /\ status'[a] = "pending" => status[a] = "pending"
          /\ status'[a] = "scheduled" => statusAt'[a] = 0 /\ scheduledAt'[a] \in 1 .. 2
          /\ status'[a] = "sending" => act'[Engine] = a
          /\ claimedFrom'[a] # "pending"
          /\ observed'[a] = NoTime /\ seenReply'[a] = NoTime /\ reconArmed'[a] = NoTime

Untouched(a) ==
    status'[a] = "pending" /\ observed'[a] = NoTime /\ updatedAt'[a] = 0 /\ \A p \in Proc : act'[p] # a

\* A revision, in the runs that have a draft for it, is made at once on a
\* card without a proposal and is over by time 1 (its last write restarts the
\* grace of a claim); no other click, row or restart follows it but the
\* card's own Schedule and what the engine makes of it.
Revised == Cardinality({d \in Draft : gmail'[d] # "none"}) > Cardinality(Action)
Revising(p) == pc'[p] \in {"redrafted", "refreshed", "retiring", "discarding"}
RevisedFirst ==
    /\ crashes' = 0 /\ \A b \in Beside : Untouched(b)
    /\ \A p \in Handler : pc'[p] = "idle" \/ (Revising(p) /\ now' <= 1)
    /\ (\E d \in Draft : gmail[d] = "none" /\ gmail'[d] # "none") =>
          now = 0 /\ \A a \in Action : scheduledAt[a] = NoTime

OneOrMore ==
    /\ \A b \in Beside : Untouched(b) \/ Quiet
    /\ Revised => RevisedFirst

\* Each row has the draft TLC picks for it; only the one acted on may have a
\* proposal.
LiveInit ==
    /\ Init
    /\ \A b \in Beside : scheduledAt[b] = NoTime
    /\ draftId = CHOOSE f \in [Action -> Draft] : \A a, b \in Action : f[a] = f[b] => a = b

LiveSpec == LiveInit /\ [][Next]_vars /\ Fairness
=============================================================================
