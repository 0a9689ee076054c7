-------------------------- MODULE ReplyRefinement ---------------------------
(* The refinement mapping from ReplyAction to SendOnce.                    *)
EXTENDS ReplyAction

\* Where the owner finds a row, by its status column.
Phase(s) ==
    CASE s = "pending" -> "open"
      [] s = "scheduled" -> "armed"
      [] s = "sending" -> "launched"
      [] s = "sent" -> "confirmed"
      [] s = "error" -> "failed"
      [] OTHER -> "closed"

Promise == INSTANCE SendOnce WITH
    phase <- [a \in Action |-> Phase(status[a])],
    out <- sentFor

\* The daemon keeps the promise: every step of every task is a step of
\* SendOnce or invisible to it.
ImplementsSendOnce == Promise!Spec

=============================================================================
