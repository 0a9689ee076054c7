------------------------------ MODULE AgentRuns ------------------------------
(***************************************************************************)
(* The self-improvement pipeline: unattended runs that build a fix for a   *)
(* GitHub issue, have it reviewed and open or merge a pull request, and    *)
(* that resume draft pull requests which were left.  Two runs can be under *)
(* way, one per lock; what they share is on GitHub, in the checkout's      *)
(* worktrees and in the ledger of the day, and each step of a run sees it  *)
(* as it is by then.  The clock counts UTC days.                           *)
(***************************************************************************)
EXTENDS Daemon

CONSTANTS
    Issue,
    MaxCharges,      \* MAX_ATTEMPTS
    Rounds,          \* revise_rounds()
    MaxDiffs,        \* bound on the diffs that are made
    MaxPulls         \* bound on the pull requests of an issue

NoIssue == "none"

ASSUME AgentAssumption ==
    /\ NoIssue \notin Issue
    /\ MaxCharges \in Nat \ {0} /\ Rounds \in Nat
    /\ MaxDiffs \in Nat /\ MaxPulls \in Nat

VARIABLES
    issue,        \* open, label agent-gave-up, attempt markers among its comments
    pull,         \* the newest pull request of its branch: number and state
    remote,       \* the head of its branch on origin, 0 for no branch
    tree,         \* whose branch each worktree holds
    attempted,    \* the ledger of today
    run,          \* what each lock's holder does
    diffs,         \* number of diffs made so far
    verdicts,     \* history: the diffs a review approved, a run merged, the owner pushed,
                  \* that were shrunk, or were pushed by a run that crossed another
    excusedMarks  \* history: the markers there were when a label was lost or taken off

gitVars == <<pull, remote>>
agentVars == <<issue, gitVars, tree, attempted, run, diffs, verdicts, excusedMarks>>
allAgentVars == <<daemonVars, agentVars>>

(* The combined and the build lane share a lock and a worktree.            *)
Lock == {"main", "resume"}
Diff == 0 .. MaxDiffs
OpenPull == {"draft", "ready"}
Absent == [step |-> "idle", on |-> NoIssue, pr |-> 0, listed |-> {}, diff |-> 0, shown |-> 0,
           base |-> 0, round |-> 0, approved |-> FALSE, late |-> FALSE]

AgentTypes ==
    /\ issue \in [Issue -> [open : BOOLEAN, gaveUp : BOOLEAN, marks : Nat]]
    /\ pull \in [Issue -> [no : 0 .. MaxPulls, state : OpenPull \cup {"none", "closed", "merged"}]]
    /\ remote \in [Issue -> Diff]
    /\ tree \in [Lock -> Issue \cup {NoIssue}]
    /\ attempted \subseteq Issue
    /\ run \in [Lock -> [step : {"idle", "seek", "list", "pick", "found", "picked", "build", "adopted", "review",
                                 "revise", "publish", "create", "ready", "merge", "label",
                                 "close"},
                         on : Issue \cup {NoIssue}, pr : 0 .. MaxPulls, listed : SUBSET Issue,
                         diff : Diff, shown : Diff, base : Diff, round : 0 .. Rounds,
                         approved : BOOLEAN, late : BOOLEAN]]
    /\ diffs \in Diff
    /\ verdicts \in [{"approved", "landed", "owners", "shrunk", "crossed"} -> SUBSET Diff]
    /\ excusedMarks \in [Issue -> Nat]

AgentInit ==
    /\ issue = [i \in Issue |-> [open |-> TRUE, gaveUp |-> FALSE, marks |-> 0]]
    /\ pull = [i \in Issue |-> [no |-> 0, state |-> "none"]]
    /\ remote = [i \in Issue |-> 0]
    /\ tree = [k \in Lock |-> NoIssue]
    /\ attempted = {}
    /\ run = [k \in Lock |-> Absent]
    /\ diffs = 0
    /\ verdicts = [about \in {"approved", "landed", "owners", "shrunk", "crossed"} |-> {}]
    /\ excusedMarks = [i \in Issue |-> 0]

On(k) == run[k].on
Is(k, step) == run[k].step = step
Resuming(k) == run[k].pr # 0

StepsTo(k, step) == run' = [run EXCEPT ![k].step = step]

(* cleanup() removes the worktree; the lock is free when the run returns.  *)
Cleanup(k) == tree' = [tree EXCEPT ![k] = NoIssue]
Ends(k) == run' = [run EXCEPT ![k] = Absent]

Notes(about, diff) == verdicts' = [verdicts EXCEPT ![about] = @ \cup {diff}]

(* Why an exhausted issue is not labelled out. *)
ExcuseIssue(i) == excusedMarks' = [excusedMarks EXCEPT ![i] = issue'[i].marks]

-----------------------------------------------------------------------------
(* A run takes its lock and looks for work.  A red main is worked on by the*)
(* same two paths, under the same checks, on the issue filed for it.       *)

StartRun(k) ==
    /\ Is(k, "idle")
    /\ \E first \in {"seek"} \cup IF k = "main" THEN {"list"} ELSE {} : StepsTo(k, first)
    /\ UNCHANGED <<issue, gitVars, tree, attempted, diffs, verdicts, excusedMarks, daemonVars>>

(* Issues are listed while they are open, with or without the label.       *)
Given(i) == issue[i].open /\ issue[i].gaveUp

(* A draft whose issue gave up is closed on sight. *)
CloseGaveUp(k, i) ==
    /\ Is(k, "seek") /\ Given(i) /\ pull[i].state = "draft"
    /\ pull' = [pull EXCEPT ![i].state = "closed"]
    /\ UNCHANGED <<issue, remote, tree, attempted, run, diffs, verdicts, excusedMarks, daemonVars>>

FindDraft(k, i) ==
    /\ Is(k, "seek") /\ pull[i].state = "draft" /\ ~Given(i)
    /\ i \notin attempted
    /\ run' = [run EXCEPT ![k] = [@ EXCEPT !.step = "found", !.on = i, !.pr = pull[i].no]]
    /\ UNCHANGED <<issue, gitVars, tree, attempted, diffs, verdicts, excusedMarks, daemonVars>>

(* Nothing to resume, or GitHub did not say; the resume lane is done then. *)
NoDraft(k) ==
    /\ Is(k, "seek")
    /\ IF k = "main" THEN StepsTo(k, "list") ELSE Ends(k)
    /\ UNCHANGED <<issue, gitVars, tree, attempted, diffs, verdicts, excusedMarks, daemonVars>>

ListIssues(k) ==
    /\ Is(k, "list")
    /\ \E offered \in SUBSET {i \in Issue : issue[i].open /\ ~issue[i].gaveUp} :
          run' = [run EXCEPT ![k] = [@ EXCEPT !.step = "pick", !.listed = offered \ attempted]]
    /\ UNCHANGED <<issue, gitVars, tree, attempted, diffs, verdicts, excusedMarks, daemonVars>>

\* Mutant: the check for an open pull request is dropped.
PickListed(k, i) ==
    /\ Is(k, "pick") /\ i \in run[k].listed
    /\ run' = [run EXCEPT ![k] = [@ EXCEPT !.step = "picked", !.on = i, !.listed = {}]]
    /\ UNCHANGED <<issue, gitVars, tree, attempted, diffs, verdicts, excusedMarks, daemonVars>>

(* has_open_agent_pr asks GitHub now; the rest is as it was listed.        *)
PickIssue(k, i) ==
    /\ Is(k, "pick") /\ i \in run[k].listed /\ pull[i].state \notin OpenPull
    /\ run' = [run EXCEPT ![k] = [@ EXCEPT !.step = "picked", !.on = i, !.listed = {}]]
    /\ UNCHANGED <<issue, gitVars, tree, attempted, diffs, verdicts, excusedMarks, daemonVars>>

(* With nothing to build, a label that an issue carries which was built    *)
(* once and has not used up its attempts is taken off again.               *)
Retriage(k) ==
    /\ Is(k, "pick") /\ \A i \in run[k].listed : pull[i].state \in OpenPull
    /\ \E back \in SUBSET {i \in Issue : Given(i) /\ issue[i].marks \in 1 .. MaxCharges - 1} :
          issue' = [i \in Issue |-> [issue[i] EXCEPT !.gaveUp = @ /\ i \notin back]]
    /\ Ends(k)
    /\ UNCHANGED <<gitVars, tree, attempted, diffs, verdicts, excusedMarks, daemonVars>>

(* A branch that another worktree holds can be neither deleted nor added.  *)
TreeFree(k) == \A other \in Lock \ {k} : tree[other] # On(k)

(* reclaim_worktree, then `git worktree add`. *)
AddTree(k) ==
    /\ Is(k, "picked")
    /\ IF TreeFree(k)
       THEN tree' = [tree EXCEPT ![k] = On(k)] /\ StepsTo(k, "build")
       ELSE tree' = [tree EXCEPT ![k] = NoIssue] /\ Ends(k)
    /\ UNCHANGED <<issue, gitVars, attempted, diffs, verdicts, excusedMarks, daemonVars>>

(* Another run had the draft before this one marked the ledger. *)
Late(k) == On(k) \in attempted \/ \E other \in Lock \ {k} : On(other) = On(k) /\ ~Is(other, "found")

(* The ledger is marked first, then the branch is taken from origin; the   *)
(* author of the issue may not be trusted.                                 *)
ResumeDraft(k) ==
    LET i == On(k) IN
    /\ Is(k, "found")
    /\ attempted' = attempted \cup {i}
    /\ \/ /\ TreeFree(k) /\ remote[i] # 0
          /\ tree' = [tree EXCEPT ![k] = i]
          /\ run' = [run EXCEPT ![k] = [@ EXCEPT !.step = "adopted", !.diff = remote[i],
                                                 !.shown = remote[i], !.base = remote[i], !.late = Late(k)]]
       \/ Ends(k) /\ UNCHANGED tree
    /\ UNCHANGED <<issue, gitVars, diffs, verdicts, excusedMarks, daemonVars>>

(* `git push` without force: a branch that has moved is refused, one that  *)
(* is gone is created again.                                               *)
Accepts(k) == remote[On(k)] \in {0, run[k].base}

Pushes(k, diff) ==
    /\ remote' = [remote EXCEPT ![On(k)] = diff]
    /\ IF run[k].late THEN Notes("crossed", diff) ELSE UNCHANGED verdicts

(* A round's commit, of which a resumed draft is pushed at once if origin  *)
(* takes it.                                                               *)
Round(k, round) ==
    LET diff == diffs + 1
        made == [run[k] EXCEPT !.step = "review", !.diff = diff, !.shown = diff, !.round = round]
    IN  /\ diffs < MaxDiffs
        /\ diffs' = diff
        /\ \/ UNCHANGED <<remote, verdicts>> /\ run' = [run EXCEPT ![k] = made]
           \/ /\ Resuming(k) /\ Accepts(k)
              /\ Pushes(k, diff)
              /\ run' = [run EXCEPT ![k] = [made EXCEPT !.base = diff]]

(* Main is merged in, by the builder where it conflicts.                   *)
MergeMain(k) ==
    /\ Is(k, "adopted")
    /\ \/ StepsTo(k, "review") /\ UNCHANGED <<remote, diffs, verdicts>>
       \/ Round(k, 0)
    /\ UNCHANGED <<issue, pull, tree, attempted, excusedMarks, daemonVars>>

-----------------------------------------------------------------------------
(* Refusals and failures. *)

(* Blast radius, an untrusted author, a scoping pass that calls it not     *)
(* fixable or too large: labelled out, at no cost to the budget.           *)
Refuse(k) ==
    /\ run[k].step \in {"picked", "build"} /\ run[k].diff = 0
    /\ \E labelled \in BOOLEAN : issue' = [issue EXCEPT ![On(k)].gaveUp = @ \/ labelled]
    /\ Cleanup(k) /\ Ends(k)
    /\ UNCHANGED <<gitVars, attempted, diffs, verdicts, excusedMarks, daemonVars>>

(* A reasoner error, a failure of the box, or one that main has too: not   *)
(* charged to the issue.                                                   *)
EndUncharged(k) ==
    /\ run[k].step \in {"build", "adopted", "review", "revise", "publish", "create"}
    /\ \E marked \in {attempted, attempted \cup {On(k)}} : attempted' = marked
    /\ Cleanup(k) /\ Ends(k)
    /\ UNCHANGED <<issue, gitVars, diffs, verdicts, excusedMarks, daemonVars>>

\* Mutant: the label comes one attempt late.
ChargeOneMore(k, labels) ==
    LET i == On(k)
        due == issue[i].marks + 1 > MaxCharges
    IN  /\ attempted' = attempted \cup {i}
        /\ \E kept \in 0 .. 1 : issue' = [issue EXCEPT ![i].marks = @ + kept]
        /\ Cleanup(k)
        /\ \/ due /\ labels /\ StepsTo(k, "label") /\ UNCHANGED excusedMarks
           \/ due /\ ExcuseIssue(i) /\ Ends(k)
           \/ ~due /\ Ends(k) /\ UNCHANGED excusedMarks

(* record_attempt counts the markers, marks the ledger and comments, if    *)
(* GitHub takes the comment.  A count that cannot be read is taken for     *)
(* none, and then, or where the caller does not look at the count, an      *)
(* exhausted issue is not labelled.                                        *)
Charge(k, labels) ==
    LET i == On(k)
        due == issue[i].marks + 1 >= MaxCharges
    IN  /\ attempted' = attempted \cup {i}
        /\ \E kept \in 0 .. 1 : issue' = [issue EXCEPT ![i].marks = @ + kept]
        /\ Cleanup(k)
        /\ \/ due /\ labels /\ StepsTo(k, "label") /\ UNCHANGED excusedMarks
           \/ due /\ ExcuseIssue(i) /\ Ends(k)
           \/ ~due /\ Ends(k) /\ UNCHANGED excusedMarks

(* No changes, a guarded path, a diff too large, a red gate, a rejecting   *)
(* QA review, a push or a pull request that fails; for a resumed draft a   *)
(* conflict, a red gate that is not repaired, or no approval after the last*)
(* round, whose diff is pushed all the same.                               *)
Fail(k) ==
    /\ IF Resuming(k)
       THEN run[k].step \in {"adopted", "review"}
       ELSE run[k].step \in {"build", "revise", "publish", "create"}
    /\ \/ UNCHANGED <<remote, verdicts>>
       \/ Resuming(k) /\ run[k].round = Rounds /\ Accepts(k) /\ Pushes(k, run[k].diff)
    /\ Charge(k, TRUE)
    /\ UNCHANGED <<pull, diffs, daemonVars>>

(* Of a resumed draft two failures are charged without a look at the count:*)
(* still too large after the last round, and a red gate after approval.    *)
FailUnlabelled(k) ==
    /\ Resuming(k)
    /\ \/ Is(k, "review") /\ run[k].round = Rounds
       \/ Is(k, "publish") /\ run[k].round > 0
    /\ Charge(k, FALSE)
    /\ UNCHANGED <<gitVars, diffs, verdicts, daemonVars>>

LabelGaveUp(k) ==
    LET i == On(k) IN
    /\ Is(k, "label")
    /\ \/ issue' = [issue EXCEPT ![i].gaveUp = TRUE] /\ UNCHANGED excusedMarks
       \/ UNCHANGED issue /\ ExcuseIssue(i)
    /\ IF Resuming(k) THEN StepsTo(k, "close") ELSE Ends(k)
    /\ UNCHANGED <<gitVars, tree, attempted, diffs, verdicts, daemonVars>>

CloseExhausted(k) ==
    LET i == On(k) IN
    /\ Is(k, "close")
    /\ \E closed \in BOOLEAN :
          pull' = IF closed /\ pull[i].no = run[k].pr /\ pull[i].state \in OpenPull
                  THEN [pull EXCEPT ![i].state = "closed"] ELSE pull
    /\ Ends(k)
    /\ UNCHANGED <<issue, remote, tree, attempted, diffs, verdicts, excusedMarks, daemonVars>>

-----------------------------------------------------------------------------
(* Building, reviewing and revising. *)

(* A first diff over the cap is shrunk once; what the independent review   *)
(* is shown is the diff from before.                                       *)
BuildDiff(k) ==
    /\ Is(k, "build")
    /\ \E shrunk \in BOOLEAN :
          LET diff == IF shrunk THEN diffs + 2 ELSE diffs + 1
          IN  /\ diff <= MaxDiffs
              /\ diffs' = diff
              /\ run' = [run EXCEPT ![k] = [@ EXCEPT !.step = "review", !.diff = diff, !.shown = diffs + 1]]
              /\ IF shrunk THEN Notes("shrunk", diff) ELSE UNCHANGED verdicts
    /\ UNCHANGED <<issue, gitVars, tree, attempted, excusedMarks, daemonVars>>

(* A fresh diff goes on unapproved when the reviewer cannot be reached or  *)
(* the rounds are spent; a resumed one does not.                           *)
Review(k, verdict) ==
    LET again == run[k].round < Rounds /\ (verdict = "no" \/ Resuming(k))
    IN  /\ Is(k, "review")
        /\ \/ /\ verdict = "yes"
              /\ Notes("approved", run[k].shown)
              /\ run' = [run EXCEPT ![k] = [@ EXCEPT !.step = "publish", !.approved = TRUE]]
           \/ verdict # "yes" /\ again /\ StepsTo(k, "revise") /\ UNCHANGED verdicts
           \/ verdict # "yes" /\ ~again /\ ~Resuming(k) /\ StepsTo(k, "publish") /\ UNCHANGED verdicts
        /\ UNCHANGED <<issue, gitVars, tree, attempted, diffs, excusedMarks, daemonVars>>

(* The advisory reviewer judges what is on origin: a draft is pushed for it*)
(* if it was not.                                                          *)
PushForRabbit(k) ==
    /\ Is(k, "review") /\ Resuming(k) /\ run[k].base # run[k].diff /\ Accepts(k)
    /\ Pushes(k, run[k].diff)
    /\ run' = [run EXCEPT ![k].base = run[k].diff]
    /\ UNCHANGED <<issue, pull, tree, attempted, diffs, excusedMarks, daemonVars>>

Revise(k) ==
    /\ Is(k, "revise")
    /\ Round(k, run[k].round + 1)
    /\ UNCHANGED <<issue, pull, tree, attempted, excusedMarks, daemonVars>>

(* A builder that fails ends the rounds: the diff goes on as it stands.    *)
StopRevising(k) ==
    /\ Is(k, "revise") /\ ~Resuming(k)
    /\ StepsTo(k, "publish")
    /\ UNCHANGED <<issue, gitVars, tree, attempted, diffs, verdicts, excusedMarks, daemonVars>>

-----------------------------------------------------------------------------
(* Publishing. *)

(* A branch that is on origin already is an orphan of an interrupted run:  *)
(* it is forced.                                                           *)
PushFresh(k) ==
    /\ Is(k, "publish") /\ ~Resuming(k)
    /\ remote' = [remote EXCEPT ![On(k)] = run[k].diff]
    /\ StepsTo(k, "create")
    /\ UNCHANGED <<issue, pull, tree, attempted, diffs, verdicts, excusedMarks, daemonVars>>

PushResumed(k) ==
    /\ Is(k, "publish") /\ Resuming(k)
    /\ IF Accepts(k)
       THEN Pushes(k, run[k].diff) /\ StepsTo(k, "ready") /\ UNCHANGED tree
       ELSE Cleanup(k) /\ Ends(k) /\ UNCHANGED <<remote, verdicts>>
    /\ UNCHANGED <<issue, pull, attempted, diffs, excusedMarks, daemonVars>>

(* Merging unattended takes an approval, whatever else the policy asks.    *)
CreatePull(k) ==
    LET i == On(k) IN
    /\ Is(k, "create") /\ pull[i].state \notin OpenPull /\ pull[i].no < MaxPulls
    /\ \E auto \in {FALSE, run[k].approved} :
          /\ pull' = [pull EXCEPT ![i] = [no |-> @.no + 1, state |-> IF auto THEN "ready" ELSE "draft"]]
          /\ IF auto THEN StepsTo(k, "merge") ELSE Ends(k)
    /\ Cleanup(k)
    /\ UNCHANGED <<issue, remote, attempted, diffs, verdicts, excusedMarks, daemonVars>>

(* The policy leaves the draft to the owner, or it is made ready; the      *)
(* worktree goes before the merge.                                         *)
MakeReady(k) ==
    LET i == On(k) IN
    /\ Is(k, "ready")
    /\ Cleanup(k)
    /\ \/ Ends(k) /\ UNCHANGED pull
       \/ /\ StepsTo(k, "merge")
          /\ \E ready \in BOOLEAN :
                pull' = IF ready /\ pull[i].no = run[k].pr /\ pull[i].state = "draft"
                        THEN [pull EXCEPT ![i].state = "ready"] ELSE pull
    /\ UNCHANGED <<issue, remote, attempted, diffs, verdicts, excusedMarks, daemonVars>>

(* GitHub merges whatever the branch is by now, closes the issue and       *)
(* deletes the branch.                                                     *)
Merged(i) ==
    /\ pull' = [pull EXCEPT ![i].state = "merged"]
    /\ issue' = [issue EXCEPT ![i].open = FALSE]
    /\ remote' = [remote EXCEPT ![i] = 0]

MergePull(k) ==
    LET i == On(k) IN
    /\ Is(k, "merge") /\ pull[i].state = "ready" /\ remote[i] # 0
    /\ Resuming(k) => pull[i].no = run[k].pr
    /\ Merged(i)
    /\ Notes("landed", remote[i])
    /\ Ends(k)
    /\ UNCHANGED <<tree, attempted, diffs, excusedMarks, daemonVars>>

(* Left open for the owner: a ready pull request is never resumed.         *)
MergeFails(k) ==
    /\ Is(k, "merge")
    /\ Ends(k)
    /\ UNCHANGED <<issue, gitVars, tree, attempted, diffs, verdicts, excusedMarks, daemonVars>>

-----------------------------------------------------------------------------
(* The owner on GitHub, and the end of a day or of a process. *)

OwnerMerges(i) ==
    /\ pull[i].state \in OpenPull
    /\ Merged(i)
    /\ UNCHANGED <<tree, attempted, run, diffs, verdicts, excusedMarks, daemonVars>>

OwnerCloses(i) ==
    /\ pull[i].state \in OpenPull
    /\ pull' = [pull EXCEPT ![i].state = "closed"]
    /\ UNCHANGED <<issue, remote, tree, attempted, run, diffs, verdicts, excusedMarks, daemonVars>>

(* What the owner pushes to the branch needs no review. *)
OwnerPushes(i) ==
    /\ remote[i] # 0 /\ diffs < MaxDiffs
    /\ diffs' = diffs + 1
    /\ remote' = [remote EXCEPT ![i] = diffs + 1]
    /\ Notes("owners", diffs + 1)
    /\ UNCHANGED <<issue, pull, tree, attempted, run, excusedMarks, daemonVars>>

(* The way back that every closing comment names. *)
OwnerRevives(i) ==
    /\ issue[i].open /\ issue[i].gaveUp
    /\ issue' = [issue EXCEPT ![i].gaveUp = FALSE]
    /\ ExcuseIssue(i)
    /\ UNCHANGED <<gitVars, tree, attempted, run, diffs, verdicts, daemonVars>>

(* The worktree stays behind, and the next run of the same lock takes it.  *)
RunDies(k) ==
    /\ Restarts
    /\ ~Is(k, "idle")
    /\ UNCHANGED issue
    /\ IF Is(k, "label") THEN ExcuseIssue(On(k)) ELSE UNCHANGED excusedMarks
    /\ Ends(k)
    /\ UNCHANGED <<gitVars, tree, attempted, diffs, verdicts>>

NextDay ==
    /\ Tick
    /\ attempted' = {}
    /\ UNCHANGED <<issue, gitVars, tree, run, diffs, verdicts, excusedMarks>>

AgentStep(k) ==
    \/ StartRun(k) \/ NoDraft(k) \/ ListIssues(k) \/ Retriage(k)
    \/ \E i \in Issue : CloseGaveUp(k, i) \/ FindDraft(k, i) \/ PickIssue(k, i)
    \/ AddTree(k) \/ ResumeDraft(k) \/ MergeMain(k)
    \/ Refuse(k) \/ EndUncharged(k) \/ Fail(k) \/ FailUnlabelled(k) \/ LabelGaveUp(k) \/ CloseExhausted(k)
    \/ BuildDiff(k) \/ PushForRabbit(k) \/ Revise(k) \/ StopRevising(k)
    \/ \E verdict \in {"yes", "no", "none"} : Review(k, verdict)
    \/ PushFresh(k) \/ PushResumed(k) \/ CreatePull(k) \/ MakeReady(k)
    \/ MergePull(k) \/ MergeFails(k)

AgentNext ==
    \/ \E k \in Lock : AgentStep(k) \/ RunDies(k)
    \/ \E i \in Issue : OwnerMerges(i) \/ OwnerCloses(i) \/ OwnerPushes(i) \/ OwnerRevives(i)
    \/ NextDay

AgentSpec == DaemonInit /\ AgentInit /\ [][AgentNext]_allAgentVars

-----------------------------------------------------------------------------
(* Properties. *)

(* Nothing lands on main unattended that the independent review has not    *)
(* approved in that very form, or the owner pushed: a reject, a refusal or *)
(* a revision after the approval never reaches the merge, whoever pushes in*)
(* between.  Not so a first diff that was shrunk, whose review saw what it *)
(* was before, and what a run pushed that took a draft another was at.     *)
MergedWasReviewed ==
    verdicts["landed"] \subseteq UNION {verdicts[about] : about \in {"approved", "owners", "shrunk", "crossed"}}

(* An issue that has used up its attempts carries the label that keeps both*)
(* lanes off it, or a run is about to set it: every way to charge an       *)
(* attempt gives up in time.  What excuses it lasts to the next marker: a  *)
(* label that could not be set, a count that could not be read, the owner's*)
(* revival, and the two failures of a resumed draft that do not look.      *)
ExhaustedIsOut ==
    \A i \in Issue : issue[i].marks >= MaxCharges /\ issue[i].marks > excusedMarks[i] =>
        issue[i].gaveUp \/ \E k \in Lock : On(k) = i /\ Is(k, "label")

=============================================================================
