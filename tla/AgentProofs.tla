----------------------------- MODULE AgentProofs -----------------------------
(***************************************************************************)
(* Proofs about the unattended runs: what lands on main was reviewed, and  *)
(* an issue that used up its attempts is labelled out.                     *)
(*                                                                         *)
(* Two runs can be at one issue, each seeing GitHub as it is by then.  The *)
(* worktree is what keeps them apart: only a run that holds the issue's    *)
(* branch pushes to it, no two hold it, and one that takes it over from a  *)
(* run about to merge knows itself to be late.                             *)
(***************************************************************************)
EXTENDS AgentRuns, TLAPS

About == {"approved", "landed", "owners", "shrunk", "crossed"}

IssueRow == [open : BOOLEAN, gaveUp : BOOLEAN, marks : Nat]

PullRow == [no : 0 .. MaxPulls, state : OpenPull \cup {"none", "closed", "merged"}]

RunStep == {"idle", "seek", "list", "pick", "found", "picked", "build", "adopted", "review",
            "revise", "publish", "create", "ready", "merge", "label", "close"}

RunRow ==
    [step : RunStep, on : Issue \cup {NoIssue}, pr : 0 .. MaxPulls, listed : SUBSET Issue,
     diff : Diff, shown : Diff, base : Diff, round : 0 .. Rounds,
     approved : BOOLEAN, late : BOOLEAN]

(* The diffs that may land: reviewed, the owner's own, or excused.         *)
Good(v) == v["approved"] \cup v["owners"] \cup v["shrunk"] \cup v["crossed"]

Seeking == {"idle", "seek", "list", "pick"}

(* Where a run holds the worktree of its issue.                            *)
AtTree == {"adopted", "build", "review", "revise", "publish", "create", "ready"}

(* A run of this lock, by the worktree it has, the newest pull requests    *)
(* and the verdicts given.                                                 *)
Fits(k, q, tr, pl, v) ==
    /\ q.step \notin Seeking => q.on \in Issue
    /\ q.step \in Seeking \cup {"picked", "build", "create"} => q.pr = 0
    /\ q.step \in {"found", "adopted", "ready", "close"} => q.pr # 0
    /\ q.step \notin {"idle", "seek"} /\ q.pr = 0 => k = "main"
    /\ q.step = "revise" => q.round < Rounds
    /\ q.pr # 0 => q.pr <= pl[q.on].no
    /\ q.step \in AtTree => tr = q.on
    /\ q.step \in AtTree \ {"build"} => q.diff = q.shown \/ q.diff \in v["shrunk"]
    /\ q.approved => /\ q.diff \in Good(v)
                     /\ q.step \in {"publish", "create", "ready", "merge", "label", "close"}
    /\ q.step = "ready" \/ (q.step = "publish" /\ q.pr # 0) => q.approved

(* A run that builds afresh found no open pull request, and none is opened *)
(* but by itself.                                                          *)
Fresh(q, pl) ==
    q.pr = 0 /\ q.step \in {"picked", "build", "review", "revise", "publish", "create"}
        => pl[q.on].state \notin OpenPull

(* What a run is about to merge may land.                                  *)
Landing(q, pl, rem, good) ==
    \/ q.step = "create" /\ q.approved
    \/ q.step = "ready"
    \/ q.step = "merge" /\ pl[q.on].state \in OpenPull /\ (q.pr # 0 => pl[q.on].no = q.pr)
    => rem[q.on] \in good \cup {0}

(* Who may push to a branch that another run is about to merge is late.    *)
Apart(q, o) ==
    q.step = "merge" /\ q.on = o.on /\ o.pr # 0 /\ o.step \in {"adopted", "review", "revise", "publish"}
        => o.late

RunsFit ==
    /\ \A k \in Lock : /\ Fits(k, run[k], tree[k], pull, verdicts)
                       /\ Fresh(run[k], pull)
                       /\ Landing(run[k], pull, remote, Good(verdicts))
    /\ \A k, o \in Lock : k # o => /\ tree[k] = tree[o] => tree[k] = NoIssue
                                   /\ Apart(run[k], run[o])

AgentInv ==
    /\ DaemonTypes /\ AgentTypes
    /\ \A i \in Issue : pull[i].state \in OpenPull => pull[i].no # 0
    /\ RunsFit
    /\ verdicts["landed"] \subseteq Good(verdicts)

-----------------------------------------------------------------------------
(* What runs keep of each other. *)

(* The verdicts only grow.                                                 *)
Grow(v, w) == \A about \in About : v[about] \subseteq w[about]

\* More verdicts make no reviewed diff less so.
LEMMA GoodGrows ==
  ASSUME NEW v, NEW w, Grow(v, w)
  PROVE  Good(v) \subseteq Good(w) /\ v["shrunk"] \subseteq w["shrunk"]
  BY DEF Good, Grow, About

(* The types, as far as they are kept by every step.                       *)
LEMMA AgentRecords ==
  ASSUME AgentInv
  PROVE  /\ issue \in [Issue -> IssueRow] /\ pull \in [Issue -> PullRow]
         /\ remote \in [Issue -> Diff] /\ tree \in [Lock -> Issue \cup {NoIssue}]
         /\ attempted \subseteq Issue /\ run \in [Lock -> RunRow] /\ diffs \in Diff
         /\ verdicts \in [About -> SUBSET Diff] /\ excusedMarks \in [Issue -> Nat]
         /\ NoIssue \notin Issue /\ MaxDiffs \in Nat
         /\ DaemonTypes
  BY AgentAssumption DEF AgentInv, AgentTypes, IssueRow, PullRow, RunRow, RunStep, About

(* A run moves; the others see what it did to GitHub and to its worktree.  *)
LEMMA RunMoves ==
  ASSUME AgentInv, NEW k \in Lock, NEW q \in RunRow, run' = [run EXCEPT ![k] = q],
         DaemonTypes', issue' \in [Issue -> IssueRow], pull' \in [Issue -> PullRow],
         remote' \in [Issue -> Diff], attempted' \subseteq Issue, diffs' \in Diff,
         verdicts' \in [About -> SUBSET Diff], excusedMarks' \in [Issue -> Nat],
         \/ tree' \in {tree, [tree EXCEPT ![k] = NoIssue]}
         \/ /\ tree' = [tree EXCEPT ![k] = q.on]
            /\ \A o \in Lock \ {k} : tree[o] # q.on,
         Grow(verdicts, verdicts'), verdicts'["landed"] \subseteq Good(verdicts'),
         \A i \in Issue : /\ pull[i].no <= pull'[i].no
                          /\ pull'[i].state \in OpenPull => pull'[i].no # 0,
         Fits(k, q, tree'[k], pull', verdicts'), Fresh(q, pull'),
         Landing(q, pull', remote', Good(verdicts')),
         \A o \in Lock \ {k} : /\ Fresh(run[o], pull')
                               /\ Landing(run[o], pull', remote', Good(verdicts'))
                               /\ Apart(run[o], q) /\ Apart(q, run[o])
  PROVE  AgentInv'
<1>1. /\ run \in [Lock -> RunRow] /\ tree \in [Lock -> Issue \cup {NoIssue}]
      /\ pull \in [Issue -> PullRow]
  BY AgentRecords
<1>2. /\ run' \in [Lock -> RunRow] /\ run'[k] = q /\ \A o \in Lock \ {k} : run'[o] = run[o]
  BY <1>1
<1>3. /\ tree' \in [Lock -> Issue \cup {NoIssue}]
      /\ \A o \in Lock \ {k} : tree'[o] = tree[o] /\ (tree[o] = tree'[k] => tree[o] = NoIssue)
  <2>1. \A o \in Lock \ {k} : tree[o] = tree[k] => tree[o] = NoIssue
    BY DEF AgentInv, RunsFit
  <2>2. q.on \in Issue \cup {NoIssue}
    BY DEF RunRow
  <2> QED  BY <1>1, <2>1, <2>2
<1>4. AgentTypes'
  BY <1>2, <1>3 DEF AgentTypes, IssueRow, PullRow, RunRow, RunStep, About
<1>5. ASSUME NEW o \in Lock \ {k}  PROVE Fits(o, run[o], tree[o], pull', verdicts')
  <2>1. Good(verdicts) \subseteq Good(verdicts') /\ verdicts["shrunk"] \subseteq verdicts'["shrunk"]
    BY GoodGrows
  <2>2. Fits(o, run[o], tree[o], pull, verdicts)
    BY DEF AgentInv, RunsFit
  <2>3. run[o].pr # 0 => run[o].pr <= pull'[run[o].on].no
    <3> SUFFICES ASSUME run[o].pr # 0  PROVE run[o].pr <= pull'[run[o].on].no
      OBVIOUS
    <3>1. run[o].on \in Issue /\ run[o].pr <= pull[run[o].on].no
      BY <2>2 DEF Fits
    <3>2. run[o].pr \in Int /\ pull[run[o].on].no \in Int /\ pull'[run[o].on].no \in Int
      BY <1>1, <3>1 DEF RunRow, PullRow
    <3>3. pull[run[o].on].no <= pull'[run[o].on].no
      BY <3>1
    <3> QED  BY <3>1, <3>2, <3>3
  <2> QED  BY <2>1, <2>2, <2>3 DEF Fits
<1>6. RunsFit'
  <2>1. \A o \in Lock : /\ Fits(o, run'[o], tree'[o], pull', verdicts')
                        /\ Fresh(run'[o], pull')
                        /\ Landing(run'[o], pull', remote', Good(verdicts'))
    BY <1>2, <1>3, <1>5
  <2>2. \A o, p \in Lock : o # p => (tree'[o] = tree'[p] => tree'[o] = NoIssue)
    <3>1. \A o, p \in Lock \ {k} : o # p => (tree[o] = tree[p] => tree[o] = NoIssue)
      BY DEF AgentInv, RunsFit
    <3> QED  BY <1>3, <3>1
  <2>3. \A o, p \in Lock : o # p => Apart(run'[o], run'[p])
    <3>1. \A o, p \in Lock \ {k} : o # p => Apart(run[o], run[p])
      BY DEF AgentInv, RunsFit
    <3> QED  BY <1>2, <3>1
  <2> QED  BY <2>1, <2>2, <2>3 DEF RunsFit
<1> QED  BY <1>4, <1>6 DEF AgentInv

(* One that leaves the pull requests and the branches alone.               *)
LEMMA RunMovesQuietly ==
  ASSUME AgentInv, NEW k \in Lock, NEW q \in RunRow, run' = [run EXCEPT ![k] = q],
         UNCHANGED <<pull, remote>>,
         DaemonTypes', issue' \in [Issue -> IssueRow], attempted' \subseteq Issue, diffs' \in Diff,
         verdicts' \in [About -> SUBSET Diff], excusedMarks' \in [Issue -> Nat],
         \/ tree' \in {tree, [tree EXCEPT ![k] = NoIssue]}
         \/ /\ tree' = [tree EXCEPT ![k] = q.on]
            /\ \A o \in Lock \ {k} : tree[o] # q.on,
         Grow(verdicts, verdicts'), verdicts'["landed"] = verdicts["landed"],
         Fits(k, q, tree'[k], pull, verdicts'), Fresh(q, pull),
         q.step # "merge", q.step # "ready", q.step # "create",
         \/ q.pr = 0 \/ q.step \notin {"adopted", "review", "revise", "publish"}
         \/ \A o \in Lock \ {k} : run[o].step = "merge" /\ run[o].on = q.on => q.late
  PROVE  AgentInv'
<1>1. pull' = pull /\ remote' = remote /\ pull \in [Issue -> PullRow] /\ remote \in [Issue -> Diff]
  BY AgentRecords
<1>2. Good(verdicts) \subseteq Good(verdicts') /\ verdicts'["landed"] \subseteq Good(verdicts')
  BY GoodGrows DEF AgentInv
<1>3. \A i \in Issue : /\ pull[i].no <= pull'[i].no
                       /\ pull'[i].state \in OpenPull => pull'[i].no # 0
  BY <1>1 DEF AgentInv, PullRow
<1>4. ASSUME NEW o \in Lock \ {k}
      PROVE  /\ Fresh(run[o], pull') /\ Landing(run[o], pull', remote', Good(verdicts'))
             /\ Apart(run[o], q) /\ Apart(q, run[o])
  <2>1. Fresh(run[o], pull) /\ Landing(run[o], pull, remote, Good(verdicts))
    BY DEF AgentInv, RunsFit
  <2>2. Landing(run[o], pull, remote, Good(verdicts'))
    BY <1>2, <2>1 DEF Landing
  <2>3. Apart(run[o], q) /\ Apart(q, run[o])
    BY DEF Apart
  <2> QED  BY <1>1, <2>1, <2>2, <2>3
<1>5. Landing(q, pull', remote', Good(verdicts'))
  BY DEF Landing
<1>6. pull' \in [Issue -> PullRow] /\ remote' \in [Issue -> Diff]
  BY <1>1
<1>7. Fits(k, q, tree'[k], pull', verdicts') /\ Fresh(q, pull')
  BY <1>1
<1>8. \A o \in Lock \ {k} : /\ Fresh(run[o], pull')
                            /\ Landing(run[o], pull', remote', Good(verdicts'))
                            /\ Apart(run[o], q) /\ Apart(q, run[o])
  BY <1>4
<1>9. verdicts'["landed"] \subseteq Good(verdicts')
  BY <1>2
<1> QED  BY <1>3, <1>5, <1>6, <1>7, <1>8, <1>9, RunMoves

(* One that returns: its lock is free.                                     *)
LEMMA RunEnds ==
  ASSUME AgentInv, NEW k \in Lock, Ends(k), UNCHANGED <<pull, remote, verdicts>>,
         DaemonTypes', issue' \in [Issue -> IssueRow], attempted' \subseteq Issue, diffs' \in Diff,
         excusedMarks' \in [Issue -> Nat],
         tree' = tree \/ Cleanup(k)
  PROVE  AgentInv'
<1>1. Absent \in RunRow /\ run' = [run EXCEPT ![k] = Absent]
  BY AgentAssumption DEF Absent, RunRow, RunStep, Diff, Ends
<1>2. \A tr : Fits(k, Absent, tr, pull, verdicts) /\ Fresh(Absent, pull)
  BY DEF Fits, Fresh, Absent, Seeking, AtTree
<1>3. Absent.step = "idle" /\ Absent.pr = 0
  BY DEF Absent
<1>4. /\ verdicts' = verdicts /\ verdicts \in [About -> SUBSET Diff] /\ Grow(verdicts, verdicts')
      /\ tree' \in {tree, [tree EXCEPT ![k] = NoIssue]}
  BY AgentRecords DEF Grow, Cleanup
<1> HIDE DEF Absent
<1> QED  BY <1>1, <1>2, <1>3, <1>4, RunMovesQuietly

(* One that writes to its branch, the pull requests being left alone.      *)
LEMMA RunWritesBranch ==
  ASSUME AgentInv, NEW k \in Lock, NEW q \in RunRow, run' = [run EXCEPT ![k] = q],
         pull' = pull, remote' \in [Issue -> Diff], daemonVars' = daemonVars,
         issue' \in [Issue -> IssueRow], attempted' \subseteq Issue, diffs' \in Diff,
         verdicts' \in [About -> SUBSET Diff], excusedMarks' \in [Issue -> Nat],
         tree' \in {tree, [tree EXCEPT ![k] = NoIssue]},
         Grow(verdicts, verdicts'), verdicts'["landed"] = verdicts["landed"],
         Fits(k, q, tree'[k], pull, verdicts'), Fresh(q, pull),
         Landing(q, pull, remote', Good(verdicts')), q.step # "merge",
         \A o \in Lock \ {k} : /\ Landing(run[o], pull, remote', Good(verdicts'))
                               /\ Apart(run[o], q)
  PROVE  AgentInv'
<1>1. pull \in [Issue -> PullRow] /\ DaemonTypes /\ MaxDiffs \in Nat
  BY AgentRecords
<1>2. verdicts'["landed"] \subseteq Good(verdicts')
  BY GoodGrows DEF AgentInv
<1>3. \A i \in Issue : /\ pull[i].no <= pull'[i].no
                       /\ pull'[i].state \in OpenPull => pull'[i].no # 0
  BY <1>1 DEF AgentInv, PullRow
<1>4. DaemonTypes' /\ pull' \in [Issue -> PullRow]
  BY <1>1 DEF DaemonTypes, daemonVars
<1>5. Fits(k, q, tree'[k], pull', verdicts') /\ Fresh(q, pull')
      /\ Landing(q, pull', remote', Good(verdicts'))
  OBVIOUS
<1>6. \A o \in Lock \ {k} : /\ Fresh(run[o], pull')
                            /\ Landing(run[o], pull', remote', Good(verdicts'))
                            /\ Apart(run[o], q) /\ Apart(q, run[o])
  <2>1. \A o \in Lock : Fresh(run[o], pull)
    BY DEF AgentInv, RunsFit
  <2>2. \A o \in Lock : Apart(q, run[o])
    BY DEF Apart
  <2> QED  BY <2>1, <2>2
<1> QED  BY <1>2, <1>3, <1>4, <1>5, <1>6, RunMoves

(* GitHub moves, and no run does.                                          *)
LEMMA GitHubMoves ==
  ASSUME AgentInv, UNCHANGED <<run, tree>>,
         DaemonTypes', issue' \in [Issue -> IssueRow], pull' \in [Issue -> PullRow],
         remote' \in [Issue -> Diff], attempted' \subseteq Issue, diffs' \in Diff,
         verdicts' \in [About -> SUBSET Diff], excusedMarks' \in [Issue -> Nat],
         Grow(verdicts, verdicts'), verdicts'["landed"] = verdicts["landed"],
         \A i \in Issue : /\ pull'[i].no = pull[i].no
                          /\ pull'[i].state \in OpenPull => pull[i].state \in OpenPull,
         \A k \in Lock : Landing(run[k], pull', remote', Good(verdicts'))
  PROVE  AgentInv'
<1> DEFINE k == "main"
           q == run[k]
<1>1. /\ k \in Lock /\ q \in RunRow /\ run' = [run EXCEPT ![k] = q]
      /\ tree' \in {tree, [tree EXCEPT ![k] = NoIssue]}
      /\ pull \in [Issue -> PullRow] /\ run \in [Lock -> RunRow]
  BY AgentRecords DEF Lock
<1>2. verdicts'["landed"] \subseteq Good(verdicts') /\ verdicts["shrunk"] \subseteq verdicts'["shrunk"]
      /\ Good(verdicts) \subseteq Good(verdicts')
  BY GoodGrows DEF AgentInv
<1>3. \A i \in Issue : /\ pull[i].no <= pull'[i].no
                       /\ pull'[i].state \in OpenPull => pull'[i].no # 0
  BY <1>1 DEF AgentInv, PullRow
<1>4. \A o \in Lock : /\ Fits(o, run[o], tree[o], pull, verdicts) /\ Fresh(run[o], pull)
                      /\ \A p \in Lock \ {o} : Apart(run[o], run[p])
  BY DEF AgentInv, RunsFit
<1>5. \A o \in Lock : Fresh(run[o], pull')
  BY <1>4 DEF Fresh, Fits, Seeking
<1>6. Fits(k, q, tree'[k], pull', verdicts')
  <2>1. Fits(k, q, tree[k], pull, verdicts) /\ tree'[k] = tree[k]
    BY <1>1, <1>4
  <2>2. q.pr # 0 => q.on \in Issue
    BY <2>1 DEF Fits
  <2>3. q.pr # 0 => pull'[q.on].no = pull[q.on].no
    BY <2>2
  <2> QED  BY <1>2, <2>1, <2>3 DEF Fits
<1>7. Fresh(q, pull') /\ Landing(q, pull', remote', Good(verdicts'))
  BY <1>1, <1>5
<1>8. \A o \in Lock \ {k} : /\ Fresh(run[o], pull')
                            /\ Landing(run[o], pull', remote', Good(verdicts'))
                            /\ Apart(run[o], q) /\ Apart(q, run[o])
  BY <1>1, <1>4, <1>5
<1> HIDE DEF k, q
<1> QED  BY <1>1, <1>2, <1>3, <1>6, <1>7, <1>8, RunMoves

(* Where a run that resumes pushes, the others take what lands.            *)
LEMMA PushLands ==
  ASSUME AgentInv, NEW k \in Lock, NEW d \in Diff, NEW good,
         run[k].step \in {"adopted", "review", "revise", "publish"}, run[k].pr # 0,
         \A i \in Issue : remote'[i] = IF i = On(k) THEN d ELSE remote[i],
         Good(verdicts) \subseteq good, run[k].late => d \in good
  PROVE  \A o \in Lock \ {k} : Landing(run[o], pull, remote', good)
<1> SUFFICES ASSUME NEW o \in Lock \ {k}  PROVE Landing(run[o], pull, remote', good)
  OBVIOUS
<1>1. remote \in [Issue -> Diff] /\ NoIssue \notin Issue
  BY AgentRecords
<1>2. /\ Fits(k, run[k], tree[k], pull, verdicts) /\ Fits(o, run[o], tree[o], pull, verdicts)
      /\ Landing(run[o], pull, remote, Good(verdicts)) /\ Apart(run[o], run[k])
      /\ tree[k] = tree[o] => tree[k] = NoIssue
  BY DEF AgentInv, RunsFit
<1>3. run[k].on \in Issue /\ tree[k] = run[k].on
  BY <1>2 DEF Fits, Seeking, AtTree
<1>4. CASE run[o].on # run[k].on
  <2>1. run[o].on \in Issue => remote'[run[o].on] = remote[run[o].on]
    BY <1>4 DEF On
  <2> QED  BY <1>2, <2>1 DEF Landing, Fits, Seeking
<1>5. CASE run[o].on = run[k].on
  <2>1. run[o].step \notin {"create", "ready"}
    BY <1>1, <1>2, <1>3, <1>5 DEF Fits, AtTree
  <2>2. run[o].step = "merge" => d \in good
    BY <1>2, <1>5 DEF Apart
  <2>3. remote'[run[o].on] = d
    BY <1>3, <1>5 DEF On
  <2> QED  BY <2>1, <2>2, <2>3 DEF Landing
<1> QED  BY <1>4, <1>5

-----------------------------------------------------------------------------
(* The steps of a run. *)

(* What holds of a run, and between it and the other one.                  *)
LEMMA AtRun ==
  ASSUME AgentInv, NEW k \in Lock
  PROVE  /\ run[k] \in RunRow /\ Fits(k, run[k], tree[k], pull, verdicts)
         /\ Fresh(run[k], pull) /\ Landing(run[k], pull, remote, Good(verdicts))
         /\ \A o \in Lock \ {k} :
               /\ run[o] \in RunRow /\ Fits(o, run[o], tree[o], pull, verdicts)
               /\ Fresh(run[o], pull) /\ Landing(run[o], pull, remote, Good(verdicts))
               /\ Apart(run[k], run[o]) /\ Apart(run[o], run[k])
               /\ tree[k] = tree[o] => tree[k] = NoIssue
  BY AgentRecords DEF AgentInv, RunsFit

(* A row whose step alone is another.                                      *)
LEMMA StepRow ==
  ASSUME NEW r \in RunRow, NEW s \in RunStep
  PROVE  LET q == [r EXCEPT !.step = s]
         IN  /\ q \in RunRow /\ q.step = s
             /\ q.on = r.on /\ q.pr = r.pr /\ q.listed = r.listed /\ q.diff = r.diff
             /\ q.shown = r.shown /\ q.base = r.base /\ q.round = r.round
             /\ q.approved = r.approved /\ q.late = r.late
  BY DEF RunRow

(* A run goes on, and what it knows and what it has done stay the same.    *)
LEMMA StepsQuietly ==
  ASSUME AgentInv, NEW k \in Lock, NEW s \in RunStep, StepsTo(k, s),
         UNCHANGED <<pull, remote, verdicts, daemonVars>>,
         issue' \in [Issue -> IssueRow], attempted' \subseteq Issue, diffs' \in Diff,
         excusedMarks' \in [Issue -> Nat], tree' \in {tree, [tree EXCEPT ![k] = NoIssue]},
         Fits(k, [run[k] EXCEPT !.step = s], tree'[k], pull, verdicts),
         Fresh([run[k] EXCEPT !.step = s], pull),
         s \notin {"merge", "ready", "create"},
         \/ run[k].pr = 0 \/ s \notin {"adopted", "review", "revise", "publish"}
         \/ run[k].step \in {"adopted", "review", "revise", "publish"}
  PROVE  AgentInv'
<1> DEFINE q == [run[k] EXCEPT !.step = s]
<1>1. /\ run[k] \in RunRow /\ \A o \in Lock \ {k} : Apart(run[o], run[k])
      /\ run \in [Lock -> RunRow]
  BY AtRun, AgentRecords
<1>2. q \in RunRow /\ q.step = s /\ q.pr = run[k].pr /\ q.on = run[k].on /\ q.late = run[k].late
  BY <1>1, StepRow
<1>3. run' = [run EXCEPT ![k] = q]
  BY <1>1 DEF StepsTo
<1>4. DaemonTypes' /\ verdicts' \in [About -> SUBSET Diff] /\ Grow(verdicts, verdicts')
  BY AgentRecords DEF DaemonTypes, daemonVars, Grow
<1>5. Fits(k, q, tree'[k], pull, verdicts') /\ Fresh(q, pull)
  OBVIOUS
<1> HIDE DEF q
<1>6. \/ q.pr = 0 \/ q.step \notin {"adopted", "review", "revise", "publish"}
      \/ \A o \in Lock \ {k} : run[o].step = "merge" /\ run[o].on = q.on => q.late
  BY <1>1, <1>2 DEF Apart
<1> QED  BY <1>2, <1>3, <1>4, <1>5, <1>6, RunMovesQuietly

(* A run looks for work. *)
LEMMA LooksForWork ==
  ASSUME AgentInv, NEW k \in Lock,
         \/ StartRun(k) \/ NoDraft(k) \/ ListIssues(k)
         \/ \E i \in Issue : FindDraft(k, i) \/ PickIssue(k, i)
  PROVE  AgentInv'
<1>0. run[k] \in RunRow /\ Fits(k, run[k], tree[k], pull, verdicts)
  BY AtRun
<1>t. /\ issue \in [Issue -> IssueRow] /\ attempted \subseteq Issue /\ diffs \in Diff
      /\ excusedMarks \in [Issue -> Nat] /\ DaemonTypes /\ pull \in [Issue -> PullRow]
      /\ verdicts \in [About -> SUBSET Diff] /\ run \in [Lock -> RunRow]
  BY AgentRecords
<1>g. Grow(verdicts, verdicts)
  BY DEF Grow
<1>d. daemonVars' = daemonVars => DaemonTypes'
  BY <1>t DEF DaemonTypes, daemonVars
<1>1. CASE StartRun(k)
  <2>1. PICK s \in {"seek", "list"} : StepsTo(k, s) /\ (s = "list" => k = "main")
    BY <1>1 DEF StartRun
  <2>2. run[k].step = "idle" /\ s \in RunStep
    BY <1>1 DEF StartRun, Is, RunStep
  <2>3. Fits(k, [run[k] EXCEPT !.step = s], tree[k], pull, verdicts)
    BY <1>0, <2>1, <2>2, StepRow DEF Fits, Seeking, AtTree
  <2>4. Fresh([run[k] EXCEPT !.step = s], pull)
    BY <1>0, <2>1, <2>2, StepRow DEF Fresh
  <2>5. UNCHANGED <<issue, pull, remote, tree, attempted, diffs, verdicts, excusedMarks, daemonVars>>
    BY <1>1 DEF StartRun, gitVars
  <2> QED  BY <1>t, <2>1, <2>2, <2>3, <2>4, <2>5, StepsQuietly
<1>2. CASE NoDraft(k)
  <2>1. UNCHANGED <<issue, pull, remote, tree, attempted, diffs, verdicts, excusedMarks, daemonVars>>
    BY <1>2 DEF NoDraft, gitVars
  <2>2. CASE k = "main"
    <3>1. StepsTo(k, "list") /\ run[k].step = "seek" /\ "list" \in RunStep
      BY <1>2, <2>2 DEF NoDraft, Is, RunStep
    <3>2. Fits(k, [run[k] EXCEPT !.step = "list"], tree[k], pull, verdicts)
      BY <1>0, <2>2, <3>1, StepRow DEF Fits, Seeking, AtTree
    <3>3. Fresh([run[k] EXCEPT !.step = "list"], pull)
      BY <1>0, <3>1, StepRow DEF Fresh
    <3> QED  BY <1>t, <2>1, <3>1, <3>2, <3>3, StepsQuietly
  <2>3. CASE k # "main"
    <3>1. Ends(k)
      BY <1>2, <2>3 DEF NoDraft
    <3> QED  BY <1>t, <1>d, <2>1, <3>1, RunEnds
  <2> QED  BY <2>2, <2>3
<1>3. CASE ListIssues(k)
  <2>1. PICK offered \in SUBSET Issue :
           run' = [run EXCEPT ![k] = [@ EXCEPT !.step = "pick", !.listed = offered \ attempted]]
    BY <1>3 DEF ListIssues
  <2> DEFINE q == [run[k] EXCEPT !.step = "pick", !.listed = offered \ attempted]
  <2>2. /\ q \in RunRow /\ q.step = "pick" /\ q.pr = run[k].pr /\ q.approved = run[k].approved
        /\ run' = [run EXCEPT ![k] = q]
    BY <1>t, <1>0, <2>1 DEF RunRow, RunStep
  <2>3. run[k].step = "list"
    BY <1>3 DEF ListIssues, Is
  <2> HIDE DEF q
  <2>4. Fits(k, q, tree[k], pull, verdicts) /\ Fresh(q, pull)
    BY <1>0, <2>2, <2>3 DEF Fits, Fresh, Seeking, AtTree
  <2>5. UNCHANGED <<issue, pull, remote, tree, attempted, diffs, verdicts, excusedMarks, daemonVars>>
    BY <1>3 DEF ListIssues, gitVars
  <2> QED  BY <1>t, <1>d, <1>g, <2>2, <2>4, <2>5, RunMovesQuietly
<1>4. ASSUME NEW i \in Issue, FindDraft(k, i)  PROVE AgentInv'
  <2> DEFINE q == [run[k] EXCEPT !.step = "found", !.on = i, !.pr = pull[i].no]
  <2>1. pull[i].no \in 0 .. MaxPulls /\ pull[i].no # 0
    BY <1>t, <1>4 DEF AgentInv, FindDraft, OpenPull, PullRow
  <2>2. /\ q \in RunRow /\ q.step = "found" /\ q.on = i /\ q.pr = pull[i].no
        /\ q.approved = run[k].approved /\ run' = [run EXCEPT ![k] = q]
    BY <1>t, <1>0, <1>4, <2>1 DEF RunRow, RunStep, FindDraft
  <2>3. run[k].step = "seek"
    BY <1>4 DEF FindDraft, Is
  <2>n. pull[i].no <= pull[i].no
    BY <2>1
  <2> HIDE DEF q
  <2>4. Fits(k, q, tree[k], pull, verdicts) /\ Fresh(q, pull)
    BY <1>0, <2>n, <2>1, <2>2, <2>3 DEF Fits, Fresh, Seeking, AtTree
  <2>5. UNCHANGED <<issue, pull, remote, tree, attempted, diffs, verdicts, excusedMarks, daemonVars>>
    BY <1>4 DEF FindDraft, gitVars
  <2> QED  BY <1>t, <1>d, <1>g, <2>2, <2>4, <2>5, RunMovesQuietly
<1>5. ASSUME NEW i \in Issue, PickIssue(k, i)  PROVE AgentInv'
  <2> DEFINE q == [run[k] EXCEPT !.step = "picked", !.on = i, !.listed = {}]
  <2>2. /\ q \in RunRow /\ q.step = "picked" /\ q.on = i /\ q.pr = run[k].pr
        /\ q.approved = run[k].approved /\ run' = [run EXCEPT ![k] = q]
    BY <1>t, <1>0, <1>5 DEF RunRow, RunStep, PickIssue
  <2>3. run[k].step = "pick" /\ pull[i].state \notin OpenPull
    BY <1>5 DEF PickIssue, Is
  <2> HIDE DEF q
  <2>4. Fits(k, q, tree[k], pull, verdicts) /\ Fresh(q, pull)
    BY <1>0, <2>2, <2>3 DEF Fits, Fresh, Seeking, AtTree
  <2>5. UNCHANGED <<issue, pull, remote, tree, attempted, diffs, verdicts, excusedMarks, daemonVars>>
    BY <1>5 DEF PickIssue, gitVars
  <2> QED  BY <1>t, <1>d, <1>g, <2>2, <2>4, <2>5, RunMovesQuietly
<1> QED  BY <1>1, <1>2, <1>3, <1>4, <1>5

(* A run takes its issue up.                                               *)
LEMMA TakesUp ==
  ASSUME AgentInv, NEW k \in Lock, AddTree(k) \/ ResumeDraft(k)
  PROVE  AgentInv'
<1>0. /\ run[k] \in RunRow /\ Fits(k, run[k], tree[k], pull, verdicts) /\ Fresh(run[k], pull)
      /\ \A o \in Lock \ {k} : Fits(o, run[o], tree[o], pull, verdicts)
  BY AtRun
<1>t. /\ issue \in [Issue -> IssueRow] /\ attempted \subseteq Issue /\ diffs \in Diff
      /\ excusedMarks \in [Issue -> Nat] /\ DaemonTypes /\ remote \in [Issue -> Diff]
      /\ verdicts \in [About -> SUBSET Diff] /\ run \in [Lock -> RunRow]
      /\ tree \in [Lock -> Issue \cup {NoIssue}]
  BY AgentRecords
<1>g. Grow(verdicts, verdicts)
  BY DEF Grow
<1>d. daemonVars' = daemonVars => DaemonTypes'
  BY <1>t DEF DaemonTypes, daemonVars
<1>1. CASE AddTree(k)
  <2> DEFINE q == [run[k] EXCEPT !.step = "build"]
  <2>1. UNCHANGED <<issue, pull, remote, attempted, diffs, verdicts, excusedMarks, daemonVars>>
        /\ run[k].step = "picked"
    BY <1>1 DEF AddTree, gitVars, Is
  <2>2. CASE TreeFree(k)
    <3>1. tree' = [tree EXCEPT ![k] = run[k].on] /\ run' = [run EXCEPT ![k] = q]
      BY <1>1, <1>t, <2>2 DEF AddTree, StepsTo, On
    <3>2. q \in RunRow /\ q.step = "build" /\ q.on = run[k].on /\ q.pr = run[k].pr
          /\ q.approved = run[k].approved
      <4>1. "build" \in RunStep
        BY DEF RunStep
      <4> QED  BY <1>0, <4>1, StepRow
    <3> HIDE DEF q
    <3>3. tree'[k] = q.on
      BY <1>t, <3>1, <3>2
    <3>4. Fits(k, q, tree'[k], pull, verdicts) /\ Fresh(q, pull)
      BY <1>0, <2>1, <3>2, <3>3 DEF Fits, Fresh, Seeking, AtTree
    <3>5. q.pr = 0
      BY <1>0, <2>1, <3>2 DEF Fits
    <3>6. /\ tree' = [tree EXCEPT ![k] = q.on]
          /\ \A o \in Lock \ {k} : tree[o] # q.on
      BY <2>2, <3>1, <3>2 DEF TreeFree, On
    <3> QED  BY <1>t, <1>d, <1>g, <2>1, <3>1, <3>2, <3>4, <3>5, <3>6, RunMovesQuietly
  <2>3. CASE ~TreeFree(k)
    <3>1. Cleanup(k) /\ Ends(k)
      BY <1>1, <2>3 DEF AddTree, Cleanup
    <3> QED  BY <1>t, <1>d, <2>1, <3>1, RunEnds
  <2> QED  BY <2>2, <2>3
<1>2. CASE ResumeDraft(k)
  <2>1. UNCHANGED <<issue, pull, remote, diffs, verdicts, excusedMarks, daemonVars>>
        /\ run[k].step = "found" /\ attempted' = attempted \cup {run[k].on}
    BY <1>2 DEF ResumeDraft, gitVars, Is, On
  <2>2. run[k].on \in Issue /\ run[k].pr # 0 /\ ~run[k].approved /\ run[k].pr <= pull[run[k].on].no
    BY <1>0, <2>1 DEF Fits, Seeking
  <2>3. attempted' \subseteq Issue
    BY <1>t, <2>1, <2>2
  <2>4. CASE Ends(k) /\ UNCHANGED tree
    BY <1>t, <1>d, <2>1, <2>3, <2>4, RunEnds
  <2>5. CASE /\ TreeFree(k) /\ tree' = [tree EXCEPT ![k] = On(k)]
             /\ run' = [run EXCEPT ![k] = [@ EXCEPT !.step = "adopted", !.diff = remote[On(k)],
                                              !.shown = remote[On(k)], !.base = remote[On(k)],
                                              !.late = Late(k)]]
    <3> DEFINE q == [run[k] EXCEPT !.step = "adopted", !.diff = remote[On(k)],
                                   !.shown = remote[On(k)], !.base = remote[On(k)], !.late = Late(k)]
    <3>1. remote[On(k)] \in Diff /\ Late(k) \in BOOLEAN
      BY <1>t, <2>2 DEF On, Late
    <3>2. /\ q \in RunRow /\ q.step = "adopted" /\ q.on = run[k].on /\ q.pr = run[k].pr
          /\ q.diff = q.shown /\ q.approved = run[k].approved /\ q.late = Late(k)
          /\ run' = [run EXCEPT ![k] = q]
      BY <1>0, <1>t, <2>5, <3>1 DEF RunRow, RunStep
    <3> HIDE DEF q
    <3>3. tree'[k] = q.on
      BY <1>t, <2>5, <3>2 DEF On
    <3>4. Fits(k, q, tree'[k], pull, verdicts) /\ Fresh(q, pull)
      BY <1>0, <2>1, <2>2, <3>2, <3>3 DEF Fits, Fresh, Seeking, AtTree
    <3>5. \A o \in Lock \ {k} : run[o].step = "merge" /\ run[o].on = q.on => q.late
      BY <3>2 DEF Late, On, Is
    <3>6. /\ tree' = [tree EXCEPT ![k] = q.on]
          /\ \A o \in Lock \ {k} : tree[o] # q.on
      BY <2>5, <3>2 DEF TreeFree, On
    <3> QED  BY <1>t, <1>d, <1>g, <2>1, <2>3, <3>2, <3>4, <3>5, <3>6, RunMovesQuietly
  <2> QED  BY <1>2, <2>4, <2>5 DEF ResumeDraft
<1> QED  BY <1>1, <1>2

(* What charging an attempt leaves typed.                                  *)
LEMMA ChargeKeeps ==
  ASSUME AgentInv, NEW k \in Lock, run[k].step \notin Seeking, NEW labels \in BOOLEAN,
         Charge(k, labels)
  PROVE  /\ issue' \in [Issue -> IssueRow] /\ attempted' \subseteq Issue
         /\ excusedMarks' \in [Issue -> Nat] /\ Cleanup(k)
         /\ (labels /\ StepsTo(k, "label")) \/ Ends(k)
<1> DEFINE i == On(k)
<1>1. /\ issue \in [Issue -> IssueRow] /\ attempted \subseteq Issue /\ excusedMarks \in [Issue -> Nat]
  BY AgentRecords
<1>2. i \in Issue
  BY AtRun DEF Fits, On
<1>3. PICK kept \in 0 .. 1 : issue' = [issue EXCEPT ![i].marks = @ + kept]
  BY DEF Charge
<1>4. issue[i] \in IssueRow /\ [issue[i] EXCEPT !.marks = @ + kept] \in IssueRow
  BY <1>1, <1>2 DEF IssueRow
<1>5. issue' \in [Issue -> IssueRow]
  BY <1>1, <1>2, <1>3, <1>4
<1>6. attempted' \subseteq Issue /\ Cleanup(k)
  BY <1>1, <1>2 DEF Charge
<1>7. ExcuseIssue(i) => excusedMarks' \in [Issue -> Nat]
  BY <1>1, <1>2, <1>5 DEF ExcuseIssue, IssueRow
<1>8. excusedMarks' \in [Issue -> Nat]
  BY <1>1, <1>7 DEF Charge
<1> QED  BY <1>5, <1>6, <1>8 DEF Charge

(* The row of a lock that is free.                                         *)
LEMMA AbsentRow ==
  ASSUME NEW k \in Lock
  PROVE  /\ Absent \in RunRow /\ Absent.step = "idle" /\ Absent.pr = 0
         /\ \A tr, pl, v : Fits(k, Absent, tr, pl, v) /\ Fresh(Absent, pl)
         /\ \A pl, rem, good : Landing(Absent, pl, rem, good)
         /\ \A o : Apart(o, Absent)
  BY AgentAssumption
     DEF Absent, RunRow, RunStep, Diff, Fits, Fresh, Landing, Apart, Seeking, AtTree

(* A run that is charged is done, or about to label its issue out; its diff*)
(* may have been pushed first.                                             *)
LEMMA GivesUp ==
  ASSUME AgentInv, NEW k \in Lock, run[k].step \notin Seeking,
         UNCHANGED <<pull, diffs, daemonVars>>,
         remote' \in [Issue -> Diff], verdicts' \in [About -> SUBSET Diff],
         Grow(verdicts, verdicts'), verdicts'["landed"] = verdicts["landed"],
         \A o \in Lock \ {k} : Landing(run[o], pull, remote', Good(verdicts')),
         NEW labels \in BOOLEAN, Charge(k, labels)
  PROVE  AgentInv'
<1>0. run[k] \in RunRow /\ Fits(k, run[k], tree[k], pull, verdicts)
  BY AtRun
<1>t. diffs' \in Diff /\ daemonVars' = daemonVars /\ pull' = pull /\ run \in [Lock -> RunRow]
  BY AgentRecords
<1>g. Good(verdicts) \subseteq Good(verdicts')
  BY GoodGrows
<1>1. /\ issue' \in [Issue -> IssueRow] /\ attempted' \subseteq Issue
      /\ excusedMarks' \in [Issue -> Nat] /\ Cleanup(k)
      /\ StepsTo(k, "label") \/ Ends(k)
  BY ChargeKeeps
<1>2. tree' \in {tree, [tree EXCEPT ![k] = NoIssue]}
  BY <1>1 DEF Cleanup
<1>3. CASE Ends(k)
  <2>1. run' = [run EXCEPT ![k] = Absent]
    BY <1>3 DEF Ends
  <2>2. /\ Absent \in RunRow /\ Absent.step # "merge"
        /\ Fits(k, Absent, tree'[k], pull, verdicts') /\ Fresh(Absent, pull)
        /\ Landing(Absent, pull, remote', Good(verdicts'))
        /\ \A o : Apart(o, Absent)
    BY AbsentRow
  <2>3. \A o \in Lock \ {k} : /\ Landing(run[o], pull, remote', Good(verdicts'))
                              /\ Apart(run[o], Absent)
    BY <2>2
  <2> QED  BY <1>t, <1>1, <1>2, <2>1, <2>2, <2>3, RunWritesBranch
<1>4. CASE StepsTo(k, "label")
  <2> DEFINE q == [run[k] EXCEPT !.step = "label"]
  <2>1. "label" \in RunStep
    BY DEF RunStep
  <2>2. /\ q \in RunRow /\ q.step = "label" /\ q.on = run[k].on /\ q.pr = run[k].pr
        /\ q.diff = run[k].diff /\ q.approved = run[k].approved
    BY <1>0, <2>1, StepRow
  <2>3. run' = [run EXCEPT ![k] = q]
    BY <1>t, <1>4 DEF StepsTo
  <2> HIDE DEF q
  <2>4. Fits(k, q, tree'[k], pull, verdicts') /\ Fresh(q, pull)
        /\ Landing(q, pull, remote', Good(verdicts'))
    BY <1>0, <1>g, <2>2 DEF Fits, Fresh, Landing, Seeking, AtTree
  <2>5. \A o \in Lock \ {k} : /\ Landing(run[o], pull, remote', Good(verdicts'))
                              /\ Apart(run[o], q)
    BY <2>2 DEF Apart
  <2>6. q.step # "merge"
    BY <2>2
  <2> QED  BY <1>t, <1>1, <1>2, <2>2, <2>3, <2>4, <2>5, <2>6, RunWritesBranch
<1> QED  BY <1>1, <1>3, <1>4

(* A push of a run that resumes is noted, where it took the draft late.    *)
LEMMA PushNotes ==
  ASSUME AgentInv, NEW k \in Lock, run[k].step \notin Seeking, NEW d \in Diff, Pushes(k, d)
  PROVE  /\ remote' \in [Issue -> Diff] /\ \A i \in Issue : remote'[i] = IF i = On(k) THEN d ELSE remote[i]
         /\ verdicts' \in [About -> SUBSET Diff] /\ Grow(verdicts, verdicts')
         /\ verdicts'["landed"] = verdicts["landed"]
         /\ Good(verdicts) \subseteq Good(verdicts')
         /\ run[k].late => d \in Good(verdicts')
<1>1. remote \in [Issue -> Diff] /\ verdicts \in [About -> SUBSET Diff] /\ On(k) \in Issue
  BY AgentRecords, AtRun DEF Fits, On
<1>2. \/ verdicts' = [verdicts EXCEPT !["crossed"] = @ \cup {d}]
      \/ ~run[k].late /\ verdicts' = verdicts
  BY DEF Pushes, Notes
<1>3. /\ verdicts' \in [About -> SUBSET Diff] /\ Grow(verdicts, verdicts')
      /\ verdicts'["landed"] = verdicts["landed"]
  BY <1>1, <1>2 DEF Grow, About
<1>4. run[k].late => d \in Good(verdicts')
  BY <1>1, <1>2 DEF Good, About
<1> QED  BY <1>1, <1>3, <1>4, GoodGrows DEF Pushes

(* A run that returns, or fails. *)
LEMMA Returns ==
  ASSUME AgentInv, NEW k \in Lock,
         Retriage(k) \/ Refuse(k) \/ EndUncharged(k) \/ MergeFails(k) \/ RunDies(k)
  PROVE  AgentInv'
<1>0. Fits(k, run[k], tree[k], pull, verdicts)
  BY AtRun
<1>t. /\ issue \in [Issue -> IssueRow] /\ attempted \subseteq Issue /\ diffs \in Diff
      /\ excusedMarks \in [Issue -> Nat] /\ DaemonTypes
  BY AgentRecords
<1>d. daemonVars' = daemonVars => DaemonTypes'
  BY <1>t DEF DaemonTypes, daemonVars
<1>1. CASE Retriage(k)
  <2>1. Ends(k) /\ UNCHANGED <<pull, remote, tree, attempted, diffs, verdicts, excusedMarks, daemonVars>>
    BY <1>1 DEF Retriage, gitVars
  <2>2. issue' \in [Issue -> IssueRow]
    BY <1>t, <1>1 DEF Retriage, IssueRow
  <2> QED  BY <1>t, <1>d, <2>1, <2>2, RunEnds
<1>2. CASE Refuse(k)
  <2>1. Ends(k) /\ Cleanup(k) /\ UNCHANGED <<pull, remote, attempted, diffs, verdicts, excusedMarks, daemonVars>>
    BY <1>2 DEF Refuse, gitVars
  <2>2. issue' \in [Issue -> IssueRow]
    <3>1. On(k) \in Issue
      BY <1>0, <1>2 DEF Fits, Refuse, Seeking, On
    <3> QED  BY <1>t, <1>2, <3>1 DEF Refuse, IssueRow
  <2> QED  BY <1>t, <1>d, <2>1, <2>2, RunEnds
<1>3. CASE EndUncharged(k)
  <2>1. Ends(k) /\ Cleanup(k) /\ UNCHANGED <<issue, pull, remote, diffs, verdicts, excusedMarks, daemonVars>>
    BY <1>3 DEF EndUncharged, gitVars
  <2>2. attempted' \subseteq Issue
    <3>1. On(k) \in Issue
      BY <1>0, <1>3 DEF Fits, EndUncharged, Seeking, On
    <3> QED  BY <1>t, <1>3, <3>1 DEF EndUncharged
  <2> QED  BY <1>t, <1>d, <2>1, <2>2, RunEnds
<1>4. CASE MergeFails(k)
  <2>1. Ends(k) /\ UNCHANGED <<issue, pull, remote, tree, attempted, diffs, verdicts, excusedMarks, daemonVars>>
    BY <1>4 DEF MergeFails, gitVars
  <2> QED  BY <1>t, <1>d, <2>1, RunEnds
<1>5. CASE RunDies(k)
  <2>1. Ends(k) /\ UNCHANGED <<issue, pull, remote, tree, attempted, diffs, verdicts>>
    BY <1>5 DEF RunDies, gitVars
  <2>2. DaemonTypes'
    BY <1>t, <1>5, DaemonAssumption DEF RunDies, Restarts, DaemonTypes
  <2>3. excusedMarks' \in [Issue -> Nat]
    <3>1. CASE run[k].step = "label"
      <4>1. On(k) \in Issue /\ issue' = issue /\ ExcuseIssue(On(k))
        BY <1>0, <1>5, <3>1 DEF Fits, RunDies, Seeking, On, Is
      <4> QED  BY <1>t, <4>1 DEF ExcuseIssue, IssueRow
    <3>2. CASE run[k].step # "label"
      BY <1>t, <1>5, <3>2 DEF RunDies, Is
    <3> QED  BY <3>1, <3>2
  <2> QED  BY <1>t, <2>1, <2>2, <2>3, RunEnds
<1> QED  BY <1>1, <1>2, <1>3, <1>4, <1>5

\* An attempt that fails leaves its worktree and its pull request as
\* they were: what was reviewed of them still is.
LEMMA Fails ==
  ASSUME AgentInv, NEW k \in Lock, Fail(k) \/ FailUnlabelled(k)
  PROVE  AgentInv'
<1>0. run[k] \in RunRow /\ Fits(k, run[k], tree[k], pull, verdicts)
      /\ \A o \in Lock \ {k} : Landing(run[o], pull, remote, Good(verdicts))
  BY AtRun
<1>t. remote \in [Issue -> Diff] /\ verdicts \in [About -> SUBSET Diff]
  BY AgentRecords
<1>1. run[k].step \notin Seeking
  BY DEF Fail, FailUnlabelled, Is, Seeking
<1>2. PICK labels \in BOOLEAN : Charge(k, labels)
  BY DEF Fail, FailUnlabelled
<1>3. UNCHANGED <<pull, diffs, daemonVars>>
  BY DEF Fail, FailUnlabelled, gitVars
<1>4. CASE UNCHANGED <<remote, verdicts>>
  <2>1. Grow(verdicts, verdicts')
    BY <1>4 DEF Grow
  <2> QED  BY <1>0, <1>t, <1>1, <1>2, <1>3, <1>4, <2>1, GivesUp
<1>5. CASE Fail(k) /\ Resuming(k) /\ Pushes(k, run[k].diff)
  <2> DEFINE d == run[k].diff
  <2>1. d \in Diff /\ run[k].pr # 0 /\ run[k].step \in {"adopted", "review"}
    BY <1>0, <1>5 DEF RunRow, Fail, Resuming
  <2> HIDE DEF d
  <2>2. Pushes(k, d)
    BY <1>5 DEF d
  <2>3. /\ remote' \in [Issue -> Diff] /\ \A i \in Issue : remote'[i] = IF i = On(k) THEN d ELSE remote[i]
        /\ verdicts' \in [About -> SUBSET Diff] /\ Grow(verdicts, verdicts')
        /\ verdicts'["landed"] = verdicts["landed"]
        /\ Good(verdicts) \subseteq Good(verdicts')
        /\ run[k].late => d \in Good(verdicts')
    BY <1>1, <2>1, <2>2, PushNotes
  <2> DEFINE good == Good(verdicts')
  <2>4. Good(verdicts) \subseteq good /\ (run[k].late => d \in good)
    BY <2>3
  <2> HIDE DEF good
  <2>5. \A o \in Lock \ {k} : Landing(run[o], pull, remote', good)
    <3>1. run[k].step \in {"adopted", "review", "revise", "publish"} /\ run[k].pr # 0
      BY <2>1
    <3> QED  BY <2>1, <2>3, <2>4, <3>1, PushLands
  <2>6. \A o \in Lock \ {k} : Landing(run[o], pull, remote', Good(verdicts'))
    BY <2>5 DEF good
  <2> QED  BY <1>1, <1>2, <1>3, <2>3, <2>6, GivesUp
<1> QED  BY <1>4, <1>5 DEF Fail, FailUnlabelled, gitVars

(* The label, and then the draft of an issue that was labelled out.        *)
LEMMA LabelsAndCloses ==
  ASSUME AgentInv, NEW k \in Lock, LabelGaveUp(k) \/ CloseExhausted(k)
  PROVE  AgentInv'
<1>0. run[k] \in RunRow /\ Fits(k, run[k], tree[k], pull, verdicts) /\ run[k].on \in Issue
  <2>1. run[k].step \in {"label", "close"}
    BY DEF LabelGaveUp, CloseExhausted, Is
  <2> QED  BY <2>1, AtRun DEF Fits, Seeking
<1>t. /\ issue \in [Issue -> IssueRow] /\ attempted \subseteq Issue /\ diffs \in Diff
      /\ excusedMarks \in [Issue -> Nat] /\ DaemonTypes /\ pull \in [Issue -> PullRow]
      /\ remote \in [Issue -> Diff] /\ verdicts \in [About -> SUBSET Diff]
      /\ run \in [Lock -> RunRow]
  BY AgentRecords
<1>d. daemonVars' = daemonVars => DaemonTypes'
  BY <1>t DEF DaemonTypes, daemonVars
<1>1. CASE LabelGaveUp(k)
  <2>1. UNCHANGED <<pull, remote, tree, attempted, diffs, verdicts, daemonVars>> /\ run[k].step = "label"
    BY <1>1 DEF LabelGaveUp, gitVars, Is
  <2>2. issue' \in [Issue -> IssueRow]
    BY <1>0, <1>t, <1>1 DEF LabelGaveUp, IssueRow, On
  <2>3. excusedMarks' \in [Issue -> Nat]
    BY <1>0, <1>t, <1>1, <2>2 DEF LabelGaveUp, IssueRow, On, ExcuseIssue
  <2>4. CASE run[k].pr # 0
    <3>1. StepsTo(k, "close") /\ "close" \in RunStep
      BY <1>1, <2>4 DEF LabelGaveUp, Resuming, RunStep
    <3>2. /\ Fits(k, [run[k] EXCEPT !.step = "close"], tree[k], pull, verdicts)
          /\ Fresh([run[k] EXCEPT !.step = "close"], pull)
      BY <1>0, <2>1, <2>4, <3>1, StepRow DEF Fits, Fresh, Seeking, AtTree
    <3> QED  BY <1>t, <2>1, <2>2, <2>3, <3>1, <3>2, StepsQuietly
  <2>5. CASE run[k].pr = 0
    <3>1. Ends(k)
      BY <1>1, <2>5 DEF LabelGaveUp, Resuming
    <3> QED  BY <1>t, <1>d, <2>1, <2>2, <2>3, <3>1, RunEnds
  <2> QED  BY <2>4, <2>5
<1>2. CASE CloseExhausted(k)
  <2>1. UNCHANGED <<issue, remote, tree, attempted, diffs, verdicts, excusedMarks, daemonVars>> /\ Ends(k)
    BY <1>2 DEF CloseExhausted, gitVars
  <2>2. CASE pull' = pull
    BY <1>t, <1>d, <2>1, <2>2, RunEnds
  <2>3. CASE pull' = [pull EXCEPT ![run[k].on].state = "closed"]
    <3>1. /\ pull' \in [Issue -> PullRow] /\ DaemonTypes' /\ run' = [run EXCEPT ![k] = Absent]
          /\ tree' \in {tree, [tree EXCEPT ![k] = NoIssue]}
      BY <1>0, <1>t, <1>d, <2>1, <2>3 DEF PullRow, Ends
    <3>2. \A i \in Issue : /\ pull'[i].no = pull[i].no
                           /\ pull'[i].state \in OpenPull => pull'[i] = pull[i]
      BY <1>0, <1>t, <2>3 DEF PullRow, OpenPull
    <3>3. Grow(verdicts, verdicts') /\ verdicts'["landed"] \subseteq Good(verdicts')
      BY <2>1 DEF Grow, AgentInv
    <3>4. \A i \in Issue : /\ pull[i].no <= pull'[i].no
                           /\ pull'[i].state \in OpenPull => pull'[i].no # 0
      BY <1>t, <3>2 DEF AgentInv, PullRow
    <3>5. /\ Absent \in RunRow /\ Fits(k, Absent, tree'[k], pull', verdicts') /\ Fresh(Absent, pull')
          /\ Landing(Absent, pull', remote', Good(verdicts')) /\ \A o : Apart(o, Absent) /\ Apart(Absent, o)
      BY AbsentRow DEF Apart
    <3>6. \A o \in Lock \ {k} : /\ Fresh(run[o], pull')
                                /\ Landing(run[o], pull', remote', Good(verdicts'))
                                /\ Apart(run[o], Absent) /\ Apart(Absent, run[o])
      <4>1. \A o \in Lock \ {k} : /\ Fits(o, run[o], tree[o], pull, verdicts) /\ Fresh(run[o], pull)
                                  /\ Landing(run[o], pull, remote, Good(verdicts))
        BY AtRun
      <4>2. \A o \in Lock \ {k} : Fresh(run[o], pull')
        BY <3>2, <4>1 DEF Fits, Fresh, Seeking
      <4>3. \A o \in Lock \ {k} : Landing(run[o], pull', remote', Good(verdicts'))
        BY <2>1, <3>2, <4>1 DEF Fits, Landing, Seeking
      <4> QED  BY <3>5, <4>2, <4>3
    <3> QED  BY <1>t, <2>1, <3>1, <3>3, <3>4, <3>5, <3>6, RunMoves
  <2> QED  BY <1>2, <2>2, <2>3 DEF CloseExhausted, On
<1> QED  BY <1>1, <1>2

(* A diff is made in a round; a draft's is pushed at once where origin     *)
(* takes it.                                                               *)
LEMMA MakesADiff ==
  ASSUME AgentInv, NEW k \in Lock, NEW round \in 0 .. Rounds, Round(k, round),
         run[k].step \in {"adopted", "revise"},
         UNCHANGED <<issue, pull, tree, attempted, excusedMarks, daemonVars>>
  PROVE  AgentInv'
<1>0. run[k] \in RunRow /\ Fits(k, run[k], tree[k], pull, verdicts) /\ Fresh(run[k], pull)
      /\ \A o \in Lock \ {k} : /\ Landing(run[o], pull, remote, Good(verdicts))
                               /\ Apart(run[o], run[k])
  BY AtRun
<1>t. /\ issue \in [Issue -> IssueRow] /\ attempted \subseteq Issue /\ diffs \in Diff
      /\ excusedMarks \in [Issue -> Nat] /\ DaemonTypes /\ remote \in [Issue -> Diff]
      /\ verdicts \in [About -> SUBSET Diff] /\ run \in [Lock -> RunRow] /\ MaxDiffs \in Nat
  BY AgentRecords
<1> DEFINE d == diffs + 1
           made == [run[k] EXCEPT !.step = "review", !.diff = d, !.shown = d, !.round = round]
           pushed == [made EXCEPT !.base = d]
<1>1. d \in Diff /\ diffs' = d
  BY <1>t DEF Round, Diff
<1>2. \/ UNCHANGED <<remote, verdicts>> /\ run' = [run EXCEPT ![k] = made]
      \/ run[k].pr # 0 /\ Pushes(k, d) /\ run' = [run EXCEPT ![k] = pushed]
  BY DEF Round, Resuming
<1> HIDE DEF d
<1>3. /\ made \in RunRow /\ made.step = "review" /\ made.on = run[k].on /\ made.pr = run[k].pr
      /\ made.diff = made.shown /\ made.approved = run[k].approved /\ made.late = run[k].late
  BY <1>0, <1>1 DEF RunRow, RunStep
<1> HIDE DEF made
<1>4. /\ pushed \in RunRow /\ pushed.step = "review" /\ pushed.on = run[k].on /\ pushed.pr = run[k].pr
      /\ pushed.diff = pushed.shown /\ pushed.approved = run[k].approved /\ pushed.late = run[k].late
  BY <1>1, <1>3 DEF RunRow
<1> HIDE DEF pushed
<1>5. ASSUME NEW q \in {made, pushed}, NEW v
      PROVE  Fits(k, q, tree[k], pull, v) /\ Fresh(q, pull)
             /\ \A o \in Lock \ {k} : Apart(run[o], q)
  <2>1. /\ q.step = "review" /\ q.on = run[k].on /\ q.pr = run[k].pr
        /\ q.diff = q.shown /\ q.approved = run[k].approved /\ q.late = run[k].late
    BY <1>3, <1>4
  <2>2. Fits(k, q, tree[k], pull, v)
    BY <1>0, <2>1 DEF Fits, Seeking, AtTree
  <2>3. Fresh(q, pull)
    BY <1>0, <2>1 DEF Fresh, Fits
  <2>4. \A o \in Lock \ {k} : Apart(run[o], q)
    BY <1>0, <2>1 DEF Apart
  <2> QED  BY <2>2, <2>3, <2>4
<1>6. daemonVars' = daemonVars /\ tree' = tree /\ tree' \in {tree, [tree EXCEPT ![k] = NoIssue]}
      /\ issue' \in [Issue -> IssueRow] /\ attempted' \subseteq Issue /\ diffs' \in Diff
      /\ excusedMarks' \in [Issue -> Nat] /\ pull' = pull
  BY <1>t, <1>1
<1>7. CASE UNCHANGED <<remote, verdicts>> /\ run' = [run EXCEPT ![k] = made]
  <2>1. /\ Grow(verdicts, verdicts') /\ verdicts'["landed"] = verdicts["landed"]
        /\ verdicts' \in [About -> SUBSET Diff] /\ remote' \in [Issue -> Diff]
    BY <1>t, <1>7 DEF Grow
  <2>2. /\ Fits(k, made, tree'[k], pull, verdicts') /\ Fresh(made, pull) /\ made.step # "merge"
        /\ Landing(made, pull, remote', Good(verdicts'))
    BY <1>3, <1>5, <1>6 DEF Landing
  <2>3. \A o \in Lock \ {k} : /\ Landing(run[o], pull, remote', Good(verdicts'))
                              /\ Apart(run[o], made)
    BY <1>0, <1>5, <1>7
  <2> QED  BY <1>3, <1>6, <1>7, <2>1, <2>2, <2>3, RunWritesBranch
<1>8. CASE run[k].pr # 0 /\ Pushes(k, d) /\ run' = [run EXCEPT ![k] = pushed]
  <2>0. run[k].step \notin Seeking /\ run[k].step \in {"adopted", "review", "revise", "publish"}
    BY DEF Seeking
  <2>1. /\ remote' \in [Issue -> Diff] /\ \A i \in Issue : remote'[i] = IF i = On(k) THEN d ELSE remote[i]
        /\ verdicts' \in [About -> SUBSET Diff] /\ Grow(verdicts, verdicts')
        /\ verdicts'["landed"] = verdicts["landed"]
        /\ Good(verdicts) \subseteq Good(verdicts')
        /\ run[k].late => d \in Good(verdicts')
    BY <1>1, <1>8, <2>0, PushNotes
  <2> DEFINE good == Good(verdicts')
  <2>2. Good(verdicts) \subseteq good /\ (run[k].late => d \in good)
    BY <2>1
  <2> HIDE DEF good
  <2>3. \A o \in Lock \ {k} : Landing(run[o], pull, remote', good)
    BY <1>1, <1>8, <2>0, <2>1, <2>2, PushLands
  <2>4. \A o \in Lock \ {k} : /\ Landing(run[o], pull, remote', Good(verdicts'))
                              /\ Apart(run[o], pushed)
    BY <1>5, <2>3 DEF good
  <2>5. /\ Fits(k, pushed, tree'[k], pull, verdicts') /\ Fresh(pushed, pull) /\ pushed.step # "merge"
        /\ Landing(pushed, pull, remote', Good(verdicts'))
    BY <1>4, <1>5, <1>6 DEF Landing
  <2> QED  BY <1>4, <1>6, <1>8, <2>1, <2>4, <2>5, RunWritesBranch
<1> QED  BY <1>2, <1>7, <1>8

(* Building, reviewing and revising. *)
LEMMA Builds ==
  ASSUME AgentInv, NEW k \in Lock,
         \/ MergeMain(k) \/ BuildDiff(k) \/ Revise(k) \/ StopRevising(k)
         \/ \E verdict \in {"yes", "no", "none"} : Review(k, verdict)
  PROVE  AgentInv'
<1>0. run[k] \in RunRow /\ Fits(k, run[k], tree[k], pull, verdicts) /\ Fresh(run[k], pull)
      /\ \A o \in Lock \ {k} : Apart(run[o], run[k])
  BY AtRun
<1>t. /\ issue \in [Issue -> IssueRow] /\ attempted \subseteq Issue /\ diffs \in Diff
      /\ excusedMarks \in [Issue -> Nat] /\ DaemonTypes /\ remote \in [Issue -> Diff]
      /\ verdicts \in [About -> SUBSET Diff] /\ run \in [Lock -> RunRow] /\ MaxDiffs \in Nat
  BY AgentRecords
<1>d. daemonVars' = daemonVars => DaemonTypes'
  BY <1>t DEF DaemonTypes, daemonVars
<1>g. Grow(verdicts, verdicts)
  BY DEF Grow
<1>n. Rounds \in Nat
  BY AgentAssumption
<1>1. CASE MergeMain(k)
  <2>1. UNCHANGED <<issue, pull, tree, attempted, excusedMarks, daemonVars>> /\ run[k].step = "adopted"
    BY <1>1 DEF MergeMain, Is
  <2>2. CASE Round(k, 0)
    <3>1. 0 \in 0 .. Rounds /\ run[k].step \in {"adopted", "revise"}
      BY <1>n, <2>1
    <3> QED  BY <2>1, <2>2, <3>1, MakesADiff
  <2>3. CASE StepsTo(k, "review") /\ UNCHANGED <<remote, diffs, verdicts>>
    <3>1. "review" \in RunStep /\ run[k].pr # 0
      BY <1>0, <2>1 DEF RunStep, Fits
    <3>2. Fits(k, [run[k] EXCEPT !.step = "review"], tree[k], pull, verdicts)
      BY <1>0, <2>1, <3>1, StepRow DEF Fits, Seeking, AtTree
    <3>3. Fresh([run[k] EXCEPT !.step = "review"], pull)
      BY <1>0, <3>1, StepRow DEF Fresh
    <3> QED  BY <1>t, <2>1, <2>3, <3>1, <3>2, <3>3, StepsQuietly
  <2> QED  BY <1>1, <2>2, <2>3 DEF MergeMain
<1>2. CASE BuildDiff(k)
  <2>1. PICK shrunk \in BOOLEAN :
          LET diff == IF shrunk THEN diffs + 2 ELSE diffs + 1
          IN  /\ diff <= MaxDiffs
              /\ diffs' = diff
              /\ run' = [run EXCEPT ![k] = [@ EXCEPT !.step = "review", !.diff = diff, !.shown = diffs + 1]]
              /\ IF shrunk THEN Notes("shrunk", diff) ELSE UNCHANGED verdicts
    BY <1>2 DEF BuildDiff
  <2> DEFINE d == IF shrunk THEN diffs + 2 ELSE diffs + 1
             s == diffs + 1
             q == [run[k] EXCEPT !.step = "review", !.diff = d, !.shown = s]
  <2>2. /\ d \in Diff /\ s \in Diff /\ diffs' = d /\ (~shrunk => d = s)
        /\ run' = [run EXCEPT ![k] = q]
        /\ IF shrunk THEN Notes("shrunk", d) ELSE UNCHANGED verdicts
    BY <1>t, <2>1 DEF Diff
  <2> HIDE DEF d, s
  <2>3. /\ q \in RunRow /\ q.step = "review" /\ q.on = run[k].on /\ q.pr = run[k].pr
        /\ q.diff = d /\ q.shown = s /\ q.approved = run[k].approved
    BY <1>0, <2>2 DEF RunRow, RunStep
  <2> HIDE DEF q
  <2>4. /\ verdicts' \in [About -> SUBSET Diff] /\ Grow(verdicts, verdicts')
        /\ verdicts'["landed"] = verdicts["landed"]
        /\ d = s \/ d \in verdicts'["shrunk"]
    BY <1>t, <2>2 DEF Notes, Grow, About
  <2>5. run[k].step = "build" /\ run[k].pr = 0
        /\ UNCHANGED <<issue, pull, remote, tree, attempted, excusedMarks, daemonVars>>
    BY <1>0, <1>2 DEF BuildDiff, Is, Fits, gitVars
  <2>6. Fits(k, q, tree[k], pull, verdicts') /\ Fresh(q, pull)
    BY <1>0, <2>3, <2>4, <2>5 DEF Fits, Fresh, Seeking, AtTree
  <2> QED  BY <1>t, <1>d, <2>2, <2>3, <2>4, <2>5, <2>6, RunMovesQuietly
<1>3. CASE Revise(k)
  <2>1. run[k].step = "revise" /\ Round(k, run[k].round + 1)
        /\ UNCHANGED <<issue, pull, tree, attempted, excusedMarks, daemonVars>>
    BY <1>3 DEF Revise, Is
  <2>2. run[k].round + 1 \in 0 .. Rounds
    <3>1. run[k].round \in 0 .. Rounds /\ run[k].round < Rounds
      BY <1>0, <2>1 DEF Fits, RunRow
    <3> QED  BY <1>n, <3>1
  <2> QED  BY <2>1, <2>2, MakesADiff
<1>4. CASE StopRevising(k)
  <2>1. /\ StepsTo(k, "publish") /\ run[k].step = "revise" /\ run[k].pr = 0
        /\ UNCHANGED <<issue, pull, remote, tree, attempted, diffs, verdicts, excusedMarks, daemonVars>>
        /\ "publish" \in RunStep
    BY <1>4 DEF StopRevising, Is, Resuming, gitVars, RunStep
  <2>2. Fits(k, [run[k] EXCEPT !.step = "publish"], tree[k], pull, verdicts)
    BY <1>0, <2>1, StepRow DEF Fits, Seeking, AtTree
  <2>3. Fresh([run[k] EXCEPT !.step = "publish"], pull)
    BY <1>0, <2>1, StepRow DEF Fresh
  <2> QED  BY <1>t, <2>1, <2>2, <2>3, StepsQuietly
<1>5. ASSUME NEW verdict \in {"yes", "no", "none"}, Review(k, verdict)  PROVE AgentInv'
  <2>1. /\ UNCHANGED <<issue, pull, remote, tree, attempted, diffs, excusedMarks, daemonVars>>
        /\ run[k].step = "review"
    BY <1>5 DEF Review, Is, gitVars
  <2>2. CASE /\ Notes("approved", run[k].shown)
             /\ run' = [run EXCEPT ![k] = [@ EXCEPT !.step = "publish", !.approved = TRUE]]
    <3> DEFINE q == [run[k] EXCEPT !.step = "publish", !.approved = TRUE]
    <3>1. /\ q \in RunRow /\ q.step = "publish" /\ q.on = run[k].on /\ q.pr = run[k].pr
          /\ q.diff = run[k].diff /\ q.shown = run[k].shown /\ q.approved /\ q.late = run[k].late
          /\ run' = [run EXCEPT ![k] = q] /\ q.shown \in Diff
      BY <1>0, <1>t, <2>2 DEF RunRow, RunStep
    <3> HIDE DEF q
    <3>2. /\ verdicts' \in [About -> SUBSET Diff] /\ Grow(verdicts, verdicts')
          /\ verdicts'["landed"] = verdicts["landed"]
          /\ verdicts'["shrunk"] = verdicts["shrunk"]
          /\ q.shown \in verdicts'["approved"]
      BY <1>t, <2>2, <3>1 DEF Notes, Grow, About
    <3>3. q.diff \in Good(verdicts')
      BY <1>0, <2>1, <3>1, <3>2 DEF Fits, Good, AtTree
    <3>4. Fits(k, q, tree[k], pull, verdicts') /\ Fresh(q, pull)
      BY <1>0, <2>1, <3>1, <3>2, <3>3 DEF Fits, Fresh, Seeking, AtTree
    <3>5. q.pr = 0 \/ \A o \in Lock \ {k} : run[o].step = "merge" /\ run[o].on = q.on => q.late
      BY <1>0, <2>1, <3>1 DEF Apart
    <3> QED  BY <1>t, <1>d, <2>1, <3>1, <3>2, <3>4, <3>5, RunMovesQuietly
  <2>3. CASE run[k].round < Rounds /\ StepsTo(k, "revise") /\ UNCHANGED verdicts
    <3>1. "revise" \in RunStep
      BY DEF RunStep
    <3>2. Fits(k, [run[k] EXCEPT !.step = "revise"], tree[k], pull, verdicts)
      BY <1>0, <2>1, <2>3, <3>1, StepRow DEF Fits, Seeking, AtTree
    <3>3. Fresh([run[k] EXCEPT !.step = "revise"], pull)
      BY <1>0, <2>1, <3>1, StepRow DEF Fresh
    <3> QED  BY <1>t, <2>1, <2>3, <3>1, <3>2, <3>3, StepsQuietly
  <2>4. CASE run[k].pr = 0 /\ StepsTo(k, "publish") /\ UNCHANGED verdicts
    <3>1. "publish" \in RunStep
      BY DEF RunStep
    <3>2. Fits(k, [run[k] EXCEPT !.step = "publish"], tree[k], pull, verdicts)
      BY <1>0, <2>1, <2>4, <3>1, StepRow DEF Fits, Seeking, AtTree
    <3>3. Fresh([run[k] EXCEPT !.step = "publish"], pull)
      BY <1>0, <2>1, <3>1, StepRow DEF Fresh
    <3> QED  BY <1>t, <2>1, <2>4, <3>1, <3>2, <3>3, StepsQuietly
  <2> QED  BY <1>5, <2>2, <2>3, <2>4 DEF Review, Resuming
<1> QED  BY <1>1, <1>2, <1>3, <1>4, <1>5

(* A branch is pushed, for the advisory reviewer or to be published.       *)
LEMMA PushesBranch ==
  ASSUME AgentInv, NEW k \in Lock, PushForRabbit(k) \/ PushFresh(k) \/ PushResumed(k)
  PROVE  AgentInv'
<1>0. /\ run[k] \in RunRow /\ Fits(k, run[k], tree[k], pull, verdicts) /\ Fresh(run[k], pull)
      /\ \A o \in Lock \ {k} :
            /\ Fits(o, run[o], tree[o], pull, verdicts)
            /\ Landing(run[o], pull, remote, Good(verdicts))
            /\ Apart(run[o], run[k])
            /\ tree[k] = tree[o] => tree[k] = NoIssue
  BY AtRun
<1>t. /\ issue \in [Issue -> IssueRow] /\ attempted \subseteq Issue /\ diffs \in Diff
      /\ excusedMarks \in [Issue -> Nat] /\ DaemonTypes /\ remote \in [Issue -> Diff]
      /\ verdicts \in [About -> SUBSET Diff] /\ run \in [Lock -> RunRow] /\ NoIssue \notin Issue
  BY AgentRecords
<1> DEFINE d == run[k].diff
<1>1. d \in Diff /\ run[k].step \in {"review", "publish"} /\ run[k].step \notin Seeking
  BY <1>0 DEF RunRow, PushForRabbit, PushFresh, PushResumed, Is, Seeking
<1>2. run[k].on \in Issue /\ tree[k] = run[k].on
  BY <1>0, <1>1 DEF Fits, AtTree
<1> HIDE DEF d
<1>3. ASSUME run[k].pr # 0, Pushes(k, d)
      PROVE  /\ remote' \in [Issue -> Diff] /\ remote'[run[k].on] = d
             /\ verdicts' \in [About -> SUBSET Diff] /\ Grow(verdicts, verdicts')
             /\ verdicts'["landed"] = verdicts["landed"]
             /\ Good(verdicts) \subseteq Good(verdicts')
             /\ \A o \in Lock \ {k} : Landing(run[o], pull, remote', Good(verdicts'))
  <2>1. /\ remote' \in [Issue -> Diff] /\ \A i \in Issue : remote'[i] = IF i = On(k) THEN d ELSE remote[i]
        /\ verdicts' \in [About -> SUBSET Diff] /\ Grow(verdicts, verdicts')
        /\ verdicts'["landed"] = verdicts["landed"]
        /\ Good(verdicts) \subseteq Good(verdicts')
        /\ run[k].late => d \in Good(verdicts')
    BY <1>1, <1>3, PushNotes
  <2> DEFINE good == Good(verdicts')
  <2>2. Good(verdicts) \subseteq good /\ (run[k].late => d \in good)
    BY <2>1
  <2>3. run[k].step \in {"adopted", "review", "revise", "publish"}
    BY <1>1
  <2> HIDE DEF good
  <2>4. \A o \in Lock \ {k} : Landing(run[o], pull, remote', good)
    BY <1>1, <1>3, <2>1, <2>2, <2>3, PushLands
  <2> QED  BY <1>2, <2>1, <2>4 DEF good, On
<1>4. CASE PushForRabbit(k)
  <2>1. run[k].step = "review" /\ run[k].pr # 0 /\ Pushes(k, d)
        /\ UNCHANGED <<issue, pull, tree, attempted, diffs, excusedMarks, daemonVars>>
    BY <1>4 DEF PushForRabbit, Is, Resuming, d
  <2> DEFINE q == [run[k] EXCEPT !.base = d]
  <2>2. /\ q \in RunRow /\ q.step = "review" /\ q.on = run[k].on /\ q.pr = run[k].pr /\ q.round = run[k].round
        /\ q.diff = run[k].diff /\ q.shown = run[k].shown /\ q.approved = run[k].approved
        /\ q.late = run[k].late /\ run' = [run EXCEPT ![k] = q]
    BY <1>0, <1>1, <1>t, <1>4, <2>1 DEF RunRow, PushForRabbit, d
  <2> HIDE DEF q
  <2>3. Grow(verdicts, verdicts') /\ Good(verdicts) \subseteq Good(verdicts')
        /\ verdicts["shrunk"] \subseteq verdicts'["shrunk"]
    BY <1>3, <2>1, GoodGrows
  <2>4. /\ Fits(k, q, tree'[k], pull, verdicts') /\ Fresh(q, pull) /\ q.step # "merge"
        /\ Landing(q, pull, remote', Good(verdicts'))
    BY <1>0, <2>1, <2>2, <2>3 DEF Fits, Fresh, Landing, Seeking, AtTree
  <2>5. \A o \in Lock \ {k} : /\ Landing(run[o], pull, remote', Good(verdicts'))
                              /\ Apart(run[o], q)
    BY <1>0, <1>3, <2>1, <2>2 DEF Apart
  <2>6. tree' \in {tree, [tree EXCEPT ![k] = NoIssue]}
    BY <2>1
  <2> QED  BY <1>3, <1>t, <2>1, <2>2, <2>3, <2>4, <2>5, <2>6, RunWritesBranch
<1>5. CASE PushFresh(k)
  <2>1. run[k].step = "publish" /\ run[k].pr = 0 /\ remote' = [remote EXCEPT ![run[k].on] = d]
        /\ UNCHANGED <<issue, pull, tree, attempted, diffs, verdicts, excusedMarks, daemonVars>>
    BY <1>5 DEF PushFresh, Is, Resuming, On, d
  <2> DEFINE q == [run[k] EXCEPT !.step = "create"]
  <2>2. "create" \in RunStep
    BY DEF RunStep
  <2>3. /\ q \in RunRow /\ q.step = "create" /\ q.on = run[k].on /\ q.pr = run[k].pr
        /\ q.diff = run[k].diff /\ q.shown = run[k].shown /\ q.approved = run[k].approved
    BY <1>0, <2>2, StepRow
  <2>4. run' = [run EXCEPT ![k] = q]
    BY <1>t, <1>5 DEF PushFresh, StepsTo
  <2> HIDE DEF q
  <2>5. remote' \in [Issue -> Diff] /\ remote'[run[k].on] = d
        /\ \A i \in Issue : i # run[k].on => remote'[i] = remote[i]
    BY <1>1, <1>2, <1>t, <2>1
  <2>6. /\ Fits(k, q, tree'[k], pull, verdicts') /\ Fresh(q, pull) /\ q.step # "merge"
    BY <1>0, <2>1, <2>3 DEF Fits, Fresh, Seeking, AtTree
  <2>7. Landing(q, pull, remote', Good(verdicts'))
    BY <1>0, <2>1, <2>3, <2>5 DEF Landing, Fits, d
  <2>8. \A o \in Lock \ {k} : Landing(run[o], pull, remote', Good(verdicts'))
    <3> SUFFICES ASSUME NEW o \in Lock \ {k}  PROVE Landing(run[o], pull, remote', Good(verdicts))
      BY <2>1
    <3>1. CASE run[o].on # run[k].on
      <4>1. run[o].on \in Issue => remote'[run[o].on] = remote[run[o].on]
        BY <2>5, <3>1
      <4> QED  BY <1>0, <4>1 DEF Landing, Fits, Seeking
    <3>2. CASE run[o].on = run[k].on
      <4>1. pull[run[o].on].state \notin OpenPull
        BY <1>0, <2>1, <3>2 DEF Fresh
      <4>2. run[o].step \notin {"create", "ready"}
        BY <1>0, <1>2, <1>t, <3>2 DEF Fits, AtTree
      <4> QED  BY <4>1, <4>2 DEF Landing
    <3> QED  BY <3>1, <3>2
  <2>9. \A o \in Lock \ {k} : /\ Landing(run[o], pull, remote', Good(verdicts'))
                              /\ Apart(run[o], q)
    BY <2>3, <2>8 DEF Apart
  <2>10. tree' \in {tree, [tree EXCEPT ![k] = NoIssue]} /\ Grow(verdicts, verdicts')
    BY <2>1 DEF Grow
  <2> QED  BY <1>t, <2>1, <2>3, <2>4, <2>5, <2>6, <2>7, <2>9, <2>10, RunWritesBranch
<1>6. CASE PushResumed(k)
  <2>1. run[k].step = "publish" /\ run[k].pr # 0
        /\ UNCHANGED <<issue, pull, attempted, diffs, excusedMarks, daemonVars>>
    BY <1>6 DEF PushResumed, Is, Resuming
  <2>2. CASE Pushes(k, d) /\ StepsTo(k, "ready") /\ UNCHANGED tree
    <3> DEFINE q == [run[k] EXCEPT !.step = "ready"]
    <3>1. "ready" \in RunStep
      BY DEF RunStep
    <3>2. /\ q \in RunRow /\ q.step = "ready" /\ q.on = run[k].on /\ q.pr = run[k].pr
          /\ q.diff = run[k].diff /\ q.shown = run[k].shown /\ q.approved = run[k].approved
      BY <1>0, <3>1, StepRow
    <3>3. run' = [run EXCEPT ![k] = q]
      BY <1>t, <2>2 DEF StepsTo
    <3> HIDE DEF q
    <3>4. Grow(verdicts, verdicts') /\ Good(verdicts) \subseteq Good(verdicts')
          /\ verdicts["shrunk"] \subseteq verdicts'["shrunk"]
      BY <1>3, <2>1, <2>2, GoodGrows
    <3>5. d \in Good(verdicts')
      BY <1>0, <2>1, <3>4 DEF Fits, d
    <3>6. Fits(k, q, tree'[k], pull, verdicts') /\ Fresh(q, pull) /\ q.step # "merge"
      BY <1>0, <2>1, <2>2, <3>2, <3>4 DEF Fits, Fresh, Seeking, AtTree
    <3>7. Landing(q, pull, remote', Good(verdicts'))
      BY <1>3, <2>1, <2>2, <3>2, <3>5 DEF Landing
    <3>8. \A o \in Lock \ {k} : /\ Landing(run[o], pull, remote', Good(verdicts'))
                                /\ Apart(run[o], q)
      BY <1>3, <2>1, <2>2, <3>2 DEF Apart
    <3>9. tree' \in {tree, [tree EXCEPT ![k] = NoIssue]}
      BY <2>2
    <3> QED  BY <1>3, <1>t, <2>1, <2>2, <3>2, <3>3, <3>6, <3>7, <3>8, <3>9, RunWritesBranch
  <2>3. CASE Cleanup(k) /\ Ends(k) /\ UNCHANGED <<remote, verdicts>>
    <3>1. DaemonTypes'
      BY <1>t, <2>1 DEF DaemonTypes, daemonVars
    <3> QED  BY <1>t, <2>1, <2>3, <3>1, RunEnds
  <2> QED  BY <1>6, <2>2, <2>3 DEF PushResumed, d
<1> QED  BY <1>4, <1>5, <1>6

(* A pull request is opened, made ready or merged.                         *)
LEMMA Publishes ==
  ASSUME AgentInv, NEW k \in Lock, CreatePull(k) \/ MakeReady(k) \/ MergePull(k)
  PROVE  AgentInv'
<1>0. /\ run[k] \in RunRow /\ Fits(k, run[k], tree[k], pull, verdicts) /\ Fresh(run[k], pull)
      /\ Landing(run[k], pull, remote, Good(verdicts))
      /\ \A o \in Lock \ {k} :
            /\ run[o] \in RunRow /\ Fits(o, run[o], tree[o], pull, verdicts) /\ Fresh(run[o], pull)
            /\ Landing(run[o], pull, remote, Good(verdicts))
            /\ Apart(run[k], run[o]) /\ Apart(run[o], run[k])
            /\ tree[k] = tree[o] => tree[k] = NoIssue
  BY AtRun
<1>t. /\ issue \in [Issue -> IssueRow] /\ attempted \subseteq Issue /\ diffs \in Diff
      /\ excusedMarks \in [Issue -> Nat] /\ DaemonTypes /\ remote \in [Issue -> Diff]
      /\ verdicts \in [About -> SUBSET Diff] /\ run \in [Lock -> RunRow] /\ NoIssue \notin Issue
      /\ pull \in [Issue -> PullRow]
  BY AgentRecords
<1> DEFINE i == run[k].on
<1>1. run[k].step \in {"create", "ready", "merge"} /\ i \in Issue
      /\ (run[k].step # "merge" => tree[k] = i)
  BY <1>0 DEF CreatePull, MakeReady, MergePull, Is, Fits, Seeking, AtTree
<1>a. ASSUME NEW o \in Lock \ {k}, run[k].step # "merge", run[o].step \in AtTree  PROVE run[o].on # i
  BY <1>0, <1>1, <1>a, <1>t DEF Fits
<1>d. daemonVars' = daemonVars => DaemonTypes'
  BY <1>t DEF DaemonTypes, daemonVars
<1>g. Grow(verdicts, verdicts)
  BY DEF Grow
<1>l. verdicts["landed"] \subseteq Good(verdicts)
  BY DEF AgentInv
<1>e. /\ Absent \in RunRow /\ Absent.step = "idle"
      /\ \A tr, pl, v : Fits(k, Absent, tr, pl, v) /\ Fresh(Absent, pl)
      /\ \A pl, rem, good : Landing(Absent, pl, rem, good)
      /\ \A o : Apart(o, Absent) /\ Apart(Absent, o)
  BY AbsentRow DEF Apart
<1>2. CASE CreatePull(k)
  <2>1. /\ run[k].step = "create" /\ pull[i].state \notin OpenPull /\ pull[i].no < MaxPulls
        /\ Cleanup(k)
        /\ UNCHANGED <<issue, remote, attempted, diffs, verdicts, excusedMarks, daemonVars>>
    BY <1>2 DEF CreatePull, Is, On
  <2>2. PICK auto \in {FALSE, run[k].approved} :
          /\ pull' = [pull EXCEPT ![i] = [no |-> @.no + 1, state |-> IF auto THEN "ready" ELSE "draft"]]
          /\ IF auto THEN StepsTo(k, "merge") ELSE Ends(k)
    BY <1>2 DEF CreatePull, On
  <2> HIDE DEF i
  <2>3. /\ pull[i].no \in 0 .. MaxPulls /\ MaxPulls \in Nat
    BY <1>1, <1>t, AgentAssumption DEF PullRow
  <2>4. pull[i].no + 1 \in 0 .. MaxPulls /\ pull[i].no <= pull[i].no + 1 /\ pull[i].no + 1 # 0
        /\ \A n \in 0 .. MaxPulls : n <= pull[i].no => n <= pull[i].no + 1 /\ n # pull[i].no + 1
    BY <2>1, <2>3
  <2> DEFINE no == pull[i].no + 1
  <2> HIDE DEF no
  <2>5. /\ pull'[i].no = no /\ pull' \in [Issue -> PullRow]
        /\ \A j \in Issue : j # i => pull'[j] = pull[j]
    BY <1>1, <1>t, <2>2, <2>4 DEF PullRow, OpenPull, no
  <2>6. \A j \in Issue : /\ pull[j].no <= pull'[j].no
                         /\ pull'[j].state \in OpenPull => pull'[j].no # 0
    <3>1. pull[i].no <= no /\ no # 0
      BY <2>4 DEF no
    <3>2. \A j \in Issue : pull[j].no <= pull[j].no
      BY <1>t DEF PullRow
    <3>3. \A j \in Issue : pull[j].state \in OpenPull => pull[j].no # 0
      BY DEF AgentInv
    <3> QED  BY <2>5, <3>1, <3>2, <3>3
  <2>7. run[k].pr = 0 /\ k = "main"
    BY <1>0, <2>1 DEF Fits, Seeking
  <2>8. ASSUME NEW o \in Lock \ {k}
        PROVE  Fresh(run[o], pull') /\ Landing(run[o], pull', remote', Good(verdicts'))
    <3>1. run[o].pr = 0 => run[o].step \in {"idle", "seek"}
      BY <1>0, <2>7 DEF Fits
    <3>2. Fresh(run[o], pull')
      BY <3>1 DEF Fresh
    <3>3. CASE run[o].on # i
      <4>1. run[o].on \in Issue => pull'[run[o].on] = pull[run[o].on]
        BY <2>5, <3>3
      <4> QED  BY <1>0, <2>1, <3>2, <4>1 DEF Landing, Fits, Seeking
    <3>4. CASE run[o].on = i
      <4>1. run[o].step \notin AtTree
        BY <1>a, <2>1, <3>4 DEF i
      <4>2. run[o].step = "merge" => run[o].pr # 0 /\ run[o].pr <= pull[i].no
        BY <1>0, <3>1, <3>4 DEF Fits
      <4>3. run[o].pr \in 0 .. MaxPulls
        BY <1>0 DEF RunRow
      <4>4. run[o].step = "merge" => run[o].pr # 0 /\ run[o].pr # pull'[i].no
        BY <2>4, <2>5, <4>2, <4>3 DEF no
      <4> QED  BY <3>2, <3>4, <4>1, <4>4 DEF Landing, AtTree
    <3> QED  BY <3>3, <3>4
  <2>9. tree' \in {tree, [tree EXCEPT ![k] = NoIssue]}
    BY <2>1 DEF Cleanup
  <2>10. CASE ~auto
    <3>1. run' = [run EXCEPT ![k] = Absent]
      BY <2>2, <2>10 DEF Ends
    <3>2. /\ Fits(k, Absent, tree'[k], pull', verdicts') /\ Fresh(Absent, pull')
          /\ Landing(Absent, pull', remote', Good(verdicts'))
      BY <1>e
    <3>3. \A o \in Lock \ {k} : /\ Fresh(run[o], pull')
                                /\ Landing(run[o], pull', remote', Good(verdicts'))
                                /\ Apart(run[o], Absent) /\ Apart(Absent, run[o])
      BY <1>e, <2>8
    <3> QED  BY <1>d, <1>e, <1>g, <1>l, <1>t, <2>1, <2>5, <2>6, <2>9, <3>1, <3>2, <3>3, RunMoves
  <2>11. CASE auto
    <3> DEFINE q == [run[k] EXCEPT !.step = "merge"]
    <3>1. "merge" \in RunStep /\ run[k].approved
      BY <2>2, <2>11 DEF RunStep
    <3>2. /\ q \in RunRow /\ q.step = "merge" /\ q.on = run[k].on /\ q.pr = run[k].pr
          /\ q.diff = run[k].diff /\ q.approved = run[k].approved
      BY <1>0, <3>1, StepRow
    <3>3. run' = [run EXCEPT ![k] = q]
      BY <1>t, <2>2, <2>11 DEF StepsTo
    <3> HIDE DEF q
    <3>4. Fits(k, q, tree'[k], pull', verdicts') /\ Fresh(q, pull')
      BY <1>0, <2>1, <2>7, <3>2 DEF Fits, Fresh, Seeking, AtTree
    <3>5. Landing(q, pull', remote', Good(verdicts'))
      BY <1>0, <2>1, <3>1, <3>2 DEF Landing
    <3>6. \A o \in Lock \ {k} : /\ Fresh(run[o], pull')
                                /\ Landing(run[o], pull', remote', Good(verdicts'))
                                /\ Apart(run[o], q) /\ Apart(q, run[o])
      <4>1. \A o \in Lock \ {k} : run[o].step \in AtTree => run[o].on # q.on
        BY <1>a, <2>1, <3>2 DEF i
      <4> QED  BY <2>7, <2>8, <3>2, <4>1 DEF Apart, AtTree
    <3> QED  BY <1>d, <1>g, <1>l, <1>t, <2>1, <2>5, <2>6, <2>9, <3>2, <3>3, <3>4, <3>5, <3>6, RunMoves
  <2> QED  BY <2>10, <2>11
<1>3. CASE MakeReady(k)
  <2>1. /\ run[k].step = "ready" /\ Cleanup(k)
        /\ UNCHANGED <<issue, remote, attempted, diffs, verdicts, excusedMarks, daemonVars>>
    BY <1>3 DEF MakeReady, Is
  <2>2. CASE Ends(k) /\ UNCHANGED pull
    BY <1>d, <1>t, <2>1, <2>2, RunEnds
  <2>3. CASE StepsTo(k, "merge") /\ (\/ pull' = pull
                                     \/ /\ pull[i].state = "draft"
                                        /\ pull' = [pull EXCEPT ![i].state = "ready"])
    <3> DEFINE q == [run[k] EXCEPT !.step = "merge"]
    <3>1. "merge" \in RunStep
      BY DEF RunStep
    <3>2. /\ q \in RunRow /\ q.step = "merge" /\ q.on = run[k].on /\ q.pr = run[k].pr
          /\ q.diff = run[k].diff /\ q.approved = run[k].approved
      BY <1>0, <3>1, StepRow
    <3>3. run' = [run EXCEPT ![k] = q]
      BY <1>t, <2>3 DEF StepsTo
    <3> HIDE DEF q
    <3>4. /\ pull' \in [Issue -> PullRow]
          /\ \A j \in Issue : /\ pull'[j].no = pull[j].no
                              /\ pull'[j].state \in OpenPull <=> pull[j].state \in OpenPull
      BY <1>1, <1>t, <2>3 DEF PullRow, OpenPull
    <3>5. \A j \in Issue : /\ pull[j].no <= pull'[j].no
                           /\ pull'[j].state \in OpenPull => pull'[j].no # 0
      BY <1>t, <3>4 DEF AgentInv, PullRow
    <3>6. Fits(k, q, tree'[k], pull', verdicts') /\ Fresh(q, pull')
      BY <1>0, <1>1, <2>1, <3>2, <3>4 DEF Fits, Fresh, Seeking, AtTree
    <3>7. Landing(q, pull', remote', Good(verdicts'))
      BY <1>0, <2>1, <3>2 DEF Landing
    <3>8. \A o \in Lock \ {k} : /\ Fresh(run[o], pull')
                                /\ Landing(run[o], pull', remote', Good(verdicts'))
                                /\ Apart(run[o], q) /\ Apart(q, run[o])
      <4> SUFFICES ASSUME NEW o \in Lock \ {k}
                   PROVE  /\ Fresh(run[o], pull')
                          /\ Landing(run[o], pull', remote', Good(verdicts'))
                          /\ Apart(run[o], q) /\ Apart(q, run[o])
        OBVIOUS
      <4>1. run[o].step \in AtTree => run[o].on # q.on
        BY <1>a, <2>1, <3>2
      <4>2. Apart(q, run[o]) /\ Apart(run[o], q)
        BY <3>2, <4>1 DEF Apart, AtTree
      <4>3. Fresh(run[o], pull')
        BY <1>0, <3>4 DEF Fresh, Fits, Seeking
      <4>4. Landing(run[o], pull', remote', Good(verdicts'))
        BY <1>0, <2>1, <3>4 DEF Landing, Fits, Seeking
      <4> QED  BY <4>2, <4>3, <4>4
    <3>9. tree' \in {tree, [tree EXCEPT ![k] = NoIssue]}
      BY <2>1 DEF Cleanup
    <3> QED  BY <1>d, <1>g, <1>l, <1>t, <2>1, <3>2, <3>3, <3>4, <3>5, <3>6, <3>7, <3>8, <3>9, RunMoves
  <2> QED  BY <1>3, <2>2, <2>3 DEF MakeReady, On
<1>4. CASE MergePull(k)
  <2>1. /\ run[k].step = "merge" /\ pull[i].state = "ready" /\ remote[i] # 0
        /\ run[k].pr # 0 => pull[i].no = run[k].pr
        /\ pull' = [pull EXCEPT ![i].state = "merged"] /\ remote' = [remote EXCEPT ![i] = 0]
        /\ issue' = [issue EXCEPT ![i].open = FALSE]
        /\ verdicts' = [verdicts EXCEPT !["landed"] = @ \cup {remote[i]}]
        /\ run' = [run EXCEPT ![k] = Absent]
        /\ UNCHANGED <<tree, attempted, diffs, excusedMarks, daemonVars>>
    BY <1>4 DEF MergePull, Is, On, Merged, Notes, Resuming, Ends
  <2> HIDE DEF i
  <2>2. remote[i] \in Good(verdicts) /\ remote[i] \in Diff
    BY <1>0, <1>1, <1>t, <2>1 DEF Landing, OpenPull, i
  <2>3. /\ pull' \in [Issue -> PullRow]
        /\ \A j \in Issue : /\ pull'[j].no = pull[j].no
                            /\ pull'[j].state \in OpenPull => pull'[j] = pull[j]
        /\ remote' \in [Issue -> Diff] /\ \A j \in Issue : remote'[j] \in {0, remote[j]}
        /\ issue' \in [Issue -> IssueRow]
    <3>1. 0 \in Diff
      BY AgentAssumption DEF Diff
    <3> QED  BY <1>1, <1>t, <2>1, <3>1 DEF PullRow, OpenPull, IssueRow
  <2>4. /\ verdicts' \in [About -> SUBSET Diff] /\ Grow(verdicts, verdicts')
        /\ Good(verdicts') = Good(verdicts) /\ verdicts'["landed"] = verdicts["landed"] \cup {remote[i]}
    BY <1>t, <2>1, <2>2 DEF Grow, Good, About
  <2>5. verdicts'["landed"] \subseteq Good(verdicts')
    BY <1>l, <2>2, <2>4
  <2>6. \A j \in Issue : /\ pull[j].no <= pull'[j].no
                         /\ pull'[j].state \in OpenPull => pull'[j].no # 0
    BY <1>t, <2>3 DEF AgentInv, PullRow
  <2>7. /\ Fits(k, Absent, tree'[k], pull', verdicts') /\ Fresh(Absent, pull')
        /\ Landing(Absent, pull', remote', Good(verdicts'))
    BY <1>e
  <2>8. \A o \in Lock \ {k} : /\ Fresh(run[o], pull')
                              /\ Landing(run[o], pull', remote', Good(verdicts'))
                              /\ Apart(run[o], Absent) /\ Apart(Absent, run[o])
    <3> SUFFICES ASSUME NEW o \in Lock \ {k}
                 PROVE  /\ Fresh(run[o], pull')
                        /\ Landing(run[o], pull', remote', Good(verdicts))
      BY <1>e, <2>4
    <3>1. Fresh(run[o], pull')
      BY <1>0, <2>3 DEF Fresh, Fits, Seeking
    <3>2. Landing(run[o], pull', remote', Good(verdicts))
      BY <1>0, <2>3 DEF Landing, Fits, Seeking
    <3> QED  BY <3>1, <3>2
  <2>9. tree' \in {tree, [tree EXCEPT ![k] = NoIssue]}
    BY <2>1
  <2> QED  BY <1>d, <1>e, <1>t, <2>1, <2>3, <2>4, <2>5, <2>6, <2>7, <2>8, <2>9, RunMoves
<1> QED  BY <1>2, <1>3, <1>4

(* The owner on GitHub; a draft of an issue that gave up; the next day.    *)
LEMMA OthersMove ==
  ASSUME AgentInv,
         \/ NextDay
         \/ \E i \in Issue : \/ OwnerMerges(i) \/ OwnerCloses(i) \/ OwnerPushes(i) \/ OwnerRevives(i)
                             \/ \E k \in Lock : CloseGaveUp(k, i)
         \/ UNCHANGED allAgentVars
  PROVE  AgentInv'
<1>0. \A k \in Lock : /\ Fits(k, run[k], tree[k], pull, verdicts)
                      /\ Landing(run[k], pull, remote, Good(verdicts))
  BY AtRun
<1>t. /\ issue \in [Issue -> IssueRow] /\ attempted \subseteq Issue /\ diffs \in Diff
      /\ excusedMarks \in [Issue -> Nat] /\ DaemonTypes /\ remote \in [Issue -> Diff]
      /\ verdicts \in [About -> SUBSET Diff] /\ pull \in [Issue -> PullRow] /\ MaxDiffs \in Nat
  BY AgentRecords
<1>d. daemonVars' = daemonVars => DaemonTypes'
  BY <1>t DEF DaemonTypes, daemonVars
<1>g. Grow(verdicts, verdicts)
  BY DEF Grow
<1>z. 0 \in Diff
  BY <1>t DEF Diff
<1>1. CASE NextDay
  <2>1. UNCHANGED <<issue, pull, remote, tree, run, diffs, verdicts, excusedMarks>> /\ attempted' = {}
    BY <1>1 DEF NextDay, gitVars
  <2>2. DaemonTypes'
    BY <1>1, <1>t, DaemonAssumption DEF NextDay, Tick, DaemonTypes
  <2> QED  BY <1>0, <1>g, <1>t, <2>1, <2>2, GitHubMoves
<1>2. ASSUME NEW i \in Issue, OwnerMerges(i)  PROVE AgentInv'
  <2>1. /\ pull' = [pull EXCEPT ![i].state = "merged"] /\ remote' = [remote EXCEPT ![i] = 0]
        /\ issue' = [issue EXCEPT ![i].open = FALSE]
        /\ UNCHANGED <<tree, attempted, run, diffs, verdicts, excusedMarks, daemonVars>>
    BY <1>2 DEF OwnerMerges, Merged
  <2>2. /\ pull' \in [Issue -> PullRow]
        /\ \A j \in Issue : /\ pull'[j].no = pull[j].no
                            /\ pull'[j].state \in OpenPull => pull'[j] = pull[j]
        /\ remote' \in [Issue -> Diff] /\ \A j \in Issue : remote'[j] \in {0, remote[j]}
        /\ issue' \in [Issue -> IssueRow]
    BY <1>t, <1>z, <2>1 DEF PullRow, OpenPull, IssueRow
  <2>3. \A k \in Lock : Landing(run[k], pull', remote', Good(verdicts'))
    BY <1>0, <2>1, <2>2 DEF Landing, Fits, Seeking
  <2>4. \A j \in Issue : /\ pull'[j].no = pull[j].no
                         /\ pull'[j].state \in OpenPull => pull[j].state \in OpenPull
    BY <2>2
  <2> QED  BY <1>d, <1>g, <1>t, <2>1, <2>2, <2>3, <2>4, GitHubMoves
<1>3. ASSUME NEW i \in Issue, OwnerCloses(i) \/ \E k \in Lock : CloseGaveUp(k, i)  PROVE AgentInv'
  <2>1. /\ pull' = [pull EXCEPT ![i].state = "closed"]
        /\ UNCHANGED <<issue, remote, tree, attempted, run, diffs, verdicts, excusedMarks, daemonVars>>
    BY <1>3 DEF OwnerCloses, CloseGaveUp
  <2>2. /\ pull' \in [Issue -> PullRow]
        /\ \A j \in Issue : /\ pull'[j].no = pull[j].no
                            /\ pull'[j].state \in OpenPull => pull'[j] = pull[j]
    BY <1>t, <2>1 DEF PullRow, OpenPull
  <2>3. \A k \in Lock : Landing(run[k], pull', remote', Good(verdicts'))
    BY <1>0, <2>1, <2>2 DEF Landing, Fits, Seeking
  <2>4. \A j \in Issue : /\ pull'[j].no = pull[j].no
                         /\ pull'[j].state \in OpenPull => pull[j].state \in OpenPull
    BY <2>2
  <2> QED  BY <1>d, <1>g, <1>t, <2>1, <2>2, <2>3, <2>4, GitHubMoves
<1>4. ASSUME NEW i \in Issue, OwnerPushes(i)  PROVE AgentInv'
  <2> DEFINE d == diffs + 1
  <2>1. /\ diffs' = d /\ remote' = [remote EXCEPT ![i] = d] /\ diffs < MaxDiffs
        /\ verdicts' = [verdicts EXCEPT !["owners"] = @ \cup {d}]
        /\ UNCHANGED <<issue, pull, tree, attempted, run, excusedMarks, daemonVars>>
    BY <1>4 DEF OwnerPushes, Notes
  <2>2. d \in Diff
    BY <1>t, <2>1 DEF Diff
  <2> HIDE DEF d
  <2>3. /\ verdicts' \in [About -> SUBSET Diff] /\ Grow(verdicts, verdicts')
        /\ verdicts'["landed"] = verdicts["landed"]
        /\ Good(verdicts) \subseteq Good(verdicts') /\ d \in Good(verdicts')
    BY <1>t, <2>1, <2>2 DEF Grow, About, Good
  <2>4. remote' \in [Issue -> Diff] /\ \A j \in Issue : remote'[j] \in {d, remote[j]}
    BY <1>t, <2>1, <2>2
  <2>5. \A k \in Lock : Landing(run[k], pull', remote', Good(verdicts'))
    <3>1. \A k \in Lock : Landing(run[k], pull, remote', Good(verdicts'))
      BY <1>0, <2>3, <2>4 DEF Landing, Fits, Seeking
    <3> QED  BY <2>1, <3>1
  <2>6. \A j \in Issue : /\ pull'[j].no = pull[j].no
                         /\ pull'[j].state \in OpenPull => pull[j].state \in OpenPull
    BY <2>1
  <2> QED  BY <1>d, <1>t, <2>1, <2>2, <2>3, <2>4, <2>5, <2>6, GitHubMoves
<1>5. ASSUME NEW i \in Issue, OwnerRevives(i)  PROVE AgentInv'
  <2>1. /\ issue' = [issue EXCEPT ![i].gaveUp = FALSE] /\ ExcuseIssue(i)
        /\ UNCHANGED <<pull, remote, tree, attempted, run, diffs, verdicts, daemonVars>>
    BY <1>5 DEF OwnerRevives, gitVars
  <2>2. issue' \in [Issue -> IssueRow]
    BY <1>t, <2>1 DEF IssueRow
  <2>3. excusedMarks' \in [Issue -> Nat]
    BY <1>t, <2>1, <2>2 DEF IssueRow, ExcuseIssue
  <2> QED  BY <1>0, <1>d, <1>g, <1>t, <2>1, <2>2, <2>3, GitHubMoves
<1>6. CASE UNCHANGED allAgentVars
  <2>1. UNCHANGED <<issue, pull, remote, tree, attempted, run, diffs, verdicts, excusedMarks, daemonVars>>
    BY <1>6 DEF allAgentVars, agentVars, gitVars
  <2> QED  BY <1>0, <1>d, <1>g, <1>t, <2>1, GitHubMoves
<1> QED  BY <1>1, <1>2, <1>3, <1>4, <1>5, <1>6

-----------------------------------------------------------------------------
(* The invariant. *)

(* Nothing is under way at the start. *)
LEMMA InitAgents ==
  ASSUME DaemonInit, AgentInit
  PROVE  AgentInv
<1>1. DaemonTypes
  BY DaemonAssumption DEF DaemonInit, DaemonTypes
<1>2. \A k \in Lock : run[k] = Absent /\ Absent \in RunRow
  BY AbsentRow DEF AgentInit
<1>3. AgentTypes
  <2>1. run \in [Lock -> RunRow]
    BY AbsentRow DEF AgentInit
  <2> QED  BY <2>1, AgentAssumption DEF AgentInit, AgentTypes, RunRow, RunStep, Diff, OpenPull
<1>4. \A i \in Issue : pull[i].state = "none"
  BY DEF AgentInit
<1>5. \A i \in Issue : pull[i].state \in OpenPull => pull[i].no # 0
  BY <1>4 DEF OpenPull
<1>6. RunsFit
  <2>1. \A k \in Lock : tree[k] = NoIssue
    BY DEF AgentInit
  <2>2. ASSUME NEW k \in Lock
        PROVE  /\ Fits(k, run[k], tree[k], pull, verdicts) /\ Fresh(run[k], pull)
               /\ Landing(run[k], pull, remote, Good(verdicts))
               /\ \A o \in Lock : Apart(run[o], run[k])
    BY <1>2, AbsentRow
  <2> QED  BY <2>1, <2>2 DEF RunsFit
<1>7. verdicts["landed"] = {}
  BY DEF AgentInit
<1> QED  BY <1>1, <1>3, <1>5, <1>6, <1>7 DEF AgentInv

(* Every step keeps it. *)
LEMMA StepAgents ==
  ASSUME AgentInv, [AgentNext]_allAgentVars
  PROVE  AgentInv'
<1>1. ASSUME NEW k \in Lock, AgentStep(k)  PROVE AgentInv'
  <2>1. CASE \/ StartRun(k) \/ NoDraft(k) \/ ListIssues(k)
             \/ \E i \in Issue : FindDraft(k, i) \/ PickIssue(k, i)
    BY <2>1, LooksForWork
  <2>2. CASE \E i \in Issue : CloseGaveUp(k, i)
    BY <2>2, OthersMove
  <2>3. CASE AddTree(k) \/ ResumeDraft(k)
    BY <2>3, TakesUp
  <2>4. CASE Retriage(k) \/ Refuse(k) \/ EndUncharged(k) \/ MergeFails(k)
    BY <2>4, Returns
  <2>5. CASE Fail(k) \/ FailUnlabelled(k)
    BY <2>5, Fails
  <2>6. CASE LabelGaveUp(k) \/ CloseExhausted(k)
    BY <2>6, LabelsAndCloses
  <2>7. CASE \/ MergeMain(k) \/ BuildDiff(k) \/ Revise(k) \/ StopRevising(k)
             \/ \E verdict \in {"yes", "no", "none"} : Review(k, verdict)
    BY <2>7, Builds
  <2>8. CASE PushForRabbit(k) \/ PushFresh(k) \/ PushResumed(k)
    BY <2>8, PushesBranch
  <2>9. CASE CreatePull(k) \/ MakeReady(k) \/ MergePull(k)
    BY <2>9, Publishes
  <2> QED  BY <1>1, <2>1, <2>2, <2>3, <2>4, <2>5, <2>6, <2>7, <2>8, <2>9 DEF AgentStep
<1>2. ASSUME NEW k \in Lock, RunDies(k)  PROVE AgentInv'
  BY <1>2, Returns
<1>3. CASE \/ NextDay \/ UNCHANGED allAgentVars
           \/ \E i \in Issue : OwnerMerges(i) \/ OwnerCloses(i) \/ OwnerPushes(i) \/ OwnerRevives(i)
  BY <1>3, OthersMove
<1> QED  BY <1>1, <1>2, <1>3 DEF AgentNext

(* Types hold: a run has an issue, a diff and a pull request that exist.   *)
THEOREM AgentTypesHold == AgentSpec => []AgentTypes
<1>1. DaemonInit /\ AgentInit => AgentInv
  BY InitAgents
<1>2. AgentInv /\ [AgentNext]_allAgentVars => AgentInv'
  BY StepAgents
<1>3. AgentInv => AgentTypes
  BY DEF AgentInv
<1> QED  BY <1>1, <1>2, <1>3, PTL DEF AgentSpec

(* Nothing lands unattended that was not reviewed in that form, or is the  *)
(* owner's own, or excused (MergePull), whatever two runs do in between.   *)
THEOREM NothingLandsUnreviewed == AgentSpec => []MergedWasReviewed
<1>1. DaemonInit /\ AgentInit => AgentInv
  BY InitAgents
<1>2. AgentInv /\ [AgentNext]_allAgentVars => AgentInv'
  BY StepAgents
<1>3. AgentInv => MergedWasReviewed
  <2>1. Good(verdicts) \subseteq UNION {verdicts[about] : about \in {"approved", "owners", "shrunk", "crossed"}}
    BY DEF Good
  <2> QED  BY <2>1 DEF AgentInv, MergedWasReviewed
<1> QED  BY <1>1, <1>2, <1>3, PTL DEF AgentSpec

-----------------------------------------------------------------------------
(* Issues that used up their attempts. *)

(* A run other than one that labels moves; no label is lost, and no attempt*)
(* is counted.                                                             *)
LEMMA LabelsStay ==
  ASSUME AgentInv, ExhaustedIsOut,
         \A i \in Issue : /\ issue'[i].marks = issue[i].marks
                          /\ issue[i].gaveUp => issue'[i].gaveUp,
         UNCHANGED excusedMarks,
         \/ UNCHANGED run
         \/ \E k \in Lock : run[k].step # "label" /\ \A o \in Lock \ {k} : run'[o] = run[o]
  PROVE  ExhaustedIsOut'
<1>1. \A k \in Lock : run[k].step = "label" => run'[k] = run[k]
  OBVIOUS
<1> QED  BY <1>1 DEF ExhaustedIsOut, On, Is

(* The steps that count an attempt, or lose a label.                       *)
LEMMA ChargesLabel ==
  ASSUME AgentInv, ExhaustedIsOut, NEW k \in Lock,
         Fail(k) \/ FailUnlabelled(k) \/ LabelGaveUp(k) \/ RunDies(k) \/ Retriage(k)
  PROVE  ExhaustedIsOut'
<1>0. Fits(k, run[k], tree[k], pull, verdicts)
  BY AtRun
<1>t. /\ issue \in [Issue -> IssueRow] /\ excusedMarks \in [Issue -> Nat] /\ run \in [Lock -> RunRow]
      /\ MaxCharges \in Nat \ {0}
  BY AgentRecords, AgentAssumption
<1>1. ASSUME NEW labels \in BOOLEAN, Charge(k, labels), run[k].step \notin Seeking \cup {"label"}
      PROVE  ExhaustedIsOut'
  <2> DEFINE i == On(k)
  <2>1. i \in Issue
    BY <1>0, <1>1 DEF Fits, On
  <2>2. PICK kept \in 0 .. 1 : issue' = [issue EXCEPT ![i].marks = @ + kept]
    BY <1>1 DEF Charge
  <2>3. /\ \/ StepsTo(k, "label") /\ UNCHANGED excusedMarks
           \/ ExcuseIssue(i) /\ Ends(k)
           \/ ~(issue[i].marks + 1 >= MaxCharges) /\ Ends(k) /\ UNCHANGED excusedMarks
    BY <1>1 DEF Charge
  <2>4. \A o \in Lock \ {k} : run'[o] = run[o]
    BY <1>t, <2>3 DEF StepsTo, Ends
  <2> HIDE DEF i
  <2>5. /\ \A j \in Issue : issue'[j].gaveUp = issue[j].gaveUp
        /\ \A j \in Issue \ {i} : issue'[j].marks = issue[j].marks
        /\ issue'[i].marks = issue[i].marks + kept
    BY <1>t, <2>1, <2>2 DEF IssueRow
  <2> SUFFICES ASSUME NEW j \in Issue, issue'[j].marks >= MaxCharges,
                      issue'[j].marks > excusedMarks'[j], ~issue'[j].gaveUp
               PROVE  \E o \in Lock : run'[o].on = j /\ run'[o].step = "label"
    BY DEF ExhaustedIsOut, On, Is
  <2>6. CASE j # i
    <3>1. excusedMarks'[j] = excusedMarks[j] /\ issue'[j].marks = issue[j].marks
      BY <1>t, <2>3, <2>5, <2>6 DEF ExcuseIssue
    <3>2. PICK o \in Lock : run[o].on = j /\ run[o].step = "label"
      BY <2>5, <3>1 DEF ExhaustedIsOut, On, Is
    <3>3. o # k
      BY <1>1, <3>2
    <3> QED  BY <2>4, <3>2, <3>3
  <2>7. CASE j = i
    <3>1. CASE StepsTo(k, "label")
      <4>1. run'[k].step = "label" /\ run'[k].on = i
        BY <1>t, <3>1 DEF StepsTo, RunRow, On, i
      <4> QED  BY <2>7, <4>1
    <3>2. CASE ExcuseIssue(i)
      <4>1. excusedMarks'[i] = issue'[i].marks
        BY <1>t, <2>1, <3>2 DEF ExcuseIssue
      <4>2. issue'[i].marks \in Int
        <5>1. issue[i].marks \in Nat
          BY <1>t, <2>1 DEF IssueRow
        <5> QED  BY <2>5, <5>1
      <4> QED  BY <2>7, <4>1, <4>2
    <3>3. CASE ~(issue[i].marks + 1 >= MaxCharges)
      <4>1. issue[i].marks \in Nat
        BY <1>t, <2>1 DEF IssueRow
      <4>2. issue[i].marks + kept >= MaxCharges
        BY <2>5, <2>7
      <4> QED  BY <1>t, <3>3, <4>1, <4>2
    <3> QED  BY <2>3, <3>1, <3>2, <3>3
  <2> QED  BY <2>6, <2>7
<1>2. CASE Fail(k) \/ FailUnlabelled(k)
  <2>1. PICK labels \in BOOLEAN : Charge(k, labels)
    BY <1>2 DEF Fail, FailUnlabelled
  <2>2. run[k].step \notin Seeking \cup {"label"}
    BY <1>2 DEF Fail, FailUnlabelled, Is, Seeking
  <2> QED  BY <1>1, <2>1, <2>2
<1>3. CASE LabelGaveUp(k)
  <2> DEFINE i == On(k)
  <2>1. i \in Issue
    BY <1>0, <1>3 DEF Fits, On, LabelGaveUp, Is, Seeking
  <2>2. \/ issue' = [issue EXCEPT ![i].gaveUp = TRUE] /\ UNCHANGED excusedMarks
        \/ UNCHANGED issue /\ ExcuseIssue(i)
    BY <1>3 DEF LabelGaveUp
  <2>3. \A o \in Lock \ {k} : run'[o] = run[o]
    BY <1>t, <1>3 DEF LabelGaveUp, StepsTo, Ends
  <2> HIDE DEF i
  <2>4. /\ \A j \in Issue : issue'[j].marks = issue[j].marks
        /\ \A j \in Issue \ {i} : issue'[j].gaveUp = issue[j].gaveUp /\ excusedMarks'[j] = excusedMarks[j]
        /\ issue'[i].gaveUp \/ excusedMarks'[i] = issue'[i].marks
    BY <1>t, <2>1, <2>2 DEF IssueRow, ExcuseIssue
  <2> SUFFICES ASSUME NEW j \in Issue, issue'[j].marks >= MaxCharges,
                      issue'[j].marks > excusedMarks'[j], ~issue'[j].gaveUp
               PROVE  \E o \in Lock : run'[o].on = j /\ run'[o].step = "label"
    BY DEF ExhaustedIsOut, On, Is
  <2>5. j # i
    <3>1. issue[j].marks \in Int
      BY <1>t DEF IssueRow
    <3> QED  BY <2>4, <3>1
  <2>6. PICK o \in Lock : run[o].on = j /\ run[o].step = "label"
    BY <2>4, <2>5 DEF ExhaustedIsOut, On, Is
  <2>7. o # k
    BY <2>5, <2>6 DEF On, i
  <2> QED  BY <2>3, <2>6, <2>7
<1>4. CASE RunDies(k)
  <2>1. \A o \in Lock \ {k} : run'[o] = run[o]
    BY <1>t, <1>4 DEF RunDies, Ends
  <2>2. CASE run[k].step # "label"
    BY <1>4, <2>1, <2>2, LabelsStay DEF RunDies, Is
  <2>3. CASE run[k].step = "label"
    <3> DEFINE i == On(k)
    <3>1. i \in Issue /\ issue' = issue /\ excusedMarks' = [excusedMarks EXCEPT ![i] = issue'[i].marks]
      BY <1>0, <1>4, <2>3 DEF Fits, On, RunDies, Is, Seeking, ExcuseIssue
    <3> HIDE DEF i
    <3>2. excusedMarks'[i] = issue'[i].marks /\ issue'[i].marks \in Int
          /\ \A j \in Issue \ {i} : excusedMarks'[j] = excusedMarks[j]
      BY <1>t, <3>1 DEF IssueRow
    <3> SUFFICES ASSUME NEW j \in Issue, issue'[j].marks >= MaxCharges,
                        issue'[j].marks > excusedMarks'[j], ~issue'[j].gaveUp
                 PROVE  \E o \in Lock : run'[o].on = j /\ run'[o].step = "label"
      BY DEF ExhaustedIsOut, On, Is
    <3>3. j # i
      BY <3>2
    <3>4. PICK o \in Lock : run[o].on = j /\ run[o].step = "label"
      BY <3>1, <3>2, <3>3 DEF ExhaustedIsOut, On, Is
    <3>5. o # k
      BY <3>3, <3>4 DEF On, i
    <3> QED  BY <2>1, <3>4, <3>5
  <2> QED  BY <2>2, <2>3
<1>5. CASE Retriage(k)
  <2>1. PICK back \in SUBSET {i \in Issue : Given(i) /\ issue[i].marks \in 1 .. MaxCharges - 1} :
          issue' = [i \in Issue |-> [issue[i] EXCEPT !.gaveUp = @ /\ i \notin back]]
    BY <1>5 DEF Retriage
  <2>2. UNCHANGED excusedMarks /\ run[k].step = "pick" /\ \A o \in Lock \ {k} : run'[o] = run[o]
    BY <1>t, <1>5 DEF Retriage, Is, Ends
  <2>3. \A j \in Issue : issue'[j].marks = issue[j].marks /\ issue'[j].gaveUp = (issue[j].gaveUp /\ j \notin back)
    BY <1>t, <2>1 DEF IssueRow
  <2> SUFFICES ASSUME NEW j \in Issue, issue'[j].marks >= MaxCharges,
                      issue'[j].marks > excusedMarks'[j], ~issue'[j].gaveUp
               PROVE  \E o \in Lock : run'[o].on = j /\ run'[o].step = "label"
    BY DEF ExhaustedIsOut, On, Is
  <2>4. j \notin back
    <3>1. issue[j].marks \in Nat
      BY <1>t DEF IssueRow
    <3>2. issue[j].marks >= MaxCharges
      BY <2>3
    <3> QED  BY <1>t, <2>1, <3>1, <3>2
  <2>5. PICK o \in Lock : run[o].on = j /\ run[o].step = "label"
    BY <2>2, <2>3, <2>4 DEF ExhaustedIsOut, On, Is
  <2> QED  BY <2>2, <2>5
<1> QED  BY <1>2, <1>3, <1>4, <1>5

(* Every step keeps it. *)
LEMMA StepExhausted ==
  ASSUME AgentInv, ExhaustedIsOut, [AgentNext]_allAgentVars
  PROVE  ExhaustedIsOut'
<1>t. /\ issue \in [Issue -> IssueRow] /\ excusedMarks \in [Issue -> Nat] /\ run \in [Lock -> RunRow]
  BY AgentRecords
<1>s. ASSUME NEW i \in Issue, issue' = issue
      PROVE  issue'[i].marks = issue[i].marks /\ (issue[i].gaveUp => issue'[i].gaveUp)
  BY <1>s
<1>m. ASSUME NEW i \in Issue, Merged(i)
      PROVE  \A j \in Issue : issue'[j].marks = issue[j].marks /\ (issue[j].gaveUp => issue'[j].gaveUp)
  BY <1>m, <1>t DEF Merged, IssueRow
<1>1. ASSUME NEW k \in Lock, AgentStep(k)  PROVE ExhaustedIsOut'
  <2>f. Fits(k, run[k], tree[k], pull, verdicts)
    BY AtRun
  <2>1. CASE \/ StartRun(k) \/ NoDraft(k) \/ ListIssues(k)
             \/ \E i \in Issue : CloseGaveUp(k, i) \/ FindDraft(k, i) \/ PickIssue(k, i)
    <3>1. UNCHANGED <<issue, excusedMarks>> /\ run[k].step # "label"
      BY <2>1 DEF StartRun, NoDraft, ListIssues, CloseGaveUp, FindDraft, PickIssue, Is
    <3>2. \A o \in Lock \ {k} : run'[o] = run[o]
      BY <1>t, <2>1 DEF StartRun, NoDraft, ListIssues, CloseGaveUp, FindDraft, PickIssue, StepsTo, Ends
    <3> QED  BY <1>s, <3>1, <3>2, LabelsStay
  <2>2. CASE AddTree(k) \/ ResumeDraft(k) \/ EndUncharged(k) \/ MergeFails(k) \/ CloseExhausted(k)
    <3>1. UNCHANGED <<issue, excusedMarks>> /\ run[k].step # "label"
      BY <2>2 DEF AddTree, ResumeDraft, EndUncharged, MergeFails, CloseExhausted, Is
    <3>2. \A o \in Lock \ {k} : run'[o] = run[o]
      BY <1>t, <2>2 DEF AddTree, ResumeDraft, EndUncharged, MergeFails, CloseExhausted, StepsTo, Ends
    <3> QED  BY <1>s, <3>1, <3>2, LabelsStay
  <2>3. CASE MergeMain(k) \/ BuildDiff(k) \/ Revise(k) \/ StopRevising(k) \/ PushForRabbit(k)
    <3>1. UNCHANGED <<issue, excusedMarks>> /\ run[k].step # "label"
      BY <2>3 DEF MergeMain, BuildDiff, Revise, StopRevising, PushForRabbit, Is
    <3>2. \A o \in Lock \ {k} : run'[o] = run[o]
      BY <1>t, <2>3 DEF MergeMain, BuildDiff, Revise, StopRevising, PushForRabbit, Round, StepsTo
    <3> QED  BY <1>s, <3>1, <3>2, LabelsStay
  <2>4. CASE \E verdict \in {"yes", "no", "none"} : Review(k, verdict)
    <3>1. UNCHANGED <<issue, excusedMarks>> /\ run[k].step # "label"
      BY <2>4 DEF Review, Is
    <3>2. \A o \in Lock \ {k} : run'[o] = run[o]
      BY <1>t, <2>4 DEF Review, StepsTo
    <3> QED  BY <1>s, <3>1, <3>2, LabelsStay
  <2>5. CASE PushFresh(k) \/ PushResumed(k) \/ CreatePull(k) \/ MakeReady(k)
    <3>1. UNCHANGED <<issue, excusedMarks>> /\ run[k].step # "label"
      BY <2>5 DEF PushFresh, PushResumed, CreatePull, MakeReady, Is
    <3>2. \A o \in Lock \ {k} : run'[o] = run[o]
      BY <1>t, <2>5 DEF PushFresh, PushResumed, CreatePull, MakeReady, StepsTo, Ends
    <3> QED  BY <1>s, <3>1, <3>2, LabelsStay
  <2>6. CASE MergePull(k)
    <3>1. UNCHANGED excusedMarks /\ run[k].step # "label" /\ Merged(On(k))
          /\ \A o \in Lock \ {k} : run'[o] = run[o]
      BY <1>t, <2>6 DEF MergePull, Is, Ends
    <3>2. On(k) \in Issue
      BY <2>6, <2>f DEF MergePull, Is, Fits, Seeking, On
    <3> QED  BY <1>m, <3>1, <3>2, LabelsStay
  <2>7. CASE Refuse(k)
    <3>1. UNCHANGED excusedMarks /\ run[k].step # "label"
          /\ \A o \in Lock \ {k} : run'[o] = run[o]
      BY <1>t, <2>7 DEF Refuse, Ends
    <3>2. \A j \in Issue : issue'[j].marks = issue[j].marks /\ (issue[j].gaveUp => issue'[j].gaveUp)
      BY <1>t, <2>7 DEF Refuse, IssueRow
    <3> QED  BY <3>1, <3>2, LabelsStay
  <2>8. CASE Fail(k) \/ FailUnlabelled(k) \/ LabelGaveUp(k) \/ Retriage(k)
    BY <2>8, ChargesLabel
  <2> QED  BY <1>1, <2>1, <2>2, <2>3, <2>4, <2>5, <2>6, <2>7, <2>8 DEF AgentStep
<1>2. ASSUME NEW k \in Lock, RunDies(k)  PROVE ExhaustedIsOut'
  BY <1>2, ChargesLabel
<1>3. ASSUME NEW i \in Issue, OwnerRevives(i)  PROVE ExhaustedIsOut'
  <2>1. /\ issue' = [issue EXCEPT ![i].gaveUp = FALSE] /\ run' = run
        /\ excusedMarks' = [excusedMarks EXCEPT ![i] = issue'[i].marks]
    BY <1>3 DEF OwnerRevives, ExcuseIssue
  <2>2. \A j \in Issue : issue'[j].marks = issue[j].marks /\ issue[j].marks \in Nat
    BY <1>t, <2>1 DEF IssueRow
  <2>3. excusedMarks'[i] = issue'[i].marks
    BY <1>t, <2>1
  <2>4. \A j \in Issue \ {i} : issue'[j].gaveUp = issue[j].gaveUp /\ excusedMarks'[j] = excusedMarks[j]
    BY <1>t, <2>1 DEF IssueRow
  <2> SUFFICES ASSUME NEW j \in Issue, issue'[j].marks >= MaxCharges,
                      issue'[j].marks > excusedMarks'[j], ~issue'[j].gaveUp
               PROVE  \E o \in Lock : run'[o].on = j /\ run'[o].step = "label"
    BY DEF ExhaustedIsOut, On, Is
  <2>5. j # i
    BY <2>2, <2>3
  <2> QED  BY <2>1, <2>2, <2>4, <2>5 DEF ExhaustedIsOut, On, Is
<1>4. ASSUME NEW i \in Issue, OwnerMerges(i)  PROVE ExhaustedIsOut'
  <2>1. UNCHANGED <<run, excusedMarks>> /\ Merged(i)
    BY <1>4 DEF OwnerMerges
  <2> QED  BY <1>m, <2>1, LabelsStay
<1>5. CASE NextDay \/ (\E i \in Issue : OwnerCloses(i) \/ OwnerPushes(i)) \/ UNCHANGED allAgentVars
  <2>1. UNCHANGED <<issue, run, excusedMarks>>
    BY <1>5 DEF NextDay, OwnerCloses, OwnerPushes, allAgentVars, agentVars
  <2> QED  BY <1>s, <2>1, LabelsStay
<1> QED  BY <1>1, <1>2, <1>3, <1>4, <1>5 DEF AgentNext

(* Whatever charges an issue's last attempt labels it out or is excused    *)
(* (record_attempt, give_up), however runs, owner and restarts interleave. *)
THEOREM ExhaustedIssuesAreOut == AgentSpec => []ExhaustedIsOut
<1>1. DaemonInit /\ AgentInit => AgentInv /\ ExhaustedIsOut
  <2>1. ASSUME AgentInit  PROVE ExhaustedIsOut
    BY <2>1, AgentAssumption DEF AgentInit, ExhaustedIsOut
  <2> QED  BY <2>1, InitAgents
<1>2. AgentInv /\ ExhaustedIsOut /\ [AgentNext]_allAgentVars => (AgentInv /\ ExhaustedIsOut)'
  BY StepAgents, StepExhausted
<1> QED  BY <1>1, <1>2, PTL DEF AgentSpec

=============================================================================
