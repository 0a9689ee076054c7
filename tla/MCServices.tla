------------------------------ MODULE MCServices ------------------------------
(***************************************************************************)
(* The services of the daemon on small instances.  They share no state but *)
(* the clock and the restarts, and none waits for another: a run of all of *)
(* them is an interleaving of runs of each, so TLC explores them one at a  *)
(* time, `scope` naming the one that runs.  Each has bounds of its own.    *)
(***************************************************************************)
EXTENDS TLC, ScheduledPost, ReasonerChain, ComposeCard, CardClicks, AgentRuns

CONSTANTS
    Scope,           \* the services to run
    c1, c2, p1, j1, j2, k1, t1, a1, h1, h2, x1

VARIABLE scope

(* Two calls in one process, one in the other would be the third.          *)
OneHome == [j \in {j1, j2} |-> "serve"]
TwoProviders == <<"claude", "cerebras">>

(* The clicks under way are interchangeable; nothing is ordered by them.    *)
Hands == Permutations({h1, h2})

allServicesVars ==
    <<scope, daemonVars, govVars, postVars, chainVars, composeVars, clickVars, agentVars>>

(* What the initial state leaves open matters to its own service only.     *)
ServicesInit ==
    /\ scope \in Scope
    /\ DaemonInit /\ GovernorInit /\ PostInit /\ ChainInit /\ ComposeInit /\ ClickInit /\ AgentInit
    /\ scope # "post" => \A p \in Post : post[p].platform \in Governed
    /\ scope # "clicks" => \A a \in Action : reply[a].channel = (CHOOSE on \in Channel : TRUE)

Runs(s) == scope = s /\ UNCHANGED scope

Within(clock, deaths) == now' <= clock /\ restarts' <= deaths

GovernorRuns ==
    /\ Runs("governor")
    /\ GovernorNext
    /\ Within(2, 1)
    /\ UNCHANGED <<postVars, chainVars, composeVars, clickVars, agentVars>>

PostRuns ==
    /\ Runs("post")
    /\ PostNext
    /\ Within(2, 1)
    /\ UNCHANGED <<chainVars, composeVars, clickVars, agentVars>>

ChainRuns ==
    /\ Runs("chain")
    /\ ChainNext
    /\ Within(1, 1)
    /\ UNCHANGED <<govVars, postVars, composeVars, clickVars, agentVars>>

ComposeRuns ==
    /\ Runs("compose")
    /\ ComposeNext
    /\ Within(1, 0) /\ made' <= 2 /\ updating' = updating
    /\ UNCHANGED <<govVars, postVars, chainVars, clickVars, agentVars>>

UpdateRuns ==
    /\ Runs("update")
    /\ ComposeNext
    /\ Within(0, 1) /\ made' <= 3 /\ posting' = posting
    /\ UNCHANGED <<govVars, postVars, chainVars, clickVars, agentVars>>

ClickRuns ==
    /\ Runs("clicks")
    /\ ClickNext
    /\ Within(0, 1) /\ \A a \in Action : restarts' + excuses'[a] <= 1
    /\ UNCHANGED <<govVars, postVars, chainVars, composeVars, agentVars>>

AgentsRun ==
    /\ Runs("agents")
    /\ AgentNext
    /\ Within(1, 1) /\ now' + restarts' <= 1
    /\ UNCHANGED <<govVars, postVars, chainVars, composeVars, clickVars>>

ServicesNext ==
    \/ GovernorRuns \/ PostRuns \/ ChainRuns \/ ComposeRuns \/ UpdateRuns
    \/ ClickRuns \/ AgentsRun

(* The service that runs keeps the types of its variables.                 *)
ServicesTypes ==
    /\ DaemonTypes
    /\ scope \in {"governor", "post"} => GovernorTypes
    /\ scope = "post" => PostTypes
    /\ scope = "chain" => ChainTypes
    /\ scope \in {"compose", "update"} => ComposeTypes
    /\ scope = "clicks" => ClickTypes
    /\ scope = "agents" => AgentTypes

ServicesSpec == ServicesInit /\ [][ServicesNext]_allServicesVars

(* The clicks keep the promise of the cards (ImplementsCardPromise): in    *)
(* their scope every step is one of CardPromise or invisible to it.  The   *)
(* steps of the other services do not touch what it speaks of.             *)
ClicksKeepPromise ==
    Offered!Init /\ [][scope = "clicks" => Offered!Next]_(Offered!vars)

(* The fairness of each service, as its own specification states it.       *)
PostsFairly ==
    /\ WF_allPostVars(scope = "post" /\ EngineStep)
    /\ WF_allPostVars(scope = "post" /\ now < 2 /\ Tick /\ UNCHANGED <<govVars, postVars>>)

ChainFairly == \A j \in Job : WF_allChainVars(scope = "chain" /\ CallStep(j))

ComposeFairly ==
    /\ \A q \in Poster : WF_allComposeVars(scope = "compose" /\ CarouselStep(q))
    /\ \A c \in Card : WF_allComposeVars(scope = "compose" /\ shown[c] > 0 /\ ClickStep(c))

FairServicesSpec == ServicesSpec /\ PostsFairly /\ ChainFairly /\ ComposeFairly
=============================================================================
