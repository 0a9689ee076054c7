--------------------------- MODULE ServicesProofs ---------------------------
(***************************************************************************)
(* The services side by side: each keeps its own invariant, whatever the   *)
(* others' bounds are, and none disturbs the types of the clock they share.*)
(***************************************************************************)
EXTENDS MCServices, GovernorProofs, ChainProofs, CardProofs, AgentProofs

(* The service that runs keeps its own invariant; the posts need of the    *)
(* governor that its rows are well typed.                                  *)
ServicesInv ==
    /\ DaemonTypes
    /\ scope \in {"governor", "post"} => GovernorInv
    /\ scope = "post" => PostInv
    /\ scope = "chain" => ChainInv
    /\ scope \in {"compose", "update"} => PlaceInv
    /\ scope = "clicks" => ClickInv
    /\ scope = "agents" => AgentInv

\* Every service starts as its own specification says.
LEMMA InitServices == ServicesInit => ServicesInv
<1> SUFFICES ASSUME ServicesInit  PROVE ServicesInv
  OBVIOUS
<1>1. /\ DaemonInit /\ GovernorInit /\ PostInit /\ ChainInit /\ ComposeInit /\ ClickInit
      /\ AgentInit
  BY DEF ServicesInit
<1>2. GovernorInv /\ PostInv /\ ChainInv
  BY <1>1, InitGovernorInv, InitPosts, InitChain
<1>3. PlaceInv /\ ClickInv /\ AgentInv
  BY <1>1, InitPlaces, InitClicks, InitAgents
<1>4. DaemonTypes
  BY <1>2 DEF GovernorInv
<1> QED  BY <1>2, <1>3, <1>4 DEF ServicesInv

\* A halt, the clock and a restart of the engine leave the governor's rows
\* well typed.
LEMMA PostsKeepGovernor ==
  ASSUME GovernorInv, PostNext  PROVE GovernorInv'
<1>1. CASE UNCHANGED govVars /\ UNCHANGED now /\ DaemonTypes'
  <2>1. UNCHANGED <<events, halt, warmup, asking, permits>>
    BY <1>1 DEF govVars
  <2> QED  BY <1>1, <2>1 DEF GovernorInv, GovernorTypes, Dated
<1>2. CASE RecordHalt(HaltSpan) \/ (Tick /\ UNCHANGED govVars)
  <2>1. HaltSpan \in 1 .. HaltSpan
    BY GovernorAssumption
  <2>2. GovernorNext
    BY <1>2, <2>1 DEF GovernorNext
  <2> QED  BY <2>2, StepGovernorInv
<1>3. CASE EngineRestart
  <2>1. UNCHANGED govVars /\ UNCHANGED now /\ DaemonTypes'
    BY <1>3, DaemonAssumption DEF EngineRestart, Restarts, GovernorInv, DaemonTypes
  <2> QED  BY <1>1, <2>1
<1>4. CASE UNCHANGED <<daemonVars, govVars>>
  <2>1. UNCHANGED govVars /\ UNCHANGED now /\ DaemonTypes'
    BY <1>4 DEF daemonVars, GovernorInv, DaemonTypes
  <2> QED  BY <1>1, <2>1
<1>5. EngineStep => UNCHANGED <<daemonVars, govVars>>
  BY DEF EngineStep, StartPass, LoadReady, EndPass, ShowCard, MarkPreviewed, Defer, Publish,
         MarkOutcome
<1>6. ASSUME NEW p \in Post,
             (\E at \in 0 .. PostHorizon : Enqueue(p, at)) \/ CancelPost(p) \/ CardFails(p) \/ MarkFails(p)
      PROVE  UNCHANGED <<daemonVars, govVars>>
  BY <1>6 DEF Enqueue, CancelPost, CardFails, MarkFails
<1> QED  BY <1>2, <1>3, <1>4, <1>5, <1>6 DEF PostNext

\* One service runs, and keeps its invariant.
LEMMA StepServices == ServicesInv /\ [ServicesNext]_allServicesVars => ServicesInv'
<1> SUFFICES ASSUME ServicesInv, [ServicesNext]_allServicesVars  PROVE ServicesInv'
  OBVIOUS
<1>1. CASE GovernorRuns
  <2>1. scope = "governor" /\ scope' = "governor" /\ GovernorNext
    BY <1>1 DEF GovernorRuns, Runs
  <2>2. GovernorInv'
    BY <2>1, StepGovernorInv DEF ServicesInv
  <2> QED  BY <2>1, <2>2 DEF ServicesInv, GovernorInv
<1>2. CASE PostRuns
  <2>1. scope = "post" /\ scope' = "post" /\ PostNext
    BY <1>2 DEF PostRuns, Runs
  <2>2. GovernorInv' /\ PostInv'
    BY <2>1, PostsKeepGovernor, StepPosts DEF ServicesInv
  <2> QED  BY <2>1, <2>2 DEF ServicesInv, GovernorInv
<1>3. CASE ChainRuns
  <2>1. scope = "chain" /\ scope' = "chain" /\ ChainNext
    BY <1>3 DEF ChainRuns, Runs
  <2>2. ChainInv'
    BY <2>1, StepChain DEF ServicesInv
  <2> QED  BY <2>1, <2>2 DEF ServicesInv, ChainInv
<1>4. CASE ComposeRuns \/ UpdateRuns
  <2>1. scope \in {"compose", "update"} /\ scope' = scope /\ ComposeNext
    BY <1>4 DEF ComposeRuns, UpdateRuns, Runs
  <2>2. PlaceInv'
    BY <2>1, StepPlaces DEF ServicesInv
  <2> QED  BY <2>1, <2>2 DEF ServicesInv, PlaceInv
<1>5. CASE ClickRuns
  <2>1. scope = "clicks" /\ scope' = "clicks" /\ ClickNext
    BY <1>5 DEF ClickRuns, Runs
  <2>2. ClickInv'
    BY <2>1, StepClicks DEF ServicesInv
  <2> QED  BY <2>1, <2>2 DEF ServicesInv, ClickInv
<1>6. CASE AgentsRun
  <2>1. scope = "agents" /\ scope' = "agents" /\ AgentNext
    BY <1>6 DEF AgentsRun, Runs
  <2>2. AgentInv'
    BY <2>1, StepAgents DEF ServicesInv
  <2> QED  BY <2>1, <2>2 DEF ServicesInv, AgentInv
<1>7. CASE UNCHANGED allServicesVars
  <2>1. /\ scope' = scope /\ UNCHANGED daemonVars
        /\ UNCHANGED <<daemonVars, govVars>> /\ UNCHANGED allPostVars /\ UNCHANGED allChainVars
        /\ UNCHANGED allComposeVars /\ UNCHANGED allClickVars /\ UNCHANGED allAgentVars
    BY <1>7 DEF allServicesVars, allPostVars, allChainVars, allComposeVars, allClickVars,
                allAgentVars
  <2>2. DaemonTypes'
    BY <2>1 DEF ServicesInv, DaemonTypes, daemonVars
  <2>3. (GovernorInv => GovernorInv') /\ (PostInv => PostInv') /\ (ChainInv => ChainInv')
    BY <2>1, StepGovernorInv, StepPosts, StepChain
  <2>4. (PlaceInv => PlaceInv') /\ (ClickInv => ClickInv') /\ (AgentInv => AgentInv')
    BY <2>1, StepPlaces, StepClicks, StepAgents
  <2> QED  BY <2>1, <2>2, <2>3, <2>4 DEF ServicesInv
<1> QED  BY <1>1, <1>2, <1>3, <1>4, <1>5, <1>6, <1>7 DEF ServicesNext

(* Whichever service runs keeps the types of its variables, of the clock   *)
(* and of the restarts, for every value of the constants.                  *)
THEOREM ServicesTypesHold == ServicesSpec => []ServicesTypes
<1>1. ServicesInv => ServicesTypes
  <2>1. GovernorInv => GovernorTypes
    BY DEF GovernorInv
  <2>2. PostInv => PostTypes
    BY DEF PostInv
  <2>3. ChainInv => ChainTypes
    BY ChainInvTypes
  <2>4. (PlaceInv => ComposeTypes) /\ (ClickInv => ClickTypes) /\ (AgentInv => AgentTypes)
    BY DEF PlaceInv, ClickInv, AgentInv
  <2> QED  BY <2>1, <2>2, <2>3, <2>4 DEF ServicesInv, ServicesTypes
<1> QED  BY <1>1, InitServices, StepServices, PTL DEF ServicesSpec

\* What the promise of the cards speaks of is the clicks' alone.
LEMMA OthersUnseen ==
  ASSUME UNCHANGED clickVars  PROVE UNCHANGED Offered!vars
  BY DEF clickVars, cardVars, ledgerVars, Offered!vars, Work, Doing, Of

(* The clicks keep the promise of the cards beside whatever else runs.     *)
THEOREM ServicesKeepCardPromise == ServicesSpec => ImplementsCardPromise /\ ClicksKeepPromise
<1>1. ServicesInit => Offered!Init
  BY InitOffered DEF ServicesInit
<1>2. ServicesInv /\ [ServicesNext]_allServicesVars => [Offered!Next]_(Offered!vars)
  <2> SUFFICES ASSUME ServicesInv, [ServicesNext]_allServicesVars
               PROVE  Offered!Next \/ UNCHANGED Offered!vars
    OBVIOUS
  <2>1. CASE ClickRuns
    <3>1. scope = "clicks" /\ ClickNext
      BY <2>1 DEF ClickRuns, Runs
    <3> QED  BY <3>1, StepOffered DEF ServicesInv, ClickInv
  <2>2. CASE ~ClickRuns
    <3>1. UNCHANGED clickVars
      BY <2>2 DEF ServicesNext, allServicesVars, GovernorRuns, PostRuns, ChainRuns, ComposeRuns,
                  UpdateRuns, AgentsRun
    <3> QED  BY <3>1, OthersUnseen
  <2> QED  BY <2>1, <2>2
<1>3. [Offered!Next]_(Offered!vars) => [scope = "clicks" => Offered!Next]_(Offered!vars)
  OBVIOUS
<1> QED
  BY <1>1, <1>2, <1>3, InitServices, StepServices, PTL
     DEF ServicesSpec, ImplementsCardPromise, ClicksKeepPromise, Offered!Spec

=============================================================================
