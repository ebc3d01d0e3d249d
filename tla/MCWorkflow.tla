----------------------------- MODULE MCWorkflow -----------------------------
(* Small instances, for TLC, of the modules that carry out a task between its brief *)
(* and its end. They share no state, so every scene sets one of them going: where    *)
(* it starts, "scene", says which, and what it is about.                              *)
EXTENDS MCPullRequests, Validation, ScopedTools, Evidence, Workspaces, MCCancellations

CONSTANTS
    r1, r2,              \* two validation runs
    works, unit,         \* a typed assertion and a required operation
    p1, p2, src, secret, \* two proposals; a path in scope and a prohibited one in it
    e1                  \* the record of the request

ASSUME SceneAssumption == p1 \in Proposals

\* Contracts, and what the host hands in for them.
AcceptanceCriteria == works :> "C1"
RequiredTypes == {"UNIT_TEST_OUTPUT"}
Handing(succeeded, status, types) ==
    [ops |-> unit :> succeeded, asserts |-> works :> status, types |-> types]
Decisive == {Handing(TRUE, "PASSED", RequiredTypes), Handing(FALSE, "PASSED", RequiredTypes),
             Handing(TRUE, "FAILED", RequiredTypes)}
HandedBodies ==
    Decisive \cup {Handing(TRUE, "BLOCKED", RequiredTypes), Handing(TRUE, "PASSED", {}),
                   Handing(TRUE, "PASSED", RequiredTypes \cup {"APPLICATION_LOG"})}

\* Proposals: an edit in scope, and one of a path that is prohibited within the scope.
Edit(path) == [tool |-> "git.apply_patch", sound |-> TRUE, paths |-> {path}]
AskedFor == p1 :> Edit(<<src>>) @@ p2 :> Edit(<<src, secret>>)
Tools == "git.apply_patch" :> "edit" @@ "workspace.diff" :> "look"
InScope == {<<src>>}
OutOfBounds == {<<src, secret>>}
Answers == {[bounded |-> TRUE, sound |-> TRUE, paths |-> {path}] : path \in InScope \cup OutOfBounds}

-----------------------------------------------------------------------------
(* Next-state relations of the scenes that restrict a module's *)

\* The handler of an attempt is under way; the agent talks to the latest.
InAttempt(a) == handler[a].step \notin {"NONE", "ENDED", "TERMINAL"}
AgentOf(a)   == InAttempt(a) /\ a >= granted

\* One attempt, through everything that takes its authority away.
OneAttemptNext ==
    \/ granted = 0 /\ Lease
    \/ \E a \in Attempts :
          \/ HandlerStep(a)
          \/ InAttempt(a) /\ (LoseLease \/ StopEditing \/ PreflightGoesStale)
          \/ AgentOf(a) /\ \E p \in Proposals : Propose(a, p)
          \/ AgentOf(a) /\ \E s \in {"SUCCEEDED", "FAILED"} : AgentFinishes(a, s)

\* A second attempt while the handler of the first, whose lease is lost, is at a call.
TwoAttemptsNext ==
    \/ granted = 0 /\ Lease
    \/ granted = 1 /\ InAttempt(1) /\ handler[1].step # "POLL" /\ Lease
    \/ lease = 1 /\ InAttempt(1) /\ LoseLease
    \/ \E a \in Attempts :
          HandlerStep(a) \/ (AgentOf(a) /\ (Propose(a, p1) \/ AgentFinishes(a, "SUCCEEDED")))

\* The index is built twice, or once where the process restarts; nobody learns from the
\* evidence.
IndexNext ==
    /\ EvNext /\ UNCHANGED summary
    /\ restarts' > 0 => rebuild'.gen < 2

\* Summaries and candidates beside deletion and restarts, without an index.
LearningNext == EvNext /\ UNCHANGED rebuild

\* Two runs, of which only the first is leased again or handed what decides nothing.
ValidationNext ==
    /\ ValNext
    /\ work'[r2] # NoWork => work'[r2].body \in Decisive /\ work'[r2].leases = 1

-----------------------------------------------------------------------------

Scenes == {"readiness", "repairs", "validation", "one attempt", "two attempts", "index",
           "learning", "workspace", "cancellation"}

ScenesInit ==
    /\ PrInit /\ ValInit /\ ToolInit /\ EvInit /\ WsInit /\ CanInit
    /\ scene \in Scenes

ScenesNext ==
    \/ /\ \/ scene = "readiness" /\ ReadyNext
          \/ scene = "repairs" /\ RepairNext
       /\ UNCHANGED <<valvars, toolvars, evvars, wsvars, canvars>>
    \/ /\ scene = "validation" /\ ValidationNext
       /\ UNCHANGED <<prvars, toolvars, evvars, wsvars, canvars>>
    \/ /\ \/ scene = "one attempt" /\ OneAttemptNext
          \/ scene = "two attempts" /\ TwoAttemptsNext
       /\ UNCHANGED <<prvars, valvars, evvars, wsvars, canvars>>
    \/ /\ \/ scene = "index" /\ IndexNext
          \/ scene = "learning" /\ LearningNext
       /\ UNCHANGED <<prvars, valvars, toolvars, wsvars, canvars>>
    \/ /\ scene = "workspace" /\ WsNext
       /\ UNCHANGED <<prvars, valvars, toolvars, evvars, canvars>>
    \/ /\ scene = "cancellation" /\ CancellationNext
       /\ UNCHANGED <<prvars, valvars, toolvars, evvars, wsvars>>

WorkflowSpec ==
    /\ ScenesInit
    /\ [][ScenesNext /\ UNCHANGED scene]_<<prvars, valvars, toolvars, evvars, wsvars, canvars, scene>>

\* The type invariants of the modules.
WorkflowTypeOK == PrTypeOK /\ ValTypeOK /\ ToolTypeOK /\ EvTypeOK /\ WsTypeOK /\ CanTypeOK
=============================================================================
