---------------------------- MODULE ScopedTools ----------------------------
(* The attempts of a job that runs a Hermes agent: the runs and the events they    *)
(* hear (hermes.py), the handler that polls the agent (hermes_adapter.py), and the *)
(* tools the agent proposes, each authorized, dispatched to the host and recorded  *)
(* (code_change_execution.py).                                                     *)
(*                                                                                 *)
(* An attempt is one lease of the job and one Hermes run, here and at Hermes; a    *)
(* call is a proposal of a run. Each transaction, and each request to Hermes or to *)
(* the host, is a step; the handler of a lost lease runs on beside the next.       *)
EXTENDS Naturals, Sequences, SequencesExt, FiniteSets

CONSTANTS
    MaxAttempts,  \* max_attempts of the job
    Tries,        \* _HOST_RECONCILIATION_ATTEMPTS
    Proposals,    \* the proposal ids an agent uses
    Asked,        \* what each asks for: [tool, sound, paths]
    PolicyTools,  \* hermes_tool_policy: tool -> operation
    BriefOperations, Included,  \* the operations and paths of the accepted brief
    Prohibited,   \* the prohibited paths of the configuration
    HostResults   \* what the host may answer with: [bounded, sound, paths]

ASSUME ToolAssumption == MaxAttempts \in Nat /\ Tries \in Nat \ {0}

VARIABLES
    lease,     \* the attempt whose lease is current, or 0
    granted,   \* the attempts leased so far
    editing,   \* the task is IMPLEMENTING or REPAIRING
    preflight, \* the configuration has a preflight that is ready
    hermes,    \* the status of each attempt's HermesRun
    grant,     \* its tool grant
    agent,     \* what happened at Hermes
    heard,     \* last_event_sequence: accepted events
    handler,   \* what the handler of each attempt does
    decided,   \* the HermesToolDecision of each call
    results,   \* its HermesToolResult rows, in order
    applied    \* the calls the host carried out

toolvars == <<lease, granted, editing, preflight, hermes, grant, agent, heard, handler,
              decided, results, applied>>

Attempts == 1 .. MaxAttempts
Calls    == Attempts \X Proposals

\* HermesRunStatus
RunStatuses == {"NONE", "STARTING", "RUNNING", "SUCCEEDED", "FAILED", "TIMED_OUT", "CANCELLED"}
RunIsOver(a) == hermes[a] \in {"SUCCEEDED", "FAILED", "TIMED_OUT", "CANCELLED"}

\* HermesToolResultStatus and the code.
Result(status, code) == [status |-> status, code |-> code]

-----------------------------------------------------------------------------
(* Paths and what may be done to them *)

\* A path is its parts; << >> is the root of the repository. _path_in_scope and
\* _path_prohibited: some listed path is the path or above it.
PathInScope(path)    == \E p \in Included : IsPrefix(p, path)
PathProhibited(path) == \E p \in Prohibited : IsPrefix(p, path)

\* _normalize_arguments and _proposal_paths: sound arguments name the paths they read or
\* change; workspace.diff names none.
SoundArguments(p) == Asked[p].sound
ProposalPaths(p)  == IF Asked[p].tool = "workspace.diff" THEN {} ELSE Asked[p].paths

\* What the policy and the brief say of a proposal.
ToolAllowlisted(p)  == Asked[p].tool \in DOMAIN PolicyTools
OperationAllowed(p) == ToolAllowlisted(p) /\ PolicyTools[Asked[p].tool] \in BriefOperations

\* The code of the first check that fails, or the one given.
FirstFailure(checks, code) ==
    LET failed == SelectSeq(checks, LAMBDA check : ~check[1])
    IN  IF failed = << >> THEN code ELSE failed[1][2]

\* _bounded_result and _host_result_validation_code: why a success is not taken as one.
HostResultCode(result) ==
    FirstFailure(<< <<result.bounded, "HOST_RESULT_UNBOUNDED">>,
                    <<result.sound, "HOST_RESULT_INVALID">>,
                    <<\A q \in result.paths : PathInScope(q), "HOST_RESULT_OUTSIDE_BRIEF">>,
                    <<\A q \in result.paths : ~PathProhibited(q), "HOST_RESULT_PROHIBITED">> >>,
                 "OK")

HostRefusals == {HostResultCode(result) : result \in HostResults} \ {"OK"}

-----------------------------------------------------------------------------
(* Leases *)

\* _current_lease
Current(a) == lease = a

\* _proposal_context: the lease is current, its run is RUNNING and has its grant.
CallIsCurrent(a) == Current(a) /\ hermes[a] = "RUNNING" /\ grant[a] # "NONE"

\* A handler with nothing but its step to remember.
Bare(step) == [step |-> step, seen |-> {}, status |-> "NONE", tried |-> 0, call |-> "NONE",
               answer |-> Result("NONE", "NONE")]

At(a, step)   == handler[a].step = step
GoOn(a, step) == handler' = [handler EXCEPT ![a] = Bare(step)]

\* The worker leases the job for its next attempt.
Lease ==
    /\ lease = 0 /\ granted < MaxAttempts
    /\ \A a \in Attempts : hermes[a] # "SUCCEEDED" /\ handler[a].step # "TERMINAL"
    /\ granted' = granted + 1 /\ lease' = granted'
    /\ GoOn(granted', "PREPARE")
    /\ UNCHANGED <<editing, preflight, hermes, grant, agent, heard, decided, results, applied>>

\* The lease expires, or a cancellation or pause takes it.
LoseLease ==
    /\ lease # 0
    /\ lease' = 0
    /\ UNCHANGED <<granted, editing, preflight, hermes, grant, agent, heard, handler, decided,
                   results, applied>>

\* The process of an attempt's worker dies.
WorkerDies(a) ==
    /\ handler[a].step \notin {"NONE", "ENDED", "TERMINAL"}
    /\ GoOn(a, "ENDED")
    /\ UNCHANGED <<lease, granted, editing, preflight, hermes, grant, agent, heard, decided,
                   results, applied>>

\* The task leaves the states in which the agent may edit; the preflight goes stale.
StopEditing ==
    /\ editing
    /\ editing' = FALSE
    /\ UNCHANGED <<lease, granted, preflight, hermes, grant, agent, heard, handler, decided,
                   results, applied>>

PreflightGoesStale ==
    /\ preflight
    /\ preflight' = FALSE
    /\ UNCHANGED <<lease, granted, editing, hermes, grant, agent, heard, handler, decided,
                   results, applied>>

-----------------------------------------------------------------------------
(* The run *)

\* cancel: the run is CANCELLED and its grants are revoked, unless it is over.
CancelRun(a) ==
    IF RunIsOver(a) THEN UNCHANGED <<hermes, grant>>
    ELSE /\ hermes' = [hermes EXCEPT ![a] = "CANCELLED"]
         /\ grant' = [grant EXCEPT ![a] = IF @ = "ISSUED" THEN "REVOKED" ELSE @]

\* The request to stop may not reach Hermes.
StopAgent(a) ==
    \E reached \in BOOLEAN :
        agent' = [agent EXCEPT ![a].status = IF reached /\ @ = "RUNNING" THEN "CANCELLED" ELSE @]

\* _stop_and_cancel. A handler that raises TerminalBackgroundJobError ends the job if it
\* still has its lease; one that lost it just ends.
StopAndCancel(a, end) == StopAgent(a) /\ CancelRun(a) /\ GoOn(a, end)
EndJob(a) == lease' = IF Current(a) THEN 0 ELSE lease
JobEnd(a) == IF Current(a) THEN "TERMINAL" ELSE "ENDED"

\* prepare: the run of this attempt, and its tool grant.
PrepareRun(a) ==
    /\ At(a, "PREPARE")
    /\ IF Current(a)
       THEN /\ hermes' = [hermes EXCEPT ![a] = "STARTING"]
            /\ grant' = [grant EXCEPT ![a] = "ISSUED"]
            /\ GoOn(a, "START")
       ELSE GoOn(a, "ENDED") /\ UNCHANGED <<hermes, grant>>
    /\ UNCHANGED <<lease, granted, editing, preflight, agent, heard, decided, results, applied>>

\* The agent starts, or there is no answer; then it may have started all the same.
StartAgent(a) ==
    /\ At(a, "START")
    /\ \/ agent' = [agent EXCEPT ![a].status = "RUNNING"] /\ GoOn(a, "STARTED")
       \/ agent' = [agent EXCEPT ![a].status = "RUNNING"] /\ GoOn(a, "FAIL")
       \/ UNCHANGED agent /\ GoOn(a, "FAIL")
    /\ UNCHANGED <<lease, granted, editing, preflight, hermes, grant, heard, decided, results,
                   applied>>

\* record_started. Where the lease is lost the agent is left to itself.
RecordStarted(a) ==
    /\ At(a, "STARTED")
    /\ IF Current(a)
       THEN hermes' = [hermes EXCEPT ![a] = "RUNNING"] /\ GoOn(a, "POLL")
       ELSE UNCHANGED hermes /\ GoOn(a, "ENDED")
    /\ UNCHANGED <<lease, granted, editing, preflight, grant, agent, heard, decided, results,
                   applied>>

\* fail_dependency, up to its second transaction: the failed attempt gives up its lease.
FailDependency(a) ==
    /\ handler[a].step \in {"FAIL", "TIMEOUT"}
    /\ IF Current(a) /\ hermes[a] \in {"STARTING", "RUNNING"}
       THEN lease' = 0 /\ GoOn(a, IF At(a, "FAIL") THEN "FAILED" ELSE "TIMED_OUT")
       ELSE UNCHANGED lease /\ GoOn(a, "ENDED")
    /\ UNCHANGED <<granted, editing, preflight, hermes, grant, agent, heard, decided, results,
                   applied>>

\* _project_dependency_failure
ProjectFailure(a) ==
    /\ handler[a].step \in {"FAILED", "TIMED_OUT"}
    /\ hermes' = [hermes EXCEPT ![a] = IF RunIsOver(a) THEN @ ELSE handler[a].step]
    /\ GoOn(a, "ENDED")
    /\ UNCHANGED <<lease, granted, editing, preflight, grant, agent, heard, decided, results,
                   applied>>

-----------------------------------------------------------------------------
(* Polling *)

\* heartbeat and observe: Hermes answers with some of what the agent said, and with its
\* status; or it does not answer, or the deadline has passed.
Poll(a) ==
    /\ At(a, "POLL")
    /\ \/ /\ ~Current(a) /\ StopAndCancel(a, "ENDED")
       \/ /\ Current(a) /\ UNCHANGED <<agent, hermes, grant>>
          /\ \/ GoOn(a, "FAIL")
             \/ \E seen \in SUBSET (1 .. Len(agent[a].said)) :
                   handler' = [handler EXCEPT ![a].step = "HEAR", ![a].seen = seen,
                                              ![a].status = agent[a].status]
       \/ /\ Current(a) /\ StopAgent(a) /\ GoOn(a, "TIMEOUT") /\ UNCHANGED <<hermes, grant>>
    /\ UNCHANGED <<lease, granted, editing, preflight, heard, decided, results, applied>>

\* ingest, for the next of the observed events: one that was accepted before is answered
\* so again; the next in order is accepted; others may come again.
Hear(a) ==
    /\ At(a, "HEAR") /\ handler[a].seen # {}
    /\ LET n    == CHOOSE m \in handler[a].seen : \A k \in handler[a].seen : m <= k
           rest == [handler EXCEPT ![a].seen = @ \ {n}]
       IN  \/ /\ n <= heard[a] \/ (n = heard[a] + 1 /\ Current(a) /\ ~RunIsOver(a))
              /\ heard' = [heard EXCEPT ![a] = IF n > @ THEN n ELSE @]
              /\ handler' = [rest EXCEPT ![a].step = "AUTHORIZE", ![a].tried = 1,
                                         ![a].call = agent[a].said[n]]
              /\ UNCHANGED <<agent, hermes, grant>>
           \/ /\ n > heard[a] /\ ~Current(a) /\ ~RunIsOver(a)
              /\ StopAndCancel(a, "ENDED") /\ UNCHANGED heard
           \/ /\ n > heard[a] /\ (RunIsOver(a) \/ (Current(a) /\ n # heard[a] + 1))
              /\ handler' = rest /\ UNCHANGED <<heard, agent, hermes, grant>>
    /\ UNCHANGED <<lease, granted, editing, preflight, decided, results, applied>>

\* The observed status, after the events: the run ends with the agent, as long as the
\* lease is current.
HearStatus(a) ==
    /\ At(a, "HEAR") /\ handler[a].seen = {}
    /\ \/ /\ handler[a].status = "RUNNING"
          /\ GoOn(a, "POLL") /\ UNCHANGED <<lease, hermes, grant>>
       \/ /\ handler[a].status = "CANCELLED"
          /\ CancelRun(a) /\ GoOn(a, JobEnd(a)) /\ EndJob(a)
       \/ /\ handler[a].status \in {"SUCCEEDED", "FAILED"}
          /\ IF Current(a) /\ ~RunIsOver(a)
             THEN hermes' = [hermes EXCEPT ![a] = handler[a].status]
             ELSE UNCHANGED hermes
          /\ GoOn(a, JobEnd(a)) /\ EndJob(a) /\ UNCHANGED grant
    /\ UNCHANGED <<granted, editing, preflight, agent, heard, decided, results, applied>>

-----------------------------------------------------------------------------
(* A call *)

Call(a)      == <<a, handler[a].call>>
KeepHermes   == UNCHANGED <<granted, editing, preflight, heard>>

\* _terminal_result: a result that is not AMBIGUOUS.
IsAnswered(c) == \E i \in 1 .. Len(results[c]) : results[c][i].status # "AMBIGUOUS"

\* _authorization_decision
AuthorizationDecision(a, p) ==
    FirstFailure(<< <<editing, "TASK_STATE_NOT_ALLOWED">>,
                    <<grant[a] = "ISSUED", "TOOL_GRANT_REVOKED">>,
                    <<ToolAllowlisted(p), "TOOL_NOT_ALLOWLISTED">>,
                    <<OperationAllowed(p), "BRIEF_OPERATION_NOT_ALLOWED">>,
                    <<preflight, "CONFIGURATION_UNAVAILABLE">>,
                    <<SoundArguments(p), "INVALID_TOOL_ARGUMENTS">>,
                    <<\A q \in ProposalPaths(p) : PathInScope(q), "PATH_OUTSIDE_BRIEF">>,
                    <<\A q \in ProposalPaths(p) : ~PathProhibited(q), "PATH_PROHIBITED">> >>,
                 "AUTHORIZED")

\* _authorize: the decision of a call is taken once. Where the lease or the run is no
\* longer current the agent is stopped.
Authorize(a) ==
    /\ At(a, "AUTHORIZE")
    /\ LET c == Call(a)
           decision == IF decided[c] = "NONE" THEN AuthorizationDecision(a, c[2])
                       ELSE decided[c]
       IN  IF ~CallIsCurrent(a)
           THEN StopAndCancel(a, JobEnd(a)) /\ EndJob(a) /\ UNCHANGED decided
           ELSE /\ decided' = [decided EXCEPT ![c] = decision]
                /\ handler' = [handler EXCEPT
                      ![a].step = IF IsAnswered(c) THEN "SUBMIT"
                                  ELSE IF decision = "AUTHORIZED" THEN "CHECK" ELSE "RECORD",
                      ![a].answer = Result("REJECTED", decision)]
                /\ UNCHANGED <<lease, agent, hermes, grant>>
    /\ KeepHermes /\ UNCHANGED <<results, applied>>

\* _dispatch_if_still_authorized, up to the request: it locks nothing.
CheckStillAuthorized(a) ==
    /\ At(a, "CHECK")
    /\ handler' = [handler EXCEPT
          ![a].step = IF CallIsCurrent(a) /\ editing /\ preflight THEN "DISPATCH" ELSE "RECORD",
          ![a].answer = Result("REJECTED", "AUTHORIZATION_STALE")]
    /\ UNCHANGED <<lease, hermes, grant, agent, decided, results, applied>> /\ KeepHermes

\* An answer that never came is taken for a refusal.
Recorded_Refused(answer) ==
    IF answer.status = "OK" THEN Result("SUCCEEDED", "OK")
    ELSE Result(IF answer.status = "AMBIGUOUS" THEN "AMBIGUOUS" ELSE "REJECTED", "HOST")

\* How an answer of the host, or the lack of one, is recorded.
Recorded(answer) ==
    CASE answer.status = "OK" ->
           IF HostResultCode(answer.result) = "OK" THEN Result("SUCCEEDED", "OK")
           ELSE Result("REJECTED", HostResultCode(answer.result))
      [] answer.status = "UNAVAILABLE" -> Result("AMBIGUOUS", "HOST_UNAVAILABLE")
      [] answer.status \in {"REJECTED", "AMBIGUOUS"} -> Result(answer.status, "HOST")

\* The host carries a call out at most once and answers for it with the key of the call:
\* it refuses one, or does not know; and its answer may be lost.
DispatchToHost(a) ==
    /\ At(a, "DISPATCH")
    /\ \/ \E result \in HostResults :
              /\ handler' = [handler EXCEPT ![a].step = "RECORD",
                    ![a].answer = Recorded([status |-> "OK", result |-> result])]
              /\ applied' = applied \cup {Call(a)}
       \/ \E done \in {{}, {Call(a)}}, status \in {"AMBIGUOUS", "UNAVAILABLE"} :
              /\ handler' = [handler EXCEPT ![a].step = "RECORD",
                    ![a].answer = Recorded([status |-> status])]
              /\ applied' = applied \cup done
       \/ /\ handler' = [handler EXCEPT ![a].step = "RECORD",
                    ![a].answer = Recorded([status |-> "REJECTED"])]
          /\ UNCHANGED applied
    /\ UNCHANGED <<lease, hermes, grant, agent, decided, results>> /\ KeepHermes

\* The last of the tries is submitted, whatever came of it.
MustRepeat_Gives(a) ==
    /\ ~IsAnswered(Call(a)) /\ handler[a].answer.status = "AMBIGUOUS"
    /\ handler[a].tried < Tries

\* What the host did is not known yet.
MustRepeat(a) == ~IsAnswered(Call(a)) /\ handler[a].answer.status = "AMBIGUOUS"

\* _record_result: the first terminal result of a call stays. After an AMBIGUOUS one the
\* call is made again, with the lease renewed, or the agent is stopped.
RecordResult(a) ==
    /\ At(a, "RECORD")
    /\ results' = [results EXCEPT ![Call(a)] = IF IsAnswered(Call(a)) THEN @
                                               ELSE Append(@, handler[a].answer)]
    /\ \/ /\ ~MustRepeat(a) /\ handler' = [handler EXCEPT ![a].step = "SUBMIT"]
          /\ UNCHANGED <<lease, agent, hermes, grant>>
       \/ /\ MustRepeat(a) /\ handler[a].tried < Tries /\ Current(a)
          /\ handler' = [handler EXCEPT ![a].step = "AUTHORIZE", ![a].tried = @ + 1]
          /\ UNCHANGED <<lease, agent, hermes, grant>>
       \/ /\ MustRepeat(a) /\ ~(handler[a].tried < Tries /\ Current(a))
          /\ StopAndCancel(a, JobEnd(a)) /\ EndJob(a)
    /\ KeepHermes /\ UNCHANGED <<decided, applied>>

\* submit_tool_result: the agent takes the result, or Hermes does not answer.
SubmitResult(a) ==
    /\ At(a, "SUBMIT")
    /\ \/ /\ agent' = [agent EXCEPT ![a].told = @ \cup {handler[a].call}]
          /\ handler' = [handler EXCEPT ![a] = [Bare("HEAR") EXCEPT
                !.seen = handler[a].seen, !.status = handler[a].status]]
       \/ UNCHANGED agent /\ GoOn(a, "FAIL")
    /\ UNCHANGED <<lease, hermes, grant, decided, results, applied>> /\ KeepHermes

-----------------------------------------------------------------------------
(* Hermes *)

\* The agent proposes once more.
Propose(a, p) ==
    /\ agent[a].status = "RUNNING" /\ p \notin ToSet(agent[a].said)
    /\ agent' = [agent EXCEPT ![a].said = Append(@, p)]
    /\ UNCHANGED <<lease, hermes, grant, handler, decided, results, applied>> /\ KeepHermes

\* It completes when all its proposals are answered, or fails.
AgentFinishes(a, status) ==
    /\ agent[a].status = "RUNNING"
    /\ status = "SUCCEEDED" => ToSet(agent[a].said) \subseteq agent[a].told
    /\ agent' = [agent EXCEPT ![a].status = status]
    /\ UNCHANGED <<lease, hermes, grant, handler, decided, results, applied>> /\ KeepHermes

ToolInit ==
    /\ lease = 0 /\ granted = 0 /\ editing = TRUE /\ preflight = TRUE
    /\ hermes = [a \in Attempts |-> "NONE"] /\ grant = [a \in Attempts |-> "NONE"]
    /\ agent = [a \in Attempts |-> [status |-> "NONE", said |-> << >>, told |-> {}]]
    /\ heard = [a \in Attempts |-> 0]
    /\ handler = [a \in Attempts |-> Bare("NONE")]
    /\ decided = [c \in Calls |-> "NONE"] /\ results = [c \in Calls |-> << >>]
    /\ applied = {}

HandlerStep(a) ==
    \/ PrepareRun(a) \/ StartAgent(a) \/ RecordStarted(a) \/ Poll(a) \/ Hear(a) \/ HearStatus(a)
    \/ Authorize(a) \/ CheckStillAuthorized(a) \/ DispatchToHost(a) \/ RecordResult(a)
    \/ SubmitResult(a) \/ FailDependency(a) \/ ProjectFailure(a) \/ WorkerDies(a)

ToolNext ==
    \/ Lease \/ LoseLease \/ StopEditing \/ PreflightGoesStale
    \/ \E a \in Attempts : HandlerStep(a)
    \/ \E a \in Attempts, p \in Proposals : Propose(a, p)
    \/ \E a \in Attempts, s \in {"SUCCEEDED", "FAILED"} : AgentFinishes(a, s)

ToolSpec == ToolInit /\ [][ToolNext]_toolvars

-----------------------------------------------------------------------------
(* Properties *)

ToolTypeOK ==
    /\ lease \in {0, granted} /\ granted \in 0 .. MaxAttempts
    /\ hermes \in [Attempts -> RunStatuses]
    /\ grant \in [Attempts -> {"NONE", "ISSUED", "REVOKED"}]
    /\ \A a \in Attempts : heard[a] \in 0 .. Len(agent[a].said)
    /\ \A c \in Calls : Len(results[c]) <= Tries
    /\ applied \subseteq Calls

\* The record never says that nothing was done where something was: a call the host
\* carried out was authorized, and once it has a final result, that is a success, a
\* refusal of what the host answered, or comes after a result that left it open.
NoSilentEffect ==
    \A c \in applied :
        /\ decided[c] = "AUTHORIZED"
        /\ IsAnswered(c) =>
              \E i \in 1 .. Len(results[c]) : \/ results[c][i].status \in {"SUCCEEDED", "AMBIGUOUS"}
                                              \/ results[c][i].code \in HostRefusals

\* A run that succeeded answered every proposal it heard, and told the agent.
SuccessIsAnswered ==
    \A a \in Attempts : hermes[a] = "SUCCEEDED" =>
        \A n \in 1 .. heard[a] : LET p == agent[a].said[n]
                                 IN  IsAnswered(<<a, p>>) /\ p \in agent[a].told
=============================================================================
