---------------------------- MODULE Cancellations ----------------------------
(* How the work of a task that ends is fenced and cleaned up, and what a service   *)
(* does before it goes on after a restart (reliability.py): the cancellation with   *)
(* its transactions, the owned processes it has terminated, the terminal tasks      *)
(* nobody fenced, and the reconciliation targets that hold work back until they     *)
(* were observed (background_jobs.py).                                              *)
(*                                                                                  *)
(* There is one task. A call is a cancel_task of the API or of a recovery; each of  *)
(* its transactions, and each request to the host, is a step. The targets in use    *)
(* are Hermes runs and host processes: nothing registers branches, pull requests    *)
(* or webhook cursors.                                                              *)
EXTENDS Naturals, FiniteSets

CONSTANTS
    Jobs,         \* the jobs of the task
    AgentRuns,    \* the Hermes runs they start
    Processes,    \* the processes they own at the host
    Cancellers,   \* the ids of cancellations asked for at the API
    Services,     \* the services that recover when they start
    Terminators,  \* the services that may terminate processes
    Observes,     \* <<service, kind>>: the targets a service can look at
    MaxJobLeases,    \* max_attempts of a job
    MaxBoots,     \* bound: how often a service starts again
    Nobody

ASSUME CancellationAssumption ==
    /\ AgentRuns \cap Processes = {}
    /\ Nobody \notin Cancellers \cup {"elsewhere"}
    /\ MaxJobLeases \in Nat

VARIABLES
    life,      \* task.state: "ACTIVE", "WAITING", "CANCELLED" or "FAILED"
    question,  \* an approval request is PENDING
    ending,    \* the CANCEL or FAIL event: [id, from, reason]
    fence,     \* the TaskCancellation row: [id, print, cleaned]
    duty,      \* BackgroundJob rows with their lease: [status, lease, expired]
    owned,     \* OwnedHostProcess rows: [job, lease, status]
    alive,     \* the processes that run at the host
    over,      \* the Hermes runs that ended
    target,    \* ReconciliationTarget rows: [job, status, version]
    call,      \* the calls of cancel_task and resume_cleanup
    boot,      \* what each service is at: "UP", or a step of its recovery
    page,      \* the targets a recovery has read and yet to record
    boots      \* how often a service started again

working    == <<duty, owned, alive, over, target>>
services == <<boot, page, boots>>
canvars  == <<life, question, ending, fence, duty, owned, alive, over, target, call, boot,
              page, boots>>

CallerIds == Cancellers \cup Services
Keys     == AgentRuns \cup Processes
KindOf(k) == IF k \in AgentRuns THEN "HERMES_RUN" ELSE "HOST_PROCESS"

NoTarget  == [job |-> Nobody, status |-> "NONE", version |-> 0]
NoProcess == [job |-> Nobody, lease |-> 0, status |-> "NONE"]
NotEnded  == [id |-> Nobody, from |-> "NONE", reason |-> "NONE"]
NoFence   == [id |-> Nobody, print |-> <<>>, cleaned |-> FALSE]

\* A call that is not under way; that of a client can be sent again.
NoCall == [step |-> "IDLE", id |-> Nobody, from |-> "NONE", reason |-> "NONE",
           known |-> FALSE, todo |-> {}, seen |-> "NONE"]

IsActiveJob(j)   == duty[j].status \in {"QUEUED", "RUNNING"}
IsRegistered(p)  == owned[p].status \notin {"NONE", "STARTED"}
HasEnded           == life \in {"CANCELLED", "FAILED"}
IsFencedTask     == fence # NoFence

-----------------------------------------------------------------------------
(* Work *)

\* The lease of a job as _current_lease takes it.
HoldsLease(j, n) == duty[j].status = "RUNNING" /\ duty[j].lease = n /\ ~duty[j].expired

\* A target whose observation forbids work.
Blocks(k) == target[k].status \in {"UPDATED", "RETRY_REQUIRED", "QUARANTINED"}

\* A target nobody looked at since its lease expired.
Unobserved(k) ==
    /\ target[k].status = "PENDING"
    /\ duty[target[k].job].status = "RUNNING" /\ duty[target[k].job].expired

\* The jobs of a task are leased while no target of the task stands in the way.
MayLease == life = "ACTIVE" /\ \A k \in Keys : ~Blocks(k) /\ ~Unobserved(k)

\* claim_next; an expired lease that was the last fails the job.
LeaseJob(j) ==
    /\ boot["worker"] = "UP" /\ MayLease
    /\ duty[j].status = "QUEUED" \/ (duty[j].status = "RUNNING" /\ duty[j].expired)
    /\ duty' = [duty EXCEPT ![j] =
          IF duty[j].lease < MaxJobLeases
          THEN [status |-> "RUNNING", lease |-> duty[j].lease + 1, expired |-> FALSE]
          ELSE [@ EXCEPT !.status = "FAILED"]]
    /\ UNCHANGED <<life, question, ending, fence, owned, alive, over, target, call, services>>

ExpireLease(j) ==
    /\ duty[j].status = "RUNNING" /\ ~duty[j].expired
    /\ duty' = [duty EXCEPT ![j].expired = TRUE]
    /\ UNCHANGED <<life, question, ending, fence, owned, alive, over, target, call, services>>

\* The handler returns or fails under its lease, for good or to be leased again.
EndLease(j, status) ==
    /\ HoldsLease(j, duty[j].lease)
    /\ status = "QUEUED" => duty[j].lease < MaxJobLeases
    /\ duty' = [duty EXCEPT ![j].status = status]
    /\ UNCHANGED <<life, question, ending, fence, owned, alive, over, target, call, services>>

\* HermesService.record_started: the run and its target.
StartAgentRun(j, t) ==
    /\ HoldsLease(j, duty[j].lease) /\ target[t] = NoTarget
    /\ target' = [target EXCEPT ![t] = [job |-> j, status |-> "PENDING", version |-> 0]]
    /\ UNCHANGED <<life, question, ending, fence, duty, owned, alive, over, call, services>>

EndAgentRun(t) ==
    /\ target[t] # NoTarget /\ t \notin over
    /\ over' = over \cup {t}
    /\ UNCHANGED <<life, question, ending, fence, duty, owned, alive, target, call, services>>

\* A handler has the host start a process,
StartProcess(j, p) ==
    /\ HoldsLease(j, duty[j].lease) /\ owned[p] = NoProcess
    /\ owned' = [owned EXCEPT ![p] = [job |-> j, lease |-> duty[j].lease, status |-> "STARTED"]]
    /\ alive' = alive \cup {p}
    /\ UNCHANGED <<life, question, ending, fence, duty, over, target, call, services>>

\* and register_owned_process binds it to the lease, with its target.
RegisterOwnedProcess(p) ==
    /\ owned[p].status = "STARTED" /\ HoldsLease(owned[p].job, owned[p].lease)
    /\ owned' = [owned EXCEPT ![p].status = "RUNNING"]
    /\ target' = [target EXCEPT ![p] = [job |-> owned[p].job, status |-> "PENDING", version |-> 0]]
    /\ UNCHANGED <<life, question, ending, fence, duty, alive, over, call, services>>

EndProcess(p) ==
    /\ p \in alive
    /\ alive' = alive \ {p}
    /\ UNCHANGED <<life, question, ending, fence, duty, owned, over, target, call, services>>

-----------------------------------------------------------------------------
(* The task *)

Ask ==
    /\ life = "ACTIVE"
    /\ life' = "WAITING" /\ question' = TRUE
    /\ UNCHANGED <<ending, fence, working, call, services>>

Resolve ==
    /\ question
    /\ life' = "ACTIVE" /\ question' = FALSE
    /\ UNCHANGED <<ending, fence, working, call, services>>

\* The task is ended by an answer in the inbox, or fails: nothing else is fenced.
EndElsewhere(state) ==
    /\ ~HasEnded
    /\ life' = state /\ question' = FALSE
    /\ ending' = [id |-> "elsewhere", from |-> life, reason |-> "DECISION"]
    /\ UNCHANGED <<fence, working, call, services>>

-----------------------------------------------------------------------------
(* cancel_task *)

IsAt(c, step) == call[c].step = step
Returns(c)   == call' = [call EXCEPT ![c].step = "IDLE", ![c].todo = {}]
GoesTo(c, step) == call' = [call EXCEPT ![c].step = step]

\* The fingerprint of a request: what it expects of the task, and why.
Requested(c) == <<call[c].from, call[c].reason>>
IsSame(c) == fence.id = call[c].id /\ fence.print = Requested(c)

\* The client asks, for the state it sees, or asks once more.
AskCancel(c) ==
    /\ boot["api"] = "UP" /\ IsAt(c, "IDLE")
    /\ call[c].id = Nobody => ~HasEnded
    /\ call' = [call EXCEPT ![c] =
          IF @.id = Nobody
          THEN [NoCall EXCEPT !.step = "READ", !.id = c, !.from = life, !.reason = "USER"]
          ELSE [@ EXCEPT !.step = "READ"]]
    /\ UNCHANGED <<life, question, ending, fence, working, services>>

\* Mutant of EndedByRequest: any end of the task passes for that of this request.
EndedByRequest_Any(c) == ending # NotEnded

\* The CANCEL or FAIL event of the task has the id of the request.
EndedByRequest(c) == ending.id = call[c].id

\* The first transaction: what there is of the cancellation, or what it has to do.
ReadTask(c) ==
    /\ IsAt(c, "READ")
    /\ CASE IsFencedTask -> IF IsSame(c) THEN GoesTo(c, "FENCE") ELSE Returns(c)
         [] ~IsFencedTask /\ life # call[c].from ->
               IF EndedByRequest(c)
               THEN call' = [call EXCEPT ![c].step = "FENCE", ![c].known = TRUE]
               ELSE Returns(c)
         [] OTHER -> GoesTo(c, IF question THEN "DECIDE" ELSE "FENCE")
    /\ UNCHANGED <<life, question, ending, fence, working, services>>

\* ApprovalService.decide of the pending request, with CANCEL.
DecideCancel(c) ==
    /\ IsAt(c, "DECIDE")
    /\ IF question
       THEN /\ life' = "CANCELLED" /\ question' = FALSE
            /\ ending' = [id |-> call[c].id, from |-> life, reason |-> "DECISION"]
            /\ call' = [call EXCEPT ![c].step = "FENCE", ![c].known = TRUE]
       ELSE Returns(c) /\ UNCHANGED <<life, question, ending>>
    /\ UNCHANGED <<fence, working, services>>

\* Whether the second transaction comes to the fence: the row is there and of the same
\* request; or the task has ended by this id; or it ends now.
FenceIsSame(c)    == IsFencedTask /\ IsSame(c)
EndedByCall(c)    == ~IsFencedTask /\ call[c].known /\ HasEnded
EndsWithFence(c)  == /\ ~IsFencedTask /\ ~call[c].known
                     /\ ~HasEnded /\ life = call[c].from /\ ~question

\* Jobs, processes and the targets that are no processes, in one transaction.
FenceWork ==
    /\ duty' = [j \in Jobs |-> IF IsActiveJob(j) THEN [duty[j] EXCEPT !.status = "CANCELLED"]
                                ELSE duty[j]]
    /\ owned' = [p \in Processes |->
          IF owned[p].status = "RUNNING" THEN [owned[p] EXCEPT !.status = "TERMINATION_REQUESTED"]
          ELSE owned[p]]
    /\ target' = [k \in Keys |->
          IF k \in AgentRuns /\ target[k].status \notin {"NONE", "CANCELLED"}
          THEN [target[k] EXCEPT !.status = "CANCELLED", !.version = @ + 1]
          ELSE target[k]]

FenceTask(c) ==
    /\ IsAt(c, "FENCE")
    /\ FenceIsSame(c) \/ EndedByCall(c) \/ EndsWithFence(c)
    /\ IF EndsWithFence(c)
       THEN /\ life' = "CANCELLED"
            /\ ending' = [id |-> call[c].id, from |-> life, reason |-> call[c].reason]
       ELSE UNCHANGED <<life, ending>>
    /\ fence' = IF IsFencedTask THEN fence
                ELSE [id |-> call[c].id, print |-> Requested(c), cleaned |-> FALSE]
    /\ FenceWork
    /\ GoesTo(c, "CLEAN")
    /\ UNCHANGED <<question, alive, over, services>>

FenceRefused(c) ==
    /\ IsAt(c, "FENCE")
    /\ ~(FenceIsSame(c) \/ EndedByCall(c) \/ EndsWithFence(c))
    /\ Returns(c)
    /\ UNCHANGED <<life, question, ending, fence, working, services>>

-----------------------------------------------------------------------------
(* resume_cleanup *)

\* The processes to terminate are read; without a terminator that is all.
ReadProcesses(c) ==
    /\ IsAt(c, "CLEAN")
    /\ LET requested == {p \in Processes : owned[p].status = "TERMINATION_REQUESTED"}
       IN  call' = [call EXCEPT
              ![c].step = IF requested = {} THEN "FINISH"
                          ELSE IF c \in Terminators THEN "TERMINATE" ELSE "IDLE",
              ![c].todo = requested]
    /\ UNCHANGED <<life, question, ending, fence, working, services>>

\* terminate_owned: the very process is signalled, or is gone; then the workspace is
\* cleaned. The host may not answer, which ends the call.
TerminateOwned(c, p) ==
    /\ IsAt(c, "TERMINATE") /\ p \in call[c].todo
    /\ \/ /\ alive' = alive \ {p}
          /\ call' = [call EXCEPT ![c].step = "RECORD", ![c].todo = {p} \cup @,
                 ![c].seen = <<p, IF p \in alive THEN "TERMINATED" ELSE "GONE">>]
       \/ Returns(c) /\ UNCHANGED alive
    /\ UNCHANGED <<life, question, ending, fence, duty, owned, over, target, services>>

\* _complete_process_cleanup: a row that is finished takes no second end, neither by the
\* code, if it is another, nor by the database.
CompleteProcessCleanup(c) ==
    /\ IsAt(c, "RECORD")
    /\ LET p == call[c].seen[1]
       IN  IF owned[p].status = "TERMINATION_REQUESTED"
           THEN /\ owned' = [owned EXCEPT ![p].status = call[c].seen[2]]
                /\ target' = [target EXCEPT ![p].status = "CANCELLED", ![p].version = @ + 1]
                /\ call' = [call EXCEPT ![c].todo = @ \ {p}, ![c].seen = "NONE",
                      ![c].step = IF call[c].todo = {p} THEN "FINISH" ELSE "TERMINATE"]
           ELSE /\ call' = [call EXCEPT ![c].step = "IDLE", ![c].todo = {}, ![c].seen = "NONE"]
                /\ UNCHANGED <<owned, target>>
    /\ UNCHANGED <<life, question, ending, fence, duty, alive, over, services>>

\* _finish_cancellation_if_clean
FinishCancellation(c) ==
    /\ IsAt(c, "FINISH")
    /\ fence' = IF \E p \in Processes : owned[p].status \in {"RUNNING", "TERMINATION_REQUESTED"}
                THEN fence ELSE [fence EXCEPT !.cleaned = TRUE]
    /\ Returns(c)
    /\ UNCHANGED <<life, question, ending, working, services>>

-----------------------------------------------------------------------------
(* recover *)

RecoveryIs(s, step) == boot[s] = step /\ IsAt(s, "IDLE")
Boot(s, step) == boot' = [boot EXCEPT ![s] = step]

\* A service stops, with what it was doing, and starts again. A handler of the worker
\* leaves its lease to expire.
RestartService(s) ==
    /\ boots < MaxBoots
    /\ boots' = boots + 1
    /\ Boot(s, "LEASES")
    /\ page' = [page EXCEPT ![s] = {}]
    /\ call' = [c \in CallerIds |->
          IF c = s \/ (s = "api" /\ c \in Cancellers)
          THEN [call[c] EXCEPT !.step = "IDLE", !.todo = {}, !.seen = "NONE", !.known = FALSE]
          ELSE call[c]]
    /\ duty' = IF s # "worker" THEN duty
               ELSE [j \in Jobs |-> IF duty[j].status = "RUNNING" THEN [duty[j] EXCEPT !.expired = TRUE]
                                    ELSE duty[j]]
    /\ UNCHANGED <<life, question, ending, fence, owned, alive, over, target>>

\* reconcile_expired_leases
RecoverLeases(s) ==
    /\ RecoveryIs(s, "LEASES")
    /\ duty' = [j \in Jobs |->
          IF duty[j].status = "RUNNING" /\ duty[j].expired
          THEN [duty[j] EXCEPT !.status = IF duty[j].lease < MaxJobLeases THEN "QUEUED" ELSE "FAILED"]
          ELSE duty[j]]
    /\ Boot(s, "UNFENCED")
    /\ UNCHANGED <<life, question, ending, fence, owned, alive, over, target, call, page, boots>>

\* _reconcile_unfenced_terminal_pages: cancel_task with the id of the ending.
RecoverUnfenced(s) ==
    /\ RecoveryIs(s, "UNFENCED")
    /\ call' = IF ending # NotEnded /\ ~IsFencedTask
               THEN [call EXCEPT ![s] = [NoCall EXCEPT !.step = "READ", !.id = ending.id,
                                            !.from = ending.from, !.reason = ending.reason]]
               ELSE call
    /\ Boot(s, "CLEANUPS")
    /\ UNCHANGED <<life, question, ending, fence, working, page, boots>>

\* _resume_pending_cleanup_pages
RecoverCleanups(s) ==
    /\ RecoveryIs(s, "CLEANUPS")
    /\ call' = IF IsFencedTask /\ ~fence.cleaned THEN [call EXCEPT ![s] = [NoCall EXCEPT !.step = "CLEAN"]]
               ELSE call
    /\ Boot(s, "HERMES_RUN")
    /\ UNCHANGED <<life, question, ending, fence, working, page, boots>>

\* _reconcile_targets, a kind after the other: what is not CANCELLED is read,
ReadTargets(s, kind) ==
    /\ RecoveryIs(s, kind) /\ page[s] = {}
    /\ LET read == {k \in Keys : KindOf(k) = kind /\ target[k].status \notin {"NONE", "CANCELLED"}}
       IN  /\ page' = [page EXCEPT ![s] = {<<k, target[k].version>> : k \in read}]
           /\ Boot(s, IF read # {} THEN "RECORD"
                      ELSE IF kind = "HERMES_RUN" THEN "HOST_PROCESS" ELSE "UP")
    /\ UNCHANGED <<life, question, ending, fence, working, call, boots>>

\* what the adapter says of each: HermesHttpRuntime.reconcile, or that nobody can say,
Observation(s, k) ==
    CASE <<s, KindOf(k)>> \notin Observes -> {"RETRY_REQUIRED"}
      [] OTHER -> {"RETRY_REQUIRED", IF k \in over THEN "UPDATED" ELSE "CURRENT"}

\* Mutant of IsUnchanged: what was read is taken for what is there.
IsUnchanged_Assumed(k, version) == target[k].version >= version

IsUnchanged(k, version) == target[k].version = version

\* and recorded, if nobody wrote to the target meanwhile.
RecordTarget(s, kv) ==
    /\ RecoveryIs(s, "RECORD") /\ kv \in page[s]
    /\ LET k == kv[1]
       IN  /\ IF IsUnchanged(k, kv[2])
              THEN \E status \in Observation(s, k) :
                      target' = [target EXCEPT ![k].status = status, ![k].version = @ + 1]
              ELSE UNCHANGED target
           /\ page' = [page EXCEPT ![s] = @ \ {kv}]
           /\ Boot(s, IF page[s] # {kv} THEN "RECORD"
                      ELSE IF KindOf(k) = "HERMES_RUN" THEN "HOST_PROCESS" ELSE "UP")
    /\ UNCHANGED <<life, question, ending, fence, duty, owned, alive, over, call, boots>>

-----------------------------------------------------------------------------

CanInit ==
    /\ life = "ACTIVE" /\ question = FALSE /\ ending = NotEnded /\ fence = NoFence
    /\ duty = [j \in Jobs |-> [status |-> "QUEUED", lease |-> 0, expired |-> FALSE]]
    /\ owned = [p \in Processes |-> NoProcess] /\ alive = {} /\ over = {}
    /\ target = [k \in Keys |-> NoTarget]
    /\ call = [c \in CallerIds |-> NoCall]
    /\ boot = [s \in Services |-> "UP"] /\ page = [s \in Services |-> {}] /\ boots = 0

WorkStep ==
    \/ \E j \in Jobs :
          \/ LeaseJob(j) \/ ExpireLease(j)
          \/ \E status \in {"QUEUED", "SUCCEEDED", "FAILED"} : EndLease(j, status)
          \/ \E t \in AgentRuns : StartAgentRun(j, t)
          \/ \E p \in Processes : StartProcess(j, p)
    \/ \E t \in AgentRuns : EndAgentRun(t)
    \/ \E p \in Processes : RegisterOwnedProcess(p) \/ EndProcess(p)

CallStep(c) ==
    \/ ReadTask(c) \/ DecideCancel(c) \/ FenceTask(c) \/ FenceRefused(c)
    \/ ReadProcesses(c) \/ CompleteProcessCleanup(c) \/ FinishCancellation(c)
    \/ \E p \in Processes : TerminateOwned(c, p)

RecoveryStep(s) ==
    \/ RecoverLeases(s) \/ RecoverUnfenced(s) \/ RecoverCleanups(s)
    \/ \E kind \in {"HERMES_RUN", "HOST_PROCESS"} : ReadTargets(s, kind)
    \/ \E kv \in page[s] : RecordTarget(s, kv)

CanNext ==
    \/ WorkStep
    \/ Ask \/ Resolve \/ \E state \in {"CANCELLED", "FAILED"} : EndElsewhere(state)
    \/ \E c \in Cancellers : AskCancel(c)
    \/ \E c \in CallerIds : CallStep(c)
    \/ \E s \in Services : RestartService(s) \/ RecoveryStep(s)

CanSpec == CanInit /\ [][CanNext]_canvars

-----------------------------------------------------------------------------
(* Properties *)

CanTypeOK ==
    /\ life \in {"ACTIVE", "WAITING", "CANCELLED", "FAILED"} /\ question \in BOOLEAN
    /\ (life = "WAITING") = question /\ HasEnded = (ending # NotEnded)
    /\ \A j \in Jobs : /\ duty[j].status \in {"QUEUED", "RUNNING", "SUCCEEDED", "FAILED", "CANCELLED"}
                       /\ duty[j].lease \in 0 .. MaxJobLeases
    /\ alive \subseteq Processes /\ over \subseteq AgentRuns
    /\ \A k \in Keys : target[k].status \in {"NONE", "PENDING", "CURRENT", "UPDATED", "RETRY_REQUIRED",
                                             "CANCELLED"}
    /\ IsFencedTask => fence.id = ending.id

\* src/README.md "Cancellation, outages, and restart recovery": once a task is fenced no
\* job, no process and no target of it comes back to life, whoever registered, observed
\* or recovered it meanwhile; and when the cleanup is called complete, every process it
\* owned has been seen to end and no target is left open.
FenceHolds ==
    IsFencedTask =>
        /\ HasEnded
        /\ \A j \in Jobs : ~IsActiveJob(j)
        /\ \A p \in Processes : owned[p].status # "RUNNING"
        /\ \A t \in AgentRuns : target[t].status \in {"NONE", "CANCELLED"}
        /\ fence.cleaned =>
              \A p \in Processes : IsRegistered(p) =>
                 p \notin alive /\ target[p].status = "CANCELLED"

\* background_jobs.py:727 "PENDING is the normal live registration state. Startup observes
\* it before polling and promotes any unresolved target to a blocking status below", and
\* MVP_IMPLEMENTATION_BACKLOG.md:91 "executes scheduled task actions and recovers safely
\* after a local process restart": a Hermes run that has ended, and was seen to have,
\* keeps no job of its task from being leased.
EndedRunsBlockNothing ==
    \A t \in AgentRuns : t \in over /\ target[t].status # "RETRY_REQUIRED" => ~Blocks(t)
=============================================================================
