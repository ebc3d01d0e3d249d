# Mathews: a verification project

Mathews drives a coding agent through delivery tasks: a *control plane* (FastAPI, SQLAlchemy,
SQLite or PostgreSQL) keeps the durable state of every task, *workers* do the background work
under leases, and a *host agent* on the developer's machine performs the few local mutations the
control plane may ask for. This directory holds TLA+ models of the parts whose correctness
depends on interleavings, crashes, retries and stale data, the TLC configurations that check
them, and TLAPS proofs of their main properties for every value of the constants.

| module | what it is | source |
|---|---|---|
| `TaskLifecycle` | the task state machine, its event log, its gates, its database triggers | `task_state_machine.py`, migration 0005 |
| `TaskLifecycleProofs` | all its properties and the refinement, proved | |
| `TaskPromise` | what every part may rely on about a task, abstractly; `TaskLifecycle`, `Approvals`, `Validation` and `PullRequests` implement it | |
| `BackgroundJobs` | durable jobs, leases, effects, late workers, fences, recovery | `background_jobs.py`, `worker.py`, parts of `reliability.py`, `steering.py`, migrations 0006 and 0008 |
| `JobPromise` | what a job promises, abstractly; `BackgroundJobs` implements it | |
| `BackgroundJobsProofs` | all its safety properties and the refinement, proved | |
| `HostOperations` | the host agent's fences, journal, guard and connection threads | `journal.py`, `dispatch.py`, `execution.py`, `server.py`, `host_gateway.py` |
| `HostOperationsProofs` | all its properties, proved | |
| `Approvals` | the questions a task waits on: requests, decisions, deadlines, briefs, learned rules | `approvals.py`, `briefing.py`, parts of `steering.py`, `reliability.py` |
| `Outages` | dependency outages and the generations of a job; extends `Approvals` | `background_jobs.py` |
| `ApprovalsProofs` | all properties of both, and what they implement, proved | |
| `PullRequests` | the draft pull request, its deliveries, readiness, hand-off, repairs of comments | `draft_pull_requests.py`, `github_webhooks.py`, `readiness.py`, `review_resolution.py` |
| `Validation` | validation runs, their verdicts, the repairs of failures | `validation_evidence.py`, `validation_decisioning.py`, `repair_loop.py` |
| `DeliveryProofs` | the properties of `PullRequests` and of `Validation`, and the refinements, proved | |
| `ScopedTools` | Hermes runs and the tool calls of their agents | `hermes.py`, `hermes_adapter.py`, `code_change_execution.py` |
| `ScopedToolsProofs` | its properties, proved | |
| `Evidence` | evidence, its bytes, index, summaries and candidates, and their deletion | `evidence.py`, `artifacts.py`, `retrieval_index.py`, `candidate_learning.py` |
| `EvidenceProofs` | its properties, proved | |
| `Workspaces` | the workspace of a task on the host and its pushes | `workspaces.py`, `git_transport.py`, parts of `execution.py` |
| `Cancellations` | cancellation, clean-up and the recovery of a service when it starts | `reliability.py`, parts of `background_jobs.py` |
| `MC*.tla`, `*.cfg` | the instances TLC checks | |
| `WorkflowProofs` | all properties of `Workspaces` and of `Cancellations`, and what the scenes of `MCWorkflow` inherit from their modules, proved | |

Every module names the source lines it translates in `PROJECT.json` under `map`. Run
`tlc -config TaskLifecycle.cfg MCTaskLifecycle` (and so on, see section 13), and
`tlapm TaskLifecycleProofs.tla` (and so on) for the proofs.

Paths below are relative to `src/services/control-plane/src/mathews_control_plane/`
(*CP*), `src/services/host-agent/src/mathews_host_agent/` (*host*) and
`src/services/control-plane/migrations/versions/`.

## 1. Inventory

How the parts interact, in one paragraph: a user creates a task over HTTP (`tasks.py`); every
change of its state is one call of the lifecycle engine (`task_state_machine.py`), which writes
the task row and exactly one event. Services (`briefing.py`, `repair_loop.py`,
`draft_pull_requests.py`, `readiness.py`, ...) schedule background jobs; a worker leases a job,
runs its handler, and every handler transaction first asks whether the lease still is current.
Handlers call providers (Hermes, GitHub) through recorded effects, and the host agent through
signed requests that carry the lease; the host keeps its own journal and its own copy of the
fence. Users steer, approve, cancel; each of these fences the jobs of the task. Recovery at
startup finishes whatever a crash left half done.

### Control plane: durable work

**Task lifecycle engine** (`task_state_machine.py`, migration 0005). State: `tasks.state`,
`escalation_resume_state`, `terminal_outcome`, `retry_count`, the bound brief and contract, the
append-only `task_events`. Operations: seventeen transition kinds through `_transition_task`,
each idempotent by transition id, each with an expected state, some with gates that are
evaluated from evidence. Hard: stale or repeated commands, ids used by two callers, proofs that
outlive the work they were about (a head, a brief, a contract), two definitions of the
transition table (engine and triggers). Correct when a command is applied once and on the state
its caller saw, when escalations return to what they interrupted, when every state past a gate
rests on evidence newer than the last change, and when terminal states are final.

**Durable jobs** (`background_jobs.py`, migrations 0006 and 0008). State: jobs, leases with
fencing tokens, checkpoints, effects, ignored results, dependency outages. Operations:
`schedule`, `claim_next`, `heartbeat`, `checkpoint`, `prepare_effect`/`record_effect_result`,
`complete`, `fail_attempt`, `pause_attempt`, `record_dependency_outage`,
`reconcile_expired_leases`, `resume_dependency_outage`. Hard: everything between two
transactions; superseded workers that go on; provider calls whose answer is lost; write guards
in the database that may refuse what the service plans. Correct when one lease owns a job, an
effect is called once, a finished job is frozen, attempts are bounded, and a job always ends.

**Worker** (`worker.py`). Startup recovery, then polling; it dies on any error it does not know.

**Cancellation and recovery** (`reliability.py`). `cancel_task` (approval decision, transition,
fence of jobs, revocation of tool grants, termination of owned processes), startup
reconciliation of cancelled and failed tasks, expired leases, processes, targets and outages.
Hard: a decision and its fence in two transactions; recovery racing live workers. Correct when
nothing goes on working for an ended task.

**Steering** (`steering.py`). Queued instructions and scope changes; a scope change moves the
task to BRIEFING and fences its work. Correct when no work of the old scope survives.

**Approvals and escalations** (`approvals.py`). Requests, decisions, expiry, resumption and
preconditions that are re-read at decision time. Hard: decide racing expire, decide twice,
preconditions that changed. Correct when a request is answered once, by what was asked.

**Briefing** (`briefing.py`). Versions of a brief, routed to auto-acceptance or to a human.
Correct when at most one unrouted version exists and the accepted one is the one shown.

### Control plane: agents, validation, pull requests

**Hermes runs and adapter** (`hermes.py`, `hermes_adapter.py`): runs of the coding agent, their
event stream, tool proposals and timeouts. **Code change execution**
(`code_change_execution.py`): a proposal becomes an authorized host operation and a recorded
result. **Validation** (`validation_evidence.py`, `validation_decisioning.py`): contracts,
candidates, runs and a verdict over them. **Repair loop** (`repair_loop.py`): counted repair
attempts with candidates and reruns. **Draft pull requests, readiness, webhooks, review
resolution** (`draft_pull_requests.py`, `readiness.py`, `github_webhooks.py`,
`review_resolution.py`): one pull request per task, a head that must stay the verified head
under duplicated, late and reordered deliveries. **GitHub client** (`github_app.py`): I/O.

### Control plane: data

**Artifacts** (`artifacts.py`): content-addressed files, put and deleted concurrently.
**Evidence, projections, retrieval** (`evidence.py`, `evidence_projections.py`,
`retrieval_index.py`): captured, corrected and deleted evidence and what is derived from it.
**Policies and learning** (`policy_activation.py`, `candidate_learning.py`,
`prompt_compiler.py`, `mvp_authority_bootstrap.py`): promotion and rollback of policy versions
along one active lineage. **Authentication** (`authentication.py`): bootstrap, sessions,
throttling, re-authentication. **Task intake** (`tasks.py`, `repositories.py`): admission and
idempotent creation. **Telemetry, schema, settings, web application**: read-only or
declarative.

### Host agent

**Journal and dispatcher** (`journal.py`, `dispatch.py`, `server.py`). State: `job_fences`,
`operations`, `request_receipts`, `deliveries`; in memory the `HostTaskGuard` locks and the
threads of the open connections. Operations: admit and reserve, replay, report ambiguity,
perform an effect under the guard, finish. Hard: requests of several leases in any order, a
kill between effect and result, a validation process that outlives the guard. Correct when no
effect is started twice, the journal never calls a failure clean that was not, and a newer
lease does not overlap an effect of an older one.

**Validation execution** (`execution.py`): the yielded process and its watch.
**Owned processes** (`processes.py`): registration and termination over two transactions.
**Workspaces and transport** (`workspaces.py`, `git_transport.py`): create, patch, commit, push
and clean-up with markers. **Preflight** (`preflight.py`). **Agent process** (`agent.py`,
`launchd.py`, `secrets.py`): start and stop.

`PROJECT.json` lists every component with its status, and every hazard at its line.

### How the modules compose

`Outages` extends `Approvals`: the question an outage asks is one of its requests. `BackgroundJobs`
implements `JobPromise`. The other modules share no variable; where one needs what another decides,
it keeps an abstract image of it, which is weaker than what the other guarantees.

The row of a task is what most of them have in common. Each of four modules keeps the part of it that it
decides about, and takes what others do to the task as actions of its environment. `TaskPromise` is what these
views agree on: the edges of the life cycle, an escalation that ends where it interrupted the work, and the
end of a task. Each view implements it:

| view of the row | mapping | first state |
|---|---|---|
| `TaskLifecycle` | `state`, `resume` as they are | `INTAKE` |
| `Approvals`, `Outages` | `state`, `resume` as they are | `BRIEFING` |
| `Validation` | one task; `stage`; `resume` while it is escalated (the variable keeps the last value) | `VALIDATING` |
| `PullRequests` | one task; `phase`; comments escalate it from `PR_ACTIVE` only | `VALIDATING` |

So a collector that gives up late, a repair that was paused, an answer to a question that was withdrawn and a
cancellation that acts on a state it read before are held against one description of the task, the one the
engine of `TaskLifecycle` satisfies. The images `mode[t]` (`BackgroundJobs`) and `life` (`Cancellations`) are
coarser than a row, and have no such mapping. The remaining images:

| image | in | made precise by |
|---|---|---|
| `mode[t]`: may the jobs of a task be claimed | `BackgroundJobs` | `TaskLifecycle`, `Approvals` |
| `grant`, `facts`, `green` of a gate are free | `TaskLifecycle` | `Validation`, `PullRequests` |
| any request of any lease may reach the host | `HostOperations` | `BackgroundJobs`, `ScopedTools` |
| the host answers, refuses or is not heard | `ScopedTools` | `HostOperations`, `Workspaces` |
| a candidate is a number, and passes or not | `PullRequests` | `Validation` |
| a handler is called once per lease, and may stop | `Validation`, `Cancellations` | `BackgroundJobs` |

## 2. TaskLifecycle

| model | code |
|---|---|
| `state`, `resume`, `outcome`, `retries`, `brief`, `contract` | the columns of a `tasks` row |
| `events` | the `TASK_STATE_TRANSITION` rows of `task_events` |
| `inflight` | commands that callers still hold: a read state, a kind and an id |
| `Issue` of a `Sendable` command, `Forget` | a caller reads the task and decides to send a command that is legal in the state it read; it gives up |
| `Deliver` | one whole `_transition_task`: lock, replay by id, expected state, engine, gates, event, row |
| `StoreBrief` | `BriefingService._store_version` binds a brief |
| `BindContract` | the contract of the accepted brief is bound (external: the column is written outside this engine) |
| `LifecycleProjection`, `LegalLifecycleEdge`, `EventEdge`, `TriggersAccept` | the SQL of migration 0005, translated on its own |

A command that replays or is refused changes nothing and is therefore a stutter; `Forget` lets
it go, and a command that is not forgotten may be delivered again. Gates: the engine's own
conditions (heads, brief status, contract) are in the model; what an evaluator finds in evidence
is an input (`grant`, `facts`, `green`). Briefs and contracts carry the *scope* they were written
for, the number of `SCOPE_STEER` events before them, which is what makes staleness visible.

Properties: `CommandsApplyOnce`, `ResumeReturns`, `PullRequestIsVerified`,
`OfferedHeadIsVerified`, `WorkHasAcceptedBrief`, `ContractIsOfScope` (invariants),
`EngineSatisfiesTriggers` (action property); `TerminalIsFinal` is proved and not checked. `EngineSatisfiesTriggers`
compares two independent definitions in the code: whatever the engine plans, the triggers let
through, so no accepted command ends as an `IntegrityError`.

**Proved** (`TaskLifecycleProofs`, for any tasks, heads, ids and number of commands): type
correctness and every property above. The inductive invariant `IInv` adds to the checked
invariants what the engine relies on silently: the log is a path that ends in the stored state
(`LogIsPath`), the row satisfies the projection trigger (`RowsWellFormed`), a bound brief is of
the current scope (`BriefIsOfScope`), and while a pull request exists one draft gate of the log
verified the head that every later event carries (`PullRequestHead`). The last one is what makes
`OfferedHeadIsVerified` inductive: the readiness gate compares with the *newest* recorded head,
and only the path argument shows that this is the head of that draft gate.

`PromiseIsKept` is the refinement `Spec => TaskKeepsPromise`: every command that applies is one step of
`TaskPromise`, and every replay, refusal and brief a stutter. It needs `RowsWellFormed`, which says that an
escalated row, and no other, names a state of work to resume.

## 3. BackgroundJobs and JobPromise

| model | code |
|---|---|
| `mode[t]` | what the state of a task allows its jobs: claimable, held by an approval or escalation, ended |
| `job`, `leases`, `checkpoints`, `effects`, `ignored` | the tables of migration 0006; a lease's token is its position |
| `provider` | what a provider really did (ghost): outcome and number of calls |
| `target`, `outage` | what a job leaves that bars its task: the worst of its `reconciliation_targets`; an exhausted outage nobody resolved |
| `worker` | a worker's position in `run_once` and `perform_effect`, with its copy of the grant |
| `Schedule`, `ClaimNext`, `ClaimNothing` | `schedule`; `claim_next` with the exhausted jobs it fails on the way |
| `Expire` | the clock passes a lease's expiry; heartbeats only postpone it |
| `Checkpoint`, `Prepare`, `Execute`, `Reconcile`, `Record`, `Ignore`, `Lose` | the transactions and provider calls of a handler, and what a lost lease turns them into |
| `Register` | the job starts a Hermes run or a process of its own, which recovery will ask about |
| `Complete`, `Raise`, `PauseAttempt` | the three ways a handler returns; the last dependency failure is an outage |
| `Crash`, `Restart`, `ApiRestart` | a process dies anywhere; startup recovery, which observes the targets (`Observe`) |
| `Hold`, `Resume`, `SteerScope`, `Cancel`, `End`, `FenceEnded` | what other services do to the jobs of a task |
| `JobUpdateAccepted`, `LeaseInsertAccepted` | the guards of migrations 0008 and 0006, translated on their own |

Between two transactions a worker knows only its grant. Every action of a handler is one
transaction or one provider call, and a provider's answer may be lost (`Execute` with
`answered = FALSE`).

`claim_next` passes over every job of a task that one of its jobs bars (`Barred`): an exhausted outage that
is not resolved, a target that recovery found `UPDATED`, `RETRY_REQUIRED` or `QUARANTINED`, or a `PENDING`
target whose job let its lease run out. The last kind can be cleared only by a recovery, and what a recovery
finds is up to Hermes and the host, so the model lets it find anything (`Observe`).

Properties: `LeaseIsExclusive`, `OwnerIsCurrent` (invariants);
`WritesAreAccepted` (an action property: no claim, heartbeat or ending that the service plans is
refused by the insert guard of leases and the update guard of jobs; the update guard of leases, 0006:301, is
not among them); `AttemptsAreLeases`, which the guard of a lease demands, and
`FinishedJobIsFrozen` are proved and not checked;
`PromiseKept`: under the refinement mapping in the
module `BackgroundJobs` implements `JobPromise`: an effect is performed at most once, a recorded
result is the provider's, a job ends once, and succeeds only with everything recorded;
`JobsEnd` (liveness).

**Fairness.** `SF(Claim(w))` for each worker: one that polls again and again while a job is there claims one,
although in between it is busy or dies (its loop sleeps and polls again, `worker.py`). `WF(Expire)`: clocks
run and a lease ends, also that of a handler that hangs, because the loops that renew it have deadlines.
Nothing is assumed of handlers, providers, users, or of whoever starts a dead process again: the repository
has nothing that does. What `JobsEnd` needs of them it says itself: *if* the task stays runnable and is not
barred for good, and *if* again and again some worker is free to poll, then each of its jobs ends. Both are real
conditions. Without the first the property is false, as TLC finds when it is left out: a target of an ended run
bars its task for ever, which is finding 6. Without the second nobody is left to claim anything.

Simplifications: retry delays, heartbeats and all times are the freedom of *when* an action
happens; a job never has two tasks; every worker process has the handlers of all job types, so the filter of
`claim_next` by type is left out; a job keeps the worst of its targets, and how an outage is asked about,
answered and continued is in `Outages`, how targets are observed in `Cancellations`; `MaxCheckpoints` bounds
the counter. In the runs only one job at a time bars the task, in `job_liveness` always the same one of the two
(`OneStarter`), and the instance of `job_safety` with effects has no bars.

**Proved** (`BackgroundJobsProofs`, for any jobs, tasks, workers, keys, attempts and checkpoints): type
correctness, the five safety properties and the refinement `Spec => PromiseKept`. The inductive
invariant has two layers.

* `Held` is about rows and grants. `Rows` says that the current lease of a running job is its own,
  unreleased and newest (`Leased`), that an unreleased lease is current (`Owned`), and that attempts
  count the leases (`Counted`); grants point to leases of their job (`Granted`) and no two workers hold
  the same token (`OneGrant`). Some fifteen actions touch the rows, but in five ways only (`RowSteps`):
  not at all, by scheduling, by a clock, by a claim, or by a *departure*, some jobs leaving the queue or
  their leases in one of the ways the trigger of migration 0008 lists (`Leave`, `Departures`). Each of
  the five is shown once to keep `Rows`, to only add, release and run out (`RowsGrow`), and to pass the
  triggers.
* `Work` is about effects. `Known` relates the stored status of an effect to what the provider did,
  `Engaged` says what a worker in the middle of `perform_effect` may rely on *even after it lost its
  lease*, `OneCaller` that nobody else is about to make the same call, `Owner` that an owner's copy of
  the version is current. It needs the first layer through two consequences: who owns a job after a
  step owned it before (`OwnersStay`), and nobody else does (`OneOwner`). `Engaged` and `OneCaller` are
  what makes "at most one call" inductive: an effect is called by the worker that found it absent, who
  alone made it pending, however late the call comes.

The refinement follows step by step: a provider call is `Perform`, a recorded result `Record`, and any
other step `End` with the endings it brings, possibly none. On the way the proof shows finding 1 in
general: the guard refuses *every* pause (`PauseIsRefused`).

## 4. HostOperations

| model | code |
|---|---|
| `passed`, `Tick`, `Over` | time: how many of a lease's extensions the clock has overtaken |
| `fences`, `operations`, `receipts`, `deliveries` | the four tables of the journal |
| `guard` | who is inside the `HostTaskGuard` of a job |
| `thread` | a connection thread's position in `_dispatch_validated`, its `effect_attempted` flag and its answer |
| `effects` | ghost: how often the effect of an operation was started |
| `Receive`, `Respond` | a verified request of any lease arrives; its answer leaves or its connection is gone |
| `Refuse`, `Reserve`, `Replay`, `Unsettled` | the outcomes of `begin` |
| `Read`, `FailEarly`, `Enter`, `Decline`, `Mark`, `Perform`, `Leave` | handlers: read-only, plain, and staged (marked as attempted only at the first mutation) |
| `Launch`, `Watch`, `Capture` | the yielding handler: start a process under the guard, release it, watch, assert again |
| `Finish`, `FinishFails` | `finish` |
| `Crash` | the agent is killed and started again; unfinished rows stay `RUNNING` |

Any request of any lease may arrive at any moment, which covers loss, repetition, reordering and
delay, and also requests that the control plane would no longer send. Journal failures are part
of `Refuse`, `Failed` and `FinishFails`, which need no reason. Simplifications: only requests
under a task lease (system and repository requests use the same journal without a fence); one
guard per job (lock stripes shared by several jobs only block more); lease id, worker and attempt
follow from the token, so the configuration conflict they could cause is left out; validation
processes that survive a killed agent are not followed; the capacity of six processes is left out.

Properties: `EffectsHappenOnce`, `JournalIsTrue`, `GuardedEffectIsCurrent`, `AnswersAreAccepted`
(invariants), `ResultsAreFencedAndFinal` (action property). `AnswersAreAccepted` ties the host to
the gateway: every answer passes `host_gateway.py`'s check of the execution token and agrees with
the row in the journal.

**Proved** (`HostOperationsProofs`, for any jobs, leases, extensions, operations, contents, ids and
threads): type correctness and all five properties. The invariant says of each thread where it
stands (`Fits`): from `Reserve` to its answer it owns a `RUNNING` row of its request (`OwnsRow`), its
stage says whether the effect happened (`Progress`), under the guard its lease is the newest
(`HoldsGuard`), and its answer is in the journal (`Accepted`). `Alone` says that no two threads work on
one operation, which is what makes a handler's knowledge stable: without it a second thread could
start the effect that the first one is about to report as not done. `True` and `Delivered` say what
the tables hold. The proof has two frame lemmas: `ThreadSteps` for steps that leave the journal
alone and `JournalSteps` for `Reserve`, `Replay`, `Unsettled` and `Finish`; under them each action
needs only what it does to its own thread.

## 5. Approvals and Outages

| model | code |
|---|---|
| `state`, `resume`, `brief`, `versions` | what approvals touch of a `tasks` row and its briefs |
| `request`, `event` | `approval_requests`; the transitions that answers made, by id |
| `status`, `rules`, `policy`, `intact` | rule candidates, the rules made of them, the policies of the lineage in the order of their activation, the evidence that stands: what a candidate cites and what supports a request |
| `due`, `listed`, `cancelling` | the clock; what the expiry sweep and `cancel_task` read before they act |
| `Request`, `Decide`, `ListExpired`, `ExpireNext`, `CancelRead`, `CancelTask` | `request`; `decide` with its replays and preconditions; the sweep; `cancel_task` up to its transition |
| `StoreBrief`, `AutoAccept`, `Steer`, `Work` | a brief and its routing in two transactions; steering; work that goes on |
| `LoseEvidence` | the owner corrects evidence or asks for its deletion |
| `Rollback`, `PromotePrompt` | the other two that activate a policy: the one before the active one again, or the active rules with another prompt |
| `outage`, `parent`, `calls`, `OutageNext` | `dependency_outage_attempts`, the generations of a job, the running `reconcile_outage_escalation` |

A question is asked with preconditions that are read again when it is answered, and an answer is a
transition of the task, a rule or a new job generation besides. Of the ten request types three are
used, `BRIEF`, `RETRY_LIMIT` and `REVIEW_RULE`; the others share their control flow.

Properties: `WaitingHasOneQuestion` (a task in a waiting state has exactly one pending question),
`WaitingCanBeReleased` (while the evidence of that question stands it can be cancelled or expired, whatever
became of its subject and of the policy), `WorkRestsOnApproval`
(no work on a brief that needed a human answer and got none), `DeadlineHolds` (after its deadline a
question only expires, however late or early the sweep looked), `RulesInForce` (what is in force of a lineage of
rules, below), `RetryResumesOnce` (a RETRY is accepted only for an
outage that is linked to it, and starts one new generation), `WaitKeepsPromise` (the module implements
`TaskPromise`: no answer, expiry or cancellation, however late, moves a task along another edge or out of
its end).

*Evidence.* Every decision, CANCEL and EXPIRE included, is a transition that cites the evidence of the
request, and `_verify_transition_evidence` (`task_state_machine.py:619`) refuses it once that evidence was
corrected or has a deletion request (`EvidenceStands`, `Admitted`). A task that waits on such a question waits
on: the owner's answer, the sweep and `cancel_task`, which answers the pending question, are all refused. A
task in `BRIEF_PENDING_APPROVAL` can still be freed by a change of scope; an escalated task cannot be steered
and has no way out. `WaitingCanBeReleased` shows that lost evidence is the only thing that can do this.

*Rules.* Three services activate policies of a lineage: an approved rule (`PromoteReviewRule`), a prompt
(`PromotePrompt`), and `PolicyActivationService.rollback` (`Rollback`), which copies the rules of the policy that
was active before the active one. So in force of a lineage is its newest rule, or, if the very next activation
after it was the rollback that took it back, what was in force before it. A rule that survived one more
activation can no longer be rolled back, since that rollback restores a policy which has it; this although the
provenance of a rule names `ROLLBACK_ACTIVE_POLICY_VERSION` as the way to revoke it. Only a newer rule of its
lineage replaces it.

What the model shows besides: the escalation of an outage and its link to the outage are two
transactions. When the process dies between them, startup asks again in the state the question has
brought the task to (`background_jobs.py:1853`), which is refused as a different request. The question
then cannot be answered with RETRY and the task waits until somebody cancels it or it expires, although
the repository's README.md:169 says that startup finishes incomplete escalations.

**Proved** (`ApprovalsProofs`, for any tasks, requests, decision ids, candidates, lineages and jobs): all of
these properties, the type invariant and the action property `DeadlineHolds` included. None is inductive
by itself. The invariant `IInv` adds what an open question promises about its task: the question names the
state it put the task in and the state an answer returns it to, and there is one of them (`Asks`,
`Waits`); work that a wait interrupted rests on the same brief as work that goes on (`Rests`); and a
`cancel_task` that read no question before it acts read a task that did not wait (`Found`), else its
transition would leave the question behind. For learning it says that the version of a rule counts the
rules of its lineage up to it (`Learned`), that every policy ever active has at most one rule of a
lineage, and that the newest rule of each lineage has its ground in *both* policies a next activation may go by,
the active one and the one before it (`Held`, `Standing`): a rollback makes the second the first again. With
that, rollback and prompt promotion are one lemma (`RepeatKeeps`), and a promotion is the same for all lineages
but that of the new rule. `WaitKeepsPromise` needs two facts more: a task that
is worked on has no state to resume (`NothingToResume`), and the state a `cancel_task` read is one of a task
that had not ended (`FoundAlive`), so that a cancellation whose second transaction finds the same state
ends a task that is alive. For outages, `Bound` ties a RETRY to the link and to exactly
one continued job, and `Carried` says what a call of `reconcile_outage_escalation` may have done before it
stopped. `OutageNext` has neither lost evidence nor activations of policies, which do not touch a job.
`OutagesAreApprovals` is the refinement: with the jobs beside them, every step is one of
`Approvals` or leaves its variables alone, so its theorems hold whatever fails, retries and dies, the
promise of the task included (`OutagesKeepPromise`).

## 6. PullRequests

| model | code |
|---|---|
| `phase`, `retries`, `local`, `verdict` | of the task: state, repairs, head of the workspace, the head whose validation passed |
| `opening`, `opened` | the position in `open`; the head of the last `OPEN_VERIFIED_DRAFT_PR` |
| `log`, `sent`, `delivery` | recorded GitHub events; what GitHub sent, in the order it happened; what became of each delivery |
| `jobs` | wake-ups and the calls they make, each with what it has read |
| `approvals`, `repairs`, `version`, `assessed` | review requests, review-resolution jobs, the active policy, assessed comments |
| `remote`, `pull` | GitHub |
| `Push`, `EnsureDraft`, `CaptureProof`, `Bind`, `Activate`, `OpenFails` | the steps of `VerifiedDraftPullRequestService.open` |
| `Receive`, `Process` | a delivery is stored; it is correlated, superseded, quarantined or accepted |
| `WakeWorkflow`, `ReadFacts`, `Reconcile`, `InvalidateFirst`, `AcknowledgeHandoff` | `readiness.py`: facts are read outside of the lock and looked at again under it |
| `AssessComment`, `ScheduleRepair`, `Answer`, `ResumeApproved`, `BeginRepair`, `CommitRepair`, `Revalidate`, `RepairFails` | `review_resolution.py` |
| `OtherPush`, `ToggleDraft`, `Update`, `ActivatePolicy`, `Decide` | GitHub's users, the owner of the policy, validation |

Deliveries are received and processed in any order, repeated and late; time is that of GitHub, and
two updates may carry the same second. `IsReady` translates the assessment as the code makes it, over
the log. There is one required check, one reviewer and one review thread, and a dismissed review counts
as an approval (both remove a change request). Retries that only meet the same network error again
are left out, leases of the jobs are those of `BackgroundJobs`, and cancellation is in `Cancellations`.

Properties: `StaleReadinessIsWoken` (a task that is called ready and is not has somebody on the way
to take it back: no interleaving of reads, refused transitions and new events leaves nobody),
`HandoffIsExact` (what was handed off is ready, for the head that was published, and stays it),
`RepairsAreAuthorized` (a repair starts under what the policy says at that moment, about the head there
is). `RepairsArePushed` is violated, finding 5.

**Proved** (`DeliveryProofs`, second part, for any comments, rules, policies, deliveries and commits): type
correctness and the three properties. The invariant follows who may change what readiness is judged by.
While a task is called ready nothing is published (`Published`), nobody is asked (`QuestionsAsked`) and every repair has
failed (`Settled`), so only a recorded event changes the facts, and it brings a wake-up that has read nothing.
A wake-up that has read keeps watch only while what it read is still so (`Watches`); if it is not, an
event came since, and that one's wake-up watches. For the hand-off, the head that was opened is the head of the
workspace (`Exact`), because commits are made only while one repair is at work (`OneAtATime`). For repairs,
what allows one is a one-off approval or a rule made for its comment, from its assessment on (`Matched`);
that the rule still is in the policy is what `MayRepair` asks again. `PullRequestsKeepPromise` is the
refinement of `TaskPromise`.

## 7. Validation

| model | code |
|---|---|
| `stage`, `resume`, `paused`, `spent`, `attempts`, `made` | of the task: state, state to resume, repairs, the transitions to VALIDATING with their candidates, the commits |
| `work` | the collection job of a run with what its handler has read |
| `run`, `spoiled` | validation runs with their decisions; runs whose evidence was corrected or is gone |
| `asked`, `mends` | requests after a failed validation, and repair jobs |
| `HandIn`, `Precheck`, `StartCollect`, `VerifyArtifacts`, `Persist`, `ReplayRun`, `BindLegacy` | `validation_evidence.py` |
| `Assess`, `Decision`, `DecideRun` | `validation_decisioning.py` |
| `LeaveCheckpoint`, `ScheduleMend`, `AskRetry`, `EnqueueMend`, `HumanRetry`, `AnswerRetry` | scheduling of a repair in `repair_loop.py` |
| `BeginMend`, `RunHermes`, `CommitCandidate`, `RecordCandidate`, `RevalidateMend`, `RequestRerun` | the repair job |
| `CollectorStops`, `MenderStops`, `PauseValidation`, `SpoilEvidence` | crashes, escalations of others, corrections of evidence |

`Assess` is the verdict over operations, typed assertions, criteria and required evidence, in the
order of the code. Contract, configuration and brief are constant; a job is leased to one worker at a
time; result sets the parser refuses are not enumerated.

Properties: `VerdictsAreNotCarriedOver` (a verdict that passes or fails rests on results for the very
attempt and candidate it was decided in), `RepairsAreEarned` (repairs nobody was asked about are
within the budget and about different failures; a RETRY is spent on one repair, a candidate is repaired
once).

What the model shows besides: after a decision RETRY nothing in `src/` calls the scheduling of the
repair again (`repair_loop.py:216`), only a test does, so `HumanRetry` is an action without fairness. A
collection whose run was persisted and one of whose records was corrected before the job ended cannot
be replayed and the job fails for good (`validation_evidence.py:1725`).

**Proved** (`DeliveryProofs`, first part, for any runs, operations, criteria, results, budgets and pauses): both
properties, type correctness and the refinement of `TaskPromise`. `_run_is_current` compares the candidate of a run with the task's and not its attempt, so that
a verdict stays with its attempt needs that no two attempts have one candidate (`Attempted`). That holds
because a repair has its commit to itself until it revalidates it (`Mended`, `Unshared`), through crashes
and replays of its job, and because a first attempt that named no candidate takes the one handed in for
it while nothing is repaired. For `RepairsAreEarned` the invariant `RInv` adds that a candidate that is
being validated is not being repaired (`Unrepaired`), that the repairs which name one answered question
are for one candidate, also those about to be enqueued (`OneCandidate`, `Naming`), and that the counter of
the task counts the repairs that have begun (`Counted`). Type correctness includes
that the budget was spent by the repairs that began and by no other. The refinement needs that the state to
resume is always one in which validation or repair was under way (`Staged`).

## 8. ScopedTools

| model | code |
|---|---|
| `lease`, `granted`, `editing`, `preflight` | which attempt owns the job; may the task be edited; is the repository ready |
| `hermes`, `grant`, `heard` | Hermes runs, their tool grants, the sequence of events they heard |
| `agent` | what happened at Hermes: events said, results told, stopped |
| `handler` | the position of each attempt's handler, also of one whose lease is lost |
| `decided`, `results` | decisions and results of tool calls |
| `applied` | what the host carried out (ghost) |
| `PrepareRun`, `StartAgent`, `RecordStarted`, `Poll`, `Hear`, `HearStatus`, `ProjectFailure`, `FailDependency` | `hermes.py`, `hermes_adapter.py` |
| `Authorize`, `CheckStillAuthorized`, `DispatchToHost`, `RecordResult`, `SubmitResult` | `code_change_execution.py` |
| `Lease`, `LoseLease`, `WorkerDies`, `StopEditing`, `PreflightGoesStale`, `Propose`, `AgentFinishes` | the environment |

Properties: `NoSilentEffect` (what the host carried out was authorized, and no record says that nothing
was done), `SuccessIsAnswered` (a run that is recorded as succeeded answered every proposal it heard).

`Tries` is `_HOST_RECONCILIATION_ATTEMPTS`, 3 in the code and 2 in the instance: the first and a
repeated request. The brief, the tool policy and the configuration are constants; the host is external
here and carries out a call at most once, which is `EffectsHappenOnce` of `HostOperations`.

**Proved** (`ScopedToolsProofs`, for any attempts, proposals, policies and answers of the host): type correctness
and both properties. A call is written only by the handler of its attempt, so the invariant
follows each call through that handler (`Makes`): what the handler is at says what may be recorded
still. A call that the host carried out is told of by a result, or its handler is about to record one,
or the handler died and left no final result. For success the invariant adds that an agent that is
done was told of everything it said, each time after a result was recorded (`Talks`). The type says how
many results a call has, which no guard asks: until it is answered one for each try that is over, and
a handler comes back only to the call it is at (`Tried`).

## 9. Evidence

| model | code |
|---|---|
| `record`, `derivative`, `index`, `candidate`, `projection` | evidence rows with request and tombstone; chunks and summaries; the current generation; rule candidates; the task's request |
| `store` | the addresses that have bytes |
| `capture`, `deletion`, `rebuild`, `summary` | each service in the middle of its work |
| `Capture`, `Correct`, `CommitCapture` | bytes first, then the row |
| `RequestDeletion`, `FinalizeDeletion`, `DestroyBytes`, `CommitDeletion`, `ResumeDeletion` | the fence, and the destruction with its tombstone |
| `OpenRebuild`, `IndexRecord`, `RetireIndex`, `CommitRebuild`, `Sweep`, `DeleteIndex` | a rebuild of the index and what it retires |
| `PutSummary`, `CommitSummary`, `CreateCandidate`, `DecideCandidate` | learning |
| `AbortCapture`, `AbortDeletion`, `FailRebuild`, `AbortSummary`, `Stop`, `Start` | rollbacks, a stop of the process with what startup finishes |

Bytes are written and deleted outside of the transactions, so each writer is at least two steps, with
its row locks held in between. One task; one chunk of a record in a generation; rows have
addresses of their own, because the envelope of each holds its id. Access classes, redaction,
ranking and the audit log are left out; a deadlock of row locks is an abort.

Properties: `RowsHaveBytes` (what a row still names can be read), `DeletedIsDestroyed` (after the
tombstone neither bytes nor a live derivative nor an undecided candidate remains). The second excepts
chunks a rebuild had retired and not yet deleted when the process stopped: nothing deletes them later.

**Proved** (`EvidenceProofs`, for any records, summaries, candidates, deletions at once, rebuilds and
stops): type correctness and both properties. The store is outside of every transaction, so the invariant says of each
writer, between its bytes and its commit, what it has done to the store and why nobody undoes it:
an address is used for one row only (`WellShaped`, `Aged`, `Unique`), so a deletion or a sweep deletes
nothing of another; and the records a summary or a rebuild holds have no deletion request while they are
held (`Summarizes`, `Builds`), so what they write is not to be destroyed. A deletion knows every live
derivative of its record from the moment it takes its locks (`Deletes`), since a record with a request
is not cited or indexed any more. The types add that nothing has a time after the clock (`Timely`),
and that there are as many ids as derivatives, for which these have to be finitely many (`Finite`).

## 10. Workspaces

| model | code |
|---|---|
| `manifest`, `recorded` | the ownership record; the candidates it has ever named (history) |
| `branch`, `worktree`, `staged`, `files`, `commits` | the repository on the host |
| `op` | the operation that holds the lock of the registry, and its next write |
| `push`, `published` | pushes between their two looks at the manifest; GitHub |
| `BeginCreate`, `ResumeCreate`, ..., `RecordActive` | `create`, and its repetition after a crash |
| `ApplyFileChanges` | `git.apply_patch` |
| `BeginCommit`, `Stage`, `RecordOwnership`, `ReadTree`, `UpdateRef`, `UpdateFails`, `Verify`, `Undo...` | `commit` write by write, with its compensation |
| `BeginPush`, `Send`, `SendFails`, `CheckPush` | `push` |
| `BeginCleanup`, `RemoveWorktree`, `DeleteBranch`, `RecordCleaned` | `cleanup` |
| `StartRun`, `RunWrites`, `EndRun`, `Interrupted` | a configured validation run writes to the tree without the lock; the agent dies |

The contents of a path are a number. Identity, filters and the remote's address are left out,
as are operations that only read. Two pushes at once are of different jobs, as the guard of
`HostOperations` has it. `workspace.create` and `workspace.cleanup` have no caller in the control plane
of this commit; they are modelled because the host offers them.

Property: `ManifestIsTrue`. Wherever the agent dies, the branch is on the base or on a commit the
manifest has named, none of them changes a prohibited path, and what is not owned is gone. For the
first candidate the manifest names the branch's commit *now*; the interrupted commit of a repair leaves
the branch on the candidate before, which the manifest has forgotten.

**Proved** (`WorkflowProofs`, second part, for any paths, contents, callers and number of commits): type correctness
and `ManifestIsTrue`. The invariant says for every write of an operation what has been done by then
(`Lifetimes`, `Based`, `Harmless`, `Named`, `OutcomesSettled`), so that a death right there leaves what the property
promises: while the branch may move the manifest already names the commit, and an undo finds the
branch where the commit found it.

## 11. Cancellations

| model | code |
|---|---|
| `life`, `question`, `ending`, `fence` | of the task: state, open request, the event that ended it, the `task_cancellations` row |
| `duty`, `owned`, `target`, `over`, `alive` | jobs with their leases, owned processes, reconciliation targets, ended Hermes runs, processes at the host |
| `call` | the calls of `cancel_task` and `resume_cleanup` |
| `boot`, `page`, `boots` | the recovery of each service, and the targets it has read |
| `ReadTask`, `DecideCancel`, `FenceTask`, `FenceRefused`, `ReadProcesses`, `TerminateOwned`, `CompleteProcessCleanup`, `FinishCancellation` | the transactions and requests of a cancellation |
| `RestartService`, `RecoverLeases`, `RecoverUnfenced`, `RecoverCleanups`, `ReadTargets`, `RecordTarget` | startup recovery |
| `LeaseJob`, `ExpireLease`, `EndLease`, `StartAgentRun`, `StartProcess`, `RegisterOwnedProcess`, `EndProcess` | the work that goes on meanwhile |

One task, and the two kinds of target that are registered. The fence of tool grants is in `ScopedTools`,
that of outages in `Outages`; pages of a recovery are snapshots.

Property: `FenceHolds`. Once a task is fenced, no job, process or target of it comes back to life,
whoever registered, observed or recovered it meanwhile, and a complete cleanup has seen every process
end. `EndedRunsBlockNothing` is violated, finding 6.

What the model shows besides: a service without an adapter (the API) marks targets `RETRY_REQUIRED`,
which blocks the task's jobs as well; no service is built with a terminator and nothing outside the
tests registers an owned process, so `Terminators` and `Processes` describe what the code offers. After
a crash between the decision and the fence, a repeated cancellation with another reason conflicts with
the one that startup completes.

**Proved** (`WorkflowProofs`, first part, for any jobs, runs, processes, callers, services and restarts): type
correctness and `FenceHolds`. Two facts carry the argument between transactions: a cancelled target
has a later version than any recovery has read (`Read`), so a page read before the fence is refused when
it is written; and a process that a call has seen end does not run again (`Knows`), so what the
cleanup records of it is still true.

## 12. Scenes

Modules that share no state would multiply their states in one run. `MCWorkflow` and `MCApprovals`
therefore have a constant variable `scene`, which says which of them moves. Every scene is explored to
the end within its bounds, all with the same properties. Some restrict a module's next-state relation,
because its full product of behaviours is too large:

| scene | what happens | restricted to |
|---|---|---|
| `questions` | briefs and escalations of one task, whose evidence may be lost while they are open | three requests; one change of the policy |
| `rules` | rule candidates of one lineage on two tasks, whose evidence may be lost | two requests |
| `policies` | the same candidates under rollbacks and other prompts | two requests; answers in time and with the password |
| `outages` | three generations of a job | |
| `readiness` | a pull request becomes ready, anything takes it back, it is handed off | one publication; updates after it is ready |
| `repairs` | comments, rules, approvals, a change of the policy | comments when no delivery is on its way |
| `validation` | two runs, their verdicts and repairs | the second run is leased once and handed decisive results |
| `one attempt` | an agent with two proposals loses its lease, its task or its preflight | one lease |
| `two attempts` | a second attempt beside the handler of the first | one proposal |
| `index` | two rebuilds, deletion, a restart | no learning; one rebuild where there is a restart |
| `learning` | summaries and candidates beside deletion and a restart | no index |
| `workspace` | everything | two commits |
| `cancellation` | a cancellation beside the recoveries of two services | the second recovery starts once the task is fenced |

A restricted scene only has fewer behaviours of its module, so nothing it refutes is spurious. For the
nine scenes of `MCWorkflow` that is a theorem (`WorkflowProofs`, third part): `ScenesAreBehaviours` says that a
behaviour of the scenes is one of every module in it, and `WorkflowTypesHold` follows from the six type
theorems. It needs two assumptions about the instance: the proposal both attempts make is one of
`Proposals` (`SceneAssumption`), and no comment is named like another fact of GitHub (`CommentAssumption`).

## 13. Runs

| run | instance | question |
|---|---|---|
| `task_lifecycle` | two tasks, two heads, eight commands, two in flight | every walk of the engine, long enough for draft gate, readiness, repair and a second draft gate with the other head |
| `job_safety` | two jobs or two effects of one job, two workers, two attempts | claims, takeovers, crashes, fences, late results, against the write guards and the promise |
| `job_liveness` | two jobs of a task that does not end, two workers, two attempts | jobs compete, workers die, one job bars the task for a while: each ends |
| `host` | one job, two leases with two extensions, two ids, two threads, an operation of each kind | effects, journal and fences under renewal, expiry, takeover, repetition, kill |
| `approvals` | the scenes `questions`, `rules`, `policies`, `outages` | is every question answered once, by what was asked, in time, and does its task keep the promise of a task |
| `workflow` | the other nine scenes, some two million states | does each part keep its word under the interleavings, crashes and late messages of its scene |
| `job_pause`, `task_cancel`, `late_results`, `host_takeover`, `repair_push`, `restart_blocks` | the smallest instance that shows it | the findings below; TLC is expected to find a violation |

Why these bounds suffice: the lifecycle engine has no interaction between tasks but the ids, so two
tasks matter only for `CommandsApplyOnce`; eight commands reach a repaired and re-verified pull
request, the longest dependency between a proof and its use. Two workers and two attempts are an
owner and a latecomer. Two effects of one job are needed because `prepare_effect` refuses a second
unresolved one. On the host two leases are an old and a new one, two threads are two requests at once,
and two ids separate a repetition from a new request for the same operation. A pull request needs
two commits, since a repair is the second; three deliveries are the check, one change and its
successor or competitor. Two validation runs are two of one candidate or one of each of two; two
attempts of a job are a handler that lost its lease and its successor; two records and two builds are
a source with its correction, and an index with its successor. Two recoveries and a cancellation are the
three callers the clean-up has. The theorems do not depend on any of these bounds.

Bounds on counters: `MaxInflight`, `TransitionIds`, `MaxAttempts`, `MaxCheckpoints`, `MaxExt`, `MaxBriefs`, `MaxPolicies`,
`MaxCommits`, `MaxSent`, `MaxLeases`, `MaxCandidates`, `Pauses`, `MaxBuilds`, `MaxRestarts`,
`MaxCandidateCommits`, `MaxJobLeases`, `MaxBoots`. They stop a behaviour early rather than forbid a kind of
step; budgets (`Budget`, `RepairBudget`, `MaxAttempts`) are the code's own limits.

Symmetry is used over interchangeable model values (workers, jobs of one task, keys, threads, ids,
tasks, requests), never in a liveness run. Transition ids are numbers and fresh ones are drawn in order
(`MCTaskLifecycle!Issuable`), since the name of an unused id carries no information. Deadlock is checked
in `host`; the others may really stop: all tasks ended, all jobs final, ids or bounds used up.

**Fairness** is stated in one specification, `BackgroundJobs!LiveSpec` (section 3). The other modules
state none: their progress depends on people, GitHub, Hermes or a restart, for which the code gives no
guarantee.

Each property has a mutant in the modules (`X_Something` before `X`): the change of the code that it
would catch, such as a claim of an unexpired lease (`Claimable_Unexpired`), a repeated provider call
(`NextStage_CallAgain`), a branch that moves before the manifest names its commit (`StepAfter_RefFirst`),
or a derivative that is not followed to what cites it (`Derived_Direct`).

## 14. Findings

1. **A pause costs an attempt and the worker** (`job_pause`). `pause_attempt` is documented to release
   the lease "without spending retry budget" and writes `attempt_count - 1`; the update guard of
   migration 0008 refuses any update of a running row that lowers the count. The `IntegrityError` is
   caught by nobody, the worker process ends, and the attempt is spent when the lease expires.
2. **A cancelled task may still have work** (`task_cancel`). The repository's README says that
   cancellation revokes leases and tool grants in the same transaction. It does without a pending
   approval; with one, the decision is committed first and the jobs are fenced afterwards (or, from the
   approval inbox, at the next start).
3. **Of several late results one is kept** (`late_results`). The key of an ignored result names job and
   effect only, so a second superseded attempt of the same effect leaves no evidence.
4. **A takeover does not wait for a validation process** (`host_takeover`). LAUNCHD.md says a higher
   token cannot take over while an effect is in progress; a configured validation run yields the guard
   once its process runs, and the process is killed at its next check of the fence. Effects under the
   guard do wait: `GuardedEffectIsCurrent` is checked and proved.
5. **The repair of a review comment never reaches the pull request** (`repair_push`). Every candidate is
   committed with the frozen base as its parent, also a repaired one, and pushes are not forced: the
   branch at GitHub holds the first candidate, which is no ancestor of the second, and the push is
   refused. The backlog says that the system updates the draft after a repair.
6. **A restart of the worker stops every task that has run Hermes** (`restart_blocks`). Startup marks the
   target of a run that has ended `UPDATED`, `claim_next` leases no job of a task with such a target, and
   nothing but steering or the end of the task takes the mark away.

## 15. What is proved and what is only checked

Assumptions on constants: `LifecycleAssumption`, `JobsAssumption` and `NullAssumption`,
`HostAssumption`, `WorkspaceAssumption`, `CancellationAssumption`, `ToolAssumption`,
`EvidenceAssumption`, `ApprovalAssumption` and its `NullAssumption`, `OutageAssumption`,
`ValidationAssumption`, `HandedAssumption`, `PullRequestAssumption`, `CommentAssumption` and `SceneAssumption`. They say that `None` and the like are no value, that a limit is a number, that
attempts, tries, candidates and tokens are positive, that generated or derived ids are those of nothing else (a summary, a
steering), that each job has an escalation of its own, and that a handed-in result has a status for every
operation and assertion, which column types, generated ids and parsers give. TLC evaluates them in the runs.

Proved for every value of the constants: every safety property of `TaskLifecycle`, `BackgroundJobs`,
`HostOperations`, `Approvals`, `Outages`, `PullRequests`, `Validation`, `ScopedTools`, `Evidence`, `Workspaces`
and `Cancellations`, every type invariant, the one of the scenes (`WorkflowTypeOK`) and the action properties
included. The refinements too: `JobPromise` by `BackgroundJobs`, `Approvals` by `Outages`, and `TaskPromise` by
`TaskLifecycle`, `Approvals`, `Outages`, `Validation` and `PullRequests`. Of these five the runs keep the one of
`Approvals`; TLC finds that the others hold in their runs' instances as well, but that question is answered by the
proofs. Some theorems, such as `TerminalIsFinalAlways` and `Frozen`,
are about properties no run checks, since they follow from guards that are easy to see. The theorems are
about the whole of a module's next-state relation, also where a scene of section 12 restricts it.

Only checked: `JobsEnd`, as liveness needs fairness and `ENABLED`, which the prover cannot handle. What the recursive functions over a log compute for every log would need induction
over data, which is out of the prover's reach; the proofs do not need it. Findings are counterexamples
and need no proof.

## 16. Not modelled

* Wire formats, signatures, parsing, redaction and rendering: abstracted to "a verified request
  arrives" and "a record is stored".
* GitHub and Hermes beyond what they answer; file contents; ranking of search results; the compilation of
  briefs and prompts.
* `preflight.py` (its probes are I/O; `ScopedTools` takes its verdict as an input), the
  GitHub App client, task intake, authentication, configuration files, evaluation telemetry, the web
  application: sequential code without durable state that another actor could find half changed,
  or read-only. Bootstrap of the first policy.
* The composition of heartbeats with the host's fences: a lease that is renewed while no request reaches
  the host ends there and not in the control plane.
* What the loss of evidence does to the facts of a pull request (`readiness.py:606`), which wakes nobody; a
  change of the repair budget by a newer policy: `Budget` and `RepairBudget` are constants.
* Termination of processes by steering, the projections of the inbox, unfenced requests to the host,
  capacities and simulators of validation runs.
* Row locks are below the granularity of the models: a transaction is one step, as it is under
  SQLite's single writer; on PostgreSQL the code's `SELECT ... FOR UPDATE` gives the same for the rows the
  models keep. Only `Evidence` keeps locks, since there bytes are written while they are held.
