---------------------------- MODULE BackgroundJobs ----------------------------
(***************************************************************************)
(* Durable background jobs: background_jobs.py, with the fences that       *)
(* steering.py and reliability.py put around the jobs of a task and the    *)
(* write guards that migrations 0006 and 0008 add under them.              *)
(*                                                                         *)
(* A job is worked on under a lease.  Leases carry fencing tokens from one *)
(* counter, so the token of a lease is its position in "leases".  A worker *)
(* acts between transactions on a copy of its grant; every transaction     *)
(* first asks whether that grant still is the job's current lease.  A      *)
(* worker that was superseded, fenced, or is simply slow finds out only    *)
(* then, and may meanwhile have called an external provider.               *)
(*                                                                         *)
(* Time is what the code compares it with: a lease runs out at some moment *)
(* (Expire); a queued job is claimed at or after the moment its retry      *)
(* delay ends, which is any moment.  A heartbeat only postpones Expire.    *)
(* cancellation_requested_at is always written together with the status    *)
(* CANCELLED and is not kept apart from it.                                *)
(*                                                                         *)
(* A job bars the whole task by what it leaves unsettled: an outage that   *)
(* nobody answered, a target that a recovery found changed, a target that  *)
(* nobody looked at since the lease ran out.  Here only that counts;       *)
(* Outages and Cancellations have the questions, answers and observations. *)
(* Every worker process has the handlers of all job types.                 *)
(***************************************************************************)
EXTENDS Naturals, Sequences, FiniteSets, FiniteSetsExt

CONSTANTS
    Jobs,           \* background_jobs rows that may be scheduled
    Tasks,          \* tasks
    TaskOf,         \* the task of a job
    Workers,        \* worker processes
    Keys,           \* effect keys a handler uses, per job
    MaxAttempts,    \* retry_policy.max_attempts
    MaxCheckpoints, \* bound on the checkpoints of a job
    None            \* SQL NULL

ASSUME JobsAssumption ==
    /\ TaskOf \in [Jobs -> Tasks]
    /\ MaxAttempts \in Nat \ {0}
    /\ MaxCheckpoints \in Nat

VARIABLES
    mode,        \* what the task's state allows its jobs: see Modes
    job,         \* background_jobs: status, attempt_count, current lease (0: none)
    leases,      \* background_job_leases in token order
    checkpoints, \* background_job_checkpoints of a job: the tokens they carry
    effects,     \* background_job_effects by job and key
    provider,    \* what an effect's provider did: outcome and number of executions
    ignored,     \* background_job_ignored_results by job and key: the token, or 0
    target,      \* the worst of the reconciliation_targets a job has registered
    outage,      \* the jobs that ended with a dependency outage nobody resolved yet
    worker       \* a worker's position in run_once, with its grant

barriers == <<target, outage>>
vars == <<mode, job, leases, checkpoints, effects, provider, ignored, barriers, worker>>
db == <<mode, job, leases, checkpoints, effects, ignored, barriers>>

-----------------------------------------------------------------------------
(* Rows and grants *)

\* "held": the task waits for the approval of its brief or is escalated; either way an
\* approval request is pending.
Modes == {"runnable", "held", "failed", "cancelled", "handed_off"}
Open == {"runnable", "held"}

FinalStatus == {"SUCCEEDED", "FAILED", "CANCELLED"}
JobStatus == {"ABSENT", "QUEUED", "RUNNING"} \cup FinalStatus

\* "pending": registered and not observed; "current": observed as expected;
\* "blocking": UPDATED, RETRY_REQUIRED or QUARANTINED; "none": also CANCELLED.
TargetStatus == {"none", "pending", "current", "blocking"}

ReleaseReasons == {"SUCCEEDED", "RETRY", "FAILED", "EXPIRED", "SUPERSEDED", "CANCELLED"}

Outcomes == {"SUCCEEDED", "FAILED"}

ASSUME NullAssumption == None \notin Jobs \cup Keys \cup ReleaseReasons \cup Outcomes

\* Where a worker is: polling; inside a handler; about to call a provider for the
\* first time; about to ask it about an earlier call; holding its answer; not running.
Stages == {"idle", "handling", "calling", "looking", "observed", "down"}

Idle == [stage |-> "idle", job |-> None, token |-> 0, version |-> 0,
         key |-> None, result |-> None]
Down == [Idle EXCEPT !.stage = "down"]

Version(j) == Len(checkpoints[j])

LeasesOf(j) == {n \in 1 .. Len(leases) : leases[n].job = j}

Pending(j) == {k \in Keys : effects[j][k].status = "PENDING"}

\* _current_lease: the grant a worker holds still owns its job.
Current(w) ==
    LET j == worker[w].job
        n == worker[w].token
    IN  /\ job[j].status = "RUNNING"
        /\ job[j].lease = n
        /\ leases[n].released = None
        /\ ~leases[n].expired

\* Rows after the leases S were released for a reason.
Release(S, reason) ==
    [n \in 1 .. Len(leases) |->
        IF n \in S THEN [leases[n] EXCEPT !.released = reason] ELSE leases[n]]

\* The row of j without its lease, in status s (_finish_job and its like).
Left(j, s) == [job[j] EXCEPT !.status = s, !.lease = 0]

-----------------------------------------------------------------------------
(* The write guards of the database *)

\* background_jobs_validate_update (0008): a row may change from old to new while the
\* lease rows are ls.
JobUpdateAccepted(old, new, ls) ==
    /\ new.attempts <= MaxAttempts
    /\ (new.status = "RUNNING") <=> (new.lease # 0)
    /\ new.lease # 0 => ls[new.lease].released = None
    /\ \/ /\ old.status = "QUEUED" /\ new.status = "RUNNING"
          /\ new.attempts = old.attempts + 1
       \/ /\ old.status = "QUEUED" /\ new.status = "CANCELLED"
          /\ new.attempts = old.attempts
       \/ /\ old.status = "RUNNING" /\ new.status = "RUNNING"
          /\ ls[old.lease].expired
          /\ new.attempts = old.attempts + 1
          /\ new.lease > old.lease
       \/ /\ old.status = "RUNNING"
          /\ new.attempts = old.attempts
          /\ <<new.status, ls[old.lease].released, ls[old.lease].expired>> \in
               { <<"QUEUED", "RETRY", FALSE>>,
                 <<"QUEUED", "EXPIRED", TRUE>>,
                 <<"SUCCEEDED", "SUCCEEDED", FALSE>>,
                 <<"FAILED", "FAILED", FALSE>>,
                 <<"FAILED", "EXPIRED", TRUE>>,
                 <<"CANCELLED", "CANCELLED", FALSE>>,
                 <<"CANCELLED", "CANCELLED", TRUE>> }

\* background_job_leases_validate_insert (0006): lease l may be added for row old,
\* whose current lease, if any, is in ls.
LeaseInsertAccepted(old, l, ls) ==
    /\ old.attempts < MaxAttempts
    /\ l.attempt = old.attempts + 1
    /\ \/ old.status = "QUEUED"
       \/ old.status = "RUNNING" /\ ls[old.lease].expired

-----------------------------------------------------------------------------
(* Scheduling and claiming *)

Init ==
    /\ mode = [t \in Tasks |-> "runnable"]
    /\ job = [j \in Jobs |-> [status |-> "ABSENT", attempts |-> 0, lease |-> 0]]
    /\ leases = <<>>
    /\ checkpoints = [j \in Jobs |-> <<>>]
    /\ effects = [j \in Jobs |->
                    [k \in Keys |-> [status |-> "ABSENT", started |-> 0, completed |-> 0]]]
    /\ provider = [j \in Jobs |-> [k \in Keys |-> [outcome |-> None, calls |-> 0]]]
    /\ ignored = [j \in Jobs |-> [k \in Keys |-> 0]]
    /\ target = [j \in Jobs |-> "none"]
    /\ outage = {}
    /\ worker = [w \in Workers |-> Idle]

JobsOf(t) == {j \in Jobs : TaskOf[j] = t}

\* schedule: a repetition finds the row and changes nothing.
Schedule(j) ==
    /\ job[j].status = "ABSENT"
    /\ mode[TaskOf[j]] = "runnable"
    /\ outage \cap JobsOf(TaskOf[j]) = {}
    /\ job' = [job EXCEPT ![j].status = "QUEUED"]
    /\ UNCHANGED <<mode, leases, checkpoints, effects, provider, ignored, barriers, worker>>

Expired(j) == job[j].status = "RUNNING" /\ leases[job[j].lease].expired

\* What a job of the task has left behind keeps all of its jobs from being claimed.  A
\* pending target does so only once its job's lease has run out.
Barred(t) ==
    \E j \in JobsOf(t) : \/ j \in outage
                         \/ target[j] = "blocking"
                         \/ target[j] = "pending" /\ Expired(j)

\* Mutant of Exhausted: one attempt too many.
Exhausted_OffByOne(j) == job[j].attempts > MaxAttempts

Exhausted(j) == job[j].attempts >= MaxAttempts

\* Mutant of Claimable: a running job may be taken over before its lease ran out.
Claimable_Unexpired(j) ==
    /\ mode[TaskOf[j]] = "runnable" /\ ~Barred(TaskOf[j])
    /\ \/ job[j].status = "QUEUED" /\ ~Exhausted(j)
       \/ job[j].status = "RUNNING"

\* Mutant of Claimable: an expired lease is left to a restart.
Claimable_QueuedOnly(j) ==
    /\ mode[TaskOf[j]] = "runnable" /\ ~Barred(TaskOf[j])
    /\ job[j].status = "QUEUED" /\ ~Exhausted(j)

\* The jobs claim_next considers.
Claimable(j) ==
    /\ mode[TaskOf[j]] = "runnable" /\ ~Barred(TaskOf[j])
    /\ \/ job[j].status = "QUEUED" /\ ~Exhausted(j)
       \/ Expired(j)

\* The lease of the next attempt, numbered after the highest attempt of the job's leases.
NextLease(j) ==
    [job |-> j, attempt |-> Max({0} \cup {leases[n].attempt : n \in LeasesOf(j)}) + 1,
     expired |-> FALSE, released |-> None]

\* Mutant of Superseded: the lease taken over stays as it is.
Superseded_Kept(j) == {}

\* The expired lease a new claim of j releases.
Superseded(j) == IF job[j].status = "RUNNING" THEN {job[j].lease} ELSE {}

\* claim_next: one transaction fails the exhausted jobs X it meets and leases the
\* first other one to the worker, superseding an expired lease.
ClaimNext(w, X, j) ==
    LET n == Len(leases) + 1
        released == [m \in 1 .. Len(leases) |->
                        CASE m \in Superseded(j) -> [leases[m] EXCEPT !.released = "SUPERSEDED"]
                          [] m \in {job[x].lease : x \in X}
                                -> [leases[m] EXCEPT !.released = "EXPIRED"]
                          [] OTHER -> leases[m]]
    IN  /\ worker[w].stage = "idle"
        /\ \A x \in X : Claimable(x) /\ job[x].status = "RUNNING" /\ Exhausted(x)
        /\ Claimable(j) /\ ~Exhausted(j)
        /\ leases' = Append(released, NextLease(j))
        /\ job' = [i \in Jobs |->
                      CASE i \in X -> Left(i, "FAILED")
                        [] i = j -> [status |-> "RUNNING", attempts |-> job[j].attempts + 1,
                                     lease |-> n]
                        [] OTHER -> job[i]]
        /\ worker' = [worker EXCEPT ![w] =
                         [Idle EXCEPT !.stage = "handling", !.job = j, !.token = n,
                                      !.version = Version(j)]]
        /\ UNCHANGED <<mode, checkpoints, effects, provider, ignored, barriers>>

\* claim_next when nothing is left to lease after the exhausted jobs were failed.
ClaimNothing(w) ==
    LET X == {x \in Jobs : Claimable(x) /\ job[x].status = "RUNNING" /\ Exhausted(x)}
    IN  /\ worker[w].stage = "idle"
        /\ X # {}
        /\ \A j \in Jobs : Claimable(j) => Exhausted(j)
        /\ leases' = Release({job[x].lease : x \in X}, "EXPIRED")
        /\ job' = [i \in Jobs |-> IF i \in X THEN Left(i, "FAILED") ELSE job[i]]
        /\ UNCHANGED <<mode, checkpoints, effects, provider, ignored, barriers, worker>>

\* The clock passes the expiry of lease n.
Expire(n) ==
    /\ leases[n].released = None
    /\ ~leases[n].expired
    /\ leases' = [leases EXCEPT ![n].expired = TRUE]
    /\ UNCHANGED <<mode, job, checkpoints, effects, provider, ignored, barriers, worker>>

-----------------------------------------------------------------------------
(* A handler at work *)

\* checkpoint: appended under the version the grant knows.
Checkpoint(w) ==
    LET j == worker[w].job
    IN  /\ worker[w].stage = "handling"
        /\ Current(w)
        /\ worker[w].version = Version(j)
        /\ Version(j) < MaxCheckpoints
        /\ checkpoints' = [checkpoints EXCEPT ![j] = Append(@, worker[w].token)]
        /\ worker' = [worker EXCEPT ![w].version = @ + 1]
        /\ UNCHANGED <<mode, job, leases, effects, provider, ignored, barriers>>

\* The job starts something of its own outside, a Hermes run or a host process
\* (HermesService.record_started, register_reconciliation_target).
Register(w) ==
    LET j == worker[w].job
    IN  /\ worker[w].stage = "handling"
        /\ Current(w)
        /\ target[j] \in {"none", "current"}
        /\ target' = [target EXCEPT ![j] = "pending"]
        /\ UNCHANGED <<mode, job, leases, checkpoints, effects, provider, ignored, outage, worker>>

\* Mutant of NextStage: an effect somebody prepared and left is called again.
NextStage_CallAgain(status) ==
    IF status \in {"ABSENT", "PENDING"} THEN "calling" ELSE "handling"

\* What perform_effect does with an effect it found in a status: call the provider,
\* ask it about an earlier call, or answer from the row.
NextStage(status) ==
    CASE status = "ABSENT"  -> "calling"
      [] status = "PENDING" -> "looking"
      [] OTHER              -> "handling"

\* prepare_effect refuses a second unresolved effect of a job.
MayPrepare(j, k) == Pending(j) \subseteq {k}

\* perform_effect, first transaction: prepare_effect.
Prepare(w, k) ==
    LET j == worker[w].job
    IN  /\ worker[w].stage = "handling"
        /\ Current(w)
        /\ MayPrepare(j, k)
        /\ effects' = IF effects[j][k].status = "ABSENT"
                      THEN [effects EXCEPT ![j][k] = [status |-> "PENDING", completed |-> 0,
                                                      started |-> worker[w].token]]
                      ELSE effects
        /\ worker' = [worker EXCEPT ![w].stage = NextStage(effects[j][k].status), ![w].key = k]
        /\ UNCHANGED <<mode, job, leases, checkpoints, provider, ignored, barriers>>

\* executor.execute: the provider acts; its answer arrives, or is lost and the handler
\* sees an exception instead.
Execute(w, outcome, answered) ==
    LET j == worker[w].job
        k == worker[w].key
    IN  /\ worker[w].stage = "calling"
        /\ provider' = [provider EXCEPT ![j][k] = [outcome |-> outcome, calls |-> @.calls + 1]]
        /\ worker' = [worker EXCEPT
                         ![w].stage = IF answered THEN "observed" ELSE "handling",
                         ![w].result = IF answered THEN outcome ELSE None]
        /\ UNCHANGED <<mode, job, leases, checkpoints, effects, ignored, barriers>>

\* executor.reconcile finds what the earlier call did.  (Finding nothing raises
\* AmbiguousBackgroundJobEffectError: Raise.)
Reconcile(w) ==
    LET seen == provider[worker[w].job][worker[w].key].outcome
    IN  /\ worker[w].stage = "looking"
        /\ seen # None
        /\ worker' = [worker EXCEPT ![w].stage = "observed", ![w].result = seen]
        /\ UNCHANGED <<mode, job, leases, checkpoints, effects, provider, ignored, barriers>>

\* Mutant of Recordable: a late result is recorded like any other.
Recordable_Late(w) == TRUE

\* A result is recorded under the current lease only.
Recordable(w) == Current(w)

\* perform_effect, second transaction: record_effect_result with its checkpoint.  The
\* effect may have been resolved meanwhile, then the result must be the same.
Record(w) ==
    LET j == worker[w].job
        k == worker[w].key
        result == worker[w].result
    IN  /\ worker[w].stage = "observed"
        /\ Recordable(w)
        /\ effects[j][k].status \in {"PENDING", result}
        /\ worker[w].version = Version(j)
        /\ Version(j) < MaxCheckpoints
        /\ effects' = IF effects[j][k].status = "PENDING"
                      THEN [effects EXCEPT ![j][k].status = result,
                                           ![j][k].completed = worker[w].token]
                      ELSE effects
        /\ checkpoints' = [checkpoints EXCEPT ![j] = Append(@, worker[w].token)]
        /\ worker' = [worker EXCEPT ![w].stage = "handling", ![w].version = @ + 1,
                                    ![w].result = None]
        /\ UNCHANGED <<mode, job, leases, provider, ignored, barriers>>

\* The lease was lost with a result in hand: record_ignored_result, under a key that
\* is unique for the effect, so that only the first such result is kept.
Ignore(w) ==
    LET j == worker[w].job
        k == worker[w].key
    IN  /\ worker[w].stage = "observed"
        /\ ~Recordable(w)
        /\ ignored' = IF ignored[j][k] = 0
                      THEN [ignored EXCEPT ![j][k] = worker[w].token] ELSE ignored
        /\ worker' = [worker EXCEPT ![w] = Idle]
        /\ UNCHANGED <<mode, job, leases, checkpoints, effects, provider, barriers>>

\* Any other call under a lost lease: BackgroundJobLeaseLostError, LEASE_LOST.
Lose(w) ==
    /\ worker[w].stage \in {"handling", "calling", "looking"}
    /\ ~Current(w)
    /\ worker' = [worker EXCEPT ![w] = Idle]
    /\ UNCHANGED <<mode, job, leases, checkpoints, effects, provider, ignored, barriers>>

\* _require_no_pending_effects.
Settled(j) == Pending(j) = {}

\* The handler returns: complete, with or without a final checkpoint.
Complete(w, final) ==
    LET j == worker[w].job
    IN  /\ worker[w].stage = "handling"
        /\ Current(w)
        /\ Settled(j)
        /\ worker[w].version = Version(j)
        /\ final => Version(j) < MaxCheckpoints
        /\ checkpoints' = IF final THEN [checkpoints EXCEPT ![j] = Append(@, worker[w].token)]
                          ELSE checkpoints
        /\ leases' = Release({worker[w].token}, "SUCCEEDED")
        /\ job' = [job EXCEPT ![j] = Left(j, "SUCCEEDED")]
        /\ worker' = [worker EXCEPT ![w] = Idle]
        /\ UNCHANGED <<mode, effects, provider, ignored, barriers>>

Failures == {"terminal", "retryable", "dependency"}

\* The handler raises, the provider call fails, a lookup finds nothing, or complete
\* meets an unresolved effect: fail_attempt through _release_failed_attempt.  When the
\* last attempt fails because a service is down (fail_dependency_attempt), that is an
\* outage.
Raise(w, failure) ==
    LET j == worker[w].job
        retry == failure # "terminal" /\ ~Exhausted(j)
    IN  /\ worker[w].stage \in {"handling", "calling", "looking"}
        /\ Current(w)
        /\ outage' = IF failure = "dependency" /\ ~retry THEN outage \cup {j} ELSE outage
        /\ leases' = Release({worker[w].token}, IF retry THEN "RETRY" ELSE "FAILED")
        /\ job' = [job EXCEPT ![j] = Left(j, IF retry THEN "QUEUED" ELSE "FAILED")]
        /\ worker' = [worker EXCEPT ![w] = Idle]
        /\ UNCHANGED <<mode, checkpoints, effects, provider, ignored, target>>

\* The handler raises PausedBackgroundJobError: pause_attempt writes the row with one
\* attempt less.  A row the database refuses rolls the transaction back, and run_once
\* does not catch that error: the process ends.
PauseAttempt(w) ==
    LET j == worker[w].job
        released == Release({worker[w].token}, "RETRY")
        paused == [Left(j, "QUEUED") EXCEPT !.attempts = IF @ = 0 THEN 0 ELSE @ - 1]
    IN  /\ worker[w].stage = "handling"
        /\ Current(w)
        /\ IF JobUpdateAccepted(job[j], paused, released)
           THEN /\ leases' = released
                /\ job' = [job EXCEPT ![j] = paused]
                /\ worker' = [worker EXCEPT ![w] = Idle]
           ELSE /\ worker' = [worker EXCEPT ![w] = Down]
                /\ UNCHANGED <<job, leases>>
        /\ UNCHANGED <<mode, checkpoints, effects, provider, ignored, barriers>>

-----------------------------------------------------------------------------
(* Crashes and recovery *)

Crash(w) ==
    /\ worker[w].stage # "down"
    /\ worker' = [worker EXCEPT ![w] = Down]
    /\ UNCHANGED db
    /\ UNCHANGED provider

\* reconcile_expired_leases, drained: every job whose lease ran out is released.
RecoverExpired ==
    LET X == {j \in Jobs : Expired(j)}
    IN  /\ leases' = Release({job[j].lease : j \in X}, "EXPIRED")
        /\ job' = [j \in Jobs |->
                      IF j \in X THEN Left(j, IF Exhausted(j) THEN "FAILED" ELSE "QUEUED")
                      ELSE job[j]]

\* The rest of StartupRecoveryService.recover that jobs depend on: an outage is resolved
\* when its question was answered, and every registered target is looked at, whether
\* its job still runs or not.
Observe ==
    /\ outage' \in SUBSET outage
    /\ target' \in [Jobs -> TargetStatus]
    /\ \A j \in Jobs : target[j] = "none" <=> target'[j] = "none"
    /\ \A j \in Jobs : target'[j] # "pending"

\* A worker process starts: startup recovery, then the first poll.
Restart(w) ==
    /\ worker[w].stage = "down"
    /\ RecoverExpired
    /\ Observe
    /\ worker' = [worker EXCEPT ![w] = Idle]
    /\ UNCHANGED <<mode, checkpoints, effects, provider, ignored>>

\* The API process starts: the same recovery.
ApiRestart ==
    /\ RecoverExpired
    /\ Observe
    /\ UNCHANGED <<mode, checkpoints, effects, provider, ignored, worker>>

-----------------------------------------------------------------------------
(* The task around its jobs *)

\* The task asks for an approval or escalates; a decision resumes it.
Hold(t) ==
    /\ mode[t] = "runnable"
    /\ mode' = [mode EXCEPT ![t] = "held"]
    /\ UNCHANGED <<job, leases, checkpoints, effects, provider, ignored, barriers, worker>>

Resume(t) ==
    /\ mode[t] = "held"
    /\ mode' = [mode EXCEPT ![t] = "runnable"]
    /\ UNCHANGED <<job, leases, checkpoints, effects, provider, ignored, barriers, worker>>

\* Every queued or running job of t is cancelled and its lease revoked.
Fence(t) ==
    LET X == {j \in JobsOf(t) : job[j].status \in {"QUEUED", "RUNNING"}}
    IN  /\ leases' = Release({job[j].lease : j \in X} \ {0}, "CANCELLED")
        /\ job' = [j \in Jobs |-> IF j \in X THEN Left(j, "CANCELLED") ELSE job[j]]

\* The targets of t are cancelled, but for those of host processes, here the jobs P.
CancelTargets(t, P) ==
    target' = [j \in Jobs |-> IF j \in JobsOf(t) \ P THEN "none" ELSE target[j]]

\* SteeringService.steer with a changed scope, from any state but an escalation; a
\* pending brief approval is dropped with the work (_fence_scope_work).
SteerScope(t) ==
    /\ mode[t] \in Open
    /\ Fence(t)
    /\ \E P \in SUBSET JobsOf(t) : CancelTargets(t, P)
    /\ outage' = outage \ JobsOf(t)
    /\ mode' = [mode EXCEPT ![t] = "runnable"]
    /\ UNCHANGED <<checkpoints, effects, provider, ignored, worker>>

\* CancellationService.cancel_task without a pending approval: transition and fence in
\* one transaction.
Cancel(t) ==
    /\ mode[t] = "runnable"
    /\ mode' = [mode EXCEPT ![t] = "cancelled"]
    /\ Fence(t)
    /\ \E P \in SUBSET JobsOf(t) : CancelTargets(t, P)
    /\ UNCHANGED <<checkpoints, effects, provider, ignored, outage, worker>>

\* The task ends in a transaction that leaves its jobs alone: a pending approval is
\* decided with CANCEL, DENY or ABANDON, or expires; a repair handler fails the task;
\* the user takes the pull request over.
End(t, m) ==
    /\ mode[t] \in Open
    /\ m \in Modes \ Open
    /\ m = "handed_off" => mode[t] = "runnable"
    /\ mode' = [mode EXCEPT ![t] = m]
    /\ UNCHANGED <<job, leases, checkpoints, effects, provider, ignored, barriers, worker>>

\* The fence after such an end: the second half of cancel_task, or startup recovery.
\* Handed-off tasks are not looked at.
FenceEnded(t) ==
    /\ mode[t] \in {"failed", "cancelled"}
    /\ \E j \in JobsOf(t) : job[j].status \in {"QUEUED", "RUNNING"}
    /\ Fence(t)
    /\ \E P \in SUBSET JobsOf(t) : CancelTargets(t, P)
    /\ UNCHANGED <<mode, checkpoints, effects, provider, ignored, outage, worker>>

-----------------------------------------------------------------------------
Handle(w) ==
    \/ Checkpoint(w)
    \/ Register(w)
    \/ \E k \in Keys : Prepare(w, k)
    \/ \E outcome \in Outcomes, answered \in BOOLEAN : Execute(w, outcome, answered)
    \/ Reconcile(w)
    \/ Record(w)
    \/ Ignore(w)
    \/ Lose(w)
    \/ \E final \in BOOLEAN : Complete(w, final)
    \/ \E failure \in Failures : Raise(w, failure)
    \/ PauseAttempt(w)

Claim(w) ==
    \/ \E X \in SUBSET Jobs, j \in Jobs : ClaimNext(w, X, j)
    \/ ClaimNothing(w)

TaskStep(t) ==
    \/ Hold(t)
    \/ Resume(t)
    \/ SteerScope(t)
    \/ Cancel(t)
    \/ \E m \in Modes : End(t, m)
    \/ FenceEnded(t)

Next ==
    \/ \E j \in Jobs : Schedule(j)
    \/ \E w \in Workers : Claim(w) \/ Handle(w) \/ Crash(w) \/ Restart(w)
    \/ \E n \in 1 .. Len(leases) : Expire(n)
    \/ ApiRestart
    \/ \E t \in Tasks : TaskStep(t)

Spec == Init /\ [][Next]_vars

\* A worker that polls again and again while a job is there claims one (strong fairness:
\* in between it may be busy or die), and a lease runs out, since the loops in which
\* handlers renew it have deadlines.  Nothing is assumed of handlers, of providers, or of
\* whoever starts processes again.
Fairness ==
    /\ \A w \in Workers : SF_vars(Claim(w))
    /\ WF_vars(\E n \in 1 .. Len(leases) : Expire(n))

LiveSpec == Spec /\ Fairness

-----------------------------------------------------------------------------
(* Properties *)

Leases == [job : Jobs, attempt : Nat \ {0}, expired : BOOLEAN,
           released : ReleaseReasons \cup {None}]

Tokens == 0 .. Len(leases)

\* Every variable has its type.
TypeOK ==
    /\ mode \in [Tasks -> Modes]
    /\ job \in [Jobs -> [status : JobStatus, attempts : 0 .. MaxAttempts, lease : Tokens]]
    /\ leases \in Seq(Leases)
    /\ checkpoints \in [Jobs -> Seq(Tokens)]
    /\ effects \in [Jobs -> [Keys -> [status : {"ABSENT", "PENDING"} \cup Outcomes,
                                     started : Tokens, completed : Tokens]]]
    /\ provider \in [Jobs -> [Keys -> [outcome : Outcomes \cup {None}, calls : Nat]]]
    /\ ignored \in [Jobs -> [Keys -> Tokens]]
    /\ target \in [Jobs -> TargetStatus]
    /\ outage \subseteq Jobs
    /\ worker \in [Workers -> [stage : Stages, job : Jobs \cup {None}, token : Tokens,
                               version : Nat, key : Keys \cup {None},
                               result : Outcomes \cup {None}]]

\* A running job has exactly one lease that was not released, its newest; any other job
\* has none.  So two grants never own a job together (claim_next 671-881).
LeaseIsExclusive ==
    \A j \in Jobs :
        {n \in LeasesOf(j) : leases[n].released = None} =
            IF job[j].status = "RUNNING"
            THEN {n \in {job[j].lease} : \A m \in LeasesOf(j) : m <= n} ELSE {}

\* The worker that owns a job acts on what the database says: it knows the checkpoint
\* version, and an effect it is busy with is unresolved and, before the call, undone.
\* Neither a checkpoint nor a result can then conflict (1237-1425).
OwnerIsCurrent ==
    \A w \in Workers :
        worker[w].stage \in {"handling", "calling", "looking", "observed"} /\ Current(w) =>
            LET j == worker[w].job
                k == worker[w].key
            IN  /\ worker[w].version = Version(j)
                /\ worker[w].stage # "handling" => Pending(j) = {k}
                /\ worker[w].stage = "calling" => provider[j][k].calls = 0
                /\ worker[w].stage = "observed" => provider[j][k].outcome = worker[w].result

\* Attempts are numbered without a gap: what the lease guard of migration 0006 insists
\* on.  claim_next takes the number from the old leases and the budget from the job.
AttemptsAreLeases ==
    \A j \in Jobs :
        /\ job[j].attempts = Cardinality(LeasesOf(j))
        /\ \A n, m \in LeasesOf(j) : n < m => leases[n].attempt < leases[m].attempt

\* Every write of a job or lease row passes the triggers of migrations 0006 and 0008.
WritesAreAccepted ==
    [][/\ \A j \in Jobs : job[j].status # "ABSENT" /\ job'[j] # job[j] =>
             JobUpdateAccepted(job[j], job'[j], leases')
       /\ Len(leases') > Len(leases) =>
             LET l == leases'[Len(leases')]
             IN  LeaseInsertAccepted(job[l.job], l, leases)]_vars

\* A job that ended keeps its row, its progress and its effects, whoever still works
\* on it (2305-2355).
FinishedJobIsFrozen ==
    [][\A j \in Jobs : job[j].status \in FinalStatus =>
          UNCHANGED <<job[j], checkpoints[j], effects[j]>>]_vars

Promise == INSTANCE JobPromise WITH
    outcome <- [j \in Jobs |-> IF job[j].status \in FinalStatus THEN job[j].status
                              ELSE "open"],
    performed <- provider,
    recorded <- [j \in Jobs |-> [k \in Keys |->
                    IF effects[j][k].status \in Outcomes THEN effects[j][k].status
                    ELSE None]]

\* Through all claims, crashes, fences and late workers a job keeps its promise: its
\* effects run at most once and it succeeds only when all of them are recorded.
PromiseKept == Promise!Spec

\* A job of a task that stays runnable and is not barred for good is brought to an end,
\* provided only that again and again some worker is free to poll: handlers may hang,
\* workers may die and stay dead, and every attempt ends in a release, an expiry or a
\* takeover, and is counted (claim_next 671-881, reconcile_expired_leases 883-970).
JobsEnd ==
    \A j \in Jobs :
        /\ <>[](mode[TaskOf[j]] = "runnable" /\ ~Barred(TaskOf[j]))
        /\ []<>(\E w \in Workers : worker[w].stage = "idle")
        => [](job[j].status \in {"QUEUED", "RUNNING"} => <>(job[j].status \in FinalStatus))

\* "Release a temporarily blocked lease without spending retry budget."
PauseSpendsNoAttempt ==
    [][\A w \in Workers : PauseAttempt(w) =>
          job'[worker[w].job].attempts < job[worker[w].job].attempts]_vars

\* Cancellation "revokes active job leases and Hermes tool grants in the same
\* transaction, and marks every queued or running job CANCELLED".
CancelledTaskHasNoWork ==
    \A j \in Jobs : mode[TaskOf[j]] = "cancelled" => job[j].status \notin {"QUEUED", "RUNNING"}

\* "Results arriving through an older lease are retained as ignored-job-result evidence."
LateResultsAreKept ==
    [][\A w \in Workers : Ignore(w) =>
          ignored'[worker[w].job][worker[w].key] = worker[w].token]_vars

=============================================================================
