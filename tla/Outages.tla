------------------------------- MODULE Outages -------------------------------
(***************************************************************************)
(* Dependency outages: a job that spent its retries on a service that is   *)
(* down fails for good and asks the owner whether to retry                 *)
(* (background_jobs.py 1721-2110, migration 0008).                         *)
(*                                                                         *)
(* Three transactions bind a failed job to its question: the outage row is *)
(* written with the failure, the approval is requested, the outage row is  *)
(* linked to it.  The process may die between any two of them.  Startup    *)
(* recovery asks again for every outage that is not linked, under the same *)
(* request id, and turns a RETRY into a new generation of the job; nothing *)
(* else does either.  An unresolved outage keeps every other job of the    *)
(* task from being scheduled or claimed.                                   *)
(*                                                                         *)
(* Approvals is extended with the jobs; retries that are not the last one  *)
(* and leases are BackgroundJobs'.                                         *)
(***************************************************************************)
EXTENDS Approvals

CONSTANTS
    Jobs,           \* generations of durable jobs
    JobTask,        \* the task of a job
    EscalationOf    \* uuid5 of the outage: the request a job's exhaustion raises

\* dependency_outage_attempts; linked: it names its question, resolved: the answer.
OutageRows == [linked : BOOLEAN, resolved : Answers \cup {"STEERED", None}]

ASSUME OutageAssumption ==
    /\ JobTask \in [Jobs -> Tasks]
    /\ EscalationOf \in [Jobs -> Requests]
    /\ \A j, k \in Jobs : EscalationOf[j] = EscalationOf[k] => j = k
    /\ None \notin Jobs \cup OutageRows

VARIABLES
    job,        \* background_jobs.status
    parent,     \* the generation a resumed job continues
    outage,     \* the exhausted dependency_outage_attempts row of a job
    calls       \* running calls of reconcile_outage_escalation

ovars == <<vars, job, parent, outage, calls>>
approvals == vars

Escalations == {EscalationOf[j] : j \in Jobs}
JobsOf(t) == {j \in Jobs : JobTask[j] = t}
Ended(t) == state[t] \in {"FAILED", "CANCELLED"}

Linked(j) == outage[j] # None /\ outage[j].linked

Unresolved(t) == {j \in JobsOf(t) : outage[j] # None /\ outage[j].resolved = None}

-----------------------------------------------------------------------------
(* Jobs *)

\* schedule and claim_next both refuse a task that waits, ended, or has an outage.
Runnable(t) == state[t] \in WorkStates /\ Unresolved(t) = {}

Schedule(j) ==
    /\ job[j] = "ABSENT"
    /\ Runnable(JobTask[j])
    /\ job' = [job EXCEPT ![j] = "QUEUED"]
    /\ UNCHANGED <<approvals, parent, outage, calls>>

Claim(j) ==
    /\ job[j] = "QUEUED"
    /\ Runnable(JobTask[j])
    /\ job' = [job EXCEPT ![j] = "RUNNING"]
    /\ UNCHANGED <<approvals, parent, outage, calls>>

Succeed(j) ==
    /\ job[j] = "RUNNING"
    /\ job' = [job EXCEPT ![j] = "SUCCEEDED"]
    /\ UNCHANGED <<approvals, parent, outage, calls>>

\* fail_dependency_attempt for the last attempt, first transaction; the worker goes on
\* to reconcile_outage_escalation.
Exhaust(j) ==
    /\ job[j] = "RUNNING"
    /\ job' = [job EXCEPT ![j] = "FAILED"]
    /\ outage' = [outage EXCEPT ![j] = [linked |-> FALSE, resolved |-> None]]
    /\ calls' = IF Ended(JobTask[j]) THEN calls
                ELSE calls \cup {[job |-> j, from |-> state[JobTask[j]], asked |-> FALSE]}
    /\ UNCHANGED <<approvals, parent>>

-----------------------------------------------------------------------------
(* Raising the question *)

\* Startup recovery reads an outage that is not linked.
ReadEscalation(j) ==
    /\ outage[j] # None /\ ~Linked(j)
    /\ ~Ended(JobTask[j])
    /\ calls' = calls \cup {[job |-> j, from |-> state[JobTask[j]], asked |-> FALSE]}
    /\ UNCHANGED <<approvals, job, parent, outage>>

\* The request exists and was raised from the very state this call has read.
Replayed(c) ==
    LET r == EscalationOf[c.job]
    IN  request[r] # None /\ request[r].from = c.from

Asked(c) == calls' = (calls \ {c}) \cup {[c EXCEPT !.asked = TRUE]}

\* ApprovalService.request with the state the call has read.
AskEscalation(c) ==
    LET r == EscalationOf[c.job]
        t == JobTask[c.job]
    IN  /\ c \in calls /\ ~c.asked
        /\ Asked(c)
        /\ \/ state[t] = c.from /\ Request(r, t, "RETRY_LIMIT", None)
           \/ Replayed(c) /\ UNCHANGED approvals
        /\ UNCHANGED <<job, parent, outage>>

\* Any other answer is an ApprovalError: the outage stays as it is.
RefuseEscalation(c) ==
    LET t == JobTask[c.job]
    IN  /\ c \in calls /\ ~c.asked
        /\ ~Replayed(c)
        /\ \/ request[EscalationOf[c.job]] # None
           \/ state[t] # c.from
           \/ state[t] \notin WorkStates \cup {"BRIEF_PENDING_APPROVAL"}
           \/ ~FreeToAsk(t)
        /\ calls' = calls \ {c}
        /\ UNCHANGED <<approvals, job, parent, outage>>

\* The last transaction links the outage; the update trigger refuses a row that is
\* linked already, or resolved.
LinkEscalation(c) ==
    /\ c \in calls /\ c.asked
    /\ calls' = calls \ {c}
    /\ outage' = IF Linked(c.job) \/ outage[c.job].resolved # None THEN outage
                 ELSE [outage EXCEPT ![c.job].linked = TRUE]
    /\ UNCHANGED <<approvals, job, parent>>

\* The process that makes the call dies.
Crash(c) ==
    /\ c \in calls
    /\ calls' = calls \ {c}
    /\ UNCHANGED <<approvals, job, parent, outage>>

-----------------------------------------------------------------------------
(* Answering it *)

\* Mutant of OutageIsCurrent: a retry needs no linked outage.
OutageIsCurrent_Any(r) == TRUE

\* _durable_preconditions_are_current for a dependency: the request is linked to the
\* unresolved outage of a failed job.
OutageIsCurrent(r) ==
    \A j \in Jobs : EscalationOf[j] = r =>
        job[j] = "FAILED" /\ Linked(j) /\ outage[j].resolved = None

DecideOutage(r, id, given, recent, review) ==
    /\ Decide(r, id, given, recent, review)
    /\ Effective(r, given) \in Preconditioned => OutageIsCurrent(r)
    /\ UNCHANGED <<job, parent, outage, calls>>

\* The job with the key outage-resume:<decision>: there already, or to be created.
Generation(j) ==
    LET made == {k \in Jobs : parent[k] = j}
    IN  IF made # {} THEN made ELSE {k \in Jobs : job[k] = "ABSENT" /\ JobTask[k] = JobTask[j]}

\* reconcile_outage_decisions for one outage: a RETRY makes the next generation.
ResolveOutage(j) ==
    LET q == request[EscalationOf[j]]
    IN  /\ Linked(j) /\ outage[j].resolved = None
        /\ q.status # "PENDING"
        /\ outage' = [outage EXCEPT ![j].resolved = q.decision]
        /\ IF q.decision = "RETRY"
           THEN \E k \in Generation(j) :
                   /\ job' = [job EXCEPT ![k] = IF @ = "ABSENT" THEN "QUEUED" ELSE @]
                   /\ parent' = [parent EXCEPT ![k] = j]
           ELSE UNCHANGED <<job, parent>>
        /\ UNCHANGED <<approvals, calls>>

\* Jobs that can still be worked on are cancelled (_fence_scope_work 264-345).
Fenced(t) ==
    [j \in Jobs |-> IF j \in JobsOf(t) /\ job[j] \in {"QUEUED", "RUNNING"}
                    THEN "CANCELLED" ELSE job[j]]

\* A change of scope resolves the outages of the task; one that is not linked yet is
\* refused by the trigger, and the steering with it.
SteerOutages(t) ==
    /\ Steer(t)
    /\ \A j \in Unresolved(t) : Linked(j)
    /\ outage' = [j \in Jobs |-> IF j \in Unresolved(t)
                                 THEN [outage[j] EXCEPT !.resolved = "STEERED"] ELSE outage[j]]
    /\ job' = Fenced(t)
    /\ UNCHANGED <<parent, calls>>

\* cancel_task, or startup recovery, for a task that ended.
FenceEnded(t) ==
    /\ Ended(t)
    /\ job' = Fenced(t)
    /\ UNCHANGED <<approvals, parent, outage, calls>>

-----------------------------------------------------------------------------
OutageInit ==
    /\ Init
    /\ job = [j \in Jobs |-> "ABSENT"]
    /\ parent = [j \in Jobs |-> None]
    /\ outage = [j \in Jobs |-> None]
    /\ calls = {}

JobStep(j) == Schedule(j) \/ Claim(j) \/ Succeed(j) \/ Exhaust(j) \/ ReadEscalation(j)
                 \/ ResolveOutage(j)

CallStep(c) == AskEscalation(c) \/ RefuseEscalation(c) \/ LinkEscalation(c)

OutageNext ==
    \/ \E j \in Jobs : JobStep(j)
    \/ \E c \in calls : CallStep(c) \/ Crash(c)
    \/ \E r \in Requests, id \in DecisionIds, given \in Decisions, recent \in {"yes", "no"} :
          DecideOutage(r, id, given, recent, None)
    \/ \E t \in Tasks : SteerOutages(t) \/ FenceEnded(t)
    \/ \E t \in Tasks : /\ StoreBrief(t, FALSE) \/ AutoAccept(t) \/ Work(t)
                        /\ UNCHANGED <<job, parent, outage, calls>>

OutageSpec == OutageInit /\ [][OutageNext]_ovars

-----------------------------------------------------------------------------
(* Properties *)

\* An answer to a question about an outage is of use: a RETRY is taken only when startup
\* recovery can find its way from the question to the failed job, and that job is then
\* continued once, however often recovery looks, and never without a RETRY
\* (approvals.py 1183-1203, background_jobs.py 2003-2090).
RetryResumesOnce ==
    \A j \in Jobs :
        LET q == request[EscalationOf[j]]
            successors == {k \in Jobs : parent[k] = j}
        IN  /\ q # None /\ q.decision = "RETRY" => job[j] = "FAILED" /\ Linked(j)
            /\ Cardinality(successors) =
                  IF outage[j] # None /\ outage[j].resolved = "RETRY" THEN 1 ELSE 0
            /\ successors # {} => q.decision = "RETRY"
=============================================================================
