----------------------------- MODULE Validation -----------------------------
(* What happens to the candidates of one task while it is validated: the results   *)
(* the host hands in for an attempt and their collection (validation_evidence.py), *)
(* the verdict on each run (validation_decisioning.py), and the repairs a failure  *)
(* starts, or the question it asks when it may start none (repair_loop.py).        *)
(*                                                                                 *)
(* Candidates are the commits 1, 2, ... with their trees; a repair makes the next. *)
(* An attempt is the n-th transition to VALIDATING, with the candidate it named:   *)
(* the first may have named none (an attempt of an older release). The contract,   *)
(* the configuration and the brief do not change. A job here is one row, leased to *)
(* one worker at a time, and each transaction of its handler is one step.          *)
EXTENDS Naturals, Sequences, FiniteSets

CONSTANTS
    Runs,           \* the ids of validation runs
    Operations,     \* contract.required_operations
    Criteria,       \* contract.typed_assertions: assertion -> its criterion
    EvidenceTypes,  \* contract.evidence_requirements
    Handed,         \* what the host may hand in: operation and assertion results, types
    RepairBudget,   \* max_attempts of the repair policy
    MaxLeases,      \* max_attempts of a collection job
    MaxCandidates,  \* bound: the candidates
    Legacy,         \* BOOLEAN: the first attempt named no candidate
    Pauses,         \* bound: how often others escalate the task
    MayCrash        \* BOOLEAN: a worker may stop between two steps

ASSUME ValidationAssumption ==
    RepairBudget \in Nat /\ MaxLeases \in Nat /\ MaxCandidates \in Nat \ {0}

VARIABLES
    stage,    \* task.state
    resume,   \* task.escalation_resume_state
    paused,   \* how often others escalated the task
    spent,    \* task.retry_count
    attempts, \* the candidates of BEGIN_VALIDATION and REVALIDATE; 0: none named
    made,     \* the candidates committed so far
    work,     \* the collection jobs by run, with what the handler has read
    run,      \* the ValidationRun rows with their decision events
    spoiled,  \* runs with evidence that was corrected or cannot be loaded
    asked,    \* the RETRY_LIMIT requests, in order
    mends     \* the validation-repair jobs, in order

valvars == <<stage, resume, paused, spent, attempts, made, work, run, spoiled, asked, mends>>

Candidates == 1 .. MaxCandidates
Assertions == DOMAIN Criteria

\* AssertionResultStatus and the statuses of a criterion.
Statuses == {"PENDING", "PASSED", "FAILED", "BLOCKED"}

\* ValidationOutcome
Outcomes == {"PENDING", "PASSED", "FAILED", "BLOCKED", "ESCALATED", "CANCELLED"}

ValidationEvidenceTypes ==
    {"UNIT_TEST_OUTPUT", "INTEGRATION_TEST_OUTPUT", "SIMULATOR_ARTIFACT", "APPLICATION_LOG",
     "CRASH_SIGNAL", "ERROR_SIGNAL", "NETWORK_SIGNAL", "PERFORMANCE_SIGNAL"}

\* An operation passed if it exited with 0, uncancelled, its output within bounds and
\* the repository as it was; a result that claims otherwise is malformed.
OperationResults == [Operations -> BOOLEAN]
AssertionResults == [Assertions -> Statuses]

\* The body of a collection; of the evidence it lists, the types.
Bodies == [ops: OperationResults, asserts: AssertionResults,
           types: SUBSET ValidationEvidenceTypes]

ASSUME HandedAssumption == Handed \subseteq Bodies

-----------------------------------------------------------------------------
(* Attempts *)

\* _latest_validation_attempt
LatestAttempt == Len(attempts)
Candidate     == attempts[LatestAttempt]

\* _require_current_validation_attempt: of the latest attempt, and of its candidate
\* unless it named none.
OfLatestAttempt(attempt, candidate) ==
    /\ attempt = LatestAttempt
    /\ Candidate \in {0, candidate}

\* The legacy attempt takes the first candidate that is handed in for it.
BindLegacy(candidate) == attempts' = [attempts EXCEPT ![LatestAttempt] = candidate]

\* _require_collectible_task
Collectible(attempt, candidate) == stage = "VALIDATING" /\ OfLatestAttempt(attempt, candidate)
ValidationPaused(attempt, candidate) ==
    /\ stage = "ESCALATED" /\ resume = "VALIDATING"
    /\ OfLatestAttempt(attempt, candidate)

-----------------------------------------------------------------------------
(* Results *)

\* _combined_status and, for a criterion, _criterion_result.
Combined(statuses) ==
    CASE statuses = {}          -> "INVALID"
      [] "FAILED" \in statuses  -> "FAILED"
      [] "BLOCKED" \in statuses -> "BLOCKED"
      [] "PENDING" \in statuses -> "PENDING"
      [] OTHER                  -> "PASSED"

CriterionResult(criterion, body) ==
    Combined({body.asserts[a] : a \in {b \in Assertions : Criteria[b] = criterion}})

OperationStatus(body) == IF \A o \in Operations : body.ops[o] THEN "PASSED" ELSE "FAILED"
AssertionStatus(body) == Combined({body.asserts[a] : a \in Assertions})
CriterionStatus(body) ==
    Combined({CriterionResult(c, body) : c \in {Criteria[a] : a \in Assertions}})

ResultStatuses(body) == {OperationStatus(body), AssertionStatus(body), CriterionStatus(body)}

\* _required_evidence_types: a collection may list more than the contract asks for,
\* and is decided only if it lists just that.
ListsRequired(body)   == EvidenceTypes \subseteq body.types
ListsOnlyRequired(body) == body.types = EvidenceTypes

\* What a run found wrong.
Failures(r) ==
    LET body == work[r].body
    IN  [ops     |-> {o \in Operations : ~body.ops[o]},
         asserts |-> {<<a, body.asserts[a]>> : a \in {b \in Assertions :
                                                        body.asserts[b] # "PASSED"}}]

\* Mutant of Fingerprint: it names the candidate too.
Fingerprint_OfCandidate(r) ==
    [ops |-> {}, asserts |-> {<<work[r].of, "FAILED">>}]

\* _failure_fingerprint: what failed, whatever the candidate.
Fingerprint(r) == Failures(r)

-----------------------------------------------------------------------------
(* Collection *)

Working  == {"PRECHECK", "COLLECT", "VERIFY", "PERSIST", "DECIDE", "SCHEDULE", "ASK", "ENQUEUE"}
NoWork   == [step |-> "NONE"]
NoRun    == [outcome |-> "NONE"]
IsRun(r) == run[r].outcome # "NONE"

\* The job handed in for run r goes to a step; leases counts those it had.
GoTo(r, step) == work' = [work EXCEPT ![r].step = step]

\* A dependency that does not answer, a crash, or a pause, which the database refuses to
\* store: the job is leased again, as long as it may be.
LeaseAgain(r) ==
    IF work[r].leases < MaxLeases
    THEN work' = [work EXCEPT ![r].step = "PRECHECK", ![r].leases = @ + 1]
    ELSE GoTo(r, "EXHAUSTED")

\* The job of a collection; of the handler's own, the decision it was given, and what
\* the scheduling of a repair read.
NewWork(candidate, body) ==
    [step |-> "PRECHECK", leases |-> 1, of |-> candidate, attempt |-> LatestAttempt,
     body |-> body, current |-> FALSE, approval |-> 0, reason |-> "NONE"]

\* The completion endpoint and ValidationEvidenceJobScheduler.schedule: under the task
\* lock, the job of an attempt that may be collected.
HandIn(r, candidate, body) ==
    /\ work[r] = NoWork
    /\ Collectible(LatestAttempt, candidate)
    /\ BindLegacy(candidate)
    /\ work' = [work EXCEPT ![r] = NewWork(candidate, body)]
    /\ UNCHANGED <<stage, resume, paused, spent, made, run, spoiled, asked, mends>>

\* precheck, by the handler and again before the artifacts are read.
Prechecked(r, next) ==
    IF Collectible(work[r].attempt, work[r].of)
    THEN BindLegacy(work[r].of) /\ GoTo(r, next)
    ELSE /\ UNCHANGED attempts
         /\ IF ValidationPaused(work[r].attempt, work[r].of) THEN LeaseAgain(r)
            ELSE GoTo(r, "REFUSED")

Precheck(r) ==
    /\ work[r].step = "PRECHECK"
    /\ Prechecked(r, "COLLECT")
    /\ UNCHANGED <<stage, resume, paused, spent, made, run, spoiled, asked, mends>>

\* _replayed_result: the evidence of the run must be that of its collection event, and
\* the record of a decision is one more.
ReplayRun(r) == GoTo(r, IF run[r].outcome = "PENDING" THEN "DECIDE" ELSE "INCOMPLETE")

\* collect, up to the first artifact.
StartCollect(r) ==
    /\ work[r].step = "COLLECT"
    /\ \/ IsRun(r) /\ ReplayRun(r) /\ UNCHANGED attempts
       \/ ~IsRun(r) /\ Prechecked(r, "VERIFY")
    /\ UNCHANGED <<stage, resume, paused, spent, made, run, spoiled, asked, mends>>

\* HostValidationArtifactVerifier.verify, for all the artifacts: they are what they
\* claim to be, the host does not answer, or one is not.
VerifyArtifacts(r) ==
    /\ work[r].step = "VERIFY"
    /\ GoTo(r, "PERSIST") \/ LeaseAgain(r) \/ GoTo(r, "REFUSED")
    /\ UNCHANGED <<stage, resume, paused, spent, attempts, made, run, spoiled, asked, mends>>

\* What collect stores: the run, its evidence and manifest, and the event.
StoreRun(r) ==
    run' = [run EXCEPT ![r] = [outcome |-> "PENDING", attempt |-> 0,
                               place |-> Cardinality({s \in Runs : IsRun(s)}) + 1]]

\* The transaction of collect.
Persist(r) ==
    /\ work[r].step = "PERSIST"
    /\ IF IsRun(r) THEN ReplayRun(r) /\ UNCHANGED <<attempts, run>>
       ELSE IF Collectible(work[r].attempt, work[r].of) /\ ListsRequired(work[r].body)
       THEN BindLegacy(work[r].of) /\ StoreRun(r) /\ GoTo(r, "DECIDE")
       ELSE /\ UNCHANGED <<attempts, run>>
            /\ IF ValidationPaused(work[r].attempt, work[r].of) THEN LeaseAgain(r)
               ELSE GoTo(r, "REFUSED")
    /\ UNCHANGED <<stage, resume, paused, spent, made, spoiled, asked, mends>>

-----------------------------------------------------------------------------
(* Decision *)

\* Mutant of RunIsCurrent: a run is decided by the state of the task alone.
RunIsCurrent_Always(r) == r \in Runs

\* The candidate of the latest attempt is that of the run. _run_is_current asks no more.
RunIsCurrent(r) == work[r].of = Candidate

\* _is_current: the same, and no attempt began since the decision.
IsCurrent(r, attempt) == attempt = LatestAttempt /\ RunIsCurrent(r)

\* _assess_complete_run
AssessCompleteRun(r) ==
    LET statuses == ResultStatuses(work[r].body)
    IN  IF r \in spoiled \/ ~ListsOnlyRequired(work[r].body) \/ "INVALID" \in statuses
        THEN "ESCALATED"
        ELSE IF "FAILED" \in statuses THEN "FAILED"
        ELSE IF statuses \cap {"BLOCKED", "PENDING"} # {} THEN "ESCALATED"
        ELSE "PASSED"

\* _assess: the binding is stale if the task left VALIDATING or has another candidate.
Assess(r) ==
    CASE stage = "CANCELLED" -> "CANCELLED"
      [] stage \notin {"CANCELLED", "VALIDATING"} \/ ~RunIsCurrent(r) -> "BLOCKED"
      [] OTHER -> AssessCompleteRun(r)

\* The decision of a run: the stored one, or one on what is there now.
Decision(r) ==
    IF run[r].outcome # "PENDING" THEN run[r]
    ELSE [run[r] EXCEPT !.outcome = Assess(r), !.attempt = LatestAttempt]

\* decide, unless there is no decision and the task is paused.
DecideRun(r) ==
    /\ work[r].step = "DECIDE"
    /\ IF run[r].outcome = "PENDING" /\ stage = "ESCALATED" /\ resume = "VALIDATING"
       THEN LeaseAgain(r) /\ UNCHANGED run
       ELSE LET decision == Decision(r)
            IN  /\ run' = [run EXCEPT ![r] = decision]
                /\ work' = [work EXCEPT
                      ![r].step = IF decision.outcome = "FAILED" THEN "SCHEDULE" ELSE "DONE",
                      ![r].current = IsCurrent(r, decision.attempt)]
    /\ UNCHANGED <<stage, resume, paused, spent, attempts, made, spoiled, asked, mends>>

\* get_exact: the newest decided run of a candidate, or none.
ExactRun(candidate) ==
    LET decided == {r \in Runs : /\ run[r].outcome \notin {"NONE", "PENDING"}
                                 /\ work[r].of = candidate}
    IN  {r \in decided : \A s \in decided : run[s].place <= run[r].place}

-----------------------------------------------------------------------------
(* A repair is scheduled, or asked for *)

\* _repair_jobs with the same failure, of other runs.
EquivalentJobs(r) == {j \in 1 .. Len(mends) : /\ mends[j].run # r
                                              /\ mends[j].why = Fingerprint(r)}

\* _retry_approval_is_current
RetryIsCurrent(q, why) ==
    /\ q \in 1 .. Len(asked)
    /\ asked[q].answer = "RETRY" /\ asked[q].why = why

\* _human_retry_authorization: the newest RETRY for the failure that no job took.
HumanRetry(r) ==
    LET free == {q \in 1 .. Len(asked) :
                    /\ RetryIsCurrent(q, Fingerprint(r))
                    /\ \A j \in 1 .. Len(mends) : mends[j].approval # q}
    IN  IF free = {} THEN 0 ELSE CHOOSE q \in free : \A p \in free : p <= q

\* _repair_context: the failure may still be repaired, and its evidence be read.
Repairable(r) ==
    /\ stage = "VALIDATING"
    /\ run[r].outcome = "FAILED" /\ RunIsCurrent(r)
    /\ r \notin spoiled

MendOf(r) == {j \in 1 .. Len(mends) : mends[j].run = r}

\* Whether a failure goes on only if somebody says so.
MustAsk(r) == EquivalentJobs(r) # {} \/ spent >= RepairBudget

\* _repair_schedule_checkpoint: whatever came of it, the collection job ends.
LeaveCheckpoint(r) == GoTo(r, "DONE")

\* schedule, up to what it decides on what it read.
ScheduleMend(r) ==
    /\ work[r].step = "SCHEDULE"
    /\ LET retry == HumanRetry(r)
       IN  work' = [work EXCEPT
              ![r].approval = retry,
              ![r].reason = IF EquivalentJobs(r) # {} THEN "EQUIVALENT" ELSE "EXHAUSTED",
              ![r].step = IF MendOf(r) # {} \/ ~work[r].current \/ ~Repairable(r) THEN "DONE"
                          ELSE IF MustAsk(r) /\ retry = 0 THEN "ASK"
                          ELSE "ENQUEUE"]
    /\ UNCHANGED <<stage, resume, paused, spent, attempts, made, run, spoiled, asked, mends>>

\* _escalate: one RETRY_LIMIT request for each run and reason, while the task is
\* VALIDATING; otherwise the conflict is left in the checkpoint.
AskRetry(r) ==
    /\ work[r].step = "ASK"
    /\ LET known == \E q \in 1 .. Len(asked) : /\ asked[q].run = r
                                               /\ asked[q].reason = work[r].reason
       IN  IF ~known /\ stage = "VALIDATING"
           THEN /\ asked' = Append(asked, [run |-> r, reason |-> work[r].reason,
                                           why |-> Fingerprint(r), answer |-> "PENDING"])
                /\ stage' = "ESCALATED" /\ resume' = "VALIDATING"
           ELSE UNCHANGED <<asked, stage, resume>>
    /\ LeaveCheckpoint(r)
    /\ UNCHANGED <<paused, spent, attempts, made, run, spoiled, mends>>

\* _validate_repair_schedule, under the task lock.
MayEnqueue(r) ==
    LET retry == RetryIsCurrent(work[r].approval, Fingerprint(r))
    IN  /\ stage = "VALIDATING"
        /\ run[r].outcome = "FAILED" /\ RunIsCurrent(r)
        /\ retry \/ spent < RepairBudget
        /\ retry \/ ~\E j \in 1 .. Len(mends) : mends[j].why = Fingerprint(r)

\* BackgroundJobService.schedule with the validator.
EnqueueMend(r) ==
    /\ work[r].step = "ENQUEUE"
    /\ IF MendOf(r) = {} /\ MayEnqueue(r)
       THEN mends' = Append(mends, [run |-> r, why |-> Fingerprint(r), step |-> "BEGIN",
                                    approval |-> work[r].approval, made |-> 0,
                                    recorded |-> FALSE, attempt |-> 0])
       ELSE UNCHANGED mends
    /\ LeaveCheckpoint(r)
    /\ UNCHANGED <<stage, resume, paused, spent, attempts, made, run, spoiled, asked>>

\* The lease of a collection job is lost between two steps.
CollectorStops(r) ==
    /\ MayCrash /\ work[r].step \in Working \ {"PRECHECK"}
    /\ LeaseAgain(r)
    /\ UNCHANGED <<stage, resume, paused, spent, attempts, made, run, spoiled, asked, mends>>

-----------------------------------------------------------------------------
(* A repair *)

MendTo(j, step) == mends' = [mends EXCEPT ![j].step = step]
Began(j)        == mends[j].step # "BEGIN" /\ (mends[j].step = "REFUSED" => mends[j].made # 0)

\* _RepairTransitionGates
RepairAuthorized(j) ==
    /\ run[mends[j].run].outcome = "FAILED"
    /\ spent < RepairBudget \/ RetryIsCurrent(mends[j].approval, mends[j].why)
    /\ Fingerprint(mends[j].run) = mends[j].why
    /\ RunIsCurrent(mends[j].run)

\* BEGIN_REPAIR. Where it is refused the job waits for its next lease, or has had all.
BeginMend(j) ==
    /\ mends[j].step = "BEGIN"
    /\ IF stage = "VALIDATING" /\ RepairAuthorized(j)
       THEN stage' = "REPAIRING" /\ spent' = spent + 1 /\ MendTo(j, "HERMES")
       ELSE UNCHANGED <<stage, spent>> /\ MendTo(j, "REFUSED")
    /\ UNCHANGED <<resume, paused, attempts, made, work, run, spoiled, asked>>

\* _fail_task: a job that cannot go on ends the task, wherever the task is by then.
FailTask == stage' = IF stage \in {"VALIDATING", "REPAIRING"} THEN "FAILED" ELSE stage

\* _run_hermes: it ends well, or the task fails.
RunHermes(j) ==
    /\ mends[j].step = "HERMES"
    /\ \/ MendTo(j, "COMMIT") /\ UNCHANGED stage
       \/ MendTo(j, "FAILED") /\ FailTask
    /\ UNCHANGED <<resume, paused, spent, attempts, made, work, run, spoiled, asked>>

\* _commit_candidate: the host makes one commit for the job and answers with it again
\* when it is asked again; there may be nothing to commit.
CommitCandidate(j) ==
    /\ mends[j].step = "COMMIT"
    /\ \/ /\ mends[j].made = 0 /\ made < MaxCandidates
          /\ made' = made + 1
          /\ mends' = [mends EXCEPT ![j].step = "RECORD", ![j].made = made + 1]
          /\ UNCHANGED stage
       \/ mends[j].made # 0 /\ MendTo(j, "RECORD") /\ UNCHANGED <<made, stage>>
       \/ mends[j].made = 0 /\ MendTo(j, "FAILED") /\ FailTask /\ UNCHANGED made
    /\ UNCHANGED <<resume, paused, spent, attempts, work, run, spoiled, asked>>

\* _record_candidate: once, while the task is REPAIRING.
RecordCandidate(j) ==
    /\ mends[j].step = "RECORD"
    /\ IF stage = "REPAIRING" \/ mends[j].recorded
       THEN /\ mends' = [mends EXCEPT ![j].step = "REVALIDATE", ![j].recorded = TRUE]
            /\ UNCHANGED stage
       ELSE MendTo(j, "FAILED") /\ FailTask
    /\ UNCHANGED <<resume, paused, spent, attempts, made, work, run, spoiled, asked>>

\* REVALIDATE, once; while the task is escalated it is refused and the lease spent.
RevalidateMend(j) ==
    /\ mends[j].step = "REVALIDATE"
    /\ \/ /\ mends[j].attempt = 0 /\ stage = "REPAIRING"
          /\ stage' = "VALIDATING"
          /\ attempts' = Append(attempts, mends[j].made)
          /\ mends' = [mends EXCEPT ![j].step = "RERUN", ![j].attempt = Len(attempts) + 1]
       \/ mends[j].attempt # 0 /\ MendTo(j, "RERUN") /\ UNCHANGED <<stage, attempts>>
       \/ /\ mends[j].attempt = 0 /\ stage # "REPAIRING"
          /\ MendTo(j, "REFUSED") /\ UNCHANGED <<stage, attempts>>
    /\ UNCHANGED <<resume, paused, spent, made, work, run, spoiled, asked>>

\* _record_rerun_request: while the task is VALIDATING, for whatever attempt.
RequestRerun(j) ==
    /\ mends[j].step = "RERUN"
    /\ IF stage = "VALIDATING" THEN MendTo(j, "DONE") /\ UNCHANGED stage
       ELSE MendTo(j, "FAILED") /\ FailTask
    /\ UNCHANGED <<resume, paused, spent, attempts, made, work, run, spoiled, asked>>

\* The lease is lost: the handler starts over, and BEGIN_REPAIR is answered from its event.
MenderStops(j) ==
    /\ MayCrash /\ mends[j].step \in {"COMMIT", "RECORD", "REVALIDATE", "RERUN"}
    /\ MendTo(j, "HERMES")
    /\ UNCHANGED <<stage, resume, paused, spent, attempts, made, work, run, spoiled, asked>>

-----------------------------------------------------------------------------
(* Others *)

\* The answer to a RETRY_LIMIT request.
AnswerRetry(q, answer) ==
    /\ asked[q].answer = "PENDING" /\ stage = "ESCALATED"
    /\ asked' = [asked EXCEPT ![q].answer = answer]
    /\ stage' = CASE answer = "RETRY"   -> resume
                  [] answer = "ABANDON" -> "FAILED"
                  [] answer = "CANCEL"  -> "CANCELLED"
    /\ UNCHANGED <<resume, paused, spent, attempts, made, work, run, spoiled, mends>>

\* Another request escalates the task, and its answer resumes it.
PauseValidation ==
    /\ paused < Pauses /\ stage \in {"VALIDATING", "REPAIRING"}
    /\ paused' = paused + 1 /\ stage' = "ESCALATED" /\ resume' = stage
    /\ UNCHANGED <<spent, attempts, made, work, run, spoiled, asked, mends>>

ResumeValidation ==
    /\ stage = "ESCALATED" /\ \A q \in 1 .. Len(asked) : asked[q].answer # "PENDING"
    /\ stage' = resume
    /\ UNCHANGED <<resume, paused, spent, attempts, made, work, run, spoiled, asked, mends>>

\* Evidence of a run is corrected, or its artifact is lost.
SpoilEvidence(r) ==
    /\ IsRun(r) /\ r \notin spoiled
    /\ spoiled' = spoiled \cup {r}
    /\ UNCHANGED <<stage, resume, paused, spent, attempts, made, work, run, asked, mends>>

\* The publication of a candidate with a current PASSED decision.
PublishCandidate ==
    /\ stage = "VALIDATING"
    /\ \E r \in ExactRun(Candidate) : run[r].outcome = "PASSED" /\ IsCurrent(r, run[r].attempt)
    /\ stage' = "PR_ACTIVE"
    /\ UNCHANGED <<resume, paused, spent, attempts, made, work, run, spoiled, asked, mends>>

-----------------------------------------------------------------------------
ValInit ==
    /\ stage = "VALIDATING" /\ resume = "VALIDATING" /\ paused = 0 /\ spent = 0
    /\ attempts = <<IF Legacy THEN 0 ELSE 1>> /\ made = 1
    /\ work = [r \in Runs |-> NoWork] /\ run = [r \in Runs |-> NoRun]
    /\ spoiled = {} /\ asked = << >> /\ mends = << >>

CollectorStep(r) ==
    \/ Precheck(r) \/ StartCollect(r) \/ VerifyArtifacts(r) \/ Persist(r) \/ DecideRun(r)
    \/ ScheduleMend(r) \/ AskRetry(r) \/ EnqueueMend(r) \/ CollectorStops(r)

MenderStep(j) ==
    \/ BeginMend(j) \/ RunHermes(j) \/ CommitCandidate(j) \/ RecordCandidate(j)
    \/ RevalidateMend(j) \/ RequestRerun(j) \/ MenderStops(j)

ValNext ==
    \/ \E r \in Runs : CollectorStep(r) \/ SpoilEvidence(r)
    \/ \E r \in Runs, c \in Candidates, body \in Handed : c <= made /\ HandIn(r, c, body)
    \/ \E j \in 1 .. Len(mends) : MenderStep(j)
    \/ \E q \in 1 .. Len(asked), a \in {"RETRY", "ABANDON", "CANCEL"} : AnswerRetry(q, a)
    \/ PauseValidation \/ ResumeValidation \/ PublishCandidate

ValSpec == ValInit /\ [][ValNext]_valvars

-----------------------------------------------------------------------------
(* Properties *)

\* Types of the rows.
ValTypeOK ==
    /\ {stage, resume} \subseteq {"VALIDATING", "REPAIRING", "ESCALATED", "PR_ACTIVE",
                                  "FAILED", "CANCELLED"}
    /\ attempts \in Seq(0 .. MaxCandidates) /\ made \in Candidates
    /\ \A r \in Runs : run[r].outcome \in Outcomes \cup {"NONE"}
    /\ \A r \in Runs : work[r] = NoWork \/ work[r].body \in Bodies
    /\ spent = Cardinality({j \in 1 .. Len(mends) : Began(j)})

\* A verdict that passes or fails a candidate rests on results handed in for the very
\* attempt it was decided in, and of that attempt's candidate: no result is carried over
\* to a later candidate by a job that was slow, started over or paused in between.
VerdictsAreNotCarriedOver ==
    \A r \in Runs : run[r].outcome \in {"PASSED", "FAILED"} =>
        /\ work[r].attempt = run[r].attempt
        /\ work[r].of = attempts[run[r].attempt]

\* Repairs nobody was asked about are within the budget and about different failures, a
\* RETRY is spent on one repair at most, and a candidate is repaired once: whichever
\* runs of a candidate fail together and however their jobs interleave.
RepairsAreEarned ==
    LET begun == {j \in 1 .. Len(mends) : Began(j)}
        alone == {j \in begun : mends[j].approval = 0}
    IN  /\ Cardinality(alone) <= RepairBudget
        /\ \A i, j \in begun : i # j =>
              /\ work[mends[i].run].of # work[mends[j].run].of
              /\ mends[i].approval # mends[j].approval \/ mends[i].approval = 0
              /\ {i, j} \subseteq alone => Failures(mends[i].run) # Failures(mends[j].run)

\* The row of the task while its candidates are validated.  The column of the state to
\* resume is empty outside an escalation; "resume" keeps the last one.
Stages == INSTANCE TaskPromise WITH
    Tasks <- {"task"}, Starts <- {"VALIDATING"}, None <- "NULL",
    state <- [t \in {"task"} |-> stage],
    resume <- [t \in {"task"} |-> IF stage = "ESCALATED" THEN resume ELSE "NULL"]

\* Collectors, menders, pauses and answers, each by its own reading of the task, move it
\* along the edges of the life cycle only: a job that gives up fails no task that others
\* escalated or ended, and a pause ends where it began (repair_loop.py,
\* validation_decisioning.py).
ValidationKeepsPromise == Stages!Spec
=============================================================================
