---------------------------- MODULE PullRequests ----------------------------
(* The draft pull request of one task, from its publication to the hand-off: what  *)
(* the service pushes and binds (draft_pull_requests.py), the deliveries of GitHub *)
(* it records and the wake-ups they cause (github_webhooks.py), the facts it calls *)
(* the pull request ready by (readiness.py), and the repairs that review comments  *)
(* ask for (review_resolution.py).                                                 *)
(*                                                                                 *)
(* Heads are the commits 1, 2, ... of the service, each a child of the frozen base *)
(* of the task, and commits of others. There is one required check, one reviewer   *)
(* and one review thread. Time is that of GitHub, whose seconds two updates may    *)
(* share; a thread carries none and is stamped when it is received. Exceptions     *)
(* that a retry of a job would meet again are kept, those of the network are left  *)
(* out.                                                                            *)
EXTENDS Naturals, Sequences, FiniteSets

CONSTANTS
    Foreign,        \* commits that others push to the branch
    Comments,       \* review comments
    Informational,  \* the comments the classifier finds nothing to do for
    Rules,          \* policy version -> its review rules
    Permits,        \* review rule -> the comments whose repair it permits
    Budget,         \* max_attempts: the repairs rules may start
    MaxCommits,     \* bound: the commits of the service
    MaxSent,        \* bound: the deliveries of GitHub
    Crashes,        \* BOOLEAN: the process may stop after a publication
    None

ASSUME PullRequestAssumption == MaxCommits \in Nat \ {0}

\* A comment has an identity of its own among the facts GitHub reports.
ASSUME CommentAssumption == Comments \cap {"pr", "ci", "rev", "thr"} = {}

VARIABLES
    phase,      \* task.state
    retries,    \* task.retry_count
    local,      \* the head of the workspace
    verdict,    \* the head with a current PASSED decision
    opening,    \* VerifiedDraftPullRequestService.open: its head, step and repair
    opened,     \* the head of the last OPEN_VERIFIED_DRAFT_PR
    log,        \* the GitHub events of the task, in sequence
    sent,       \* the deliveries of GitHub, in the order they happened
    delivery,   \* what became of each
    jobs,       \* the wake-ups, and the calls they make
    assessed,   \* the events assessed as informational
    approvals,  \* the REVIEW_CONFLICT requests
    repairs,    \* the review-resolution jobs
    version,    \* the active policy version
    remote,     \* the head of the branch at GitHub
    pull        \* the pull request at GitHub: "ABSENT", "DRAFT" or "OPEN"

task   == <<phase, retries, local, verdict>>
github == <<remote, pull, sent>>
review == <<assessed, approvals, repairs, version>>
prvars == <<phase, retries, local, verdict, opening, opened, log, sent, delivery, jobs,
            assessed, approvals, repairs, version, remote, pull>>

Heads     == 1 .. MaxCommits \cup Foreign
Policies  == DOMAIN Rules
Resources == {"pr", "ci", "rev", "thr"} \cup Comments

Phases == {"VALIDATING", "PR_ACTIVE", "READY_FOR_HUMAN_MERGE", "REPAIRING", "ESCALATED",
           "HANDED_OFF", "FAILED"}
Ended  == {"HANDED_OFF", "FAILED"}

States(of) ==
    CASE of = "pr"  -> {"DRAFT", "OPEN"}
      [] of = "ci"  -> {"PASSED", "FAILED"}
      [] of = "rev" -> {"APPROVED", "CHANGES_REQUESTED", "COMMENTED"}
      [] of = "thr" -> {"OPEN", "RESOLVED"}
      [] OTHER      -> {"OPEN", "DELETED"}

-----------------------------------------------------------------------------
(* The event log and what is read from it *)

\* The last of some places in a sequence, or of some times; 0 if there is none.
LastOf(places) ==
    IF places = {} THEN 0 ELSE CHOOSE i \in places : \A k \in places : k <= i

LatestBinding == LastOf({i \in DOMAIN log : log[i].type = "BOUND"})

\* The head change after the latest binding that counts, or 0.
HeadChange ==
    LET i == LastOf({k \in DOMAIN log : log[k].type = "HEAD"})
    IN  IF i # 0 /\ i > LatestBinding THEN i ELSE 0

\* _effective_task_head: the head the pull request has as far as the log tells.
EffectiveHead ==
    LET binding == LatestBinding
        change  == HeadChange
    IN  IF binding = 0 THEN None ELSE log[IF change # 0 THEN change ELSE binding].head

\* _current_pr_identity: the same for a review, which reads it for itself.
CurrentPrHead == EffectiveHead

\* The state of a review or a thread after the events at these places of the log, where
\* a COMMENTED review takes nothing back.
StateAfter(places, of, first) ==
    LET i == LastOf({k \in places : /\ log[k].type = "UPDATE" /\ log[k].of = of
                                    /\ ~(of = "rev" /\ log[k].state = "COMMENTED")})
    IN  IF i = 0 THEN first ELSE log[i].state

\* _review_state_carryover: what blocks, over all the heads there have been.
Carryover == [rev |-> StateAfter(DOMAIN log, "rev", None) = "CHANGES_REQUESTED",
              thr |-> StateAfter(DOMAIN log, "thr", None) = "OPEN"]

\* _require_no_human_or_cancel_fence: a request waits for an answer.
Fenced == \E a \in approvals : a.status = "PENDING"

\* _DraftProofGates: the proof is of what the task is bound to (nothing here changes
\* that) and nobody is asked. Whether the decision is current is not asked again.
ProofHolds == ~Fenced

\* _draft_pr_facts: the head of the last activation, while its proof still holds.
DraftFacts == IF ProofHolds THEN opened ELSE None

\* Where the events are that the facts rest on: those for the effective head since it
\* became that.
Projection ==
    LET start == IF HeadChange # 0 THEN HeadChange ELSE LatestBinding
    IN  {k \in DOMAIN log : k > start /\ log[k].type = "UPDATE" /\ log[k].head = EffectiveHead}

\* The comments that are open on the current head, by the place of their last event.
OpenComments ==
    LET start == IF HeadChange # 0 THEN HeadChange ELSE LatestBinding
        head  == EffectiveHead
        on(c) == {k \in DOMAIN log : log[k].type = "UPDATE" /\ log[k].of = c /\ log[k].head = head}
        last  == {LastOf(on(c)) : c \in Comments}
    IN  {i \in last : i > start /\ log[i].state = "OPEN"}

\* _github_facts: what the events say of the pull request.
GitHubFacts ==
    LET binding == LatestBinding
        carry  == log[binding].carry
        events == Projection
        rev == StateAfter(events, "rev", IF carry.rev THEN "CHANGES_REQUESTED" ELSE None)
        thr == StateAfter(events, "thr", IF carry.thr THEN "OPEN" ELSE None)
    IN  IF binding = 0
        THEN [head |-> None, pr |-> None, ci |-> None, clear |-> FALSE, open |-> {}]
        ELSE [head  |-> EffectiveHead,
              pr    |-> StateAfter(events, "pr", None),
              ci    |-> StateAfter(events, "ci", None),
              clear |-> rev # "CHANGES_REQUESTED" /\ thr # "OPEN",
              open  |-> OpenComments]

\* _repairs_authorized: no repair is about, every open comment asks for none.
RepairsSettled(open) ==
    /\ \A i \in 1 .. Len(repairs) : repairs[i].status = "FAILED"
    /\ open \subseteq assessed

\* _assess
Assessment ==
    LET facts == GitHubFacts
    IN  [draft |-> DraftFacts, github |-> facts, settled |-> RepairsSettled(facts.open)]

\* _ReadinessAssessment.ready: nothing blocks.
IsReady(a) ==
    /\ a.draft # None
    /\ a.github.head = a.draft
    /\ a.github.pr = "DRAFT"
    /\ a.github.ci = "PASSED"
    /\ a.github.clear
    /\ a.settled

-----------------------------------------------------------------------------
(* Validation and publication *)

\* The decision on the head of the workspace passes; it may be superseded.
Decide ==
    /\ phase = "VALIDATING"
    /\ verdict' = IF verdict = local THEN None ELSE local
    /\ UNCHANGED <<phase, retries, local, opening, opened, log, github, delivery, jobs, review>>

\* _context and _current_pass: what open wants of the task, before and after.
MayPublish(h) == phase = "VALIDATING" /\ ~Fenced /\ verdict = h

\* A delivery of GitHub: a commit of the pull request, or an update.
Delivery(of, h, state, at, sync) ==
    [of |-> of, head |-> h, state |-> state, at |-> at, sync |-> sync]

Now == LastOf({sent[i].at : i \in 1 .. Len(sent)})

Deliver(d) ==
    /\ Len(sent) < MaxSent
    /\ sent' = Append(sent, d)
    /\ delivery' = Append(delivery, "SENT")

\* GitHub tells of a new head of the pull request, when there is one.
Synchronize(h) ==
    IF pull = "ABSENT" \/ remote = h THEN UNCHANGED <<sent, delivery>>
    ELSE Deliver(Delivery("pr", h, pull, Now + 1, TRUE))

\* The repair whose commit is being validated and published, or 0.
Publishing == LastOf({i \in DOMAIN repairs : repairs[i].status = "REVALIDATING"})

\* Whom open is called for: a first publication, or the repair of a comment.
MayOpen == opening = None /\ MayPublish(local) /\ (opened = None \/ Publishing # 0)

\* What GitHub takes of a push that is not forced: a branch it does not have, or one
\* whose head is an ancestor. Commits of the service have the base for a parent, and
\* the head of the branch is never the base.
IsFastForward(h) == remote \in {0, h}

\* open up to git.push; a push that is refused changes nothing.
Push ==
    /\ MayOpen
    /\ IsFastForward(local)
    /\ Synchronize(local)
    /\ remote' = local
    /\ opening' = [head |-> local, step |-> "PUSHED"]
    /\ UNCHANGED <<task, opened, log, jobs, review, pull>>

\* GitHubDraftPullRequestPublisher.ensure_draft and observe: the open pull request of
\* the branch, or a new one; a lost answer is looked up, never asked for again.
EnsureDraft ==
    /\ opening # None /\ opening.step = "PUSHED"
    /\ remote = opening.head
    /\ pull # "OPEN"
    /\ pull' = "DRAFT"
    /\ IF pull = "DRAFT" THEN UNCHANGED <<sent, delivery>>
       ELSE Deliver(Delivery("pr", remote, "DRAFT", Now + 1, FALSE))
    /\ opening' = [opening EXCEPT !.step = "OBSERVED"]
    /\ UNCHANGED <<task, opened, log, jobs, review, remote>>

\* _capture_proof, after the second look at the workspace and at the decision.
CaptureProof ==
    /\ opening # None /\ opening.step = "OBSERVED"
    /\ MayPublish(opening.head)
    /\ opening' = [opening EXCEPT !.step = "PROVEN"]
    /\ UNCHANGED <<task, opened, log, github, delivery, jobs, review>>

\* The deliveries a binding to h takes out of quarantine.
Reopened(h) == {d \in 1 .. Len(sent) : delivery[d] = "UNKNOWN" /\ sent[d].head = h}

\* bind_pull_request: the binding, unless the latest says the same, and the replay of
\* what came too early for it.
Bind ==
    /\ opening # None /\ opening.step = "PROVEN"
    /\ phase \notin Ended
    /\ LET b == [type |-> "BOUND", of |-> "pr", head |-> opening.head, state |-> None,
                 at |-> 0, carry |-> Carryover]
       IN  log' = IF LatestBinding # 0 /\ log[LatestBinding] = b THEN log ELSE Append(log, b)
    /\ delivery' = [d \in 1 .. Len(sent) |->
                      IF d \in Reopened(opening.head) THEN "REOPENED" ELSE delivery[d]]
    /\ opening' = [opening EXCEPT !.step = "BOUND"]
    /\ UNCHANGED <<task, opened, github, jobs, review>>

WakeUp(i) == [event |-> i, step |-> "QUEUED", seen |-> None]

\* OPEN_VERIFIED_DRAFT_PR, once what was reopened is processed, and the reconciliation
\* after it (a job, if it fails), unless the process stops between the two.
Activate(stops) ==
    /\ opening # None /\ opening.step = "BOUND"
    /\ \A d \in 1 .. Len(sent) : delivery[d] # "REOPENED"
    /\ phase = "VALIDATING" /\ ProofHolds
    /\ stops => Crashes
    /\ phase' = "PR_ACTIVE"
    /\ opened' = opening.head
    /\ opening' = None
    /\ jobs' = IF stops THEN jobs ELSE Append(jobs, [WakeUp(0) EXCEPT !.step = "RECONCILE"])
    /\ UNCHANGED <<retries, local, verdict, log, github, delivery, review>>

\* open raises, or the process stops: nothing it did is undone.
OpenFails ==
    /\ opening # None
    /\ opening' = None
    /\ UNCHANGED <<task, opened, log, github, delivery, jobs, review>>

-----------------------------------------------------------------------------
(* Deliveries *)

\* _normalize_update: a thread carries no time of its own and takes that of its
\* receipt, here its place among the received.
Stamp(d) ==
    IF sent[d].of = "thr" THEN Cardinality({x \in 1 .. Len(sent) : delivery[x] # "SENT"}) + 1
                          ELSE sent[d].at

\* _ingest: the delivery is stored before anything is done about it. One that comes
\* again is only processed again.
Receive(d) ==
    /\ delivery[d] = "SENT"
    /\ delivery' = [delivery EXCEPT ![d] = "RECEIVED"]
    /\ sent' = [sent EXCEPT ![d].at = Stamp(d)]
    /\ UNCHANGED <<task, opening, opened, log, jobs, review, remote, pull>>

\* What the delivery says, once its head is compared with the binding's: an update of
\* the head there is, the news of another head, or nothing current.
Meaning(u) ==
    IF LatestBinding = 0 THEN "UNKNOWN"
    ELSE IF u.head \in {log[LatestBinding].head, EffectiveHead} THEN "UPDATE"
    ELSE IF u.of = "pr" /\ u.sync THEN "HEAD"
    ELSE "STALE"

\* _latest_resource_event: nothing recorded of this resource on this head is as recent.
Newer(u, type) ==
    LET i == LastOf({k \in DOMAIN log : /\ log[k].type = type /\ log[k].of = u.of
                                        /\ log[k].head = u.head})
    IN  i = 0 \/ log[i].at < u.at

\* Mutant of Accept: the event is recorded, nobody is woken.
Accept_Silently(u, type) ==
    /\ log' = Append(log, [type |-> type, of |-> u.of, head |-> u.head, state |-> u.state,
                           at |-> u.at, carry |-> None])
    /\ UNCHANGED jobs

\* The event and the github-webhook job of the same transaction.
Accept(u, type) ==
    /\ log' = Append(log, [type |-> type, of |-> u.of, head |-> u.head, state |-> u.state,
                           at |-> u.at, carry |-> None])
    /\ jobs' = Append(jobs, WakeUp(Len(log) + 1))

\* Mutant of Refused: only a failed task takes no more events.
Refused_Failed == phase = "FAILED"

\* An ended task takes no more events: the delivery stays in quarantine.
Refused == phase \in Ended

Finish(d, disposition) == delivery' = [delivery EXCEPT ![d] = disposition]

\* _process
Process(d) ==
    /\ delivery[d] \in {"RECEIVED", "REOPENED"}
    /\ LET u == sent[d]
           m == Meaning(u)
       IN  \/ /\ m \in {"UNKNOWN", "STALE"}
              /\ Finish(d, m)
              /\ UNCHANGED <<log, jobs>>
           \/ /\ m \in {"UPDATE", "HEAD"}
              /\ IF Refused THEN Finish(d, "REFUSED") /\ UNCHANGED <<log, jobs>>
                 ELSE IF Newer(u, m) THEN Finish(d, "ACCEPTED") /\ Accept(u, m)
                 ELSE Finish(d, "STALE") /\ UNCHANGED <<log, jobs>>
    /\ UNCHANGED <<task, opening, opened, github, review>>

-----------------------------------------------------------------------------
(* Readiness *)

Set(j, step, seen) ==
    jobs' = [jobs EXCEPT ![j] = [event |-> @.event, step |-> step, seen |-> seen]]

\* The wake-up of an open comment sees to the comment before it reconciles.
IsComment(j) ==
    /\ jobs[j].event # 0
    /\ log[jobs[j].event].type = "UPDATE"
    /\ log[jobs[j].event].of \in Comments
    /\ log[jobs[j].event].state = "OPEN"

\* A leased job runs on when the task is escalated, a queued one is not leased then.
Claimable == phase # "ESCALATED"

\* GitHubWebhookJobHandler with nothing to schedule.
WakeWorkflow(j) ==
    /\ jobs[j].step = "QUEUED" /\ Claimable
    /\ ~IsComment(j)
    /\ Set(j, "RECONCILE", None)
    /\ UNCHANGED <<task, opening, opened, log, github, delivery, review>>

\* A comment on a task that is ready or not active: readiness is reconciled first.
InvalidateFirst(j) ==
    /\ jobs[j].step = "QUEUED" /\ Claimable
    /\ IsComment(j)
    /\ phase # "PR_ACTIVE"
    /\ Set(j, "RECONCILE_FIRST", None)
    /\ UNCHANGED <<task, opening, opened, log, github, delivery, review>>

\* reconcile: the state and the facts are read.
ReadFacts(j) ==
    /\ jobs[j].step \in {"RECONCILE", "RECONCILE_FIRST"}
    /\ LET next == IF jobs[j].step = "RECONCILE" THEN "READ" ELSE "READ_FIRST"
       IN  IF phase \in {"PR_ACTIVE", "READY_FOR_HUMAN_MERGE"}
           THEN Set(j, next, [phase |-> phase, facts |-> Assessment])
           ELSE Set(j, IF next = "READ" THEN "DONE" ELSE "QUEUED", None)
    /\ UNCHANGED <<task, opening, opened, log, github, delivery, review>>

\* _ReadinessTransitionGates: under the lock the facts are assessed again, and must be
\* those of the assessment.
StillSeen(seen) == phase = seen.phase /\ Assessment = seen.facts

\* reconcile: MARK_MERGE_READY, INVALIDATE_READINESS, or nothing to change. A refused
\* transition ends the wake-up too; the one before a comment is tried again.
Reconcile(j) ==
    /\ jobs[j].step \in {"READ", "READ_FIRST"}
    /\ LET seen == jobs[j].seen
           ready == IsReady(seen.facts)
       IN  phase' = IF ~StillSeen(seen) THEN phase
                    ELSE IF phase = "PR_ACTIVE" /\ ready THEN "READY_FOR_HUMAN_MERGE"
                    ELSE IF phase = "READY_FOR_HUMAN_MERGE" /\ ~ready THEN "PR_ACTIVE"
                    ELSE phase
    /\ Set(j, IF jobs[j].step = "READ" THEN "DONE" ELSE "QUEUED", None)
    /\ UNCHANGED <<retries, local, verdict, opening, opened, log, github, delivery, review>>

\* acknowledge_handoff: the answer names the head it is for, and is taken while the
\* facts, assessed again, still say so.
AcknowledgeHandoff(h) ==
    /\ phase = "READY_FOR_HUMAN_MERGE"
    /\ IsReady(Assessment)
    /\ Assessment.draft = h
    /\ phase' = "HANDED_OFF"
    /\ UNCHANGED <<retries, local, verdict, opening, opened, log, github, delivery, jobs, review>>

-----------------------------------------------------------------------------
(* Review comments *)

CommentOf(e) == log[e].of

\* _approved_one_off: the request whose fingerprint is of this comment, on this head,
\* under this policy, was approved.
OneOff(e, p) == \E a \in approvals : a.event = e /\ a.policy = p /\ a.status = "APPROVED"

\* _rule_matches: the rule is approved, of low risk and made for such a comment.
RuleMatches(rule, c) == c \in Permits[rule]

\* _unsafe_reason: a comment no rule may answer. What is known of its text is in what
\* the rules permit, the retry budget is of the task.
Unsafe(c) == c \in Informational \/ retries >= Budget

\* _authorization: a one-off approval, or the one rule of the policy that matches. Two
\* that do are a conflict.
Authority(e) ==
    LET c == CommentOf(e)
        matches == {rule \in Rules[version] : RuleMatches(rule, c)}
    IN  CASE OneOff(e, version) -> "ONE_OFF_APPROVAL"
          [] ~OneOff(e, version) /\ ~Unsafe(c) /\ Cardinality(matches) = 1
                -> CHOOSE rule \in matches : TRUE
          [] OTHER -> None

\* _review_context: the task is active and the comment is on the head there is.
InContext(e) == phase = "PR_ACTIVE" /\ log[e].head = CurrentPrHead

\* schedule up to the assessment: what the comment is and who allows its repair.
AssessComment(j) ==
    /\ jobs[j].step = "QUEUED" /\ Claimable
    /\ IsComment(j)
    /\ LET e == jobs[j].event
       IN  /\ InContext(e)
           /\ Set(j, "SCHEDULE", [phase |-> version, facts |-> Authority(e)])
    /\ UNCHANGED <<task, opening, opened, log, github, delivery, review>>

\* _validate_schedule, under the lock of the task.
MaySchedule(e, by) ==
    /\ InContext(e)
    /\ by # "ONE_OFF_APPROVAL" => retries < Budget

Pending(e, p) == [event |-> e, policy |-> p, status |-> "PENDING"]

\* _capture_assessment of an informational comment: it is done with.
Dismiss(e) ==
    /\ assessed' = assessed \cup {e}
    /\ UNCHANGED <<phase, approvals, repairs>>

\* _request_approval: the task stops for an answer; asked twice, the request is the same.
RequestApproval(e, p) ==
    /\ IF \E a \in approvals : a.event = e /\ a.policy = p
       THEN UNCHANGED <<approvals, phase>>
       ELSE approvals' = approvals \cup {Pending(e, p)} /\ phase' = "ESCALATED"
    /\ UNCHANGED <<assessed, repairs>>

\* The one job of the event (its idempotency key), when the validator lets it pass.
Enqueue(e, by, p) ==
    /\ MaySchedule(e, by)
    /\ repairs' = IF \E i \in 1 .. Len(repairs) : repairs[i].event = e THEN repairs
                  ELSE Append(repairs, [event |-> e, by |-> by, policy |-> p, status |-> "QUEUED"])
    /\ UNCHANGED <<phase, assessed, approvals>>

\* schedule, from the assessment on.
ScheduleRepair(j) ==
    /\ jobs[j].step = "SCHEDULE"
    /\ phase = "PR_ACTIVE"
    /\ LET e == jobs[j].event
           p == jobs[j].seen.phase
           by == jobs[j].seen.facts
       IN  \/ by = None /\ CommentOf(e) \in Informational /\ Dismiss(e)
           \/ by = None /\ CommentOf(e) \notin Informational /\ RequestApproval(e, p)
           \/ by # None /\ Enqueue(e, by, p)
    /\ Set(j, "RECONCILE", None)
    /\ UNCHANGED <<retries, local, verdict, opening, opened, log, github, delivery, version>>

\* The schedule is refused: the task moved on, or the comment is not on the head. The
\* attempt starts over; when there are none left the job has failed.
ScheduleRefused(j, last) ==
    /\ IsComment(j)
    /\ LET e == jobs[j].event
       IN  \/ /\ jobs[j].step = "SCHEDULE"
              /\ phase # "PR_ACTIVE" \/ (jobs[j].seen.facts # None /\ ~MaySchedule(e, jobs[j].seen.facts))
           \/ /\ jobs[j].step = "QUEUED" /\ Claimable
              /\ phase \notin {"READY_FOR_HUMAN_MERGE"}
              /\ ~InContext(e)
              /\ last
    /\ Set(j, IF last THEN "FAILED" ELSE "QUEUED", None)
    /\ UNCHANGED <<task, opening, opened, log, github, delivery, review>>

\* ApprovalService.decide of a REVIEW_CONFLICT request, and resume_approved, which the
\* browser calls after it and which a crash may lose.
Answer(a, allow) ==
    /\ phase = "ESCALATED"
    /\ a \in approvals /\ a.status = "PENDING"
    /\ approvals' = (approvals \ {a})
                       \cup {[a EXCEPT !.status = IF allow THEN "APPROVED" ELSE "REJECTED"]}
    /\ phase' = IF allow THEN "PR_ACTIVE" ELSE "FAILED"
    /\ UNCHANGED <<retries, local, verdict, opening, opened, log, github, delivery, jobs,
                   assessed, repairs, version>>

ResumeApproved(a) ==
    /\ a \in approvals /\ a.status = "APPROVED"
    /\ InContext(a.event) /\ a.policy = version
    /\ \A i \in 1 .. Len(repairs) : repairs[i].event # a.event
    /\ repairs' = Append(repairs, [event |-> a.event, by |-> "ONE_OFF_APPROVAL",
                                   policy |-> version, status |-> "QUEUED"])
    /\ UNCHANGED <<task, opening, opened, log, github, delivery, jobs, assessed, approvals, version>>

\* Mutant of MayRepair: the authority is not looked at again when the repair starts.
MayRepair_Once(r) == log[r.event].head = CurrentPrHead /\ ~Fenced

\* _ReviewRepairGates: the assessed head is current, the policy the one that allowed
\* the repair, the rule or the approval still does, and nobody is asked anything.
MayRepair(r) ==
    /\ log[r.event].head = CurrentPrHead
    /\ r.policy = version
    /\ ~Fenced
    /\ IF r.by = "ONE_OFF_APPROVAL" THEN OneOff(r.event, version)
                                    ELSE r.by \in Rules[version] /\ retries < Budget

StatusOf(i, s) == repairs' = [repairs EXCEPT ![i].status = s]

\* ReviewResolutionJobHandler: BEGIN_REPAIR.
BeginRepair(i) ==
    /\ repairs[i].status = "QUEUED"
    /\ phase = "PR_ACTIVE"
    /\ MayRepair(repairs[i])
    /\ phase' = "REPAIRING"
    /\ retries' = retries + 1
    /\ StatusOf(i, "STARTED")
    /\ UNCHANGED <<local, verdict, opening, opened, log, github, delivery, jobs, assessed,
                   approvals, version>>

\* _commit: the host commits on the head the comment was for; the workspace is on it.
CommitRepair(i) ==
    /\ repairs[i].status = "STARTED"
    /\ local = log[repairs[i].event].head
    /\ local < MaxCommits
    /\ local' = local + 1
    /\ StatusOf(i, "COMMITTED")
    /\ UNCHANGED <<phase, retries, verdict, opening, opened, log, github, delivery, jobs,
                   assessed, approvals, version>>

\* _capture_candidate and REVALIDATE: the candidate has no decision yet.
Revalidate(i) ==
    /\ repairs[i].status = "COMMITTED"
    /\ phase = "REPAIRING"
    /\ phase' = "VALIDATING"
    /\ verdict' = None
    /\ StatusOf(i, "REVALIDATING")
    /\ UNCHANGED <<retries, local, opening, opened, log, github, delivery, jobs, assessed,
                   approvals, version>>

\* A step of the repair is refused or fails for good; the task stays where it is. The
\* last step, the publication of the repaired head, always does: see RepairsArePushed.
RepairFails(i) ==
    /\ repairs[i].status \in {"QUEUED", "STARTED", "COMMITTED", "REVALIDATING"}
    /\ opening = None
    /\ StatusOf(i, "FAILED")
    /\ UNCHANGED <<task, opening, opened, log, github, delivery, jobs, assessed, approvals, version>>

-----------------------------------------------------------------------------
(* What happens outside *)

\* A new policy version is activated.
ActivatePolicy ==
    /\ version + 1 \in Policies
    /\ version' = version + 1
    /\ UNCHANGED <<task, opening, opened, log, github, delivery, jobs, assessed, approvals, repairs>>

\* Somebody else pushes to the branch, by force or not.
OtherPush(h) ==
    /\ pull # "ABSENT" /\ remote # h
    /\ remote' = h
    /\ Synchronize(h)
    /\ UNCHANGED <<task, opening, opened, log, jobs, review, pull>>

\* The pull request is marked as ready for review, or converted to a draft.
ToggleDraft(at) ==
    /\ pull # "ABSENT"
    /\ pull' = IF pull = "DRAFT" THEN "OPEN" ELSE "DRAFT"
    /\ Deliver(Delivery("pr", remote, pull', at, FALSE))
    /\ UNCHANGED <<task, opening, opened, log, jobs, review, remote>>

\* A check, a review, a thread or a comment on the head there is.
Update(of, state, at) ==
    /\ pull # "ABSENT"
    /\ Deliver(Delivery(of, remote, state, at, FALSE))
    /\ UNCHANGED <<task, opening, opened, log, jobs, review, remote, pull>>

-----------------------------------------------------------------------------

PrInit ==
    /\ phase = "VALIDATING" /\ retries = 0 /\ local = 1 /\ verdict = 1
    /\ opening = None /\ opened = None
    /\ log = << >> /\ sent = << >> /\ delivery = << >> /\ jobs = << >>
    /\ assessed = {} /\ approvals = {} /\ repairs = << >> /\ version = 1
    /\ remote = 0 /\ pull = "ABSENT"

Publication == Decide \/ Push \/ EnsureDraft \/ CaptureProof \/ Bind \/ OpenFails
                      \/ \E stops \in BOOLEAN : Activate(stops)

JobStepPr(j) ==
    \/ WakeWorkflow(j) \/ InvalidateFirst(j) \/ ReadFacts(j) \/ Reconcile(j)
    \/ AssessComment(j) \/ ScheduleRepair(j)
    \/ \E last \in BOOLEAN : ScheduleRefused(j, last)

RepairStep(i) ==
    BeginRepair(i) \/ CommitRepair(i) \/ Revalidate(i) \/ RepairFails(i)

Service ==
    \/ Publication
    \/ \E d \in 1 .. Len(sent) : Process(d)
    \/ \E j \in 1 .. Len(jobs) : JobStepPr(j)
    \/ \E i \in 1 .. Len(repairs) : RepairStep(i)

Outside ==
    \/ \E d \in 1 .. Len(sent) : Receive(d)
    \/ \E a \in approvals : ResumeApproved(a) \/ \E allow \in BOOLEAN : Answer(a, allow)
    \/ \E h \in Heads : AcknowledgeHandoff(h)
    \/ ActivatePolicy
    \/ \E h \in Foreign : OtherPush(h)
    \/ \E at \in {Now, Now + 1} :
          \/ ToggleDraft(at)
          \/ \E of \in Resources \ {"pr"} : \E s \in States(of) : Update(of, s, at)

PrNext == Service \/ Outside

PrSpec == PrInit /\ [][PrNext]_prvars

-----------------------------------------------------------------------------
(* Properties *)

\* Every variable stays in its type.
PrTypeOK ==
    /\ phase \in Phases
    /\ local \in Heads /\ verdict \in Heads \cup {None} /\ opened \in Heads \cup {None}
    /\ remote \in Heads \cup {0}
    /\ retries \in 0 .. MaxCommits
    /\ Len(sent) = Len(delivery)
    /\ \A j \in 1 .. Len(jobs) : jobs[j].event \in 0 .. Len(log)
    /\ \A i \in 1 .. Len(repairs) : repairs[i].event \in 1 .. Len(log)

\* READINESS_HANDOFF.md's "Invalidation": a task that is called ready and is not is on
\* its way back. Some wake-up has still to reconcile it; no interleaving of reads,
\* refused transitions and new events leaves nobody to do it.
StaleReadinessIsWoken ==
    phase = "READY_FOR_HUMAN_MERGE" /\ ~IsReady(Assessment)
        => \E j \in 1 .. Len(jobs) : jobs[j].step \notin {"DONE", "FAILED"}

\* A task that was handed off was ready for the head that was published, and stays it:
\* nothing recorded later, by a wake-up on its way or a repair, makes it another.
HandoffIsExact == phase = "HANDED_OFF" => IsReady(Assessment) /\ opened = local

\* The row of the task once a pull request is due; comments escalate it from PR_ACTIVE.
Reviewed == INSTANCE TaskPromise WITH
    Tasks <- {"task"}, Starts <- {"VALIDATING"}, None <- "NULL",
    state <- [t \in {"task"} |-> phase],
    resume <- [t \in {"task"} |-> IF phase = "ESCALATED" THEN "PR_ACTIVE" ELSE "NULL"]

\* Publication, wake-ups, repairs, answers and the owner move the task along the edges of
\* the life cycle only, whatever each of them read before (readiness.py,
\* draft_pull_requests.py, review_resolution.py).
PullRequestKeepsPromise == Reviewed!Spec

\* A repair that starts is of a comment on the head there is, and what allows it is
\* what the policy of that moment says: the rule is one of its rules, the approval was
\* given under it. A rule the policy dropped since it was scheduled starts nothing.
RepairsAreAuthorized ==
    [][\A i \in 1 .. Len(repairs) :
          repairs[i].status = "QUEUED" /\ repairs'[i].status = "STARTED"
              => /\ log[repairs[i].event].head = EffectiveHead
                 /\ \/ \E rule \in Rules[version] : RuleMatches(rule, CommentOf(repairs[i].event))
                    \/ OneOff(repairs[i].event, version)]_prvars

\* MVP_IMPLEMENTATION_BACKLOG.md:369 "makes scoped repairs after policy checks, retests,
\* and updates the draft PR": when a repair has passed its validation and nobody else
\* touched the branch, the push of the repaired head is one that GitHub takes.
RepairsArePushed == MayOpen /\ remote \notin Foreign => IsFastForward(local)
=============================================================================
