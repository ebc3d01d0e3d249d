------------------------------ MODULE Approvals ------------------------------
(***************************************************************************)
(* Questions to the owner: approvals.py, with the briefing, steering and   *)
(* cancellation services that raise and withdraw them.                     *)
(*                                                                         *)
(* A task that needs an answer waits in BRIEF_PENDING_APPROVAL or in       *)
(* ESCALATED, on one approval request.  Every service call is one or more  *)
(* serialized transactions; between two of them anybody may act, so a      *)
(* brief is stored and routed in two steps, a cancellation reads the       *)
(* pending request before it answers it, and the expiry sweep works        *)
(* through a list it read earlier.  A refused call changes nothing.        *)
(* Every transition, the release of a wait included, wants the evidence it *)
(* cites to stand, and the owner may correct or delete evidence any time.  *)
(*                                                                         *)
(* The clock is the set of requests whose expires_at has passed.  Of the   *)
(* life cycle only what approvals touch is kept: IMPLEMENTING and          *)
(* VALIDATING stand for the states work is done in.                        *)
(***************************************************************************)
EXTENDS Naturals, Sequences, FiniteSets

CONSTANTS
    Tasks,          \* task rows
    Requests,       \* approval request ids
    DecisionIds,    \* decision ids of browsers and cancellations
    Types,          \* request types in use
    Candidates,     \* evaluated rule candidates
    TaskOf,         \* the task a candidate was learned on
    LineageOf,      \* the rule lineage a candidate belongs to
    Eligible,       \* candidates of high severity or with two confirmed occurrences
    MaxBriefs,      \* bound on the briefs of a task
    MaxPolicies,    \* bound on the policies a rollback or a prompt may lead to
    None            \* SQL NULL, and the absent row

RequestTypes == {"BRIEF", "UNSAFE_ACTION", "RETRY_LIMIT", "REVIEW_CONFLICT", "REVIEW_RULE"}

ASSUME ApprovalAssumption ==
    /\ Types \subseteq RequestTypes
    /\ TaskOf \in [Candidates -> Tasks]
    /\ DOMAIN LineageOf = Candidates
    /\ Eligible \subseteq Candidates
    /\ Candidates \cap Requests = {}
    /\ MaxBriefs \in Nat
    /\ MaxPolicies \in Nat

VARIABLES
    state,      \* tasks.state
    resume,     \* tasks.escalation_resume_state
    brief,      \* the bound brief: version (0: none), human, policy, response
    versions,   \* how many briefs the task has had
    request,    \* approval_requests
    event,      \* transition id -> its TASK_STATE_TRANSITION row
    status,     \* rule_candidates.status
    intact,     \* evidence that stands: what a candidate cites, what supports a request
    rules,      \* review_rules, in order of creation, with the policy that took each in
    policy,     \* policy_versions of the active lineage: each the sequence of its rules
    due,        \* requests whose expires_at has passed
    listed,     \* requests the expiry sweep has read and not handled yet
    cancelling  \* what the first transaction of cancel_task read

vars == <<state, resume, brief, versions, request, event, status, intact, rules, policy,
          due, listed, cancelling>>

-----------------------------------------------------------------------------
(* Requests and decisions *)

WorkStates == {"BRIEFING", "IMPLEMENTING", "VALIDATING"}
WaitingStates == {"BRIEF_PENDING_APPROVAL", "ESCALATED"}
TaskStates == WorkStates \cup WaitingStates \cup {"FAILED", "CANCELLED"}

Options(type) ==
    CASE type = "BRIEF"       -> {"APPROVE", "REQUEST_REVISION", "CANCEL"}
      [] type = "RETRY_LIMIT" -> {"RETRY", "ABANDON", "CANCEL"}
      [] type = "REVIEW_RULE" -> {"APPROVE", "REJECT", "CANCEL"}
      [] OTHER                -> {"APPROVE", "DENY", "CANCEL"}

Decisions == {"APPROVE", "REQUEST_REVISION", "RETRY", "DENY", "REJECT", "ABANDON", "CANCEL"}

Approving == {"APPROVE", "RETRY"}

Preconditioned == Approving \cup {"REJECT", "REQUEST_REVISION"}

\* Mutant of PolicyBound: ending a task, too, wants the policy to be the one it was.
PolicyBound_Every == Decisions \cup {"EXPIRE"}

\* The answers to a brief that hold only under the policy it was judged by.
PolicyBound == {"APPROVE"}

\* Mutant of Projection: the decision itself is stored as the status.
Projection_Verbatim(type, d) ==
    [status |-> d, kind |-> IF d = "CANCEL" THEN "CANCEL" ELSE "FAIL"]

\* What a decision makes of the request, and the transition it asks for.
Projection(type, d) ==
    CASE d = "CANCEL" -> [status |-> "CANCELLED", kind |-> "CANCEL"]
      [] d = "EXPIRE" -> [status |-> "EXPIRED", kind |-> "FAIL"]
      [] type = "BRIEF" /\ d = "APPROVE"
            -> [status |-> "APPROVED", kind |-> "APPROVE_EXACT_BRIEF"]
      [] type = "BRIEF" /\ d = "REQUEST_REVISION"
            -> [status |-> "REJECTED", kind |-> "REVISE_BRIEF"]
      [] type = "REVIEW_RULE" /\ d = "REJECT"
            -> [status |-> "REJECTED", kind |-> "RESUME"]
      [] type # "BRIEF" /\ d \in Approving
            -> [status |-> "APPROVED", kind |-> "RESUME"]
      [] OTHER -> [status |-> "REJECTED", kind |-> "FAIL"]

Target(t, kind) ==
    CASE kind = "REQUEST_BRIEF_APPROVAL" -> "BRIEF_PENDING_APPROVAL"
      [] kind = "ESCALATE"               -> "ESCALATED"
      [] kind \in {"APPROVE_EXACT_BRIEF", "AUTO_ACCEPT_BRIEF"} -> "IMPLEMENTING"
      [] kind = "REVISE_BRIEF"           -> "BRIEFING"
      [] kind = "RESUME"                 -> resume[t]
      [] kind = "CANCEL"                 -> "CANCELLED"
      [] kind = "FAIL"                   -> "FAILED"

\* The id of an automatic expiry is derived from the request.
ExpiryId(r) == <<"expiry", r>>
Ids == Requests \cup DecisionIds \cup {ExpiryId(r) : r \in Requests}

\* The id of a withdrawal is derived from the steering that withdraws.
SteeringId(r) == <<"steering", r>>

Statuses == {"PENDING", "APPROVED", "REJECTED", "CANCELLED", "EXPIRED"}
Subjects == (1 .. MaxBriefs) \cup Candidates \cup {None}
Answers  == Decisions \cup {"EXPIRE"}

\* approval_requests; from is the state the question was raised from.
Rows == [task : Tasks, type : Types, subject : Subjects, from : TaskStates,
         resume : TaskStates \cup {None}, status : Statuses, decision : Answers \cup {None},
         id : Ids \cup {SteeringId(r) : r \in Requests} \cup {None}]

\* NULL is no value and no row, and a derived id is not one that was given.
ASSUME NullAssumption ==
    /\ None \notin TaskStates \cup Answers \cup Rows
    /\ \A r \in Requests : SteeringId(r) \notin Ids

Existing == {r \in Requests : request[r] # None}
PendingOf(t) == {r \in Existing : request[r].task = t /\ request[r].status = "PENDING"}
ActivePolicy == policy[Len(policy)]

\* The type of the question a task in a waiting state waits on.
WaitsIn(type) == IF type = "BRIEF" THEN "BRIEF_PENDING_APPROVAL" ELSE "ESCALATED"

\* What the request r on a subject is supported by: evidence of its own, and what its
\* candidate cites.
Support(r, subject) == {r} \cup (Candidates \cap {subject})

EvidenceStands(r) == Support(r, request[r].subject) \subseteq intact

\* _transition_task as far as approvals use it: id is unused, from is current, and the
\* evidence cited was neither corrected nor asked to be deleted and can be read.
Admitted(t, id, from, cited) == event[id] = None /\ state[t] = from /\ cited \subseteq intact

Transition(t, id, kind) ==
    /\ event' = [event EXCEPT ![id] = [task |-> t, kind |-> kind, from |-> state[t],
                                       to |-> Target(t, kind)]]
    /\ state' = [state EXCEPT ![t] = Target(t, kind)]
    /\ resume' = [resume EXCEPT ![t] = IF kind = "ESCALATE" THEN state[t] ELSE None]

-----------------------------------------------------------------------------
(* Raising a request *)

Unbound == [version |-> 0, human |-> FALSE, policy |-> 0, response |-> None]

\* The brief bound to t is the one named, needs a human and has no answer yet.
ExactBrief(t, version) ==
    /\ brief[t].version = version
    /\ brief[t].human
    /\ brief[t].response = None

\* The candidate is of t, evaluated, and its cited evidence can be read.
ExactCandidate(t, c) == TaskOf[c] = t /\ status[c] = "EVALUATED" /\ c \in intact

\* _validate_exact_subject for a new request.
ExactSubject(t, type, subject) ==
    CASE type = "BRIEF"       -> subject \in 1 .. MaxBriefs /\ ExactBrief(t, subject)
      [] type = "REVIEW_RULE" -> subject \in Candidates /\ ExactCandidate(t, subject)
      [] OTHER                -> subject = None

FreeToAsk(t) == PendingOf(t) = {}

\* ApprovalService.request.  The gate of a brief wants the policy it was judged by.
Request(r, t, type, subject) ==
    /\ request[r] = None
    /\ type \in Types
    /\ ExactSubject(t, type, subject)
    /\ FreeToAsk(t)
    /\ Admitted(t, r, state[t], Support(r, subject))
    /\ IF type = "BRIEF" THEN state[t] = "BRIEFING" /\ brief[t].policy = Len(policy)
                         ELSE state[t] \in WorkStates \cup {"BRIEF_PENDING_APPROVAL"}
    /\ request' = [request EXCEPT ![r] =
          [task |-> t, type |-> type, subject |-> subject, from |-> state[t],
           resume |-> IF type = "BRIEF" THEN None ELSE state[t],
           status |-> "PENDING", decision |-> None, id |-> None]]
    /\ Transition(t, r, IF type = "BRIEF" THEN "REQUEST_BRIEF_APPROVAL" ELSE "ESCALATE")
    /\ UNCHANGED <<brief, versions, status, intact, rules, policy, due, listed, cancelling>>

-----------------------------------------------------------------------------
(* Deciding it *)

\* A late answer is an expiry, whatever was asked for.
\* Mutant of Effective: the answer counts although the deadline has passed.
Effective_AsGiven(r, d) == d

Effective(r, d) == IF r \in due THEN "EXPIRE" ELSE d

\* _durable_preconditions_are_current: the question is still the one asked.
Current(r) ==
    LET q == request[r]
    IN  IF q.type = "BRIEF"
        THEN state[q.task] = "BRIEF_PENDING_APPROVAL" /\ ExactBrief(q.task, q.subject)
        ELSE /\ state[q.task] = "ESCALATED"
             /\ resume[q.task] = q.resume
             /\ q.type = "REVIEW_RULE" => ExactCandidate(q.task, q.subject)

\* A browser must have confirmed the password recently (recent = "yes") to promote a
\* rule, and to end a task; internal callers (recent = None) only end tasks.
PasswordOk(r, d, recent) ==
    LET kind == Projection(request[r].type, d).kind
    IN  d # "EXPIRE" =>
            /\ request[r].type = "REVIEW_RULE" /\ d = "APPROVE" => recent = "yes"
            /\ kind \in {"CANCEL", "FAIL"} => recent # "no"

Promotes(r, d) == request[r].type = "REVIEW_RULE" /\ d = "APPROVE"

\* A promotion carries a passed regression review of the candidate as it is now, and
\* nothing else does; the candidate meets the promotion threshold.
ReviewOk(r, d, review) ==
    IF Promotes(r, d) THEN review = "passed" /\ request[r].subject \in Eligible
                      ELSE review = None

\* The request can still be decided: anything else is a replay or a conflict.
Undecided(r) == request[r].status = "PENDING"

\* The database half of decide: the request is open, the answer is on offer, what
\* must be current is current, the evidence the request rests on stands, and the
\* transition and the projection are possible.
CanDecide(r, d) ==
    LET q == request[r]
    IN  /\ Undecided(r)
        /\ IF d = "EXPIRE" THEN r \in due ELSE d \in Options(q.type)
        /\ d \in Preconditioned => Current(r)
        /\ state[q.task] = WaitsIn(q.type)
        /\ EvidenceStands(r)
        /\ q.type = "BRIEF" => ExactBrief(q.task, q.subject)
        /\ q.type = "BRIEF" /\ d \in PolicyBound => brief[q.task].policy = Len(policy)

\* Mutant of NewMembership: the new rule joins its predecessors.
NewMembership_Append(c, rule) == Append(ActivePolicy, rule)

\* The rules of the policy version that takes the rule of c in: it takes the place of
\* the first rule of its lineage, the others of that lineage go.
NewMembership(c, rule) ==
    LET old == ActivePolicy
        same == {i \in 1 .. Len(old) : LineageOf[rules[old[i]].candidate] = LineageOf[c]}
        kept == {i \in 1 .. Len(old) : i \notin same \/ \A j \in same : i <= j}
        at(n) == CHOOSE i \in kept : Cardinality({j \in kept : j <= i}) = n
    IN  IF same = {} THEN Append(old, rule)
        ELSE [n \in 1 .. Cardinality(kept) |-> IF at(n) \in same THEN rule ELSE old[at(n)]]

\* _promote_review_rule: the next version of the lineage, and a policy with it.
PromoteReviewRule(r, c) ==
    LET lineage == {n \in 1 .. Len(rules) : LineageOf[rules[n].candidate] = LineageOf[c]}
        newest == {n \in lineage : \A m \in lineage : m <= n}
    IN  /\ rules' = Append(rules,
              [candidate |-> c, request |-> r, version |-> Cardinality(lineage) + 1,
               activated |-> Len(policy) + 1,
               predecessor |-> IF lineage = {} THEN 0 ELSE CHOOSE n \in newest : TRUE])
        /\ policy' = Append(policy, NewMembership(c, Len(rules) + 1))

\* _project_subject_decision: the answer is written to the brief or the candidate.
ProjectSubject(r, d) ==
    LET q == request[r]
    IN  /\ brief' = IF q.type = "BRIEF" THEN [brief EXCEPT ![q.task].response = d] ELSE brief
        /\ status' = IF q.type = "REVIEW_RULE" /\ d \in {"APPROVE", "REJECT"}
                     THEN [status EXCEPT ![q.subject] =
                              IF d = "APPROVE" THEN "APPROVED" ELSE "REJECTED"]
                     ELSE status
        /\ IF Promotes(r, d) THEN PromoteReviewRule(r, q.subject)
                             ELSE UNCHANGED <<rules, policy>>

\* ApprovalService.decide with the answer d (after Effective) under the given id.
DecideAs(r, id, d) ==
    LET q == request[r]
    IN  /\ CanDecide(r, d)
        /\ \A s \in Existing : request[s].id # id
        /\ Admitted(q.task, id, WaitsIn(q.type), Support(r, q.subject))
        /\ Transition(q.task, id, Projection(q.type, d).kind)
        /\ request' = [request EXCEPT ![r].status = Projection(q.type, d).status,
                                      ![r].decision = d, ![r].id = id]
        /\ ProjectSubject(r, d)
        /\ UNCHANGED <<versions, intact, due>>

\* The owner answers in the browser.
Decide(r, id, given, recent, review) ==
    LET d == Effective(r, given)
    IN  /\ r \in Existing
        /\ PasswordOk(r, d, recent)
        /\ ReviewOk(r, d, review)
        /\ DecideAs(r, id, d)
        /\ UNCHANGED <<listed, cancelling>>

\* expire_due reads the overdue requests ...
ListExpired ==
    /\ listed = {}
    /\ listed' = {r \in Existing : request[r].status = "PENDING" /\ r \in due}
    /\ listed' # {}
    /\ UNCHANGED <<state, resume, brief, versions, request, event, status, intact, rules, policy,
                   due, cancelling>>

\* ... and decides them one by one, skipping those it is refused for.
ExpireNext(r) ==
    /\ r \in listed
    /\ listed' = listed \ {r}
    /\ UNCHANGED cancelling
    /\ \/ DecideAs(r, ExpiryId(r), "EXPIRE")
       \/ /\ ~CanDecide(r, "EXPIRE") \/ event[ExpiryId(r)] # None
          /\ UNCHANGED <<state, resume, brief, versions, request, event, status, intact, rules,
                         policy, due>>

\* Inbox: the open questions, and whether their subject can still be shown.
Inbox == {r \in Existing : request[r].status = "PENDING" /\ r \notin due}
Actionable(r) ==
    request[r].type = "REVIEW_RULE" =>
        ExactCandidate(request[r].task, request[r].subject) /\ Current(r)

-----------------------------------------------------------------------------
(* Briefing, steering, cancellation *)

\* _require_revision_boundary: the bound brief was sent back, or there is none.
RevisionBoundary(t) == brief[t].version = 0 \/ brief[t].response = "REQUEST_REVISION"

\* BriefingService._store_version: judged by the active policy, human says how.
StoreBrief(t, human) ==
    /\ state[t] = "BRIEFING"
    /\ RevisionBoundary(t)
    /\ versions[t] < MaxBriefs
    /\ versions' = [versions EXCEPT ![t] = @ + 1]
    /\ brief' = [brief EXCEPT ![t] = [version |-> versions[t] + 1, human |-> human,
                                      policy |-> Len(policy), response |-> None]]
    /\ UNCHANGED <<state, resume, request, event, status, intact, rules, policy, due,
                   listed, cancelling>>

\* Mutant of BypassAllowed: any stored brief may skip the human.
BypassAllowed_AnyBrief(t) == brief[t].version # 0 /\ brief[t].policy = Len(policy)

\* _BriefTransitionGates: the bound brief was accepted by the policy still active.
BypassAllowed(t) ==
    brief[t].version # 0 /\ ~brief[t].human /\ brief[t].policy = Len(policy)

\* The second transaction of BriefingService.create for a brief no human must see.
AutoAccept(t) ==
    /\ state[t] = "BRIEFING"
    /\ BypassAllowed(t)
    /\ state' = [state EXCEPT ![t] = "IMPLEMENTING"]
    /\ UNCHANGED <<resume, brief, versions, request, event, status, intact, rules, policy, due,
                   listed, cancelling>>

\* Mutant of Withdrawn: a change of scope leaves the open question behind.
Withdrawn_None(t) == request

\* _fence_scope_work: a change of scope cancels the open questions of the task, under
\* ids derived from the steering's.
Withdrawn(t) ==
    [r \in Requests |->
        IF r \in PendingOf(t)
        THEN [request[r] EXCEPT !.status = "CANCELLED", !.decision = "CANCEL",
                                !.id = SteeringId(r)]
        ELSE request[r]]

\* SteeringService.steer for a change of scope: questions, brief and state go together.
Steer(t) ==
    /\ state[t] \in WorkStates \cup {"BRIEF_PENDING_APPROVAL"}
    /\ request' = Withdrawn(t)
    /\ brief' = [brief EXCEPT ![t] = Unbound]
    /\ state' = [state EXCEPT ![t] = "BRIEFING"]
    /\ UNCHANGED <<resume, versions, event, status, intact, rules, policy, due, listed,
                   cancelling>>

\* cancel_task, first transaction: what the task waits on, or the state it is in.
CancelRead(t) ==
    /\ cancelling[t] = None
    /\ state[t] \notin {"FAILED", "CANCELLED"}
    /\ cancelling' = [cancelling EXCEPT ![t] =
          [state |-> state[t], pending |-> PendingOf(t)]]
    /\ UNCHANGED <<state, resume, brief, versions, request, event, status, intact, rules, policy,
                   due, listed>>

\* Mutant of CancelSeesChange: what the first transaction read is taken to hold.
CancelSeesChange_Never(t) == FALSE

CancelSeesChange(t) == state[t] # cancelling[t].state

\* ... the pending question is answered with CANCEL, in a transaction of its own; if
\* nothing was pending the task itself is ended, on evidence captured for it.  A refusal
\* ends the call.
CancelTask(t, id) ==
    /\ cancelling[t] # None
    /\ cancelling' = [cancelling EXCEPT ![t] = None]
    /\ UNCHANGED listed
    /\ \/ \E r \in cancelling[t].pending : DecideAs(r, id, Effective(r, "CANCEL"))
       \/ /\ cancelling[t].pending = {}
          /\ ~CancelSeesChange(t)
          /\ Admitted(t, id, state[t], {})
          /\ Transition(t, id, "CANCEL")
          /\ UNCHANGED <<brief, versions, request, status, intact, rules, policy, due>>
       \/ UNCHANGED <<state, resume, brief, versions, request, event, status, intact, rules, policy, due>>

-----------------------------------------------------------------------------
(* The rest of the system *)

\* Work goes on, or a repair gives up (RepairLoop fails the task).
Work(t) ==
    /\ state[t] \in {"IMPLEMENTING", "VALIDATING"}
    /\ state' = [state EXCEPT ![t] =
          IF state[t] = "IMPLEMENTING" THEN "VALIDATING" ELSE "FAILED"]
    /\ UNCHANGED <<resume, brief, versions, request, event, status, intact, rules, policy, due,
                   listed, cancelling>>

\* expires_at of an open request passes.
Overdue(r) ==
    /\ r \in Existing \ due
    /\ request[r].status = "PENDING"
    /\ due' = due \cup {r}
    /\ UNCHANGED <<state, resume, brief, versions, request, event, status, intact, rules, policy,
                   listed, cancelling>>

\* The owner corrects evidence or asks for its deletion.
LoseEvidence(e) ==
    /\ e \in intact
    /\ intact' = intact \ {e}
    /\ UNCHANGED <<state, resume, brief, versions, request, event, status, rules, policy, due,
                   listed, cancelling>>

\* PolicyActivationService.rollback, by the owner: the active policy gives way to a new
\* one with the rules of its rollback target, the policy active before it.
Rollback ==
    /\ 1 < Len(policy) /\ Len(policy) < MaxPolicies
    /\ policy' = Append(policy, policy[Len(policy) - 1])
    /\ UNCHANGED <<state, resume, brief, versions, request, event, status, intact, rules, due,
                   listed, cancelling>>

\* PromptCompilerService.promote: a policy with another prompt and the same rules.
PromotePrompt ==
    /\ Len(policy) < MaxPolicies
    /\ policy' = Append(policy, ActivePolicy)
    /\ UNCHANGED <<state, resume, brief, versions, request, event, status, intact, rules, due,
                   listed, cancelling>>

Init ==
    /\ state = [t \in Tasks |-> "BRIEFING"]
    /\ resume = [t \in Tasks |-> None]
    /\ brief = [t \in Tasks |-> Unbound]
    /\ versions = [t \in Tasks |-> 0]
    /\ request = [r \in Requests |-> None]
    /\ event = [i \in Ids |-> None]
    /\ status = [c \in Candidates |-> "EVALUATED"]
    /\ intact = Candidates \cup Requests
    /\ rules = <<>>
    /\ policy = <<<<>>>>
    /\ due = {}
    /\ listed = {}
    /\ cancelling = [t \in Tasks |-> None]

Next ==
    \/ \E r \in Requests, t \in Tasks, type \in Types, subject \in Subjects :
          Request(r, t, type, subject)
    \/ \E r \in Requests, id \in DecisionIds, given \in Decisions,
          recent \in {"yes", "no"}, review \in {None, "passed", "stale"} :
          Decide(r, id, given, recent, review)
    \/ ListExpired
    \/ \E r \in Requests : ExpireNext(r)
    \/ \E t \in Tasks, human \in BOOLEAN : StoreBrief(t, human)
    \/ \E t \in Tasks : AutoAccept(t)
    \/ \E t \in Tasks : Steer(t)
    \/ \E t \in Tasks : CancelRead(t)
    \/ \E t \in Tasks, id \in DecisionIds : CancelTask(t, id)
    \/ \E t \in Tasks : Work(t)
    \/ \E r \in Requests : Overdue(r)
    \/ \E e \in Candidates \cup Requests : LoseEvidence(e)
    \/ Rollback
    \/ PromotePrompt

Spec == Init /\ [][Next]_vars

-----------------------------------------------------------------------------
(* Properties *)

\* Every variable has its type.
TypeOK ==
    /\ state \in [Tasks -> TaskStates]
    /\ resume \in [Tasks -> TaskStates \cup {None}]
    /\ versions \in [Tasks -> 0 .. MaxBriefs]
    /\ \A t \in Tasks : /\ brief[t].version \in 0 .. versions[t]
                        /\ brief[t].human \in BOOLEAN
                        /\ brief[t].policy \in 0 .. Len(policy)
                        /\ brief[t].response \in Answers \cup {None}
    /\ request \in [Requests -> Rows \cup {None}]
    /\ DOMAIN event = Ids
    /\ status \in [Candidates -> {"EVALUATED", "APPROVED", "REJECTED"}]
    /\ intact \subseteq Candidates \cup Requests
    /\ \A n \in 1 .. Len(policy) : policy[n] \in Seq(1 .. Len(rules))
    /\ due \subseteq Existing
    /\ listed \subseteq Existing

\* A task waits exactly while one request of it is pending, of the kind its state is
\* for, and an escalation resumes where that request was raised: no answer can release
\* another task's or another question's wait (request 1594-1602, steering.py 385-405).
WaitingHasOneQuestion ==
    \A t \in Tasks :
        /\ Cardinality(PendingOf(t)) = IF state[t] \in WaitingStates THEN 1 ELSE 0
        /\ \A r \in PendingOf(t) :
              /\ state[t] = WaitsIn(request[r].type)
              /\ resume[t] = request[r].resume

\* Only lost evidence can keep a waiting task: while that of its question stands, the
\* question can be expired if it is overdue and otherwise cancelled, whatever happened to
\* its subject, to the policy and to other tasks meanwhile (decide 1712-1968,
\* _verify_transition_evidence 619-669, _project_subject_decision 2090-2156).
WaitingCanBeReleased ==
    \A t \in Tasks : state[t] \in WaitingStates =>
        \E r \in PendingOf(t) : EvidenceStands(r) => CanDecide(r, Effective(r, "CANCEL"))

\* Work rests on the bound brief: the policy let it pass, or the owner approved it, in
\* answer to a request that named exactly this version (2090-2113).
WorkRestsOnApproval ==
    \A t \in Tasks :
        {state[t], resume[t]} \cap {"IMPLEMENTING", "VALIDATING"} # {} =>
            /\ brief[t].version # 0
            /\ brief[t].human =>
                  \E r \in Existing : /\ request[r].task = t
                                      /\ request[r].type = "BRIEF"
                                      /\ request[r].subject = brief[t].version
                                      /\ request[r].status = "APPROVED"

Promise == INSTANCE TaskPromise WITH Starts <- {"BRIEFING"}

\* Whatever is asked, answered late, withdrawn or cancelled in between, a task keeps to the
\* edges of the life cycle: an answer returns it to where the question was raised or ends
\* it, and nothing moves a task that ended (decide 1836-1968, reliability.py 449-619).
WaitKeepsPromise == Promise!Spec

\* Once the deadline of an open question has passed nothing but an expiry answers it,
\* however late the sweep runs and however early it read its list (1770-1781).
DeadlineHolds ==
    [][\A r \in due : request'[r] # request[r] /\ request'[r].id \in Ids
                         => request'[r].status = "EXPIRED"]_vars

\* Every rule stems from one approved request for one approved candidate, the versions
\* of a lineage are a chain, and no policy holds two rules of a lineage.  In force of a
\* lineage is its newest rule, or what was in force before that rule, but this only if
\* the very next activation took the rule back: a rule that survived the next activation
\* stays until a newer one takes its place, whatever is rolled back
\* (approvals.py 2158-2376, policy_activation.py 326-448, prompt_compiler.py 330-500).
RulesInForce ==
    LET lineage(n) == LineageOf[rules[n].candidate]
        inPolicy(p) == {policy[p][i] : i \in 1 .. Len(policy[p])}
        inForce(n, p) == {m \in inPolicy(p) : lineage(m) = lineage(n)}
        newest(n) == \A m \in 1 .. Len(rules) : lineage(m) = lineage(n) => m <= n
    IN  /\ \A n \in 1 .. Len(rules) :
              /\ status[rules[n].candidate] = "APPROVED"
              /\ request[rules[n].request].status = "APPROVED"
              /\ rules[n].version = 1 + (IF rules[n].predecessor = 0 THEN 0
                                         ELSE rules[rules[n].predecessor].version)
              /\ \A m \in 1 .. Len(rules) :
                    rules[m].candidate = rules[n].candidate => m = n
        /\ \A p \in 1 .. Len(policy) : \A n, m \in inPolicy(p) :
              lineage(n) = lineage(m) => n = m
        /\ \A n \in 1 .. Len(rules) : newest(n) =>
              LET a == rules[n].activated
              IN  \/ inForce(n, Len(policy)) = {n}
                  \/ /\ a < Len(policy) /\ n \notin inPolicy(a + 1)
                     /\ inForce(n, Len(policy)) = inForce(n, a - 1)

=============================================================================
