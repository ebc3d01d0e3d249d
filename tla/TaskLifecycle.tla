---------------------------- MODULE TaskLifecycle ----------------------------
(***************************************************************************)
(* The lifecycle of a delivery task, as task_state_machine.py decides and  *)
(* records it.                                                             *)
(*                                                                         *)
(* Every durable change of a task's state is one call of _transition_task: *)
(* it locks the task row, answers a command whose transition id is already *)
(* in the event log from the log, refuses a command whose caller read an   *)
(* older state, asks the pure engine (evaluate_task_transition) for the    *)
(* target and appends exactly one event together with the new state.       *)
(*                                                                         *)
(* Callers read the task first and send the command later, may send it     *)
(* again, and may use an id that somebody else has used: commands are      *)
(* records in "inflight", delivered any number of times in any order.      *)
(* The answer of a gate evaluator is an input: a grant, and for the draft  *)
(* and readiness gates the Git heads it collected.  A brief and a          *)
(* validation contract are named by the scope they were written for, the   *)
(* number of SCOPE_STEER events before them.                               *)
(***************************************************************************)
EXTENDS Naturals, Sequences, FiniteSets

CONSTANTS
    Tasks,          \* task rows
    Heads,          \* Git commits a branch can point to
    TransitionIds,  \* idempotency keys of commands; bounds the event log
    MaxInflight,    \* bound on commands that were sent and not forgotten
    None            \* SQL NULL: no resume state, outcome, head or contract

ASSUME LifecycleAssumption ==
    /\ None \notin Heads
    /\ None \notin Nat
    /\ MaxInflight \in Nat

VARIABLES
    state,       \* tasks.state
    resume,      \* tasks.escalation_resume_state
    outcome,     \* tasks.terminal_outcome
    retries,     \* tasks.retry_count
    brief,       \* tasks.accepted_brief_id with its decision's human response
    contract,    \* tasks.validation_contract_id
    events,      \* the TASK_STATE_TRANSITION rows of task_events, in sequence order
    inflight     \* commands a caller may still send (again)

vars == <<state, resume, outcome, retries, brief, contract, events, inflight>>

-----------------------------------------------------------------------------
(* States and commands *)

TerminalStates == {"HANDED_OFF", "FAILED", "CANCELLED"}

\* Mutant of ActiveStates: a failed task still counts as active.
ActiveStates_FailedIsActive ==
    {"INTAKE", "BRIEFING", "BRIEF_PENDING_APPROVAL", "IMPLEMENTING", "VALIDATING",
     "REPAIRING", "PR_ACTIVE", "READY_FOR_HUMAN_MERGE", "ESCALATED", "FAILED"}

ActiveStates == {"INTAKE", "BRIEFING", "BRIEF_PENDING_APPROVAL", "IMPLEMENTING",
                 "VALIDATING", "REPAIRING", "PR_ACTIVE",
                 "READY_FOR_HUMAN_MERGE", "ESCALATED"}

TaskStates == ActiveStates \cup TerminalStates

ScopeSteeringStates == ActiveStates \ {"ESCALATED"}

\* The states from which the engine accepts a kind, gates aside.
Sources ==
  [ START_BRIEFING         |-> {"INTAKE"},
    AUTO_ACCEPT_BRIEF      |-> {"BRIEFING"},
    REQUEST_BRIEF_APPROVAL |-> {"BRIEFING"},
    REVISE_BRIEF           |-> {"BRIEF_PENDING_APPROVAL"},
    APPROVE_EXACT_BRIEF    |-> {"BRIEF_PENDING_APPROVAL"},
    BEGIN_VALIDATION       |-> {"IMPLEMENTING"},
    BEGIN_REPAIR           |-> {"VALIDATING", "PR_ACTIVE"},
    REVALIDATE             |-> {"REPAIRING"},
    OPEN_VERIFIED_DRAFT_PR |-> {"VALIDATING"},
    MARK_MERGE_READY       |-> {"PR_ACTIVE"},
    INVALIDATE_READINESS   |-> {"READY_FOR_HUMAN_MERGE"},
    ACKNOWLEDGE_HANDOFF    |-> {"READY_FOR_HUMAN_MERGE"},
    ESCALATE               |-> ScopeSteeringStates,
    RESUME                 |-> {"ESCALATED"},
    CANCEL                 |-> ActiveStates,
    FAIL                   |-> ActiveStates,
    SCOPE_STEER            |-> ScopeSteeringStates ]

Kinds == DOMAIN Sources

\* The target of every kind but RESUME, which returns to the recorded state.
FixedTarget ==
  [ START_BRIEFING         |-> "BRIEFING",
    AUTO_ACCEPT_BRIEF      |-> "IMPLEMENTING",
    REQUEST_BRIEF_APPROVAL |-> "BRIEF_PENDING_APPROVAL",
    REVISE_BRIEF           |-> "BRIEFING",
    APPROVE_EXACT_BRIEF    |-> "IMPLEMENTING",
    BEGIN_VALIDATION       |-> "VALIDATING",
    BEGIN_REPAIR           |-> "REPAIRING",
    REVALIDATE             |-> "VALIDATING",
    OPEN_VERIFIED_DRAFT_PR |-> "PR_ACTIVE",
    MARK_MERGE_READY       |-> "READY_FOR_HUMAN_MERGE",
    INVALIDATE_READINESS   |-> "PR_ACTIVE",
    ACKNOWLEDGE_HANDOFF    |-> "HANDED_OFF",
    ESCALATE               |-> "ESCALATED",
    CANCEL                 |-> "CANCELLED",
    FAIL                   |-> "FAILED",
    SCOPE_STEER            |-> "BRIEFING" ]

\* Mutant of Target: resuming starts over instead of returning.
Target_ResumeRestarts(t, kind) ==
    IF kind = "RESUME" THEN "BRIEFING" ELSE FixedTarget[kind]

\* Mutant of Target: a finished repair goes back to its pull request unvalidated.
Target_RepairSkipsValidation(t, kind) ==
    CASE kind = "RESUME"     -> resume[t]
      [] kind = "REVALIDATE" -> "PR_ACTIVE"
      [] OTHER               -> FixedTarget[kind]

Target(t, kind) == IF kind = "RESUME" THEN resume[t] ELSE FixedTarget[kind]

\* Mutant of OutcomeOf: the state's name is stored as the outcome.
OutcomeOf_StateName(s) == IF s \in TerminalStates THEN s ELSE None

OutcomeOf(s) ==
    CASE s = "HANDED_OFF" -> "AUTOMATION_HANDED_OFF"
      [] s = "FAILED"     -> "FAILED"
      [] s = "CANCELLED"  -> "CANCELLED"
      [] OTHER            -> None

Commands == [id : TransitionIds, task : Tasks, kind : Kinds, expected : TaskStates]

Events == [id : TransitionIds, kind : Kinds, expected : TaskStates,
           from : TaskStates, to : TaskStates, head : Heads \cup {None}]

BriefStatus == {"unbound", "stored", "revision_requested"}

-----------------------------------------------------------------------------
(* The event log *)

\* Positions of t's events of one of the kinds K.
At(t, K) == {i \in 1 .. Len(events[t]) : events[t][i].kind \in K}

\* t has an event of a kind in K that no event of a kind in R follows.
Since(t, K, R) == \E i \in At(t, K) : \A j \in At(t, R) : j < i

\* transition_id is unique over the logs of all tasks.
UsedIds == UNION {{events[t][i].id : i \in 1 .. Len(events[t])} : t \in Tasks}

\* How often the scope of t was changed; names the brief of that scope.
Scope(t) == Cardinality(At(t, {"SCOPE_STEER"}))

\* The head of t's newest event that carries one, whatever its kind.
LatestVerifiedHead(t) ==
    LET newest == {i \in 1 .. Len(events[t]) :
                      /\ events[t][i].head # None
                      /\ \A j \in 1 .. Len(events[t]) : j > i => events[t][j].head = None}
    IN  IF newest = {} THEN None ELSE events[t][CHOOSE i \in newest : TRUE].head

-----------------------------------------------------------------------------
(* Gates *)

\* What the draft gate collected: the current head, the four heads that must
\* agree with it (validated commit, local branch, remote branch, pull request)
\* as a set, and whether every flag holds (validation passed, artifacts present,
\* branch clean, still a draft, no approval pending, no cancellation).
DraftFacts == [current : Heads, correlated : (SUBSET Heads) \ {{}}, clear : BOOLEAN]

VerifiedDraft(facts) == facts.clear /\ facts.correlated = {facts.current}

\* Mutant of ReadyHead: the head need not be the one of the event log.
ReadyHead_AnyHead(t, facts, green) == VerifiedDraft(facts) /\ green

\* Readiness re-reads the draft facts and insists on the head of the log; green
\* stands for required CI, no blocking review and authorised repairs.
ReadyHead(t, facts, green) ==
    VerifiedDraft(facts) /\ green /\ facts.current = LatestVerifiedHead(t)

\* The brief gates: the bound brief is the stored one, unanswered, and the policy
\* (for AUTO_ACCEPT_BRIEF also the request) is still the one it was judged by.
BriefGate(t, kind, grant) ==
    CASE kind \in {"AUTO_ACCEPT_BRIEF", "REQUEST_BRIEF_APPROVAL", "APPROVE_EXACT_BRIEF",
                   "REVISE_BRIEF"}
            -> grant /\ brief[t].status = "stored"
      [] kind \in {"BEGIN_REPAIR", "INVALIDATE_READINESS", "SCOPE_STEER"}
            -> grant
      [] kind = "RESUME" -> grant /\ resume[t] \in ScopeSteeringStates
      [] OTHER -> TRUE

\* The heads an accepted transition may record as gate_head_sha.
GateHeads(t, kind) ==
    CASE kind = "OPEN_VERIFIED_DRAFT_PR"
            -> {h \in Heads : \E f \in DraftFacts : f.current = h /\ VerifiedDraft(f)}
      [] kind \in {"MARK_MERGE_READY", "ACKNOWLEDGE_HANDOFF"}
            -> {h \in Heads : \E f \in DraftFacts, green \in BOOLEAN :
                                  f.current = h /\ ReadyHead(t, f, green)}
      [] OTHER -> {None}

-----------------------------------------------------------------------------
(* The transition service *)

Init ==
    /\ state = [t \in Tasks |-> "INTAKE"]
    /\ resume = [t \in Tasks |-> None]
    /\ outcome = [t \in Tasks |-> None]
    /\ retries = [t \in Tasks |-> 0]
    /\ brief = [t \in Tasks |-> [status |-> "unbound", scope |-> 0]]
    /\ contract = [t \in Tasks |-> None]
    /\ events = [t \in Tasks |-> <<>>]
    /\ inflight = {}

\* What callers may want to send that read the tasks now: kinds that are legal in the
\* state they see.  Nothing keeps them from using an id somebody else has used.
Sendable ==
    UNION {{[id |-> i, task |-> t, kind |-> k, expected |-> state[t]] :
               i \in TransitionIds, k \in {k \in Kinds : state[t] \in Sources[k]}} : t \in Tasks}

\* A caller decides to send a command.
Issue(c) ==
    /\ Cardinality(inflight) < MaxInflight
    /\ c \notin inflight
    /\ inflight' = inflight \cup {c}
    /\ UNCHANGED <<state, resume, outcome, retries, brief, contract, events>>

\* The caller is answered and done, gives up, or dies.
Forget(c) ==
    /\ c \in inflight
    /\ inflight' = inflight \ {c}
    /\ UNCHANGED <<state, resume, outcome, retries, brief, contract, events>>

\* Mutant of Admitted: a repeated command is not recognised.
Admitted_Repeated(c) == state[c.task] = c.expected

\* The command is not a repetition and its caller's view is current.
Admitted(c) ==
    /\ c.id \notin UsedIds
    /\ state[c.task] = c.expected

\* Mutant of Rebind: a scope change keeps the accepted brief.
Rebind_KeepBrief(t, kind) ==
    /\ brief' = IF kind = "REVISE_BRIEF"
                THEN [brief EXCEPT ![t].status = "revision_requested"] ELSE brief
    /\ contract' = IF kind = "SCOPE_STEER" THEN [contract EXCEPT ![t] = None] ELSE contract

\* Mutant of Rebind: a scope change keeps the validation contract.
Rebind_KeepContract(t, kind) ==
    /\ brief' = CASE kind = "SCOPE_STEER"
                        -> [brief EXCEPT ![t] = [status |-> "unbound", scope |-> 0]]
                  [] kind = "REVISE_BRIEF"
                        -> [brief EXCEPT ![t].status = "revision_requested"]
                  [] OTHER -> brief
    /\ contract' = contract

\* What an accepted transition writes besides the state and the event: a scope
\* change drops both bindings, a revision decision marks the bound brief as
\* answered (ApprovalService.decide, in the same transaction).
Rebind(t, kind) ==
    /\ brief' = CASE kind = "SCOPE_STEER"
                        -> [brief EXCEPT ![t] = [status |-> "unbound", scope |-> 0]]
                  [] kind = "REVISE_BRIEF"
                        -> [brief EXCEPT ![t].status = "revision_requested"]
                  [] OTHER -> brief
    /\ contract' = IF kind = "SCOPE_STEER" THEN [contract EXCEPT ![t] = None]
                   ELSE contract

\* _transition_task for a command the engine accepts.  Every refusal (replay,
\* conflict, closed gate) leaves the database as it was, and is a stuttering step.
\* The command stays in flight: its caller may not have seen the answer.
Deliver(c, grant, head) ==
    LET t == c.task
        target == Target(t, c.kind)
    IN  /\ c \in inflight
        /\ Admitted(c)
        /\ state[t] \in Sources[c.kind]
        /\ BriefGate(t, c.kind, grant)
        /\ head \in GateHeads(t, c.kind)
        /\ events' = [events EXCEPT ![t] = Append(@,
                        [id |-> c.id, kind |-> c.kind, expected |-> c.expected,
                         from |-> state[t], to |-> target, head |-> head])]
        /\ state' = [state EXCEPT ![t] = target]
        /\ resume' = [resume EXCEPT ![t] = IF c.kind = "ESCALATE" THEN state[t] ELSE None]
        /\ outcome' = [outcome EXCEPT ![t] = OutcomeOf(target)]
        /\ retries' = [retries EXCEPT ![t] = IF c.kind = "BEGIN_REPAIR" THEN @ + 1 ELSE @]
        /\ Rebind(t, c.kind)
        /\ UNCHANGED inflight

\* BriefingService._store_version binds the next brief: only while briefing, and
\* only when no brief is bound or the bound one was sent back for revision.
StoreBrief(t) ==
    /\ state[t] = "BRIEFING"
    /\ brief[t].status # "stored"
    /\ brief' = [brief EXCEPT ![t] = [status |-> "stored", scope |-> Scope(t)]]
    /\ UNCHANGED <<state, resume, outcome, retries, contract, events, inflight>>

\* The validation contract of the accepted brief is bound by a component that is
\* not part of the repository's services.
BindContract(t) ==
    /\ state[t] = "IMPLEMENTING"
    /\ contract[t] = None
    /\ contract' = [contract EXCEPT ![t] = Scope(t)]
    /\ UNCHANGED <<state, resume, outcome, retries, brief, events, inflight>>

Next ==
    \/ \E c \in Sendable : Issue(c)
    \/ \E c \in inflight : Forget(c)
    \/ \E c \in inflight, grant \in BOOLEAN, head \in Heads \cup {None} :
          Deliver(c, grant, head)
    \/ \E t \in Tasks : StoreBrief(t)
    \/ \E t \in Tasks : BindContract(t)

Spec == Init /\ [][Next]_vars

-----------------------------------------------------------------------------
(* The database triggers of migration 0005, which the deployed schema adds *)
(* under the engine: old and new are [state, resume, outcome] of one row.  *)

Row(t) == [state |-> state[t], resume |-> resume[t], outcome |-> outcome[t]]

LifecycleProjection(new) ==
    /\ new.outcome = OutcomeOf(new.state)
    /\ IF new.state = "ESCALATED" THEN new.resume \in ScopeSteeringStates
                                  ELSE new.resume = None

LegalLifecycleEdge(old, new) ==
    \/ old.state \in ActiveStates /\ new.state \in {"FAILED", "CANCELLED"}
    \/ /\ old.state \in ScopeSteeringStates
       /\ new.state = "ESCALATED" /\ new.resume = old.state
    \/ old.state = "ESCALATED" /\ new.state = old.resume
    \/ old.state \in ScopeSteeringStates /\ new.state = "BRIEFING"
    \/ <<old.state, new.state>> \in
         { <<"BRIEFING", "BRIEF_PENDING_APPROVAL">>,
           <<"BRIEFING", "IMPLEMENTING">>,
           <<"BRIEF_PENDING_APPROVAL", "IMPLEMENTING">>,
           <<"IMPLEMENTING", "VALIDATING">>,
           <<"VALIDATING", "REPAIRING">>,
           <<"PR_ACTIVE", "REPAIRING">>,
           <<"REPAIRING", "VALIDATING">>,
           <<"VALIDATING", "PR_ACTIVE">>,
           <<"PR_ACTIVE", "READY_FOR_HUMAN_MERGE">>,
           <<"READY_FOR_HUMAN_MERGE", "PR_ACTIVE">>,
           <<"READY_FOR_HUMAN_MERGE", "HANDED_OFF">> }

\* The kinds that may stand behind an edge; RESUME and ESCALATE are tied to the
\* recorded state besides.
EventEdge(kind, old, new) ==
    CASE kind = "ESCALATE"    -> /\ old.state \in ScopeSteeringStates
                                 /\ new.state = "ESCALATED"
                                 /\ new.resume = old.state
      [] kind = "RESUME"      -> old.state = "ESCALATED" /\ new.state = old.resume
      [] kind = "CANCEL"      -> old.state \in ActiveStates /\ new.state = "CANCELLED"
      [] kind = "FAIL"        -> old.state \in ActiveStates /\ new.state = "FAILED"
      [] kind = "SCOPE_STEER" -> old.state \in ScopeSteeringStates /\ new.state = "BRIEFING"
      [] OTHER -> <<kind, old.state, new.state>> \in
         { <<"START_BRIEFING", "INTAKE", "BRIEFING">>,
           <<"AUTO_ACCEPT_BRIEF", "BRIEFING", "IMPLEMENTING">>,
           <<"REQUEST_BRIEF_APPROVAL", "BRIEFING", "BRIEF_PENDING_APPROVAL">>,
           <<"REVISE_BRIEF", "BRIEF_PENDING_APPROVAL", "BRIEFING">>,
           <<"APPROVE_EXACT_BRIEF", "BRIEF_PENDING_APPROVAL", "IMPLEMENTING">>,
           <<"BEGIN_VALIDATION", "IMPLEMENTING", "VALIDATING">>,
           <<"BEGIN_REPAIR", "VALIDATING", "REPAIRING">>,
           <<"BEGIN_REPAIR", "PR_ACTIVE", "REPAIRING">>,
           <<"REVALIDATE", "REPAIRING", "VALIDATING">>,
           <<"OPEN_VERIFIED_DRAFT_PR", "VALIDATING", "PR_ACTIVE">>,
           <<"MARK_MERGE_READY", "PR_ACTIVE", "READY_FOR_HUMAN_MERGE">>,
           <<"INVALIDATE_READINESS", "READY_FOR_HUMAN_MERGE", "PR_ACTIVE">>,
           <<"ACKNOWLEDGE_HANDOFF", "READY_FOR_HUMAN_MERGE", "HANDED_OFF">> }

\* An update of a task row passes the triggers: a changed lifecycle projection is
\* well formed, a legal edge, and audited by the newest event of the task.
TriggersAccept(old, new, log) ==
    /\ LifecycleProjection(new)
    /\ old # new =>
         /\ LegalLifecycleEdge(old, new)
         /\ log # <<>>
         /\ LET event == log[Len(log)]
            IN  /\ event.from = old.state
                /\ event.to = new.state
                /\ EventEdge(event.kind, old, new)

-----------------------------------------------------------------------------
(* Properties *)

\* Every variable has its type.
TypeOK ==
    /\ state \in [Tasks -> TaskStates]
    /\ resume \in [Tasks -> ScopeSteeringStates \cup {None}]
    /\ outcome \in [Tasks -> {"AUTOMATION_HANDED_OFF", "FAILED", "CANCELLED", None}]
    /\ retries \in [Tasks -> Nat]
    /\ brief \in [Tasks -> [status : BriefStatus, scope : Nat]]
    /\ contract \in [Tasks -> Nat \cup {None}]
    /\ events \in [Tasks -> Seq(Events)]
    /\ inflight \subseteq Commands

\* The state the task's work belongs to: an escalation only pauses it.
Settled(t) == IF state[t] = "ESCALATED" THEN resume[t] ELSE state[t]

AcceptedStates == {"IMPLEMENTING", "VALIDATING", "REPAIRING", "PR_ACTIVE",
                   "READY_FOR_HUMAN_MERGE", "HANDED_OFF"}

PullRequestStates == {"PR_ACTIVE", "READY_FOR_HUMAN_MERGE", "HANDED_OFF"}

\* However often a command is sent and whoever else used its id, it is applied at
\* most once over all tasks, and on the state its caller had read (726-739).
CommandsApplyOnce ==
    \A t, u \in Tasks : \A i \in 1 .. Len(events[t]), j \in 1 .. Len(events[u]) :
        /\ events[t][i].id = events[u][j].id => t = u /\ i = j
        /\ events[t][i].from = events[t][i].expected

\* A task leaves an escalation only for the state it was escalated from, even when
\* it is escalated several times (331-345).
ResumeReturns ==
    \A t \in Tasks :
        /\ \A i \in 1 .. Len(events[t]) :
              events[t][i].kind = "RESUME" =>
                  /\ i > 1
                  /\ events[t][i - 1].kind = "ESCALATE"
                  /\ events[t][i - 1].from = events[t][i].to
        /\ state[t] = "ESCALATED" =>
              /\ events[t] # <<>>
              /\ events[t][Len(events[t])].kind = "ESCALATE"
              /\ events[t][Len(events[t])].from = resume[t]

\* A task that has a pull request owes it to a draft gate passed after its last
\* repair and its last change of scope: no older proof is carried over (346-435).
PullRequestIsVerified ==
    \A t \in Tasks :
        Settled(t) \in PullRequestStates =>
            Since(t, {"OPEN_VERIFIED_DRAFT_PR"}, {"BEGIN_REPAIR", "SCOPE_STEER"})

\* A head is offered for merge, and handed off, only if it is the one the newest
\* draft gate of the task verified (252-271, 429-435, 523-541).
OfferedHeadIsVerified ==
    \A t \in Tasks : \A i \in At(t, {"MARK_MERGE_READY", "ACKNOWLEDGE_HANDOFF"}) :
        \E j \in At(t, {"OPEN_VERIFIED_DRAFT_PR"}) :
            /\ j < i
            /\ events[t][j].head = events[t][i].head
            /\ \A k \in At(t, {"OPEN_VERIFIED_DRAFT_PR", "BEGIN_REPAIR", "SCOPE_STEER"}) :
                  k <= j \/ k > i

\* Work beyond briefing rests on a brief accepted after the last change of scope,
\* and that brief is still the bound one (365-385, 855-858; briefing.py 438, 578).
WorkHasAcceptedBrief ==
    \A t \in Tasks :
        Settled(t) \in AcceptedStates =>
            /\ Since(t, {"AUTO_ACCEPT_BRIEF", "APPROVE_EXACT_BRIEF"},
                        {"SCOPE_STEER", "REVISE_BRIEF"})
            /\ brief[t] = [status |-> "stored", scope |-> Scope(t)]

\* No validation contract outlives the scope it was written for (855-858).
ContractIsOfScope ==
    \A t \in Tasks : contract[t] # None => contract[t] = Scope(t)

\* The engine never plans a change the triggers of migration 0005 would refuse,
\* so no accepted command is lost to an IntegrityError.
EngineSatisfiesTriggers ==
    [][\A t \in Tasks : TriggersAccept(Row(t), Row(t)', events'[t])]_vars

Promise == INSTANCE TaskPromise WITH Starts <- {"INTAKE"}

\* Whatever commands race, are repeated or come too late, a task keeps to the edges every
\* other part of the system relies on (evaluate_task_transition 297-449).
TaskKeepsPromise == Promise!Spec

\* A terminal task keeps its row and its log for good (305-306).
TerminalIsFinal ==
    [][\A t \in Tasks : state[t] \in TerminalStates =>
           UNCHANGED <<state[t], outcome[t], retries[t], brief[t], contract[t],
                       events[t]>>]_vars

=============================================================================
