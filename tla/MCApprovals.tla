----------------------------- MODULE MCApprovals -----------------------------
(* Small instances of Outages, and of Approvals which it extends, for TLC: each  *)
(* behaviour plays one scene.                                                    *)
EXTENDS Outages, TLC

CONSTANTS t1, t2, c1, c2, r1, r2, r3, e1, e2, e3, g1, g2, g3

OnTwoTasks == c1 :> t1 @@ c2 :> t2
OneLineage == c1 :> "crash" @@ c2 :> "crash"
Generations == g1 :> t1 @@ g2 :> t1 @@ g3 :> t1
Questions == g1 :> e1 @@ g2 :> e2 @@ g3 :> e3

VARIABLE scene
allvars == <<ovars, scene>>
outages == <<job, parent, outage, calls>>

\* One task, three requests: briefs and escalations.  The evidence of a request may be
\* lost while it is pending, and one other policy activated.
QuestionsNext ==
    \/ \E r \in {r1, r2, r3}, type \in {"BRIEF", "RETRY_LIMIT"}, subject \in Subjects :
          Request(r, t1, type, subject)
    \/ \E r \in {r1, r2, r3}, id \in DecisionIds, given \in Decisions, recent \in {"yes", "no"} :
          Decide(r, id, given, recent, None)
    \/ ListExpired
    \/ \E r \in {r1, r2, r3} : ExpireNext(r) \/ Overdue(r)
    \/ \E human \in BOOLEAN : StoreBrief(t1, human)
    \/ AutoAccept(t1) \/ Steer(t1) \/ CancelRead(t1) \/ Work(t1)
    \/ \E r \in PendingOf(t1) : LoseEvidence(r)
    \/ Len(policy) = 1 /\ PromotePrompt
    \/ \E id \in DecisionIds : CancelTask(t1, id)

\* Two tasks, each with a rule candidate, and two requests.
RulesNext ==
    \/ \E r \in {r1, r2, r3}, t \in Tasks, c \in Candidates :
          Cardinality(Existing) < 2 /\ Request(r, t, "REVIEW_RULE", c)
    \/ \E r \in Existing, id \in DecisionIds, given \in Decisions, recent \in {"yes", "no"},
          review \in {None, "passed", "stale"} : Decide(r, id, given, recent, review)
    \/ \E t \in Tasks : StoreBrief(t, FALSE) \/ AutoAccept(t) \/ Work(t) \/ CancelRead(t)
    \/ \E t \in Tasks, id \in DecisionIds : CancelTask(t, id)
    \/ \E r \in Existing : Overdue(r) \/ ExpireNext(r)
    \/ ListExpired
    \/ \E c \in Candidates : LoseEvidence(c)

\* The same two candidates under a policy that is rolled back, and that other prompts
\* join, in any order with the promotions.
PoliciesNext ==
    \/ \E r \in {r1, r2, r3}, t \in Tasks, c \in Candidates :
          Cardinality(Existing) < 2 /\ Request(r, t, "REVIEW_RULE", c)
    \/ \E r \in Existing, id \in DecisionIds, given \in Approving \cup {"REJECT"} :
          Decide(r, id, given, "yes", IF given = "REJECT" THEN None ELSE "passed")
    \/ Rollback \/ PromotePrompt

\* One task, two jobs and a generation to come (or three jobs): the outages of OutageNext.
OutagesNext ==
    \/ \E j \in Jobs : JobStep(j)
    \/ \E c \in calls : CallStep(c) \/ Crash(c)
    \/ \E r \in Escalations, id \in DecisionIds, given \in {"RETRY", "ABANDON"} :
          DecideOutage(r, id, given, "yes", None)
    \/ SteerOutages(t1) \/ FenceEnded(t1)
    \/ /\ StoreBrief(t1, FALSE) \/ AutoAccept(t1)
       /\ UNCHANGED outages

MCInit == OutageInit /\ scene \in {"questions", "rules", "policies", "outages"}

MCNext ==
    /\ UNCHANGED scene
    /\ \/ scene = "questions" /\ QuestionsNext /\ UNCHANGED outages
       \/ scene = "rules" /\ RulesNext /\ UNCHANGED outages
       \/ scene = "policies" /\ PoliciesNext /\ UNCHANGED outages
       \/ scene = "outages" /\ OutagesNext

MCSpec == MCInit /\ [][MCNext]_allvars

Symmetry == Permutations({r1, r2, r3}) \cup Permutations(DecisionIds)
=============================================================================
