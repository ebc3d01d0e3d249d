--------------------------- MODULE MCPullRequests ---------------------------
(* Small instances of PullRequests for TLC: what makes a pull request ready, the   *)
(* repairs of its comments, and one repair from its comment to its publication.    *)
EXTENDS PullRequests, TLC

CONSTANTS c1, c2, x, rule1, rule2

RulesByVersion == <<{rule1}, {rule2}>>
RulePermits == rule1 :> {c1} @@ rule2 :> {}

VARIABLE scene

Calm == \A d \in 1 .. Len(sent) : delivery[d] \notin {"SENT", "RECEIVED"}
Unread == \A d \in 1 .. Len(sent) : delivery[d] # "RECEIVED"

Handle ==
    \/ \E d \in 1 .. Len(sent) : Process(d)
    \/ Unread /\ \E d \in 1 .. Len(sent) : Receive(d)
    \/ \E j \in 1 .. Len(jobs) : JobStepPr(j)

\* One publication; the first may fail and start over before GitHub heard of it.
PublishOnce ==
    \/ Push \/ EnsureDraft \/ CaptureProof \/ Bind
    \/ Activate(FALSE)
    \/ verdict # local /\ Decide
    \/ sent = << >> /\ (Decide \/ OpenFails)

\* The check passes; then whatever may take readiness back, in any order of receipt.
ReadyNext ==
    \/ PublishOnce \/ Handle
    \/ opening # None /\ Activate(TRUE)
    \/ \E h \in Heads : AcknowledgeHandoff(h)
    \/ \E at \in {Now, Now + 1} :
          \/ phase # "VALIDATING" /\ Len(sent) > 1 /\ at > Now /\ ToggleDraft(at)
          \/ \E of \in {"ci", "rev", "thr"} : \E s \in States(of) \ {"COMMENTED"} :
                /\ Len(sent) = 1 => of = "ci" /\ s = "PASSED" /\ at > Now
                /\ of # "ci" => at > Now
                /\ Update(of, s, at)
    \/ phase # "VALIDATING" /\ Len(sent) > 1 /\ \E h \in Foreign : OtherPush(h)

\* Comments, their repairs, the answers to requests and a change of the policy.
RepairNext ==
    \/ PublishOnce \/ Handle
    \/ \E i \in 1 .. Len(repairs) : RepairStep(i)
    \/ \E a \in approvals : ResumeApproved(a) \/ \E allow \in BOOLEAN : Answer(a, allow)
    \/ ActivatePolicy
    \/ /\ Calm /\ phase # "VALIDATING"
       /\ \/ \E of \in Comments : \E s \in States(of) :
                /\ of \in Informational => Len(sent) = 1 /\ s = "OPEN"
                /\ Update(of, s, Now + 1)
          \/ \E h \in Foreign : OtherPush(h)

\* One comment is repaired and nothing fails.
OneRepairNext ==
    \/ PublishOnce \/ Handle
    \/ \E i \in 1 .. Len(repairs) : BeginRepair(i) \/ CommitRepair(i) \/ Revalidate(i)
    \/ Len(sent) = 1 /\ \E of \in Comments : Update(of, "OPEN", Now + 1)

OneRepairSpec ==
    /\ PrInit /\ scene = "one repair"
    /\ [][OneRepairNext /\ UNCHANGED scene]_<<prvars, scene>>
=============================================================================
