----------------------------- MODULE TaskPromise -----------------------------
(***************************************************************************)
(* What every part of the system may rely on about a task, whoever decides *)
(* about it: its row goes from state to state along the edges of migration *)
(* 0005, an escalation ends where it interrupted the work or ends the      *)
(* task, and an ended task never moves again.                              *)
(*                                                                         *)
(* TaskLifecycle, Approvals, Validation and PullRequests each move a task  *)
(* for reasons of their own; each implements this module.                  *)
(***************************************************************************)
CONSTANTS
    Tasks,      \* task rows
    Starts,     \* where a part of the system first sees them
    None        \* SQL NULL

VARIABLES
    state,      \* tasks.state
    resume      \* tasks.escalation_resume_state

promise == <<state, resume>>

\* A task that is worked on, or waits for its brief to be approved.
Underway == {"INTAKE", "BRIEFING", "BRIEF_PENDING_APPROVAL", "IMPLEMENTING", "VALIDATING",
             "REPAIRING", "PR_ACTIVE", "READY_FOR_HUMAN_MERGE"}

\* How the work goes on, and back, and ends well.
Steps == { <<"BRIEFING", "BRIEF_PENDING_APPROVAL">>,
           <<"BRIEFING", "IMPLEMENTING">>,
           <<"BRIEF_PENDING_APPROVAL", "IMPLEMENTING">>,
           <<"IMPLEMENTING", "VALIDATING">>,
           <<"VALIDATING", "REPAIRING">>,
           <<"PR_ACTIVE", "REPAIRING">>,
           <<"REPAIRING", "VALIDATING">>,
           <<"VALIDATING", "PR_ACTIVE">>,
           <<"PR_ACTIVE", "READY_FOR_HUMAN_MERGE">>,
           <<"READY_FOR_HUMAN_MERGE", "PR_ACTIVE">>,
           <<"READY_FOR_HUMAN_MERGE", "HANDED_OFF">> }

-----------------------------------------------------------------------------
Init ==
    /\ state \in [Tasks -> Starts]
    /\ resume = [t \in Tasks |-> None]

\* The row of t becomes (s, r); the others stay.
Becomes(t, s, r) ==
    /\ state' = [state EXCEPT ![t] = s]
    /\ resume' = [resume EXCEPT ![t] = r]

Proceed(t, s) == <<state[t], s>> \in Steps /\ Becomes(t, s, None)

\* A new scope, or a revised brief, begins with a briefing.
Rescope(t) == state[t] \in Underway /\ Becomes(t, "BRIEFING", None)

Escalate(t) == state[t] \in Underway /\ Becomes(t, "ESCALATED", state[t])

Resume(t) == state[t] = "ESCALATED" /\ Becomes(t, resume[t], None)

\* Any task that has not ended may be failed or cancelled.
Stop(t, s) == state[t] \in Underway \cup {"ESCALATED"} /\ Becomes(t, s, None)

Next ==
    \E t \in Tasks :
        \/ Rescope(t) \/ Escalate(t) \/ Resume(t)
        \/ \E s \in Underway \cup {"HANDED_OFF"} : Proceed(t, s)
        \/ \E s \in {"FAILED", "CANCELLED"} : Stop(t, s)

Spec == Init /\ [][Next]_promise

=============================================================================
