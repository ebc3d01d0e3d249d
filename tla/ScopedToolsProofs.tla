--------------------------- MODULE ScopedToolsProofs ---------------------------
(* Proofs about the tools an agent proposes: for any number of attempts, proposals, *)
(* policies and answers of the host, no effect is lost from the record, and a run    *)
(* that succeeded has answered all it heard.                                        *)
(*                                                                                  *)
(* The invariant follows a call through the handler of its attempt. Only that        *)
(* handler writes to it, so what the handler is at says what may be recorded still:  *)
(* a call the host carried out is told of by a result, or is about to be, or is left *)
(* without a final one by a handler that died.                                       *)
EXTENDS ScopedTools, WellFoundedInduction, TLAPS

CallSteps == {"AUTHORIZE", "CHECK", "DISPATCH", "RECORD", "SUBMIT"}
HandlerSteps     == CallSteps \cup
    {"NONE", "PREPARE", "START", "STARTED", "POLL", "HEAR", "FAIL", "TIMEOUT", "FAILED", "TIMED_OUT",
     "ENDED", "TERMINAL"}

Grants == {"NONE", "ISSUED", "REVOKED"}

\* The decisions there are, for whatever the task, the grant and the preflight are.
DecisionOf(edits, granting, ready, p) ==
    FirstFailure(<< <<edits, "TASK_STATE_NOT_ALLOWED">>,
                    <<granting = "ISSUED", "TOOL_GRANT_REVOKED">>,
                    <<ToolAllowlisted(p), "TOOL_NOT_ALLOWLISTED">>,
                    <<OperationAllowed(p), "BRIEF_OPERATION_NOT_ALLOWED">>,
                    <<ready, "CONFIGURATION_UNAVAILABLE">>,
                    <<SoundArguments(p), "INVALID_TOOL_ARGUMENTS">>,
                    <<\A q \in ProposalPaths(p) : PathInScope(q), "PATH_OUTSIDE_BRIEF">>,
                    <<\A q \in ProposalPaths(p) : ~PathProhibited(q), "PATH_PROHIBITED">> >>,
                 "AUTHORIZED")
Decisions ==
    {DecisionOf(t[1], t[2], t[3], t[4]) : t \in BOOLEAN \X Grants \X BOOLEAN \X Proposals}

Codes   == HostRefusals \cup Decisions \cup
               {"NONE", "OK", "HOST", "HOST_UNAVAILABLE", "AUTHORIZATION_STALE"}
ResultRows == [status : {"NONE", "SUCCEEDED", "REJECTED", "AMBIGUOUS"}, code : Codes]

AgentStatuses == {"NONE", "RUNNING", "SUCCEEDED", "FAILED", "CANCELLED"}
Agents   == [status : AgentStatuses, said : Seq(Proposals), told : SUBSET Proposals]
Handlers == [step : HandlerSteps, seen : SUBSET Nat, status : AgentStatuses, tried : Nat,
             call : Proposals \cup {"NONE"}, answer : ResultRows]

ToolTypes ==
    /\ lease \in {0, granted} /\ granted \in Nat
    /\ editing \in BOOLEAN /\ preflight \in BOOLEAN
    /\ hermes \in [Attempts -> RunStatuses]
    /\ grant \in [Attempts -> Grants]
    /\ agent \in [Attempts -> Agents] /\ heard \in [Attempts -> Nat]
    /\ handler \in [Attempts -> Handlers]
    /\ decided \in [Calls -> {"NONE"} \cup Decisions]
    /\ results \in [Calls -> Seq(ResultRows)]
    /\ applied \subseteq Calls

\* The run of an attempt is over with success only where the agent is.
RunFits(a) ==
    /\ a > granted => handler[a].step = "NONE"
    /\ handler[a].step \in {"NONE", "PREPARE", "START"} => hermes[a] # "SUCCEEDED"
    /\ handler[a].status = "SUCCEEDED" \/ hermes[a] = "SUCCEEDED" => agent[a].status = "SUCCEEDED"

Answered(a, p) == IsAnswered(<<a, p>>)

\* What was seen and heard was said; an agent that is done was told of all, each time of
\* a result.
Talks(a) ==
    /\ heard[a] <= Len(agent[a].said) /\ handler[a].seen \subseteq 1 .. Len(agent[a].said)
    /\ agent[a].status = "SUCCEEDED" =>
          \A n \in 1 .. Len(agent[a].said) : agent[a].said[n] \in agent[a].told
    /\ \A p \in agent[a].told : Answered(a, p)

\* What the handler knows of the call it is at.
Makes(a, p) ==
    handler[a].call = p =>
        /\ handler[a].step \in {"CHECK", "DISPATCH"} => decided[<<a, p>>] = "AUTHORIZED"
        /\ handler[a].step \in {"CHECK", "DISPATCH", "RECORD"} => ~Answered(a, p)
        /\ handler[a].step = "SUBMIT" => Answered(a, p)

\* A result from which one can tell that the host may have done something.
Telling(result) == result.status \in {"SUCCEEDED", "AMBIGUOUS"} \/ result.code \in HostRefusals
Told(a, p) == \E i \in 1 .. Len(results[<<a, p>>]) : Telling(results[<<a, p>>][i])

Tells(a, p) ==
    <<a, p>> \in applied =>
        /\ decided[<<a, p>>] = "AUTHORIZED"
        /\ \/ Told(a, p)
           \/ /\ ~Answered(a, p)
              /\ \/ handler[a].step = "ENDED"
                 \/ handler[a].step = "RECORD" /\ handler[a].call = p /\ Telling(handler[a].answer)

Fits(a) ==
    /\ RunFits(a) /\ Talks(a)
    /\ handler[a].step \in CallSteps => handler[a].call \in Proposals
    /\ \A p \in Proposals : Makes(a, p) /\ Tells(a, p)

ToolIInv == ToolTypes /\ \A a \in Attempts : Fits(a)

-----------------------------------------------------------------------------
(* Data *)

LEMMA BareHandler ==
    ASSUME NEW step \in HandlerSteps
    PROVE  /\ Bare(step) \in Handlers /\ Bare(step).step = step /\ Bare(step).seen = {}
           /\ Bare(step).status = "NONE"
BY DEF Bare, Handlers, AgentStatuses, ResultRows, Codes, Result

LEMMA DecisionType ==
    ASSUME ToolTypes, NEW a \in Attempts, NEW p \in Proposals
    PROVE  AuthorizationDecision(a, p) \in Decisions
<1>1. AuthorizationDecision(a, p) = DecisionOf(editing, grant[a], preflight, p)
  BY DEF AuthorizationDecision, DecisionOf
<1>2. editing \in BOOLEAN /\ preflight \in BOOLEAN /\ grant[a] \in Grants
  BY DEF ToolTypes
<1> DEFINE t == <<editing, grant[a], preflight, p>>
<1>3. /\ t \in BOOLEAN \X Grants \X BOOLEAN \X Proposals
      /\ t[1] = editing /\ t[2] = grant[a] /\ t[3] = preflight /\ t[4] = p
  BY <1>2
<1> HIDE DEF t
<1>4. QED BY <1>1, <1>3 DEF Decisions

\* What the host answers, and that it does not, leaves a trace in what is recorded of it.
LEMMA RecordedTells ==
    /\ \A result \in HostResults :
          /\ Recorded([status |-> "OK", result |-> result]) \in ResultRows
          /\ Telling(Recorded([status |-> "OK", result |-> result]))
    /\ \A status \in {"AMBIGUOUS", "UNAVAILABLE"} :
          Recorded([status |-> status]) \in ResultRows /\ Telling(Recorded([status |-> status]))
    /\ Recorded([status |-> "REJECTED"]) \in ResultRows
<1>1. ASSUME NEW result \in HostResults
      PROVE  /\ Recorded([status |-> "OK", result |-> result]) \in ResultRows
             /\ Telling(Recorded([status |-> "OK", result |-> result]))
  <2>1. HostResultCode(result) = "OK" \/ HostResultCode(result) \in HostRefusals
    BY DEF HostRefusals
  <2>2. Recorded([status |-> "OK", result |-> result]) =
          IF HostResultCode(result) = "OK" THEN Result("SUCCEEDED", "OK")
          ELSE Result("REJECTED", HostResultCode(result))
    BY DEF Recorded
  <2>3. CASE HostResultCode(result) = "OK"
    BY <2>2, <2>3 DEF Result, ResultRows, Codes, Telling
  <2>4. CASE HostResultCode(result) \in HostRefusals /\ HostResultCode(result) # "OK"
    BY <2>2, <2>4 DEF Result, ResultRows, Codes, Telling
  <2>5. QED BY <2>1, <2>3, <2>4
<1>2. Recorded([status |-> "AMBIGUOUS"]) = Result("AMBIGUOUS", "HOST")
  BY DEF Recorded
<1>3. Recorded([status |-> "UNAVAILABLE"]) = Result("AMBIGUOUS", "HOST_UNAVAILABLE")
  BY DEF Recorded
<1>4. Recorded([status |-> "REJECTED"]) = Result("REJECTED", "HOST")
  BY DEF Recorded
<1>5. QED BY <1>1, <1>2, <1>3, <1>4 DEF Result, ResultRows, Codes, Telling

\* The least of a set of numbers, which CHOOSE finds.
LEMMA Least ==
    ASSUME NEW S \in SUBSET Nat, S # {}
    PROVE  \E m \in S : \A k \in S : m <= k
<1> DEFINE R == OpToRel(<, Nat)
<1>1. PICK m \in S : \A k \in S : <<k, m>> \notin R
  <2>1. IsWellFoundedOn(R, Nat)
    BY NatLessThanWellFounded
  <2> HIDE DEF R
  <2>2. QED BY <2>1, WFMin
<1>2. \A k \in S : ~(k < m)
  BY <1>1 DEF OpToRel
<1>3. QED BY <1>2

LEMMA ToolInitially == ToolInit => ToolIInv
<1> SUFFICES ASSUME ToolInit PROVE ToolIInv
  OBVIOUS
<1>1. Bare("NONE") \in Handlers /\ Bare("NONE").step = "NONE" /\ Bare("NONE").seen = {}
      /\ Bare("NONE").status = "NONE"
  BY BareHandler DEF HandlerSteps
<1>2. [status |-> "NONE", said |-> << >>, told |-> {}] \in Agents
  BY DEF Agents, AgentStatuses
<1>3. << >> \in Seq(ResultRows)
  OBVIOUS
<1>4. ToolTypes
  BY <1>1, <1>2, <1>3 DEF ToolInit, ToolTypes, RunStatuses, Grants
<1>5. ASSUME NEW a \in Attempts
      PROVE  Fits(a)
  <2>1. handler[a] = Bare("NONE") /\ hermes[a] = "NONE" /\ heard[a] = 0 /\ applied = {}
        /\ agent[a] = [status |-> "NONE", said |-> << >>, told |-> {}]
    BY DEF ToolInit
  <2>2. RunFits(a) /\ Talks(a)
    BY <1>1, <2>1 DEF RunFits, Talks
  <2>3. \A p \in Proposals : Makes(a, p) /\ Tells(a, p)
    BY <1>1, <2>1 DEF Makes, Tells
  <2>4. QED BY <1>1, <2>1, <2>2, <2>3 DEF Fits, CallSteps
<1>6. QED BY <1>4, <1>5 DEF ToolIInv

-----------------------------------------------------------------------------
(* What a step leaves alone *)

\* A call whose results stay.
LEMMA ResultsStay ==
    ASSUME NEW a, NEW p, results'[<<a, p>>] = results[<<a, p>>]
    PROVE  (Answered(a, p)' <=> Answered(a, p)) /\ (Told(a, p)' <=> Told(a, p))
BY DEF Answered, IsAnswered, Told

\* An attempt whose handler, run, agent and calls stay.
LEMMA AttemptStays ==
    ASSUME ToolTypes, NEW a \in Attempts, Fits(a), handler'[a] = handler[a], hermes'[a] = hermes[a],
           agent'[a] = agent[a], heard'[a] = heard[a], a > granted' => a > granted,
           \A p \in Proposals : /\ results'[<<a, p>>] = results[<<a, p>>]
                                /\ decided'[<<a, p>>] = decided[<<a, p>>]
                                /\ <<a, p>> \in applied' => <<a, p>> \in applied
    PROVE  Fits(a)'
<1>1. RunFits(a)'
  BY DEF Fits, RunFits
<1>2. ASSUME NEW p \in Proposals
      PROVE  /\ results'[<<a, p>>] = results[<<a, p>>] /\ decided'[<<a, p>>] = decided[<<a, p>>]
             /\ <<a, p>> \in applied' => <<a, p>> \in applied
             /\ Answered(a, p)' <=> Answered(a, p)
             /\ Told(a, p)' <=> Told(a, p)
  <2>1. /\ results'[<<a, p>>] = results[<<a, p>>] /\ decided'[<<a, p>>] = decided[<<a, p>>]
        /\ <<a, p>> \in applied' => <<a, p>> \in applied
    OBVIOUS
  <2>2. QED BY <2>1, ResultsStay
<1>3. Talks(a)'
  <2>1. agent[a].told \in SUBSET Proposals
    BY DEF ToolTypes, Agents
  <2>2. QED BY <1>2, <2>1 DEF Fits, Talks
<1>4. ASSUME NEW p \in Proposals
      PROVE  Makes(a, p)' /\ Tells(a, p)'
  <2>1. Makes(a, p) /\ Tells(a, p)
    BY DEF Fits
  <2>2. QED BY <1>2, <2>1 DEF Makes, Tells
<1>5. QED BY <1>1, <1>3, <1>4 DEF Fits

\* A step of one attempt.
LEMMA AttemptKeeps ==
    ASSUME ToolIInv, NEW a \in Attempts, ToolTypes', Fits(a)', granted' = granted \/ granted' = granted + 1,
           \A b \in Attempts \ {a} :
              /\ handler'[b] = handler[b] /\ hermes'[b] = hermes[b] /\ agent'[b] = agent[b]
              /\ heard'[b] = heard[b],
           \A b \in Attempts \ {a}, p \in Proposals :
              /\ results'[<<b, p>>] = results[<<b, p>>] /\ decided'[<<b, p>>] = decided[<<b, p>>]
              /\ <<b, p>> \in applied' => <<b, p>> \in applied
    PROVE  ToolIInv'
<1>1. ASSUME NEW b \in Attempts, b # a
      PROVE  Fits(b)'
  <2>1. granted \in Nat /\ b \in Nat
    BY ToolAssumption DEF ToolIInv, ToolTypes, Attempts
  <2>2. b > granted' => b > granted
    BY <2>1
  <2>3. Fits(b) /\ ToolTypes
    BY DEF ToolIInv
  <2>4. /\ handler'[b] = handler[b] /\ hermes'[b] = hermes[b] /\ agent'[b] = agent[b]
        /\ heard'[b] = heard[b]
        /\ \A p \in Proposals :
              /\ results'[<<b, p>>] = results[<<b, p>>] /\ decided'[<<b, p>>] = decided[<<b, p>>]
              /\ <<b, p>> \in applied' => <<b, p>> \in applied
    BY <1>1
  <2>5. QED BY <2>2, <2>3, <2>4, AttemptStays
<1>2. QED BY <1>1 DEF ToolIInv

\* A step that writes to no call, and after which the handler has done nothing for one.
LEMMA NoCallIsMade ==
    ASSUME ToolTypes, NEW a \in Attempts, Fits(a), UNCHANGED <<decided, results, applied>>,
           handler'[a].step \notin CallSteps \ {"AUTHORIZE"},
           handler[a].step \in {"RECORD", "ENDED"} => handler'[a].step = "ENDED"
    PROVE  \A p \in Proposals : Makes(a, p)' /\ Tells(a, p)'
<1>1. \A p \in Proposals : (Answered(a, p)' <=> Answered(a, p)) /\ (Told(a, p)' <=> Told(a, p))
  BY ResultsStay
<1>2. QED BY <1>1 DEF Fits, Makes, Tells, CallSteps

\* What was said, heard and told stays, and an agent that had not succeeded has not.
LEMMA TalkStays ==
    ASSUME ToolTypes, NEW a \in Attempts, Talks(a), UNCHANGED <<heard, results>>,
           agent'[a].said = agent[a].said, agent'[a].told = agent[a].told,
           agent'[a].status = "SUCCEEDED" => agent[a].status = "SUCCEEDED",
           handler'[a].seen \subseteq handler[a].seen
    PROVE  Talks(a)'
<1>1. \A p \in agent[a].told : Answered(a, p)'
  BY ResultsStay DEF Talks
<1>2. handler'[a].seen \subseteq 1 .. Len(agent[a].said)
  BY DEF Talks
<1>3. QED BY <1>1, <1>2 DEF Talks

\* GoOn.
LEMMA HandlerGoesOn ==
    ASSUME ToolTypes, NEW a \in Attempts, NEW step \in HandlerSteps, GoOn(a, step)
    PROVE  /\ handler' \in [Attempts -> Handlers] /\ handler'[a].step = step
           /\ handler'[a].seen = {} /\ handler'[a].status = "NONE"
           /\ \A b \in Attempts \ {a} : handler'[b] = handler[b]
<1>1. Bare(step) \in Handlers /\ Bare(step).step = step /\ Bare(step).seen = {}
      /\ Bare(step).status = "NONE"
  BY BareHandler
<1>2. handler' = [handler EXCEPT ![a] = Bare(step)] /\ handler \in [Attempts -> Handlers]
  BY DEF GoOn, ToolTypes
<1>3. QED BY <1>1, <1>2

\* cancel.
LEMMA RunIsCancelled ==
    ASSUME ToolTypes, NEW a \in Attempts, CancelRun(a)
    PROVE  /\ hermes' \in [Attempts -> RunStatuses] /\ grant' \in [Attempts -> Grants]
           /\ hermes'[a] = "SUCCEEDED" => hermes[a] = "SUCCEEDED"
           /\ \A b \in Attempts \ {a} : hermes'[b] = hermes[b]
BY DEF ToolTypes, CancelRun, RunStatuses, Grants

\* The agent is asked to stop.
LEMMA AgentIsStopped ==
    ASSUME ToolTypes, NEW a \in Attempts, StopAgent(a)
    PROVE  /\ agent' \in [Attempts -> Agents] /\ \A b \in Attempts \ {a} : agent'[b] = agent[b]
           /\ agent'[a].said = agent[a].said /\ agent'[a].told = agent[a].told
           /\ agent'[a].status = "SUCCEEDED" <=> agent[a].status = "SUCCEEDED"
<1>1. PICK reached \in BOOLEAN :
         agent' = [agent EXCEPT ![a].status = IF reached /\ @ = "RUNNING" THEN "CANCELLED" ELSE @]
  BY DEF StopAgent
<1>2. agent \in [Attempts -> Agents] /\ agent[a] \in Agents
  BY DEF ToolTypes
<1>3. QED BY <1>1, <1>2 DEF Agents, AgentStatuses

\* A handler that goes on with nothing in its hands, whatever happens to its run.
LEMMA GoingOnKeeps ==
    ASSUME ToolIInv, NEW a \in Attempts, NEW step \in HandlerSteps \ (CallSteps \cup {"NONE"}), GoOn(a, step),
           handler[a].step \in {"RECORD", "ENDED"} => step = "ENDED",
           handler[a].step # "NONE",
           UNCHANGED <<granted, editing, preflight, heard, decided, results, applied>>,
           lease' \in {0, lease},
           hermes' \in [Attempts -> RunStatuses], grant' \in [Attempts -> Grants],
           \A b \in Attempts \ {a} : hermes'[b] = hermes[b],
           agent' \in [Attempts -> Agents], \A b \in Attempts \ {a} : agent'[b] = agent[b],
           agent'[a].said = agent[a].said, agent'[a].told = agent[a].told,
           agent'[a].status = "SUCCEEDED" => agent[a].status = "SUCCEEDED",
           step \in {"PREPARE", "START"} => hermes'[a] # "SUCCEEDED",
           hermes'[a] = "SUCCEEDED" => agent'[a].status = "SUCCEEDED"
    PROVE  ToolIInv'
<1>0. ToolTypes /\ Fits(a)
  BY DEF ToolIInv
<1>1. /\ handler' \in [Attempts -> Handlers] /\ handler'[a].step = step
      /\ handler'[a].seen = {} /\ handler'[a].status = "NONE"
      /\ \A b \in Attempts \ {a} : handler'[b] = handler[b]
  BY <1>0, HandlerGoesOn
<1>2. ToolTypes'
  BY <1>0, <1>1 DEF ToolTypes
<1>3. RunFits(a)'
  BY <1>0, <1>1 DEF Fits, RunFits
<1>4. Talks(a)'
  BY <1>0, <1>1, TalkStays DEF Fits
<1>5. \A p \in Proposals : Makes(a, p)' /\ Tells(a, p)'
  BY <1>0, <1>1, NoCallIsMade
<1>6. Fits(a)'
  BY <1>1, <1>3, <1>4, <1>5 DEF Fits
<1>7. QED BY <1>1, <1>2, <1>6, AttemptKeeps

\* A handler that stops its agent, and ends, between two calls.
LEMMA StoppingKeeps ==
    ASSUME ToolIInv, NEW a \in Attempts, NEW end \in {"ENDED", "TERMINAL"}, StopAndCancel(a, end),
           handler[a].step \in {"RECORD", "ENDED"} => end = "ENDED",
           handler[a].step # "NONE",
           UNCHANGED <<granted, editing, preflight, heard, decided, results, applied>>,
           lease' \in {0, lease}
    PROVE  ToolIInv'
<1>0. ToolTypes /\ Fits(a)
  BY DEF ToolIInv
<1>1. StopAgent(a) /\ CancelRun(a) /\ GoOn(a, end)
  BY DEF StopAndCancel
<1>2. /\ agent' \in [Attempts -> Agents] /\ \A b \in Attempts \ {a} : agent'[b] = agent[b]
      /\ agent'[a].said = agent[a].said /\ agent'[a].told = agent[a].told
      /\ agent'[a].status = "SUCCEEDED" <=> agent[a].status = "SUCCEEDED"
  BY <1>0, <1>1, AgentIsStopped
<1>3. /\ hermes' \in [Attempts -> RunStatuses] /\ grant' \in [Attempts -> Grants]
      /\ hermes'[a] = "SUCCEEDED" => hermes[a] = "SUCCEEDED"
      /\ \A b \in Attempts \ {a} : hermes'[b] = hermes[b]
  BY <1>0, <1>1, RunIsCancelled
<1>4. hermes'[a] = "SUCCEEDED" => agent'[a].status = "SUCCEEDED"
  BY <1>0, <1>2, <1>3 DEF Fits, RunFits
<1>5. end \in HandlerSteps \ (CallSteps \cup {"NONE"}) /\ end \notin {"PREPARE", "START"}
  BY DEF HandlerSteps, CallSteps
<1>6. QED BY <1>1, <1>2, <1>3, <1>4, <1>5, GoingOnKeeps

\* A handler that goes on with what it has, or has read.
LEMMA HandlerKeeps ==
    ASSUME ToolIInv, NEW a \in Attempts, NEW h \in Handlers, handler' = [handler EXCEPT ![a] = h],
           handler[a].step # "NONE", h.step \notin {"NONE", "PREPARE", "START"},
           h.status = "SUCCEEDED" => agent[a].status = "SUCCEEDED",
           h.step \in CallSteps => h.call \in Proposals,
           UNCHANGED <<granted, lease, editing, preflight, hermes, grant>>,
           agent' \in [Attempts -> Agents], \A b \in Attempts \ {a} : agent'[b] = agent[b],
           agent'[a].status = agent[a].status,
           heard' \in [Attempts -> Nat], \A b \in Attempts \ {a} : heard'[b] = heard[b],
           decided' \in [Calls -> {"NONE"} \cup Decisions], results' \in [Calls -> Seq(ResultRows)],
           applied' \subseteq Calls,
           \A b \in Attempts \ {a}, p \in Proposals :
              /\ results'[<<b, p>>] = results[<<b, p>>] /\ decided'[<<b, p>>] = decided[<<b, p>>]
              /\ <<b, p>> \in applied' => <<b, p>> \in applied,
           Talks(a)', \A p \in Proposals : Makes(a, p)' /\ Tells(a, p)'
    PROVE  ToolIInv'
<1>0. ToolTypes /\ Fits(a)
  BY DEF ToolIInv
<1>1. /\ handler' \in [Attempts -> Handlers] /\ handler'[a] = h
      /\ \A b \in Attempts \ {a} : handler'[b] = handler[b]
  BY <1>0 DEF ToolTypes
<1>2. ToolTypes'
  BY <1>0, <1>1 DEF ToolTypes
<1>3. RunFits(a)'
  BY <1>0, <1>1 DEF Fits, RunFits
<1>4. Fits(a)'
  BY <1>1, <1>3 DEF Fits
<1>5. QED BY <1>1, <1>2, <1>4, AttemptKeeps

-----------------------------------------------------------------------------
(* Leases and runs *)

LEMMA LeaseKeeps == ASSUME ToolIInv, Lease PROVE ToolIInv'
<1>0. ToolTypes /\ granted < MaxAttempts /\ granted \in Nat
  BY DEF ToolIInv, ToolTypes, Lease
<1>1. PICK a \in Attempts : a = granted + 1 /\ a > granted /\ ~(a > a) /\ a \in Nat
  BY <1>0, ToolAssumption DEF Attempts
<1>2. /\ granted' = a /\ lease' = a /\ handler' = [handler EXCEPT ![a] = Bare("PREPARE")]
      /\ UNCHANGED <<editing, preflight, hermes, grant, agent, heard, decided, results, applied>>
  BY <1>1 DEF Lease, GoOn
<1>3. Fits(a) /\ handler[a].step = "NONE" /\ hermes[a] # "SUCCEEDED"
  BY <1>1 DEF ToolIInv, Fits, RunFits
<1>4. /\ Bare("PREPARE") \in Handlers /\ Bare("PREPARE").step = "PREPARE"
      /\ Bare("PREPARE").seen = {} /\ Bare("PREPARE").status = "NONE"
  BY BareHandler DEF HandlerSteps
<1>5. /\ handler' \in [Attempts -> Handlers] /\ handler'[a] = Bare("PREPARE")
      /\ \A b \in Attempts \ {a} : handler'[b] = handler[b]
  BY <1>0, <1>1, <1>2, <1>4 DEF ToolTypes
<1>7. ToolTypes'
  BY <1>0, <1>1, <1>2, <1>5 DEF ToolTypes
<1>8. RunFits(a)'
  BY <1>1, <1>2, <1>3, <1>4, <1>5 DEF RunFits
<1>9. Talks(a)'
  BY <1>0, <1>1, <1>2, <1>3, <1>4, <1>5, TalkStays DEF Fits
<1>10. \A p \in Proposals : Makes(a, p)' /\ Tells(a, p)'
  BY <1>0, <1>1, <1>2, <1>3, <1>4, <1>5, NoCallIsMade DEF CallSteps
<1>11. Fits(a)'
  BY <1>4, <1>5, <1>8, <1>9, <1>10 DEF Fits, CallSteps
<1>12. granted' = granted + 1
  BY <1>1, <1>2
<1>13. QED BY <1>1, <1>2, <1>5, <1>7, <1>11, <1>12, AttemptKeeps

\* A step that no attempt sees.
LEMMA OutsideKeeps ==
    ASSUME ToolIInv, LoseLease \/ StopEditing \/ PreflightGoesStale \/ UNCHANGED toolvars
    PROVE  ToolIInv'
<1>1. /\ UNCHANGED <<granted, hermes, grant, agent, heard, handler, decided, results, applied>>
      /\ lease' \in {0, lease} /\ editing' \in {FALSE, editing} /\ preflight' \in {FALSE, preflight}
  BY DEF LoseLease, StopEditing, PreflightGoesStale, toolvars
<1>2. ToolTypes /\ ToolTypes'
  BY <1>1 DEF ToolIInv, ToolTypes
<1>3. ASSUME NEW a \in Attempts
      PROVE  Fits(a)'
  BY <1>1, <1>2, AttemptStays DEF ToolIInv
<1>4. QED BY <1>2, <1>3 DEF ToolIInv

LEMMA PrepareRunKeeps == ASSUME ToolIInv, NEW a \in Attempts, PrepareRun(a) PROVE ToolIInv'
<1>0. /\ ToolTypes /\ Fits(a) /\ handler[a].step = "PREPARE"
      /\ UNCHANGED <<lease, granted, editing, preflight, agent, heard, decided, results, applied>>
  BY DEF ToolIInv, PrepareRun, At
<1>1. {"START", "ENDED"} \subseteq HandlerSteps \ (CallSteps \cup {"NONE"})
  BY DEF HandlerSteps, CallSteps
<1>2. CASE /\ hermes' = [hermes EXCEPT ![a] = "STARTING"] /\ grant' = [grant EXCEPT ![a] = "ISSUED"]
           /\ GoOn(a, "START")
  <2>1. /\ hermes' \in [Attempts -> RunStatuses] /\ grant' \in [Attempts -> Grants]
        /\ hermes'[a] # "SUCCEEDED" /\ \A b \in Attempts \ {a} : hermes'[b] = hermes[b]
    BY <1>0, <1>2 DEF ToolTypes, RunStatuses, Grants
  <2>2. QED BY <1>0, <1>1, <1>2, <2>1, GoingOnKeeps DEF ToolTypes
<1>3. CASE GoOn(a, "ENDED") /\ UNCHANGED <<hermes, grant>>
  BY <1>0, <1>1, <1>3, GoingOnKeeps DEF ToolTypes, Fits, RunFits
<1>4. QED BY <1>2, <1>3 DEF PrepareRun

LEMMA StartAgentKeeps == ASSUME ToolIInv, NEW a \in Attempts, StartAgent(a) PROVE ToolIInv'
<1>0. /\ ToolTypes /\ Fits(a) /\ handler[a].step = "START" /\ hermes[a] # "SUCCEEDED"
      /\ UNCHANGED <<lease, granted, editing, preflight, hermes, grant, heard, decided, results, applied>>
  BY DEF ToolIInv, StartAgent, At, Fits, RunFits
<1>1. {"STARTED", "FAIL"} \subseteq HandlerSteps \ (CallSteps \cup {"NONE"})
  BY DEF HandlerSteps, CallSteps
<1>2. PICK step \in {"STARTED", "FAIL"} : GoOn(a, step)
  BY DEF StartAgent
<1>3. /\ agent' \in [Attempts -> Agents] /\ \A b \in Attempts \ {a} : agent'[b] = agent[b]
      /\ agent'[a].said = agent[a].said /\ agent'[a].told = agent[a].told
      /\ agent'[a].status = "SUCCEEDED" => agent[a].status = "SUCCEEDED"
  <2>1. agent' = [agent EXCEPT ![a].status = "RUNNING"] \/ agent' = agent
    BY DEF StartAgent
  <2>2. agent[a] \in Agents /\ agent \in [Attempts -> Agents]
    BY <1>0 DEF ToolTypes
  <2>3. CASE agent' = agent
    BY <2>2, <2>3
  <2>4. CASE agent' = [agent EXCEPT ![a].status = "RUNNING"]
    <3> DEFINE started == [agent[a] EXCEPT !.status = "RUNNING"]
    <3>1. /\ started \in Agents /\ started.status = "RUNNING"
          /\ started.said = agent[a].said /\ started.told = agent[a].told
      BY <2>2 DEF Agents, AgentStatuses
    <3>2. agent' = [agent EXCEPT ![a] = started]
      BY <2>2, <2>4
    <3> HIDE DEF started
    <3>3. QED BY <2>2, <3>1, <3>2
  <2>5. QED BY <2>1, <2>3, <2>4
<1>4. QED BY <1>0, <1>1, <1>2, <1>3, GoingOnKeeps DEF ToolTypes

LEMMA RecordStartedKeeps == ASSUME ToolIInv, NEW a \in Attempts, RecordStarted(a) PROVE ToolIInv'
<1>0. /\ ToolTypes /\ Fits(a) /\ handler[a].step = "STARTED"
      /\ UNCHANGED <<lease, granted, editing, preflight, grant, agent, heard, decided, results, applied>>
  BY DEF ToolIInv, RecordStarted, At
<1>1. {"POLL", "ENDED"} \subseteq HandlerSteps \ (CallSteps \cup {"NONE"})
  BY DEF HandlerSteps, CallSteps
<1>2. PICK step \in {"POLL", "ENDED"} : GoOn(a, step)
  BY DEF RecordStarted
<1>3. /\ hermes' \in [Attempts -> RunStatuses] /\ \A b \in Attempts \ {a} : hermes'[b] = hermes[b]
      /\ hermes'[a] = "SUCCEEDED" => hermes[a] = "SUCCEEDED"
  BY <1>0 DEF RecordStarted, ToolTypes, RunStatuses
<1>4. QED BY <1>0, <1>1, <1>2, <1>3, GoingOnKeeps DEF ToolTypes, Fits, RunFits

LEMMA FailDependencyKeeps == ASSUME ToolIInv, NEW a \in Attempts, FailDependency(a) PROVE ToolIInv'
<1>0. /\ ToolTypes /\ Fits(a) /\ handler[a].step \in {"FAIL", "TIMEOUT"}
      /\ UNCHANGED <<granted, editing, preflight, hermes, grant, agent, heard, decided, results, applied>>
      /\ lease' \in {0, lease}
  BY DEF ToolIInv, FailDependency
<1>1. {"FAILED", "TIMED_OUT", "ENDED"} \subseteq HandlerSteps \ (CallSteps \cup {"NONE"})
  BY DEF HandlerSteps, CallSteps
<1>2. PICK step \in {"FAILED", "TIMED_OUT", "ENDED"} : GoOn(a, step)
  BY DEF FailDependency
<1>3. QED BY <1>0, <1>1, <1>2, GoingOnKeeps DEF ToolTypes, Fits, RunFits

LEMMA ProjectFailureKeeps == ASSUME ToolIInv, NEW a \in Attempts, ProjectFailure(a) PROVE ToolIInv'
<1>0. /\ ToolTypes /\ Fits(a) /\ handler[a].step \in {"FAILED", "TIMED_OUT"} /\ GoOn(a, "ENDED")
      /\ UNCHANGED <<lease, granted, editing, preflight, grant, agent, heard, decided, results, applied>>
  BY DEF ToolIInv, ProjectFailure
<1>1. "ENDED" \in HandlerSteps \ (CallSteps \cup {"NONE"})
  BY DEF HandlerSteps, CallSteps
<1>2. /\ hermes' \in [Attempts -> RunStatuses] /\ \A b \in Attempts \ {a} : hermes'[b] = hermes[b]
      /\ hermes'[a] = "SUCCEEDED" => hermes[a] = "SUCCEEDED"
  BY <1>0 DEF ProjectFailure, ToolTypes, RunStatuses
<1>3. QED BY <1>0, <1>1, <1>2, GoingOnKeeps DEF ToolTypes, Fits, RunFits

LEMMA WorkerDiesKeeps == ASSUME ToolIInv, NEW a \in Attempts, WorkerDies(a) PROVE ToolIInv'
<1>1. "ENDED" \in HandlerSteps \ (CallSteps \cup {"NONE"})
  BY DEF HandlerSteps, CallSteps
<1>2. QED BY <1>1, GoingOnKeeps DEF WorkerDies, ToolIInv, ToolTypes, Fits, RunFits

-----------------------------------------------------------------------------
(* Polling *)

LEMMA PollKeeps == ASSUME ToolIInv, NEW a \in Attempts, Poll(a) PROVE ToolIInv'
<1>0. /\ ToolTypes /\ Fits(a) /\ handler[a].step = "POLL" /\ handler[a] \in Handlers
      /\ UNCHANGED <<lease, granted, editing, preflight, heard, decided, results, applied>>
  BY DEF ToolIInv, Poll, At, ToolTypes
<1>1. {"FAIL", "TIMEOUT"} \subseteq HandlerSteps \ (CallSteps \cup {"NONE"})
  BY DEF HandlerSteps, CallSteps
<1>2. CASE StopAndCancel(a, "ENDED")
  BY <1>0, <1>2, StoppingKeeps
<1>3. CASE UNCHANGED <<agent, hermes, grant>> /\ GoOn(a, "FAIL")
  BY <1>0, <1>1, <1>3, GoingOnKeeps DEF ToolTypes, Fits, RunFits
<1>4. CASE StopAgent(a) /\ GoOn(a, "TIMEOUT") /\ UNCHANGED <<hermes, grant>>
  <2>1. /\ agent' \in [Attempts -> Agents] /\ \A b \in Attempts \ {a} : agent'[b] = agent[b]
        /\ agent'[a].said = agent[a].said /\ agent'[a].told = agent[a].told
        /\ agent'[a].status = "SUCCEEDED" <=> agent[a].status = "SUCCEEDED"
    BY <1>0, <1>4, AgentIsStopped
  <2>2. QED BY <1>0, <1>1, <1>4, <2>1, GoingOnKeeps DEF ToolTypes, Fits, RunFits
<1>5. ASSUME UNCHANGED <<agent, hermes, grant>>, NEW seen \in SUBSET (1 .. Len(agent[a].said)),
             handler' = [handler EXCEPT ![a].step = "HEAR", ![a].seen = seen,
                                        ![a].status = agent[a].status]
      PROVE  ToolIInv'
  <2> DEFINE h == [handler[a] EXCEPT !.step = "HEAR", !.seen = seen, !.status = agent[a].status]
  <2>1. agent[a].status \in AgentStatuses /\ seen \in SUBSET Nat /\ Len(agent[a].said) \in Nat
    BY <1>0 DEF ToolTypes, Agents
  <2>2. /\ h \in Handlers /\ h.step = "HEAR" /\ h.seen = seen /\ h.status = agent[a].status
    BY <1>0, <2>1 DEF Handlers, HandlerSteps
  <2>3. handler' = [handler EXCEPT ![a] = h] /\ handler'[a] = h
    BY <1>0, <1>5 DEF ToolTypes
  <2> HIDE DEF h
  <2>4. "HEAR" \notin CallSteps
    BY DEF CallSteps
  <2>5. Talks(a)'
    <3>1. \A p \in agent[a].told : Answered(a, p)'
      BY <1>0, ResultsStay DEF Fits, Talks
    <3>2. heard'[a] = heard[a] /\ agent' = agent /\ handler'[a].seen = seen
      BY <1>0, <1>5, <2>2, <2>3
    <3>3. QED BY <1>0, <3>1, <3>2 DEF Fits, Talks
  <2>6. \A p \in Proposals : Makes(a, p)' /\ Tells(a, p)'
    BY <1>0, <2>2, <2>3, <2>4, NoCallIsMade
  <2>7. h.status = "SUCCEEDED" => agent[a].status = "SUCCEEDED"
    BY <2>2
  <2>8. UNCHANGED <<agent, hermes, grant>>
    BY <1>5
  <2>9. QED BY <1>0, <2>2, <2>3, <2>4, <2>5, <2>6, <2>7, <2>8, HandlerKeeps DEF ToolTypes
<1>6. QED
  BY <1>2, <1>3, <1>4, <1>5 DEF Poll

LEMMA HearKeeps == ASSUME ToolIInv, NEW a \in Attempts, Hear(a) PROVE ToolIInv'
<1>0. /\ ToolTypes /\ Fits(a) /\ handler[a].step = "HEAR" /\ handler[a] \in Handlers
      /\ handler[a].seen # {} /\ handler[a].seen \in SUBSET Nat
      /\ UNCHANGED <<lease, granted, editing, preflight, decided, results, applied>>
  BY DEF ToolIInv, Hear, At, ToolTypes, Handlers
<1> DEFINE n    == CHOOSE m \in handler[a].seen : \A k \in handler[a].seen : m <= k
           rest == [handler EXCEPT ![a].seen = @ \ {n}]
<1>1. n \in handler[a].seen
  BY <1>0, Least
<1>2. PICK l \in handler[a].seen : l = n
  BY <1>1
<1>3. \/ /\ heard' = [heard EXCEPT ![a] = IF l > @ THEN l ELSE @]
         /\ handler' = [[handler EXCEPT ![a].seen = @ \ {l}] EXCEPT ![a].step = "AUTHORIZE", ![a].tried = 1,
                                  ![a].call = agent[a].said[l]]
         /\ UNCHANGED <<agent, hermes, grant>>
      \/ StopAndCancel(a, "ENDED") /\ UNCHANGED heard
      \/ /\ handler' = [handler EXCEPT ![a].seen = @ \ {l}] /\ UNCHANGED <<heard, agent, hermes, grant>>
  BY <1>2 DEF Hear
<1> HIDE DEF n, rest
<1>4. l \in 1 .. Len(agent[a].said) /\ l \in Nat /\ agent[a].said[l] \in Proposals
  <2>1. l \in 1 .. Len(agent[a].said)
    BY <1>0 DEF Fits, Talks
  <2>2. agent[a].said \in Seq(Proposals)
    BY <1>0 DEF ToolTypes, Agents
  <2>3. QED BY <2>1, <2>2
<1>5. \A p \in agent[a].told : Answered(a, p)'
  BY <1>0, ResultsStay DEF Fits, Talks
<1>6. CASE StopAndCancel(a, "ENDED") /\ UNCHANGED heard
  BY <1>0, <1>6, StoppingKeeps
<1>7. CASE /\ heard' = [heard EXCEPT ![a] = IF l > @ THEN l ELSE @]
           /\ handler' = [[handler EXCEPT ![a].seen = @ \ {l}] EXCEPT ![a].step = "AUTHORIZE", ![a].tried = 1,
                                    ![a].call = agent[a].said[l]]
           /\ UNCHANGED <<agent, hermes, grant>>
  <2> DEFINE h == [handler[a] EXCEPT !.seen = handler[a].seen \ {l}, !.step = "AUTHORIZE",
                                     !.tried = 1, !.call = agent[a].said[l]]
  <2>1. /\ h \in Handlers /\ h.step = "AUTHORIZE" /\ h.seen = handler[a].seen \ {l}
        /\ h.status = handler[a].status /\ h.call = agent[a].said[l]
    BY <1>0, <1>4 DEF Handlers, HandlerSteps, CallSteps
  <2>2. handler' = [handler EXCEPT ![a] = h] /\ handler'[a] = h
    BY <1>0, <1>7 DEF ToolTypes
  <2> HIDE DEF h
  <2>3. /\ heard' \in [Attempts -> Nat] /\ \A b \in Attempts \ {a} : heard'[b] = heard[b]
        /\ heard'[a] <= Len(agent[a].said)
    <3>1. heard[a] \in Nat /\ heard[a] <= Len(agent[a].said) /\ Len(agent[a].said) \in Nat
      BY <1>0 DEF ToolTypes, Fits, Talks, Agents
    <3>2. QED BY <1>0, <1>4, <1>7, <3>1 DEF ToolTypes
  <2>4. Talks(a)'
    <3>1. agent' = agent /\ handler'[a].seen \subseteq handler[a].seen
      BY <1>7, <2>1, <2>2
    <3>2. QED BY <1>0, <1>5, <2>3, <3>1 DEF Fits, Talks
  <2>5. \A p \in Proposals : Makes(a, p)' /\ Tells(a, p)'
    BY <1>0, <2>1, <2>2, NoCallIsMade
  <2>6. h.status = "SUCCEEDED" => agent[a].status = "SUCCEEDED"
    BY <1>0, <2>1 DEF Fits, RunFits
  <2>7. QED BY <1>0, <1>4, <1>7, <2>1, <2>2, <2>3, <2>4, <2>5, <2>6, HandlerKeeps DEF ToolTypes
<1>8. CASE /\ handler' = [handler EXCEPT ![a].seen = @ \ {l}] /\ UNCHANGED <<heard, agent, hermes, grant>>
  <2> DEFINE h == [handler[a] EXCEPT !.seen = handler[a].seen \ {l}]
  <2>1. /\ h \in Handlers /\ h.step = "HEAR" /\ h.seen = handler[a].seen \ {l}
        /\ h.status = handler[a].status
    BY <1>0 DEF Handlers
  <2>2. handler' = [handler EXCEPT ![a] = h] /\ handler'[a] = h
    BY <1>0, <1>8 DEF ToolTypes
  <2> HIDE DEF h
  <2>3. Talks(a)'
    <3>1. handler'[a].seen \subseteq handler[a].seen
      BY <2>1, <2>2
    <3>2. QED BY <1>0, <1>8, <3>1, TalkStays DEF Fits
  <2>4. "HEAR" \notin CallSteps
    BY DEF CallSteps
  <2>5. \A p \in Proposals : Makes(a, p)' /\ Tells(a, p)'
    BY <1>0, <2>1, <2>2, <2>4, NoCallIsMade
  <2>6. h.status = "SUCCEEDED" => agent[a].status = "SUCCEEDED"
    BY <1>0, <2>1 DEF Fits, RunFits
  <2>7. QED BY <1>0, <1>8, <2>1, <2>2, <2>3, <2>4, <2>5, <2>6, HandlerKeeps DEF ToolTypes
<1>9. QED BY <1>3, <1>6, <1>7, <1>8

LEMMA HearStatusKeeps == ASSUME ToolIInv, NEW a \in Attempts, HearStatus(a) PROVE ToolIInv'
<1>0. /\ ToolTypes /\ Fits(a) /\ handler[a].step = "HEAR"
      /\ UNCHANGED <<granted, editing, preflight, agent, heard, decided, results, applied>>
      /\ lease' \in {0, lease}
  BY DEF ToolIInv, HearStatus, At, EndJob
<1>1. {"POLL", "ENDED", "TERMINAL"} \subseteq HandlerSteps \ (CallSteps \cup {"NONE"})
  BY DEF HandlerSteps, CallSteps
<1>2. PICK step \in {"POLL", "ENDED", "TERMINAL"} : GoOn(a, step)
  BY DEF HearStatus, JobEnd
<1>3. /\ hermes' \in [Attempts -> RunStatuses] /\ grant' \in [Attempts -> Grants]
      /\ \A b \in Attempts \ {a} : hermes'[b] = hermes[b]
      /\ hermes'[a] = "SUCCEEDED" => hermes[a] = "SUCCEEDED" \/ handler[a].status = "SUCCEEDED"
  <2>1. CASE UNCHANGED <<hermes, grant>>
    BY <1>0, <2>1 DEF ToolTypes
  <2>2. CASE CancelRun(a)
    BY <1>0, <2>2, RunIsCancelled
  <2>3. CASE /\ handler[a].status \in {"SUCCEEDED", "FAILED"} /\ UNCHANGED grant
             /\ hermes' = [hermes EXCEPT ![a] = handler[a].status]
    BY <1>0, <2>3 DEF ToolTypes, RunStatuses
  <2>4. QED BY <2>1, <2>2, <2>3 DEF HearStatus
<1>4. hermes'[a] = "SUCCEEDED" => agent'[a].status = "SUCCEEDED"
  BY <1>0, <1>3 DEF Fits, RunFits
<1>5. QED BY <1>0, <1>1, <1>2, <1>3, <1>4, GoingOnKeeps DEF ToolTypes

-----------------------------------------------------------------------------
(* A call *)

\* The call a handler is at.
LEMMA CallOfHandler ==
    ASSUME ToolIInv, NEW a \in Attempts, handler[a].step \in CallSteps
    PROVE  \E p \in Proposals :
              /\ p = handler[a].call /\ Call(a) = <<a, p>> /\ <<a, p>> \in Calls
              /\ Makes(a, p) /\ Tells(a, p)
BY DEF ToolIInv, Fits, Call, Calls

LEMMA AuthorizeKeeps == ASSUME ToolIInv, NEW a \in Attempts, Authorize(a) PROVE ToolIInv'
<1>0. /\ ToolTypes /\ Fits(a) /\ handler[a].step = "AUTHORIZE" /\ handler[a] \in Handlers
      /\ UNCHANGED <<granted, editing, preflight, heard, results, applied>>
  BY DEF ToolIInv, Authorize, At, ToolTypes, KeepHermes
<1>1. CASE StopAndCancel(a, JobEnd(a)) /\ EndJob(a) /\ UNCHANGED decided
  <2>1. PICK end \in {"ENDED", "TERMINAL"} : end = JobEnd(a)
    BY DEF JobEnd
  <2>2. lease' \in {0, lease}
    BY <1>1 DEF EndJob
  <2>3. QED BY <1>0, <1>1, <2>1, <2>2, StoppingKeeps
<1>2. CASE CallIsCurrent(a)
  <2>1. PICK p \in Proposals :
           /\ p = handler[a].call /\ Call(a) = <<a, p>> /\ <<a, p>> \in Calls
           /\ Makes(a, p) /\ Tells(a, p)
    BY <1>0, CallOfHandler DEF CallSteps
  <2>2. PICK d : d = IF decided[<<a, p>>] = "NONE" THEN AuthorizationDecision(a, p)
                     ELSE decided[<<a, p>>]
    OBVIOUS
  <2>3. d \in Decisions /\ (decided[<<a, p>>] = "AUTHORIZED" => d = "AUTHORIZED")
    <3>1. AuthorizationDecision(a, p) \in Decisions
      BY <1>0, DecisionType
    <3>2. decided[<<a, p>>] \in {"NONE"} \cup Decisions
      BY <1>0, <2>1 DEF ToolTypes
    <3>3. QED BY <2>2, <3>1, <3>2
  <2> DEFINE step == IF IsAnswered(<<a, p>>) THEN "SUBMIT"
                     ELSE IF d = "AUTHORIZED" THEN "CHECK" ELSE "RECORD"
             h == [handler[a] EXCEPT !.step = step, !.answer = Result("REJECTED", d)]
  <2>4. /\ decided' = [decided EXCEPT ![<<a, p>>] = d]
        /\ handler' = [handler EXCEPT ![a].step = step, ![a].answer = Result("REJECTED", d)]
        /\ UNCHANGED <<lease, agent, hermes, grant>>
    <3>1. Call(a)[2] = p
      BY <2>1
    <3>2. QED BY <1>2, <2>1, <2>2, <3>1 DEF Authorize
  <2>5. /\ step \in {"SUBMIT", "CHECK", "RECORD"} /\ (step = "SUBMIT" <=> Answered(a, p))
        /\ step = "CHECK" => d = "AUTHORIZED"
    BY DEF Answered
  <2> HIDE DEF step
  <2>6. Result("REJECTED", d) \in ResultRows
    BY <2>3 DEF Result, ResultRows, Codes
  <2>7. /\ h \in Handlers /\ h.step = step /\ h.seen = handler[a].seen /\ h.status = handler[a].status
        /\ h.call = p
    BY <1>0, <2>1, <2>5, <2>6 DEF Handlers, HandlerSteps, CallSteps
  <2>8. handler' = [handler EXCEPT ![a] = h] /\ handler'[a] = h
    BY <1>0, <2>4 DEF ToolTypes
  <2> HIDE DEF h
  <2>9. /\ decided' \in [Calls -> {"NONE"} \cup Decisions] /\ decided'[<<a, p>>] = d
        /\ \A c \in Calls \ {<<a, p>>} : decided'[c] = decided[c]
    BY <1>0, <2>1, <2>3, <2>4 DEF ToolTypes
  <2>10. ASSUME NEW q \in Proposals
         PROVE  Makes(a, q)' /\ Tells(a, q)'
    <3>1. (Answered(a, q)' <=> Answered(a, q)) /\ (Told(a, q)' <=> Told(a, q))
      BY <1>0, ResultsStay
    <3>2. Makes(a, q)'
      BY <2>5, <2>7, <2>8, <2>9, <3>1 DEF Makes
    <3>3. <<a, q>> \in Calls /\ (q # p => decided'[<<a, q>>] = decided[<<a, q>>])
      BY <2>9 DEF Calls
    <3>4. decided[<<a, q>>] = "AUTHORIZED" => decided'[<<a, q>>] = "AUTHORIZED"
      BY <2>3, <2>9, <3>3
    <3>5. Tells(a, q)
      BY <1>0 DEF Fits
    <3>6. Tells(a, q)'
      BY <1>0, <3>1, <3>4, <3>5 DEF Tells
    <3>7. QED BY <3>2, <3>6
  <2>11. Talks(a)'
    <3>1. handler'[a].seen \subseteq handler[a].seen
      BY <2>7, <2>8
    <3>2. QED BY <1>0, <2>4, <3>1, TalkStays DEF Fits
  <2>12. h.status = "SUCCEEDED" => agent[a].status = "SUCCEEDED"
    BY <1>0, <2>7 DEF Fits, RunFits
  <2>13. \A b \in Attempts \ {a}, q \in Proposals : decided'[<<b, q>>] = decided[<<b, q>>]
    BY <2>9 DEF Calls
  <2>14. UNCHANGED <<lease, agent, hermes, grant>>
    BY <2>4
  <2>15. h.step \notin {"NONE", "PREPARE", "START"} /\ h.call \in Proposals
    BY <2>5, <2>7
  <2>16. QED
    BY <1>0, <2>7, <2>8, <2>9, <2>10, <2>11, <2>12, <2>13, <2>14, <2>15, HandlerKeeps DEF ToolTypes
<1>3. QED BY <1>1, <1>2 DEF Authorize

\* A handler that goes on with its call, of which it has written no result.
LEMMA CallGoesOn ==
    ASSUME ToolIInv, NEW a \in Attempts, NEW p \in Proposals, p = handler[a].call,
           handler[a].step \in {"CHECK", "DISPATCH"}, ~Answered(a, p),
           decided[<<a, p>>] = "AUTHORIZED",
           NEW step \in {"DISPATCH", "RECORD"}, NEW answer \in ResultRows,
           handler' = [handler EXCEPT ![a].step = step, ![a].answer = answer],
           UNCHANGED <<granted, editing, preflight, heard, lease, hermes, grant, agent, decided,
                       results>>,
           applied' = applied \/ (applied' = applied \cup {<<a, p>>} /\ step = "RECORD" /\ Telling(answer))
    PROVE  ToolIInv'
<1>0. ToolTypes /\ Fits(a) /\ handler[a] \in Handlers /\ <<a, p>> \in Calls
  BY DEF ToolIInv, ToolTypes, Calls
<1> DEFINE h == [handler[a] EXCEPT !.step = step, !.answer = answer]
<1>1. /\ h \in Handlers /\ h.step = step /\ h.seen = handler[a].seen /\ h.status = handler[a].status
      /\ h.call = p /\ h.answer = answer
  BY <1>0 DEF Handlers, HandlerSteps, CallSteps
<1>2. handler' = [handler EXCEPT ![a] = h] /\ handler'[a] = h
  BY <1>0 DEF ToolTypes
<1> HIDE DEF h
<1>3. ASSUME NEW q \in Proposals
      PROVE  Makes(a, q)' /\ Tells(a, q)'
  <2>1. (Answered(a, q)' <=> Answered(a, q)) /\ (Told(a, q)' <=> Told(a, q)) /\ Tells(a, q)
    BY <1>0, ResultsStay DEF Fits
  <2>2. Makes(a, q)'
    BY <1>1, <1>2, <2>1 DEF Makes
  <2>3. Tells(a, q)'
    <3>1. CASE <<a, q>> \in applied
      <4>1. Told(a, q) /\ decided[<<a, q>>] = "AUTHORIZED"
        BY <2>1, <3>1 DEF Tells
      <4>2. QED BY <2>1, <4>1 DEF Tells
    <3>2. CASE <<a, q>> \notin applied /\ <<a, q>> \in applied'
      <4>1. q = p /\ step = "RECORD" /\ Telling(answer)
        BY <3>2
      <4>2. handler'[a].answer = answer /\ handler'[a].step = "RECORD" /\ handler'[a].call = q
        BY <1>1, <1>2, <4>1
      <4>3. Telling(handler[a].answer)'
        BY <4>1, <4>2 DEF Telling
      <4>4. ~Answered(a, q)' /\ decided'[<<a, q>>] = "AUTHORIZED"
        BY <2>1, <4>1
      <4>5. QED BY <4>2, <4>3, <4>4 DEF Tells
    <3>3. CASE <<a, q>> \notin applied'
      BY <3>3 DEF Tells
    <3>4. QED BY <3>1, <3>2, <3>3
  <2>4. QED BY <2>2, <2>3
<1>4. Talks(a)'
  <2>1. handler'[a].seen \subseteq handler[a].seen
    BY <1>1, <1>2
  <2>2. QED BY <1>0, <2>1, TalkStays DEF Fits
<1>5. h.status = "SUCCEEDED" => agent[a].status = "SUCCEEDED"
  BY <1>0, <1>1 DEF Fits, RunFits
<1>6. applied' \subseteq Calls
  BY <1>0 DEF ToolTypes
<1>7. \A b \in Attempts \ {a}, q \in Proposals : <<b, q>> \in applied' => <<b, q>> \in applied
  OBVIOUS
<1>8. h.step \notin {"NONE", "PREPARE", "START"} /\ h.call \in Proposals
  BY <1>1
<1>9. QED
  BY <1>0, <1>1, <1>2, <1>3, <1>4, <1>5, <1>6, <1>7, <1>8, HandlerKeeps DEF ToolTypes

LEMMA CheckKeeps == ASSUME ToolIInv, NEW a \in Attempts, CheckStillAuthorized(a) PROVE ToolIInv'
<1>0. /\ handler[a].step = "CHECK"
      /\ UNCHANGED <<granted, editing, preflight, heard, lease, hermes, grant, agent, decided, results,
                     applied>>
  BY DEF CheckStillAuthorized, At, KeepHermes
<1>1. PICK p \in Proposals :
         /\ p = handler[a].call /\ Call(a) = <<a, p>> /\ <<a, p>> \in Calls
         /\ Makes(a, p) /\ Tells(a, p)
  BY <1>0, CallOfHandler DEF CallSteps
<1>2. Result("REJECTED", "AUTHORIZATION_STALE") \in ResultRows
  BY DEF Result, ResultRows, Codes
<1>3. ~Answered(a, p) /\ decided[<<a, p>>] = "AUTHORIZED"
  BY <1>0, <1>1 DEF Makes
<1>4. PICK step \in {"DISPATCH", "RECORD"} :
         handler' = [handler EXCEPT ![a].step = step,
                        ![a].answer = Result("REJECTED", "AUTHORIZATION_STALE")]
  BY DEF CheckStillAuthorized
<1>5. QED BY <1>0, <1>1, <1>2, <1>3, <1>4, CallGoesOn

LEMMA DispatchKeeps == ASSUME ToolIInv, NEW a \in Attempts, DispatchToHost(a) PROVE ToolIInv'
<1>0. /\ handler[a].step = "DISPATCH"
      /\ UNCHANGED <<granted, editing, preflight, heard, lease, hermes, grant, agent, decided, results>>
  BY DEF DispatchToHost, At, KeepHermes
<1>1. PICK p \in Proposals :
         /\ p = handler[a].call /\ Call(a) = <<a, p>> /\ <<a, p>> \in Calls
         /\ Makes(a, p) /\ Tells(a, p)
  BY <1>0, CallOfHandler DEF CallSteps
<1>2. ~Answered(a, p) /\ decided[<<a, p>>] = "AUTHORIZED"
  BY <1>0, <1>1 DEF Makes
<1>3. ASSUME NEW answer \in ResultRows, Telling(answer),
             handler' = [handler EXCEPT ![a].step = "RECORD", ![a].answer = answer],
             applied' = applied \/ applied' = applied \cup {<<a, p>>}
      PROVE  ToolIInv'
  BY <1>0, <1>1, <1>2, <1>3, CallGoesOn
<1>4. ASSUME NEW result \in HostResults,
             handler' = [handler EXCEPT ![a].step = "RECORD",
                            ![a].answer = Recorded([status |-> "OK", result |-> result])],
             applied' = applied \cup {Call(a)}
      PROVE  ToolIInv'
  BY <1>1, <1>3, <1>4, RecordedTells
<1>5. ASSUME NEW done \in {{}, {Call(a)}}, NEW status \in {"AMBIGUOUS", "UNAVAILABLE"},
             handler' = [handler EXCEPT ![a].step = "RECORD", ![a].answer = Recorded([status |-> status])],
             applied' = applied \cup done
      PROVE  ToolIInv'
  BY <1>1, <1>3, <1>5, RecordedTells
<1>6. CASE /\ handler' = [handler EXCEPT ![a].step = "RECORD",
                              ![a].answer = Recorded([status |-> "REJECTED"])]
           /\ UNCHANGED applied
  BY <1>0, <1>1, <1>2, <1>6, RecordedTells, CallGoesOn
<1>7. QED BY <1>4, <1>5, <1>6 DEF DispatchToHost

\* What a result that is added to a call says.
LEMMA ResultIsAdded ==
    ASSUME ToolTypes, NEW a \in Attempts, NEW p \in Proposals, NEW answer \in ResultRows, ~Answered(a, p),
           results' = [results EXCEPT ![<<a, p>>] = Append(@, answer)]
    PROVE  /\ results' \in [Calls -> Seq(ResultRows)]
           /\ \A c \in Calls \ {<<a, p>>} : results'[c] = results[c]
           /\ Told(a, p) \/ Telling(answer) => Told(a, p)'
           /\ Answered(a, p)' <=> answer.status # "AMBIGUOUS"
<1>1. results \in [Calls -> Seq(ResultRows)] /\ <<a, p>> \in Calls
  BY DEF ToolTypes, Calls
<1>2. PICK s \in Seq(ResultRows) : s = results[<<a, p>>]
  BY <1>1
<1>3. results' \in [Calls -> Seq(ResultRows)] /\ results'[<<a, p>>] = Append(s, answer)
  <2>1. results' = [results EXCEPT ![<<a, p>>] = Append(s, answer)] /\ Append(s, answer) \in Seq(ResultRows)
    BY <1>2
  <2> DEFINE t == Append(s, answer)
  <2> HIDE DEF t
  <2>2. t \in Seq(ResultRows) /\ results' = [results EXCEPT ![<<a, p>>] = t]
    BY <2>1 DEF t
  <2>3. results' \in [Calls -> Seq(ResultRows)] /\ results'[<<a, p>>] = t
    BY <1>1, <2>2
  <2>4. QED BY <2>3 DEF t
<1>4. /\ Len(Append(s, answer)) = Len(s) + 1 /\ Len(s) \in Nat
      /\ Append(s, answer)[Len(s) + 1] = answer
      /\ \A i \in 1 .. Len(s) : Append(s, answer)[i] = s[i]
  BY <1>2
<1>5. Told(a, p) <=> \E i \in 1 .. Len(s) : Telling(s[i])
  BY <1>2 DEF Told
<1>6. Told(a, p)' <=> \E i \in 1 .. Len(s) + 1 : Telling(Append(s, answer)[i])
  BY <1>3, <1>4 DEF Told, Telling
<1>7. \A i \in 1 .. Len(s) : s[i].status = "AMBIGUOUS"
  BY <1>2 DEF Answered, IsAnswered
<1>8. Answered(a, p)' <=> \E i \in 1 .. Len(s) + 1 : Append(s, answer)[i].status # "AMBIGUOUS"
  BY <1>3, <1>4 DEF Answered, IsAnswered
<1>9. Told(a, p) \/ Telling(answer) => Told(a, p)'
  <2>1. ASSUME NEW i \in 1 .. Len(s), Telling(s[i]) PROVE Told(a, p)'
    <3>1. i \in 1 .. Len(s) + 1 /\ Append(s, answer)[i] = s[i]
      BY <1>4
    <3>2. QED BY <1>6, <2>1, <3>1
  <2>2. ASSUME Telling(answer) PROVE Told(a, p)'
    <3>1. Len(s) + 1 \in 1 .. Len(s) + 1
      BY <1>4
    <3>2. QED BY <1>4, <1>6, <2>2, <3>1
  <2>3. QED BY <1>5, <2>1, <2>2
<1>10. Answered(a, p)' <=> answer.status # "AMBIGUOUS"
  BY <1>4, <1>7, <1>8
<1>11. QED BY <1>1, <1>3, <1>9, <1>10

LEMMA RecordResultKeeps == ASSUME ToolIInv, NEW a \in Attempts, RecordResult(a) PROVE ToolIInv'
<1>0. /\ ToolTypes /\ Fits(a) /\ handler[a].step = "RECORD" /\ handler[a] \in Handlers
      /\ handler[a].answer \in ResultRows /\ handler[a].tried \in Nat
      /\ UNCHANGED <<granted, editing, preflight, heard, decided, applied>>
  BY DEF ToolIInv, RecordResult, At, ToolTypes, Handlers, KeepHermes
<1>1. PICK p \in Proposals :
         /\ p = handler[a].call /\ Call(a) = <<a, p>> /\ <<a, p>> \in Calls
         /\ Makes(a, p) /\ Tells(a, p)
  BY <1>0, CallOfHandler DEF CallSteps
<1>2. ~Answered(a, p) /\ ~IsAnswered(Call(a))
  BY <1>0, <1>1 DEF Makes, Answered
<1>3. PICK answer \in ResultRows : answer = handler[a].answer
  BY <1>0
<1>4. results' = [results EXCEPT ![<<a, p>>] = Append(@, answer)]
  BY <1>1, <1>2, <1>3 DEF RecordResult
<1>5. /\ results' \in [Calls -> Seq(ResultRows)]
      /\ \A c \in Calls \ {<<a, p>>} : results'[c] = results[c]
      /\ Told(a, p) \/ Telling(answer) => Told(a, p)'
      /\ Answered(a, p)' <=> answer.status # "AMBIGUOUS"
  BY <1>0, <1>2, <1>4, ResultIsAdded
<1>6. ASSUME NEW q \in Proposals, q # p
      PROVE  (Answered(a, q)' <=> Answered(a, q)) /\ (Told(a, q)' <=> Told(a, q))
  <2>1. <<a, q>> \in Calls /\ <<a, q>> # <<a, p>>
    BY <1>6 DEF Calls
  <2>2. QED BY <1>5, <2>1, ResultsStay
<1>7. ASSUME NEW q \in Proposals
      PROVE  Tells(a, q)'
  <2>1. Tells(a, q)
    BY <1>0 DEF Fits
  <2>2. ASSUME <<a, q>> \in applied PROVE decided[<<a, q>>] = "AUTHORIZED" /\ Told(a, q)'
    <3>1. CASE q = p
      BY <1>0, <1>3, <1>5, <2>1, <2>2, <3>1 DEF Tells
    <3>2. CASE q # p
      BY <1>0, <1>1, <1>6, <2>1, <2>2, <3>2 DEF Tells
    <3>3. QED BY <3>1, <3>2
  <2>3. QED BY <1>0, <2>2 DEF Tells
<1>8. /\ \A q \in agent[a].told : Answered(a, q)'
      /\ agent[a].told \subseteq Proposals
  <2>1. agent[a].told \subseteq Proposals
    BY <1>0 DEF ToolTypes, Agents
  <2>2. \A q \in agent[a].told : Answered(a, q)
    BY <1>0 DEF Fits, Talks
  <2>3. QED BY <1>2, <1>6, <2>1, <2>2
<1>9. \A b \in Attempts \ {a}, q \in Proposals :
         /\ results'[<<b, q>>] = results[<<b, q>>] /\ decided'[<<b, q>>] = decided[<<b, q>>]
         /\ <<b, q>> \in applied' => <<b, q>> \in applied
  BY <1>0, <1>5 DEF Calls
<1>10. ASSUME NEW h \in Handlers, handler' = [handler EXCEPT ![a] = h], handler'[a] = h,
              h.step \in {"SUBMIT", "AUTHORIZE"}, h.step = "SUBMIT" => answer.status # "AMBIGUOUS",
              h.seen = handler[a].seen, h.status = handler[a].status, h.call = p,
              UNCHANGED <<lease, agent, hermes, grant>>
       PROVE  ToolIInv'
  <2>1. \A q \in Proposals : Makes(a, q)'
    BY <1>5, <1>10 DEF Makes
  <2>2. Talks(a)'
    BY <1>0, <1>8, <1>10 DEF Fits, Talks
  <2>3. h.status = "SUCCEEDED" => agent[a].status = "SUCCEEDED"
    BY <1>0, <1>10 DEF Fits, RunFits
  <2>4. h.step \notin {"NONE", "PREPARE", "START"} /\ h.call \in Proposals
    BY <1>10
  <2>5. handler[a].step # "NONE" /\ applied' \subseteq Calls
    BY <1>0 DEF ToolTypes
  <2>6. /\ heard' \in [Attempts -> Nat] /\ agent' \in [Attempts -> Agents]
        /\ decided' \in [Calls -> {"NONE"} \cup Decisions]
        /\ \A b \in Attempts \ {a} : agent'[b] = agent[b] /\ heard'[b] = heard[b]
        /\ agent'[a].status = agent[a].status
    BY <1>0, <1>10 DEF ToolTypes
  <2>7. QED BY <1>0, <1>5, <1>7, <1>9, <1>10, <2>1, <2>2, <2>3, <2>4, <2>5, <2>6, HandlerKeeps
<1>11. CASE /\ ~MustRepeat(a) /\ handler' = [handler EXCEPT ![a].step = "SUBMIT"]
            /\ UNCHANGED <<lease, agent, hermes, grant>>
  <2> DEFINE h == [handler[a] EXCEPT !.step = "SUBMIT"]
  <2>1. /\ h \in Handlers /\ h.step = "SUBMIT" /\ h.seen = handler[a].seen
        /\ h.status = handler[a].status /\ h.call = p
    BY <1>0, <1>1 DEF Handlers, HandlerSteps, CallSteps
  <2>2. handler' = [handler EXCEPT ![a] = h] /\ handler'[a] = h
    BY <1>0, <1>11 DEF ToolTypes
  <2>3. answer.status # "AMBIGUOUS"
    BY <1>2, <1>3, <1>11 DEF MustRepeat
  <2> HIDE DEF h
  <2>4. QED BY <1>10, <1>11, <2>1, <2>2, <2>3
<1>12. CASE /\ handler' = [handler EXCEPT ![a].step = "AUTHORIZE", ![a].tried = @ + 1]
            /\ UNCHANGED <<lease, agent, hermes, grant>>
  <2>0. PICK t \in Nat : t = handler[a].tried + 1
    BY <1>0
  <2> DEFINE h == [handler[a] EXCEPT !.step = "AUTHORIZE", !.tried = t]
  <2>1. /\ h \in Handlers /\ h.step = "AUTHORIZE" /\ h.seen = handler[a].seen
        /\ h.status = handler[a].status /\ h.call = p
    BY <1>0, <1>1 DEF Handlers, HandlerSteps, CallSteps
  <2>2. handler' = [handler EXCEPT ![a] = h] /\ handler'[a] = h
    BY <1>0, <1>12, <2>0 DEF ToolTypes
  <2> HIDE DEF h
  <2>3. QED BY <1>10, <1>12, <2>1, <2>2
<1>13. CASE StopAndCancel(a, JobEnd(a)) /\ EndJob(a)
  <2>1. PICK end \in {"ENDED", "TERMINAL"} : end = JobEnd(a)
    BY DEF JobEnd
  <2>2. StopAgent(a) /\ CancelRun(a) /\ GoOn(a, end) /\ lease' \in {0, lease} /\ end \in HandlerSteps
    BY <1>13, <2>1 DEF StopAndCancel, EndJob, HandlerSteps
  <2>3. /\ agent' \in [Attempts -> Agents] /\ \A b \in Attempts \ {a} : agent'[b] = agent[b]
        /\ agent'[a].said = agent[a].said /\ agent'[a].told = agent[a].told
        /\ agent'[a].status = "SUCCEEDED" <=> agent[a].status = "SUCCEEDED"
    BY <1>0, <2>2, AgentIsStopped
  <2>4. /\ hermes' \in [Attempts -> RunStatuses] /\ grant' \in [Attempts -> Grants]
        /\ hermes'[a] = "SUCCEEDED" => hermes[a] = "SUCCEEDED"
        /\ \A b \in Attempts \ {a} : hermes'[b] = hermes[b]
    BY <1>0, <2>2, RunIsCancelled
  <2>5. /\ handler' \in [Attempts -> Handlers] /\ handler'[a].step = end
        /\ handler'[a].seen = {} /\ handler'[a].status = "NONE"
        /\ \A b \in Attempts \ {a} : handler'[b] = handler[b]
    BY <1>0, <2>2, HandlerGoesOn
  <2>6. ToolTypes'
    BY <1>0, <1>5, <2>2, <2>3, <2>4, <2>5 DEF ToolTypes
  <2>7. RunFits(a)'
    BY <1>0, <2>3, <2>4, <2>5 DEF Fits, RunFits
  <2>8. Talks(a)'
    BY <1>0, <1>8, <2>3, <2>5 DEF Fits, Talks
  <2>9. \A q \in Proposals : Makes(a, q)'
    BY <2>5 DEF Makes
  <2>10. handler'[a].step \notin CallSteps
    BY <2>5 DEF CallSteps
  <2>11. Fits(a)'
    BY <1>7, <2>7, <2>8, <2>9, <2>10 DEF Fits
  <2>12. \A b \in Attempts \ {a} : heard'[b] = heard[b]
    BY <1>0
  <2>13. QED BY <1>0, <1>9, <2>3, <2>4, <2>5, <2>6, <2>11, <2>12, AttemptKeeps
<1>14. QED BY <1>11, <1>12, <1>13 DEF RecordResult

LEMMA SubmitResultKeeps == ASSUME ToolIInv, NEW a \in Attempts, SubmitResult(a) PROVE ToolIInv'
<1>0. /\ ToolTypes /\ Fits(a) /\ handler[a].step = "SUBMIT" /\ handler[a] \in Handlers
      /\ UNCHANGED <<granted, editing, preflight, heard, lease, hermes, grant, decided, results, applied>>
  BY DEF ToolIInv, SubmitResult, At, ToolTypes, KeepHermes
<1>1. PICK p \in Proposals :
         /\ p = handler[a].call /\ Call(a) = <<a, p>> /\ <<a, p>> \in Calls
         /\ Makes(a, p) /\ Tells(a, p)
  BY <1>0, CallOfHandler DEF CallSteps
<1>2. CASE UNCHANGED agent /\ GoOn(a, "FAIL")
  <2>1. "FAIL" \in HandlerSteps \ (CallSteps \cup {"NONE"})
    BY DEF HandlerSteps, CallSteps
  <2>2. hermes'[a] = "SUCCEEDED" => agent'[a].status = "SUCCEEDED"
    BY <1>0, <1>2 DEF Fits, RunFits
  <2>3. QED BY <1>0, <1>2, <2>1, <2>2, GoingOnKeeps DEF ToolTypes
<1>3. CASE /\ agent' = [agent EXCEPT ![a].told = @ \cup {handler[a].call}]
           /\ handler' = [handler EXCEPT ![a] = [Bare("HEAR") EXCEPT
                 !.seen = handler[a].seen, !.status = handler[a].status]]
  <2> DEFINE h == [Bare("HEAR") EXCEPT !.seen = handler[a].seen, !.status = handler[a].status]
  <2>1. /\ h \in Handlers /\ h.step = "HEAR" /\ h.seen = handler[a].seen
        /\ h.status = handler[a].status
    BY <1>0, BareHandler DEF Handlers, HandlerSteps
  <2>2. handler' = [handler EXCEPT ![a] = h] /\ handler'[a] = h
    BY <1>0, <1>3 DEF ToolTypes
  <2> HIDE DEF h
  <2>3. agent[a] \in Agents /\ agent[a].told \subseteq Proposals
    BY <1>0 DEF ToolTypes, Agents
  <2>4. /\ agent' \in [Attempts -> Agents] /\ \A b \in Attempts \ {a} : agent'[b] = agent[b]
        /\ agent'[a].status = agent[a].status /\ agent'[a].said = agent[a].said
        /\ agent'[a].told = agent[a].told \cup {p}
    BY <1>0, <1>1, <1>3, <2>3 DEF ToolTypes, Agents
  <2>5. \A q \in agent'[a].told : Answered(a, q)'
    <3>1. Answered(a, p) /\ \A q \in agent[a].told : Answered(a, q)
      BY <1>0, <1>1 DEF Makes, Fits, Talks
    <3>2. QED BY <1>0, <2>4, <3>1, ResultsStay
  <2>6. Talks(a)'
    BY <1>0, <2>1, <2>2, <2>4, <2>5 DEF Fits, Talks
  <2>7. "HEAR" \notin CallSteps
    BY DEF CallSteps
  <2>8. \A q \in Proposals : Makes(a, q)' /\ Tells(a, q)'
    BY <1>0, <2>1, <2>2, <2>7, NoCallIsMade
  <2>9. h.status = "SUCCEEDED" => agent[a].status = "SUCCEEDED"
    BY <1>0, <2>1 DEF Fits, RunFits
  <2>10. QED BY <1>0, <2>1, <2>2, <2>4, <2>6, <2>7, <2>8, <2>9, HandlerKeeps DEF ToolTypes
<1>4. QED BY <1>2, <1>3 DEF SubmitResult

-----------------------------------------------------------------------------
(* Hermes *)

\* A step of the agent, which leaves the rest as it is.
LEMMA AgentKeeps ==
    ASSUME ToolIInv, NEW a \in Attempts,
           UNCHANGED <<lease, granted, editing, preflight, hermes, grant, heard, handler, decided,
                       results, applied>>,
           agent' \in [Attempts -> Agents], \A b \in Attempts \ {a} : agent'[b] = agent[b],
           agent[a].status = "RUNNING", Talks(a)'
    PROVE  ToolIInv'
<1>0. ToolTypes /\ Fits(a)
  BY DEF ToolIInv
<1>1. ToolTypes'
  BY <1>0 DEF ToolTypes
<1>2. RunFits(a)'
  BY <1>0 DEF Fits, RunFits
<1>3. \A p \in Proposals : Makes(a, p)' /\ Tells(a, p)'
  <2>1. \A p \in Proposals : (Answered(a, p)' <=> Answered(a, p)) /\ (Told(a, p)' <=> Told(a, p))
    BY ResultsStay
  <2>2. QED BY <1>0, <2>1 DEF Fits, Makes, Tells
<1>4. Fits(a)'
  BY <1>0, <1>2, <1>3 DEF Fits
<1>5. QED BY <1>1, <1>4, AttemptKeeps

LEMMA ProposeKeeps ==
    ASSUME ToolIInv, NEW a \in Attempts, NEW p \in Proposals, Propose(a, p) PROVE ToolIInv'
<1>0. /\ ToolTypes /\ Fits(a) /\ agent[a].status = "RUNNING"
      /\ agent' = [agent EXCEPT ![a].said = Append(@, p)]
      /\ UNCHANGED <<lease, granted, editing, preflight, hermes, grant, heard, handler, decided,
                     results, applied>>
  BY DEF ToolIInv, Propose, KeepHermes
<1>1. agent[a] \in Agents /\ agent[a].said \in Seq(Proposals)
  BY <1>0 DEF ToolTypes, Agents
<1>2. Append(agent[a].said, p) \in Seq(Proposals) /\ Len(Append(agent[a].said, p)) = Len(agent[a].said) + 1
      /\ Len(agent[a].said) \in Nat
  BY <1>1
<1>3. /\ agent' \in [Attempts -> Agents] /\ \A b \in Attempts \ {a} : agent'[b] = agent[b]
      /\ agent'[a].status = "RUNNING" /\ agent'[a].told = agent[a].told
      /\ agent'[a].said = Append(agent[a].said, p)
  BY <1>0, <1>1, <1>2 DEF ToolTypes, Agents
<1>4. \A q \in agent[a].told : Answered(a, q)'
  BY <1>0, ResultsStay DEF Fits, Talks
<1>5. heard[a] <= Len(agent[a].said) + 1 /\ handler[a].seen \subseteq 1 .. Len(agent[a].said) + 1
  <2>1. heard[a] \in Nat /\ heard[a] <= Len(agent[a].said)
        /\ handler[a].seen \subseteq 1 .. Len(agent[a].said)
    BY <1>0 DEF ToolTypes, Fits, Talks
  <2>2. QED BY <1>2, <2>1
<1>6. Talks(a)'
  BY <1>0, <1>2, <1>3, <1>4, <1>5 DEF Talks
<1>7. QED BY <1>0, <1>3, <1>6, AgentKeeps

LEMMA AgentFinishesKeeps ==
    ASSUME ToolIInv, NEW a \in Attempts, NEW s \in {"SUCCEEDED", "FAILED"}, AgentFinishes(a, s)
    PROVE  ToolIInv'
<1>0. /\ ToolTypes /\ Fits(a) /\ agent[a].status = "RUNNING"
      /\ agent' = [agent EXCEPT ![a].status = s]
      /\ UNCHANGED <<lease, granted, editing, preflight, hermes, grant, heard, handler, decided,
                     results, applied>>
  BY DEF ToolIInv, AgentFinishes, KeepHermes
<1>1. agent[a] \in Agents /\ agent[a].said \in Seq(Proposals)
  BY <1>0 DEF ToolTypes, Agents
<1>2. /\ agent' \in [Attempts -> Agents] /\ \A b \in Attempts \ {a} : agent'[b] = agent[b]
      /\ agent'[a].status = s /\ agent'[a].told = agent[a].told /\ agent'[a].said = agent[a].said
  BY <1>0, <1>1 DEF ToolTypes, Agents, AgentStatuses
<1>3. \A q \in agent[a].told : Answered(a, q)'
  BY <1>0, ResultsStay DEF Fits, Talks
<1>4. s = "SUCCEEDED" => \A n \in 1 .. Len(agent[a].said) : agent[a].said[n] \in agent[a].told
  <2>1. DOMAIN agent[a].said = 1 .. Len(agent[a].said)
    BY <1>1
  <2>2. QED BY <2>1 DEF AgentFinishes, ToSet
<1>5. Talks(a)'
  BY <1>0, <1>2, <1>3, <1>4 DEF Fits, Talks
<1>6. QED BY <1>0, <1>2, <1>5, AgentKeeps

-----------------------------------------------------------------------------
(* The theorems *)

LEMMA ToolStepKeeps == ToolIInv /\ [ToolNext]_toolvars => ToolIInv'
<1> SUFFICES ASSUME ToolIInv, [ToolNext]_toolvars PROVE ToolIInv'
  OBVIOUS
<1>1. ASSUME NEW a \in Attempts, HandlerStep(a) PROVE ToolIInv'
  BY <1>1, PrepareRunKeeps, StartAgentKeeps, RecordStartedKeeps, PollKeeps, HearKeeps, HearStatusKeeps,
     AuthorizeKeeps, CheckKeeps, DispatchKeeps, RecordResultKeeps, SubmitResultKeeps,
     FailDependencyKeeps, ProjectFailureKeeps, WorkerDiesKeeps DEF HandlerStep
<1>2. CASE LoseLease \/ StopEditing \/ PreflightGoesStale \/ UNCHANGED toolvars
  BY <1>2, OutsideKeeps
<1>3. QED
  BY <1>1, <1>2, LeaseKeeps, ProposeKeeps, AgentFinishesKeeps DEF ToolNext

\* Whatever the handlers of all attempts do, and however their processes, their leases and
\* the agents come and go between two transactions, a call is written only by the handler
\* of its attempt, in the order of _authorize, _dispatch_if_still_authorized and
\* _record_result.
THEOREM ToolInvariance == ToolSpec => []ToolIInv
<1>1. QED BY ToolInitially, ToolStepKeeps, PTL DEF ToolSpec

\* _record_result never leaves a call the host carried out with a final row that says the
\* host did nothing: repeated, interrupted and refused answers included.
THEOREM NoEffectIsSilent == ToolSpec => []NoSilentEffect
<1>1. ToolIInv => NoSilentEffect
  <2> SUFFICES ASSUME ToolIInv, NEW c \in applied
               PROVE  /\ decided[c] = "AUTHORIZED"
                      /\ IsAnswered(c) =>
                            \E i \in 1 .. Len(results[c]) :
                               \/ results[c][i].status \in {"SUCCEEDED", "AMBIGUOUS"}
                               \/ results[c][i].code \in HostRefusals
    BY DEF NoSilentEffect
  <2>1. PICK a \in Attempts, p \in Proposals : c = <<a, p>>
    BY DEF ToolIInv, ToolTypes, Calls
  <2>2. Tells(a, p)
    BY DEF ToolIInv, Fits
  <2>3. QED
    <3>1. IsAnswered(c) <=> Answered(a, p)
      BY <2>1 DEF Answered
    <3>2. decided[c] = "AUTHORIZED" /\ (Answered(a, p) => Told(a, p) \/ Telling(handler[a].answer))
      BY <2>1, <2>2 DEF Tells
    <3>3. Answered(a, p) => Told(a, p)
      BY <2>1, <2>2 DEF Tells
    <3>4. QED BY <2>1, <3>1, <3>2, <3>3 DEF Told, Telling
<1>2. QED BY <1>1, ToolInvariance, PTL

\* A HermesRun is set to SUCCEEDED only after ingest and the tools have answered every
\* proposal that was heard, and submit_tool_result has told the agent so.
THEOREM SuccessAnswered == ToolSpec => []SuccessIsAnswered
<1>1. ToolIInv => SuccessIsAnswered
  <2> SUFFICES ASSUME ToolIInv, NEW a \in Attempts, hermes[a] = "SUCCEEDED", NEW n \in 1 .. heard[a]
               PROVE  IsAnswered(<<a, agent[a].said[n]>>) /\ agent[a].said[n] \in agent[a].told
    BY DEF SuccessIsAnswered
  <2>1. agent[a].status = "SUCCEEDED" /\ Talks(a)
    BY DEF ToolIInv, Fits, RunFits
  <2>2. n \in 1 .. Len(agent[a].said)
    <3>1. heard[a] \in Nat /\ heard[a] <= Len(agent[a].said) /\ Len(agent[a].said) \in Nat
      BY <2>1 DEF Talks, ToolIInv, ToolTypes, Agents
    <3>2. QED BY <3>1
  <2>3. agent[a].said[n] \in agent[a].told
    BY <2>1, <2>2 DEF Talks
  <2>4. QED BY <2>1, <2>3 DEF Talks, Answered
<1>2. QED BY <1>1, ToolInvariance, PTL
-----------------------------------------------------------------------------
(* Tries *)

\* The steps of a handler that does not come back to any call, and those before or between.
LastSteps  == {"FAIL", "TIMEOUT", "FAILED", "TIMED_OUT", "ENDED", "TERMINAL"}
QuietSteps == {"NONE", "PREPARE", "START", "STARTED", "POLL", "HEAR"}

Pursues(a, p) == handler[a].step \in CallSteps /\ handler[a].call = p
LeavesOff(a)  == handler[a].step \in LastSteps

\* Until it is answered a call has a result for each try that is over, and only of the
\* call it is at does a handler have tries to come.
Tried(a, p) ==
    LET n == Len(results[<<a, p>>])
    IN  /\ n <= Tries
        /\ ~Answered(a, p) => n = 0 \/ LeavesOff(a) \/ (Pursues(a, p) /\ n < handler[a].tried)

Trying(a) ==
    /\ handler[a].step \in CallSteps => handler[a].tried \in 1 .. Tries
    /\ \A p \in Proposals : Tried(a, p)

TInv == granted <= MaxAttempts /\ \A a \in Attempts : Trying(a)

LEMMA LenOfResults ==
    ASSUME ToolTypes, NEW a \in Attempts, NEW p \in Proposals
    PROVE  Len(results[<<a, p>>]) \in Nat
<1>1. results[<<a, p>>] \in Seq(ResultRows)
  BY DEF ToolTypes, Calls
<1>2. QED BY <1>1

\* A step of one handler.
LEMMA OthersTry ==
    ASSUME TInv, NEW a \in Attempts, granted' <= MaxAttempts, Trying(a)',
           \A b \in Attempts \ {a} : handler'[b] = handler[b],
           \A b \in Attempts \ {a}, p \in Proposals : results'[<<b, p>>] = results[<<b, p>>]
    PROVE  TInv'
<1>1. ASSUME NEW b \in Attempts, b # a PROVE Trying(b)'
  <2>1. handler'[b] = handler[b] /\ Trying(b)
    BY <1>1 DEF TInv
  <2>2. ASSUME NEW p \in Proposals PROVE Tried(b, p)'
    <3>1. results'[<<b, p>>] = results[<<b, p>>] /\ (Answered(b, p)' <=> Answered(b, p))
      BY <1>1, ResultsStay
    <3>2. Tried(b, p)
      BY <2>1 DEF Trying
    <3>3. QED BY <2>1, <3>1, <3>2 DEF Tried, LeavesOff, Pursues
  <2>3. QED BY <2>1, <2>2 DEF Trying
<1>2. QED BY <1>1 DEF TInv

\* A handler that is at no call and then at none either, or that leaves off.
LEMMA QuietTries ==
    ASSUME ToolTypes, TInv, NEW a \in Attempts, UNCHANGED results, granted' <= MaxAttempts,
           handler'[a].step \in LastSteps \/ handler[a].step \in QuietSteps,
           handler'[a].step \notin CallSteps,
           \A b \in Attempts \ {a} : handler'[b] = handler[b]
    PROVE  TInv'
<1>1. ASSUME NEW p \in Proposals PROVE Tried(a, p)'
  <2>1. results'[<<a, p>>] = results[<<a, p>>] /\ (Answered(a, p)' <=> Answered(a, p)) /\ Tried(a, p)
    BY ResultsStay DEF TInv, Trying
  <2>2. QED BY <2>1 DEF Tried, LeavesOff, Pursues, LastSteps, QuietSteps, CallSteps
<1>2. Trying(a)'
  BY <1>1 DEF Trying
<1>3. QED BY <1>2, OthersTry

\* The same where the handler goes on with nothing in its hands.
LEMMA GoingOnTries ==
    ASSUME ToolTypes, TInv, NEW a \in Attempts, NEW step \in HandlerSteps \ CallSteps, GoOn(a, step),
           UNCHANGED <<granted, results>>, step \in LastSteps \/ handler[a].step \in QuietSteps
    PROVE  TInv'
<1>1. handler'[a].step = step /\ \A b \in Attempts \ {a} : handler'[b] = handler[b]
  BY HandlerGoesOn
<1>2. granted' <= MaxAttempts
  BY DEF TInv
<1>3. QED BY <1>1, <1>2, QuietTries

\* A handler that goes on with its call, at the same try.
LEMMA SameCallTries ==
    ASSUME ToolTypes, TInv, NEW a \in Attempts, UNCHANGED <<granted, results>>,
           handler[a].step \in CallSteps, handler'[a].step \in CallSteps,
           handler'[a].call = handler[a].call, handler'[a].tried = handler[a].tried,
           \A b \in Attempts \ {a} : handler'[b] = handler[b]
    PROVE  TInv'
<1>1. ASSUME NEW p \in Proposals PROVE Tried(a, p)'
  <2>1. results'[<<a, p>>] = results[<<a, p>>] /\ (Answered(a, p)' <=> Answered(a, p)) /\ Tried(a, p)
    BY ResultsStay DEF TInv, Trying
  <2>2. QED BY <2>1 DEF Tried, LeavesOff, Pursues, LastSteps, CallSteps
<1>2. handler'[a].tried \in 1 .. Tries /\ granted' <= MaxAttempts
  BY DEF TInv, Trying
<1>3. Trying(a)'
  BY <1>1, <1>2 DEF Trying
<1>4. QED BY <1>2, <1>3, OthersTry

LEMMA LeaseTries == ASSUME ToolIInv, TInv, Lease PROVE TInv'
<1>0. ToolTypes /\ granted \in Nat /\ granted < MaxAttempts /\ granted' = granted + 1 /\ UNCHANGED results
  BY DEF ToolIInv, ToolTypes, Lease
<1>1. PICK a \in Attempts : a = granted + 1 /\ a > granted
  BY <1>0, ToolAssumption DEF Attempts
<1>2. GoOn(a, "PREPARE") /\ handler[a].step = "NONE"
  BY <1>0, <1>1 DEF Lease, ToolIInv, Fits, RunFits
<1>3. "PREPARE" \in HandlerSteps /\ "PREPARE" \notin CallSteps /\ "NONE" \in QuietSteps
  BY DEF HandlerSteps, CallSteps, QuietSteps
<1>4. handler'[a].step = "PREPARE" /\ \A b \in Attempts \ {a} : handler'[b] = handler[b]
  BY <1>0, <1>2, <1>3, HandlerGoesOn
<1>5. granted' <= MaxAttempts
  BY <1>0, ToolAssumption
<1>6. QED BY <1>0, <1>2, <1>3, <1>4, <1>5, QuietTries

\* The steps at no call, but for the two that read what the agent said.
LEMMA BetweenCallsTries ==
    ASSUME ToolIInv, TInv, NEW a \in Attempts,
           \/ PrepareRun(a) \/ StartAgent(a) \/ RecordStarted(a) \/ HearStatus(a)
           \/ FailDependency(a) \/ ProjectFailure(a) \/ WorkerDies(a)
    PROVE  TInv'
<1>1. PICK step \in {"START", "STARTED", "POLL"} \cup LastSteps : GoOn(a, step)
  BY DEF PrepareRun, StartAgent, RecordStarted, HearStatus, FailDependency, ProjectFailure,
         WorkerDies, JobEnd, LastSteps
<1>2. step \in LastSteps \/ handler[a].step \in QuietSteps
  <2>1. CASE ProjectFailure(a) \/ WorkerDies(a)
    <3>1. handler' = [handler EXCEPT ![a] = Bare("ENDED")] /\ handler' = [handler EXCEPT ![a] = Bare(step)]
      BY <1>1, <2>1 DEF GoOn, ProjectFailure, WorkerDies
    <3>2. Bare("ENDED").step = "ENDED" /\ Bare(step).step = step
      BY DEF Bare
    <3>3. handler \in [Attempts -> Handlers]
      BY DEF ToolIInv, ToolTypes
    <3>4. step = "ENDED"
      BY <3>1, <3>2, <3>3
    <3>5. QED BY <3>4 DEF LastSteps
  <2>2. CASE FailDependency(a)
    <3>1. PICK last \in LastSteps : handler' = [handler EXCEPT ![a] = Bare(last)]
      BY <2>2 DEF FailDependency, GoOn, LastSteps
    <3>2. handler' = [handler EXCEPT ![a] = Bare(step)]
      BY <1>1 DEF GoOn
    <3>3. Bare(last).step = last /\ Bare(step).step = step
      BY DEF Bare
    <3>4. handler \in [Attempts -> Handlers]
      BY DEF ToolIInv, ToolTypes
    <3>5. QED BY <3>1, <3>2, <3>3, <3>4
  <2>3. CASE PrepareRun(a) \/ StartAgent(a) \/ RecordStarted(a) \/ HearStatus(a)
    BY <2>3 DEF PrepareRun, StartAgent, RecordStarted, HearStatus, At, QuietSteps
  <2>4. QED BY <2>1, <2>2, <2>3
<1>3. step \in HandlerSteps \ CallSteps
  BY DEF HandlerSteps, CallSteps, LastSteps
<1>4. ToolTypes /\ UNCHANGED <<granted, results>>
  BY DEF ToolIInv, PrepareRun, StartAgent, RecordStarted, HearStatus, FailDependency, ProjectFailure,
         WorkerDies
<1>5. QED BY <1>1, <1>2, <1>3, <1>4, GoingOnTries

LEMMA PollTries == ASSUME ToolIInv, TInv, NEW a \in Attempts, Poll(a) PROVE TInv'
<1>0. /\ ToolTypes /\ handler[a].step \in QuietSteps /\ UNCHANGED <<granted, results>>
      /\ handler \in [Attempts -> Handlers] /\ granted <= MaxAttempts
  BY DEF ToolIInv, ToolTypes, Poll, At, QuietSteps, TInv
<1>1. CASE \E step \in {"ENDED", "FAIL", "TIMEOUT"} : GoOn(a, step)
  BY <1>0, <1>1, GoingOnTries DEF HandlerSteps, CallSteps, LastSteps
<1>2. CASE \E seen \in SUBSET (1 .. Len(agent[a].said)) :
              handler' = [handler EXCEPT ![a].step = "HEAR", ![a].seen = seen,
                                         ![a].status = agent[a].status]
  <2>1. handler[a] \in Handlers
    BY <1>0
  <2>2. handler'[a].step = "HEAR" /\ \A b \in Attempts \ {a} : handler'[b] = handler[b]
    BY <1>0, <1>2, <2>1 DEF Handlers
  <2>3. "HEAR" \notin CallSteps
    BY DEF CallSteps
  <2>4. QED BY <1>0, <2>2, <2>3, QuietTries
<1>3. QED BY <1>1, <1>2 DEF Poll, StopAndCancel

LEMMA HearTries == ASSUME ToolIInv, TInv, NEW a \in Attempts, Hear(a) PROVE TInv'
<1>0. /\ ToolTypes /\ handler[a].step = "HEAR" /\ UNCHANGED <<granted, results>>
      /\ handler \in [Attempts -> Handlers] /\ handler[a] \in Handlers /\ granted <= MaxAttempts
  BY DEF ToolIInv, ToolTypes, Hear, At, TInv
<1>1. "HEAR" \in QuietSteps /\ "HEAR" \notin CallSteps /\ "AUTHORIZE" \in CallSteps
  BY DEF QuietSteps, CallSteps
<1>2. CASE StopAndCancel(a, "ENDED")
  BY <1>0, <1>1, <1>2, GoingOnTries DEF StopAndCancel, HandlerSteps, CallSteps, LastSteps
<1>3. CASE \E l : handler' = [handler EXCEPT ![a].seen = @ \ {l}]
  <2>1. handler'[a].step = "HEAR" /\ \A b \in Attempts \ {a} : handler'[b] = handler[b]
    BY <1>0, <1>3 DEF Handlers
  <2>2. QED BY <1>0, <1>1, <2>1, QuietTries
<1>4. CASE \E l : handler' = [[handler EXCEPT ![a].seen = @ \ {l}] EXCEPT ![a].step = "AUTHORIZE",
                                   ![a].tried = 1, ![a].call = agent[a].said[l]]
  <2>1. /\ handler'[a].step = "AUTHORIZE" /\ handler'[a].tried = 1
        /\ \A b \in Attempts \ {a} : handler'[b] = handler[b]
    BY <1>0, <1>4 DEF Handlers
  <2>2. ASSUME NEW p \in Proposals PROVE Tried(a, p)'
    <3>1. results'[<<a, p>>] = results[<<a, p>>] /\ (Answered(a, p)' <=> Answered(a, p)) /\ Tried(a, p)
      BY <1>0, ResultsStay DEF TInv, Trying
    <3>2. QED BY <1>0, <3>1 DEF Tried, LeavesOff, Pursues, LastSteps, CallSteps
  <2>3. Trying(a)'
    BY <2>1, <2>2, ToolAssumption DEF Trying
  <2>4. QED BY <1>0, <2>1, <2>3, OthersTry
<1>5. QED BY <1>2, <1>3, <1>4 DEF Hear

\* The steps at a call that store no result.
LEMMA AtCallTries ==
    ASSUME ToolIInv, TInv, NEW a \in Attempts,
           Authorize(a) \/ CheckStillAuthorized(a) \/ DispatchToHost(a)
    PROVE  TInv'
<1>0. /\ ToolTypes /\ UNCHANGED <<granted, results>> /\ handler[a].step \in CallSteps
      /\ handler \in [Attempts -> Handlers] /\ handler[a] \in Handlers
  BY DEF ToolIInv, ToolTypes, Authorize, CheckStillAuthorized, DispatchToHost, At, KeepHermes, CallSteps
<1>1. CASE StopAndCancel(a, JobEnd(a))
  <2>1. PICK end \in LastSteps : GoOn(a, end)
    BY <1>1 DEF StopAndCancel, JobEnd, LastSteps
  <2>2. end \in HandlerSteps \ CallSteps
    BY DEF LastSteps, HandlerSteps, CallSteps
  <2>3. QED BY <1>0, <2>1, <2>2, GoingOnTries
<1>2. CASE \E step \in CallSteps : \E answer :
              handler' = [handler EXCEPT ![a].step = step, ![a].answer = answer]
  <2>1. /\ handler'[a].step \in CallSteps /\ handler'[a].call = handler[a].call
        /\ handler'[a].tried = handler[a].tried
        /\ \A b \in Attempts \ {a} : handler'[b] = handler[b]
    BY <1>0, <1>2 DEF Handlers
  <2>2. QED BY <1>0, <2>1, SameCallTries
<1>3. CASE Authorize(a)
  BY <1>1, <1>2, <1>3 DEF Authorize, CallSteps
<1>4. CASE CheckStillAuthorized(a)
  BY <1>2, <1>4 DEF CheckStillAuthorized, CallSteps
<1>5. CASE DispatchToHost(a)
  BY <1>2, <1>5 DEF DispatchToHost, CallSteps
<1>6. QED BY <1>3, <1>4, <1>5

\* Of what is recorded last at most one result is for each try there was.
LEMMA RecordResultTries == ASSUME ToolIInv, TInv, NEW a \in Attempts, RecordResult(a) PROVE TInv'
<1>0. /\ ToolTypes /\ Fits(a) /\ handler[a].step = "RECORD" /\ handler[a] \in Handlers /\ UNCHANGED granted
      /\ handler \in [Attempts -> Handlers] /\ handler[a].answer \in ResultRows /\ granted <= MaxAttempts
      /\ handler[a].tried \in 1 .. Tries /\ "RECORD" \in CallSteps
  BY DEF ToolIInv, RecordResult, At, ToolTypes, Handlers, KeepHermes, TInv, Trying, CallSteps
<1>1. PICK p \in Proposals :
         /\ p = handler[a].call /\ Call(a) = <<a, p>> /\ <<a, p>> \in Calls
         /\ Makes(a, p)
  BY <1>0, CallOfHandler
<1>2. ~Answered(a, p) /\ ~IsAnswered(Call(a))
  BY <1>0, <1>1 DEF Makes, Answered
<1>3. PICK answer \in ResultRows : answer = handler[a].answer
  BY <1>0
<1>4. results' = [results EXCEPT ![<<a, p>>] = Append(@, answer)] /\ results \in [Calls -> Seq(ResultRows)]
  BY <1>0, <1>1, <1>2, <1>3 DEF RecordResult, ToolTypes
<1>5. Answered(a, p)' <=> answer.status # "AMBIGUOUS"
  BY <1>0, <1>2, <1>4, ResultIsAdded
<1>6. PICK n \in Nat : n = Len(results[<<a, p>>])
  BY <1>0, LenOfResults
<1>7. Len(results'[<<a, p>>]) = n + 1
  <2>1. results[<<a, p>>] \in Seq(ResultRows)
    BY <1>1, <1>4
  <2>2. results'[<<a, p>>] = Append(results[<<a, p>>], answer)
    BY <1>1, <1>4
  <2>3. QED BY <1>6, <2>1, <2>2
<1>8. n < handler[a].tried
  <2>1. Tried(a, p)
    BY DEF TInv, Trying
  <2>2. QED BY <1>0, <1>2, <1>6, <2>1 DEF Tried, LeavesOff, LastSteps
<1>9. n + 1 <= Tries
  BY <1>0, <1>8, ToolAssumption
<1>10. \A b \in Attempts, q \in Proposals :
          b # a \/ q # p => results'[<<b, q>>] = results[<<b, q>>]
  BY <1>4 DEF Calls
<1>11. ASSUME NEW q \in Proposals, q # p
       PROVE  /\ Len(results'[<<a, q>>]) <= Tries
              /\ ~Answered(a, q)' => Len(results'[<<a, q>>]) = 0
  <2>1. results'[<<a, q>>] = results[<<a, q>>] /\ (Answered(a, q)' <=> Answered(a, q)) /\ Tried(a, q)
    BY <1>10, <1>11, ResultsStay DEF TInv, Trying
  <2>2. QED BY <1>0, <1>1, <1>11, <2>1 DEF Tried, LeavesOff, Pursues, LastSteps
<1>12. CASE /\ ~MustRepeat(a) /\ handler' = [handler EXCEPT ![a].step = "SUBMIT"]
  <2>1. /\ handler'[a].step = "SUBMIT" /\ handler'[a].tried = handler[a].tried
        /\ \A b \in Attempts \ {a} : handler'[b] = handler[b]
    BY <1>0, <1>12 DEF Handlers
  <2>2. Answered(a, p)'
    BY <1>2, <1>3, <1>5, <1>12 DEF MustRepeat
  <2>3. \A q \in Proposals : Tried(a, q)'
    BY <1>7, <1>9, <1>11, <2>2 DEF Tried
  <2>4. Trying(a)'
    BY <1>0, <2>1, <2>3 DEF Trying
  <2>5. QED BY <1>0, <1>10, <2>1, <2>4, OthersTry
<1>13. CASE /\ handler[a].tried < Tries
            /\ handler' = [handler EXCEPT ![a].step = "AUTHORIZE", ![a].tried = @ + 1]
  <2>0. PICK t \in Nat : t = handler[a].tried + 1 /\ t \in 1 .. Tries /\ n + 1 < t
    BY <1>0, <1>8, <1>13, ToolAssumption
  <2>1. /\ handler'[a].step = "AUTHORIZE" /\ handler'[a].tried = t /\ handler'[a].call = p
        /\ \A b \in Attempts \ {a} : handler'[b] = handler[b]
    BY <1>0, <1>1, <1>13, <2>0 DEF Handlers
  <2>2. Pursues(a, p)'
    BY <2>1 DEF Pursues, CallSteps
  <2>3. \A q \in Proposals : Tried(a, q)'
    BY <1>7, <1>9, <1>11, <2>0, <2>1, <2>2 DEF Tried
  <2>4. Trying(a)'
    BY <2>0, <2>1, <2>3 DEF Trying
  <2>5. QED BY <1>0, <1>10, <2>1, <2>4, OthersTry
<1>14. CASE StopAndCancel(a, JobEnd(a))
  <2>1. PICK end \in LastSteps : GoOn(a, end)
    BY <1>14 DEF StopAndCancel, JobEnd, LastSteps
  <2>2. end \in HandlerSteps \ CallSteps
    BY DEF LastSteps, HandlerSteps, CallSteps
  <2>3. handler'[a].step = end /\ \A b \in Attempts \ {a} : handler'[b] = handler[b]
    BY <1>0, <2>1, <2>2, HandlerGoesOn
  <2>4. \A q \in Proposals : Tried(a, q)'
    BY <1>7, <1>9, <1>11, <2>3 DEF Tried, LeavesOff
  <2>5. Trying(a)'
    BY <2>2, <2>3, <2>4 DEF Trying
  <2>6. QED BY <1>0, <1>10, <2>3, <2>5, OthersTry
<1>15. QED BY <1>12, <1>13, <1>14 DEF RecordResult

LEMMA SubmitResultTries == ASSUME ToolIInv, TInv, NEW a \in Attempts, SubmitResult(a) PROVE TInv'
<1>0. /\ ToolTypes /\ handler[a].step = "SUBMIT" /\ "SUBMIT" \in CallSteps /\ UNCHANGED <<granted, results>>
      /\ handler \in [Attempts -> Handlers] /\ granted <= MaxAttempts
  BY DEF ToolIInv, ToolTypes, SubmitResult, At, KeepHermes, TInv, CallSteps
<1>1. PICK p \in Proposals : p = handler[a].call /\ Makes(a, p)
  BY <1>0, CallOfHandler
<1>2. Answered(a, p)
  BY <1>0, <1>1 DEF Makes
<1>3. CASE GoOn(a, "FAIL")
  BY <1>0, <1>3, GoingOnTries DEF HandlerSteps, CallSteps, LastSteps
<1>4. CASE handler' = [handler EXCEPT ![a] = [Bare("HEAR") EXCEPT
                 !.seen = handler[a].seen, !.status = handler[a].status]]
  <2>1. handler'[a].step = "HEAR" /\ \A b \in Attempts \ {a} : handler'[b] = handler[b]
    BY <1>0, <1>4 DEF Bare
  <2>2. ASSUME NEW q \in Proposals PROVE Tried(a, q)'
    <3>1. results'[<<a, q>>] = results[<<a, q>>] /\ (Answered(a, q)' <=> Answered(a, q)) /\ Tried(a, q)
      BY <1>0, ResultsStay DEF TInv, Trying
    <3>2. QED BY <1>0, <1>1, <1>2, <3>1 DEF Tried, LeavesOff, Pursues, LastSteps
  <2>3. "HEAR" \notin CallSteps
    BY DEF CallSteps
  <2>4. Trying(a)'
    BY <2>1, <2>2, <2>3 DEF Trying
  <2>5. QED BY <1>0, <2>1, <2>4, OthersTry
<1>5. QED BY <1>3, <1>4 DEF SubmitResult

LEMMA StepTries == ToolIInv /\ TInv /\ [ToolNext]_toolvars => TInv'
<1> SUFFICES ASSUME ToolIInv, TInv, [ToolNext]_toolvars PROVE TInv'
  OBVIOUS
<1>1. ASSUME NEW a \in Attempts, HandlerStep(a) PROVE TInv'
  BY <1>1, BetweenCallsTries, PollTries, HearTries, AtCallTries, RecordResultTries, SubmitResultTries
     DEF HandlerStep
<1>2. CASE UNCHANGED <<granted, handler, results>>
  <2>1. ASSUME NEW a \in Attempts PROVE Trying(a)'
    <3>1. Trying(a) /\ handler'[a] = handler[a]
      BY <1>2 DEF TInv
    <3>2. ASSUME NEW p \in Proposals PROVE Tried(a, p)'
      <4>1. Tried(a, p) /\ results'[<<a, p>>] = results[<<a, p>>] /\ (Answered(a, p)' <=> Answered(a, p))
        BY <1>2, <3>1, ResultsStay DEF Trying
      <4>2. QED BY <3>1, <4>1 DEF Tried, LeavesOff, Pursues
    <3>3. QED BY <3>1, <3>2 DEF Trying
  <2>2. QED BY <1>2, <2>1 DEF TInv
<1>3. QED
  BY <1>1, <1>2, LeaseTries DEF ToolNext, LoseLease, StopEditing, PreflightGoesStale, Propose,
                                AgentFinishes, KeepHermes, toolvars

\* The types of attempts, their runs and calls: an event is accepted only if it was said,
\* and however many handlers, leases and agents come and go, a call has no more results
\* than _HOST_RECONCILIATION_ATTEMPTS.
THEOREM ToolTypeCorrect == ToolSpec => []ToolTypeOK
<1>1. ToolInit => TInv
  <2> SUFFICES ASSUME ToolInit PROVE TInv
    OBVIOUS
  <2>1. /\ granted <= MaxAttempts
        /\ \A a \in Attempts : handler[a].step = "NONE"
        /\ \A a \in Attempts, p \in Proposals : Len(results[<<a, p>>]) = 0 /\ 0 <= Tries
    BY ToolAssumption DEF ToolInit, Bare, Calls
  <2>2. QED BY <2>1 DEF TInv, Trying, Tried, CallSteps
<1>2. ToolIInv /\ TInv /\ [ToolNext]_toolvars => TInv'
  BY StepTries
<1>3. ToolIInv /\ TInv => ToolTypeOK
  <2> SUFFICES ASSUME ToolIInv, TInv PROVE ToolTypeOK
    OBVIOUS
  <2>1. granted \in 0 .. MaxAttempts
    BY ToolAssumption DEF ToolIInv, ToolTypes, TInv
  <2>2. ASSUME NEW a \in Attempts PROVE heard[a] \in 0 .. Len(agent[a].said)
    <3>1. heard[a] \in Nat /\ heard[a] <= Len(agent[a].said) /\ Len(agent[a].said) \in Nat
      BY DEF ToolIInv, ToolTypes, Agents, Fits, Talks
    <3>2. QED BY <3>1
  <2>3. \A c \in Calls : Len(results[c]) <= Tries
    BY DEF TInv, Trying, Tried, Calls
  <2>4. QED BY <2>1, <2>2, <2>3 DEF ToolTypeOK, ToolIInv, ToolTypes, Grants
<1>4. QED BY <1>1, <1>2, <1>3, ToolInvariance, PTL DEF ToolSpec
===============================================================================
