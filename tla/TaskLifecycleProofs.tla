------------------------ MODULE TaskLifecycleProofs ------------------------
(***************************************************************************)
(* Theorems about TaskLifecycle, for every set of tasks, heads and ids.    *)
(*                                                                         *)
(* The inductive invariant IInv adds to the checked properties what the    *)
(* engine knows implicitly: the log is a walk that ends in the stored      *)
(* state, the row is well formed, a bound brief is of the current scope,   *)
(* and in a pull-request state every head of the log since the last draft  *)
(* gate is the head that gate verified.                                    *)
(***************************************************************************)
EXTENDS TaskLifecycle, FiniteSetTheorems, TLAPS

-----------------------------------------------------------------------------
(* The inductive invariant *)

\* The log is a walk from INTAKE to the stored state: every event leaves the state
\* its predecessor reached.
LogIsPath ==
    \A t \in Tasks :
        /\ \A i \in 1 .. Len(events[t]) :
              events[t][i].from = IF i = 1 THEN "INTAKE" ELSE events[t][i - 1].to
        /\ state[t] = IF events[t] = <<>> THEN "INTAKE" ELSE events[t][Len(events[t])].to

\* Every row satisfies the projection trigger.
RowsWellFormed == \A t \in Tasks : LifecycleProjection(Row(t))

\* A bound brief belongs to the current scope.
BriefIsOfScope ==
    \A t \in Tasks : brief[t].status # "unbound" => brief[t].scope = Scope(t)

\* Event j of t is its newest draft gate, no repair or scope change follows it, and
\* every later head of the log is its head.
VerifiedBy(t, j) ==
    /\ j \in At(t, {"OPEN_VERIFIED_DRAFT_PR"})
    /\ \A k \in At(t, {"OPEN_VERIFIED_DRAFT_PR", "BEGIN_REPAIR", "SCOPE_STEER"}) : k <= j
    /\ events[t][j].head \in Heads
    /\ \A k \in 1 .. Len(events[t]) : k > j => events[t][k].head \in {None, events[t][j].head}

PullRequestHead ==
    \A t \in Tasks :
        Settled(t) \in PullRequestStates => \E j \in 1 .. Len(events[t]) : VerifiedBy(t, j)

IInv ==
    /\ TypeOK
    /\ LogIsPath
    /\ RowsWellFormed
    /\ CommandsApplyOnce
    /\ ResumeReturns
    /\ BriefIsOfScope
    /\ ContractIsOfScope
    /\ WorkHasAcceptedBrief
    /\ PullRequestHead
    /\ OfferedHeadIsVerified

-----------------------------------------------------------------------------
(* The engine's tables *)

\* The kinds, sources and targets of the engine's tables are states of the right sort.
LEMMA TableFacts ==
    ASSUME NEW k \in Kinds
    PROVE  /\ Sources[k] \subseteq ActiveStates
           /\ k # "RESUME" => FixedTarget[k] \in TaskStates
           /\ "ESCALATED" \in Sources[k] => k \in {"RESUME", "CANCEL", "FAIL"}
  BY DEF Kinds, Sources, FixedTarget, ActiveStates, ScopeSteeringStates, TaskStates,
         TerminalStates

\* Appending to a log adds at most the new position to At.
LEMMA AtAppend ==
    ASSUME TypeOK, NEW t \in Tasks, NEW e \in Events, NEW K,
           events'[t] = Append(events[t], e)
    PROVE  At(t, K)' = At(t, K) \cup (IF e.kind \in K THEN {Len(events[t]) + 1} ELSE {})
  BY DEF TypeOK, At

\* The positions of some kinds in a log are a finite set, so they can be counted.
LEMMA AtFinite ==
    ASSUME TypeOK, NEW t \in Tasks, NEW K
    PROVE  /\ At(t, K) \subseteq 1 .. Len(events[t])
           /\ IsFiniteSet(At(t, K))
  <1>1. At(t, K) \subseteq 1 .. Len(events[t])
    BY DEF At
  <1>2. IsFiniteSet(1 .. Len(events[t]))
    BY FS_Interval DEF TypeOK
  <1> QED
    BY <1>1, <1>2, FS_Subset

\* The scope number of a task, a count of scope changes, is a natural number.
LEMMA ScopeType == ASSUME TypeOK, NEW t \in Tasks PROVE Scope(t) \in Nat
  BY AtFinite, FS_CardinalityType DEF Scope

\* Command c is applied with event e.
Applied(c, head, e) ==
    /\ c \in Commands /\ c.task \in Tasks
    /\ e.id = c.id /\ e.kind = c.kind /\ e.expected = c.expected
    /\ e.from = state[c.task] /\ e.from = c.expected
    /\ e.from \in Sources[c.kind]
    /\ e.to = Target(c.task, c.kind)
    /\ e.head = head
    /\ events' = [events EXCEPT ![c.task] = Append(@, e)]
    /\ state' = [state EXCEPT ![c.task] = e.to]

\* What an accepted command does, in terms of its event.
LEMMA DeliverEffect ==
    ASSUME TypeOK, NEW c \in inflight, NEW grant \in BOOLEAN,
           NEW head \in Heads \cup {None}, Deliver(c, grant, head)
    PROVE  \E e \in Events : Applied(c, head, e)
  <1> DEFINE e == [id |-> c.id, kind |-> c.kind, expected |-> c.expected,
                   from |-> state[c.task], to |-> Target(c.task, c.kind), head |-> head]
  <1>1. c \in Commands /\ c.task \in Tasks /\ c.kind \in Kinds /\ c.id \in TransitionIds
    BY DEF TypeOK, Commands
  <1>2. state[c.task] \in TaskStates /\ c.expected \in TaskStates
    BY <1>1 DEF TypeOK, Commands
  <1>3. Target(c.task, c.kind) \in TaskStates
    <2>1. CASE c.kind = "RESUME"
      BY <1>1, <2>1 DEF Target, Deliver, BriefGate, TaskStates, ActiveStates,
                        ScopeSteeringStates
    <2>2. CASE c.kind # "RESUME"
      BY <1>1, <2>2, TableFacts DEF Target
    <2> QED
      BY <2>1, <2>2
  <1>4. e \in Events
    BY <1>1, <1>2, <1>3 DEF Events
  <1> QED
    BY <1>1, <1>4 DEF Deliver, Admitted, TypeOK, Applied

-----------------------------------------------------------------------------
(* Type correctness *)

\* A fresh intake row has its type.
LEMMA TypeInit == Init => TypeOK
  BY LifecycleAssumption DEF Init, TypeOK, BriefStatus, TaskStates, ActiveStates, Commands, Events

\* What a transition does to the brief and contract bindings keeps their types.
LEMMA RebindType ==
    ASSUME TypeOK, NEW t \in Tasks, NEW kind, Rebind(t, kind)
    PROVE  /\ brief' \in [Tasks -> [status : BriefStatus, scope : Nat]]
           /\ contract' \in [Tasks -> Nat \cup {None}]
  <1>1. brief' \in [Tasks -> [status : BriefStatus, scope : Nat]]
    BY DEF TypeOK, Rebind, BriefStatus
  <1>2. contract' \in [Tasks -> Nat \cup {None}]
    BY DEF TypeOK, Rebind
  <1> QED
    BY <1>1, <1>2

\* An accepted command keeps every variable in its type.
LEMMA TypeDeliver ==
    ASSUME TypeOK, NEW c \in inflight, NEW grant \in BOOLEAN,
           NEW head \in Heads \cup {None}, Deliver(c, grant, head)
    PROVE  TypeOK'
  <1>0. PICK e \in Events : Applied(c, head, e)
    BY DeliverEffect
  <1>1. state' \in [Tasks -> TaskStates] /\ events' \in [Tasks -> Seq(Events)]
    <2>1. e.to \in TaskStates
      BY DEF Events
    <2>2. Append(events[c.task], e) \in Seq(Events)
      BY <1>0 DEF Applied, TypeOK
    <2> QED
      BY <1>0, <2>1, <2>2 DEF Applied, TypeOK
  <1>2. resume' \in [Tasks -> ScopeSteeringStates \cup {None}]
    <2>1. CASE c.kind = "ESCALATE"
      <3>1. state[c.task] \in ScopeSteeringStates
        BY <1>0, <2>1 DEF Applied, Sources
      <3> QED
        BY <2>1, <3>1 DEF Deliver, TypeOK
    <2>2. CASE c.kind # "ESCALATE"
      BY <2>2 DEF Deliver, TypeOK
    <2> QED
      BY <2>1, <2>2
  <1>3. outcome' \in [Tasks -> {"AUTOMATION_HANDED_OFF", "FAILED", "CANCELLED", None}]
    BY DEF Deliver, TypeOK, OutcomeOf
  <1>4. retries' \in [Tasks -> Nat]
    <2>1. retries[c.task] \in Nat
      BY <1>0 DEF Applied, TypeOK
    <2> QED
      BY <1>0, <2>1 DEF Applied, Deliver, TypeOK
  <1>5. /\ brief' \in [Tasks -> [status : BriefStatus, scope : Nat]]
        /\ contract' \in [Tasks -> Nat \cup {None}]
    BY <1>0, RebindType DEF Applied, Deliver
  <1>6. inflight' \subseteq Commands
    BY DEF Deliver, TypeOK
  <1> QED
    BY <1>1, <1>2, <1>3, <1>4, <1>5, <1>6 DEF TypeOK

\* No step leaves the types.
LEMMA TypeStep == TypeOK /\ [Next]_vars => TypeOK'
  <1> SUFFICES ASSUME TypeOK, [Next]_vars PROVE TypeOK'
    OBVIOUS
  <1>1. ASSUME NEW c \in Sendable, Issue(c) PROVE TypeOK'
    <2>1. c \in Commands
      BY DEF Sendable, Commands, TypeOK
    <2> QED
      BY <1>1, <2>1 DEF Issue, TypeOK
  <1>2. ASSUME NEW c \in inflight, Forget(c) PROVE TypeOK'
    BY <1>2 DEF Forget, TypeOK
  <1>3. ASSUME NEW c \in inflight, NEW grant \in BOOLEAN,
               NEW head \in Heads \cup {None}, Deliver(c, grant, head)
        PROVE  TypeOK'
    BY <1>3, TypeDeliver
  <1>4. ASSUME NEW t \in Tasks, StoreBrief(t) PROVE TypeOK'
    BY <1>4, ScopeType DEF StoreBrief, TypeOK, BriefStatus
  <1>5. ASSUME NEW t \in Tasks, BindContract(t) PROVE TypeOK'
    BY <1>5, ScopeType DEF BindContract, TypeOK
  <1>6. CASE UNCHANGED vars
    BY <1>6 DEF vars, TypeOK
  <1> QED
    BY <1>1, <1>2, <1>3, <1>4, <1>5, <1>6 DEF Next

\* Every variable keeps its type.
THEOREM TypeCorrect == Spec => []TypeOK
  BY TypeInit, TypeStep, PTL DEF Spec

-----------------------------------------------------------------------------
(* What an accepted command preserves *)

\* An accepted command appends an event that starts where the last one ended.
LEMMA PathDeliver ==
    ASSUME IInv, NEW c \in inflight, NEW grant \in BOOLEAN,
           NEW head \in Heads \cup {None}, Deliver(c, grant, head)
    PROVE  LogIsPath'
  <1>0. PICK e \in Events : Applied(c, head, e)
    BY DeliverEffect DEF IInv
  <1> SUFFICES ASSUME NEW t \in Tasks
               PROVE  /\ \A i \in 1 .. Len(events'[t]) :
                            events'[t][i].from =
                               IF i = 1 THEN "INTAKE" ELSE events'[t][i - 1].to
                      /\ state'[t] = IF events'[t] = <<>> THEN "INTAKE"
                                     ELSE events'[t][Len(events'[t])].to
    BY DEF LogIsPath
  <1>1. CASE t # c.task
    BY <1>0, <1>1 DEF Applied, IInv, TypeOK, LogIsPath
  <1>2. CASE t = c.task
    <2>1. events[t] \in Seq(Events) /\ events'[t] = Append(events[t], e)
      BY <1>0, <1>2 DEF Applied, IInv, TypeOK
    <2>2. state'[t] = e.to /\ e.from = state[t]
      BY <1>0, <1>2 DEF Applied, IInv, TypeOK
    <2>3. /\ \A i \in 1 .. Len(events[t]) :
                events[t][i].from = IF i = 1 THEN "INTAKE" ELSE events[t][i - 1].to
          /\ state[t] = IF events[t] = <<>> THEN "INTAKE" ELSE events[t][Len(events[t])].to
      BY DEF IInv, LogIsPath
    <2>4. /\ Len(events'[t]) = Len(events[t]) + 1
          /\ events'[t][Len(events[t]) + 1] = e
          /\ \A i \in 1 .. Len(events[t]) : events'[t][i] = events[t][i]
      BY <2>1
    <2>5. ASSUME NEW i \in 1 .. Len(events[t])
          PROVE  events'[t][i].from = IF i = 1 THEN "INTAKE" ELSE events'[t][i - 1].to
      BY <2>1, <2>3, <2>4
    <2>6. e.from = IF Len(events[t]) + 1 = 1 THEN "INTAKE"
                   ELSE events'[t][Len(events[t])].to
      BY <2>1, <2>2, <2>3, <2>4
    <2>7. \A i \in 1 .. Len(events'[t]) :
             i \in 1 .. Len(events[t]) \/ i = Len(events[t]) + 1
      BY <2>1, <2>4
    <2>8. ASSUME NEW i \in 1 .. Len(events'[t])
          PROVE  events'[t][i].from = IF i = 1 THEN "INTAKE" ELSE events'[t][i - 1].to
      <3>1. CASE i \in 1 .. Len(events[t])
        BY <2>5, <3>1
      <3>2. CASE i = Len(events[t]) + 1
        <4>1. Len(events[t]) \in Nat /\ i - 1 = Len(events[t])
          BY <2>1, <3>2
        <4>2. events'[t][i].from = e.from
          BY <2>4, <3>2
        <4>3. events'[t][i - 1].to = events'[t][Len(events[t])].to
          BY <4>1
        <4> QED
          BY <2>6, <3>2, <4>2, <4>3
      <3> QED
        BY <2>7, <3>1, <3>2
    <2>9. state'[t] = IF events'[t] = <<>> THEN "INTAKE" ELSE events'[t][Len(events'[t])].to
      <3>1. events'[t] # <<>>
        BY <2>1
      <3> QED
        BY <2>2, <2>4, <3>1
    <2> QED
      BY <2>8, <2>9
  <1> QED
    BY <1>1, <1>2

\* An accepted command writes a row whose outcome and resume state fit its state.
LEMMA RowsDeliver ==
    ASSUME IInv, NEW c \in inflight, NEW grant \in BOOLEAN,
           NEW head \in Heads \cup {None}, Deliver(c, grant, head)
    PROVE  RowsWellFormed'
  <1>0. PICK e \in Events : Applied(c, head, e)
    BY DeliverEffect DEF IInv
  <1> SUFFICES ASSUME NEW t \in Tasks PROVE LifecycleProjection(Row(t))'
    BY DEF RowsWellFormed
  <1>1. CASE t # c.task
    <2>1. UNCHANGED <<state[t], resume[t], outcome[t]>>
      BY <1>0, <1>1 DEF Applied, Deliver, IInv, TypeOK
    <2> QED
      BY <2>1 DEF IInv, RowsWellFormed, LifecycleProjection, Row, OutcomeOf
  <1>2. CASE t = c.task
    <2>1. /\ state'[t] = Target(t, c.kind)
          /\ resume'[t] = (IF c.kind = "ESCALATE" THEN state[t] ELSE None)
          /\ outcome'[t] = OutcomeOf(state'[t])
      BY <1>0, <1>2 DEF Applied, Deliver, IInv, TypeOK
    <2>2. c.kind \in Kinds /\ state[t] \in Sources[c.kind]
      BY <1>0, <1>2 DEF Applied, Commands
    <2>3. CASE c.kind = "RESUME"
      <3>1. resume[t] \in ScopeSteeringStates
        BY <2>3, <1>2 DEF Deliver, BriefGate
      <3> QED
        BY <2>1, <2>3, <3>1 DEF Target, LifecycleProjection, Row, ScopeSteeringStates
    <2>4. CASE c.kind = "ESCALATE"
      BY <2>1, <2>2, <2>4 DEF Target, FixedTarget, Sources, LifecycleProjection, Row
    <2>5. CASE c.kind \notin {"RESUME", "ESCALATE"}
      <3>1. Target(t, c.kind) # "ESCALATED"
        BY <2>2, <2>5 DEF Target, FixedTarget, Kinds, Sources
      <3> QED
        BY <2>1, <2>5, <3>1 DEF LifecycleProjection, Row
    <2> QED
      BY <2>3, <2>4, <2>5
  <1> QED
    BY <1>1, <1>2

\* An accepted command brings an id no log holds yet and the state its caller read.
LEMMA OnceDeliver ==
    ASSUME IInv, NEW c \in inflight, NEW grant \in BOOLEAN,
           NEW head \in Heads \cup {None}, Deliver(c, grant, head)
    PROVE  CommandsApplyOnce'
  <1>0. PICK e \in Events : Applied(c, head, e)
    BY DeliverEffect DEF IInv
  <1>1. e.id \notin UsedIds /\ e.from = e.expected
    BY <1>0 DEF Applied, Deliver, Admitted
  <1>2. ASSUME NEW t \in Tasks, NEW i \in 1 .. Len(events'[t])
        PROVE  /\ events'[t] \in Seq(Events)
               /\ \/ i \in 1 .. Len(events[t]) /\ events'[t][i] = events[t][i]
                  \/ t = c.task /\ i = Len(events[t]) + 1 /\ events'[t][i] = e
    <2>1. events[t] \in Seq(Events)
      BY DEF IInv, TypeOK
    <2>2. events'[t] = IF t = c.task THEN Append(events[t], e) ELSE events[t]
      BY <1>0 DEF Applied, IInv, TypeOK
    <2> QED
      BY <2>1, <2>2, <1>2
  <1>3. ASSUME NEW t \in Tasks, NEW i \in 1 .. Len(events[t])
        PROVE  events[t][i].id # e.id
    BY <1>1 DEF UsedIds
  <1>4. \A t, u \in Tasks : \A i \in 1 .. Len(events[t]), j \in 1 .. Len(events[u]) :
            /\ events[t][i].id = events[u][j].id => t = u /\ i = j
            /\ events[t][i].from = events[t][i].expected
    BY DEF IInv, CommandsApplyOnce
  <1> SUFFICES ASSUME NEW t \in Tasks, NEW u \in Tasks,
                      NEW i \in 1 .. Len(events'[t]), NEW j \in 1 .. Len(events'[u])
               PROVE  /\ events'[t][i].id = events'[u][j].id => t = u /\ i = j
                      /\ events'[t][i].from = events'[t][i].expected
    BY DEF CommandsApplyOnce
  <1>5. \/ i \in 1 .. Len(events[t]) /\ events'[t][i] = events[t][i]
        \/ t = c.task /\ i = Len(events[t]) + 1 /\ events'[t][i] = e
    BY <1>2
  <1>6. \/ j \in 1 .. Len(events[u]) /\ events'[u][j] = events[u][j]
        \/ u = c.task /\ j = Len(events[u]) + 1 /\ events'[u][j] = e
    BY <1>2
  <1>7. events'[t][i].from = events'[t][i].expected
    BY <1>1, <1>4, <1>5
  <1>8. CASE i \in 1 .. Len(events[t]) /\ events'[t][i] = events[t][i]
    <2>1. CASE j \in 1 .. Len(events[u]) /\ events'[u][j] = events[u][j]
      BY <1>4, <1>7, <1>8, <2>1
    <2>2. CASE u = c.task /\ j = Len(events[u]) + 1 /\ events'[u][j] = e
      BY <1>3, <1>7, <1>8, <2>2
    <2> QED
      BY <1>6, <2>1, <2>2
  <1>9. CASE t = c.task /\ i = Len(events[t]) + 1 /\ events'[t][i] = e
    <2>1. CASE j \in 1 .. Len(events[u]) /\ events'[u][j] = events[u][j]
      BY <1>3, <1>7, <1>9, <2>1
    <2>2. CASE u = c.task /\ j = Len(events[u]) + 1 /\ events'[u][j] = e
      BY <1>7, <1>9, <2>2
    <2> QED
      BY <1>6, <2>1, <2>2
  <1> QED
    BY <1>5, <1>8, <1>9

\* An accepted command pairs every resumption with the escalation right before it.
LEMMA ResumeDeliver ==
    ASSUME IInv, NEW c \in inflight, NEW grant \in BOOLEAN,
           NEW head \in Heads \cup {None}, Deliver(c, grant, head)
    PROVE  ResumeReturns'
  <1>0. PICK e \in Events : Applied(c, head, e)
    BY DeliverEffect DEF IInv
  <1> SUFFICES ASSUME NEW t \in Tasks
               PROVE  /\ \A i \in 1 .. Len(events'[t]) :
                            events'[t][i].kind = "RESUME" =>
                                /\ i > 1
                                /\ events'[t][i - 1].kind = "ESCALATE"
                                /\ events'[t][i - 1].from = events'[t][i].to
                      /\ state'[t] = "ESCALATED" =>
                            /\ events'[t] # <<>>
                            /\ events'[t][Len(events'[t])].kind = "ESCALATE"
                            /\ events'[t][Len(events'[t])].from = resume'[t]
    BY DEF ResumeReturns
  <1>1. /\ events[t] \in Seq(Events)
        /\ \A i \in 1 .. Len(events[t]) :
              events[t][i].kind = "RESUME" =>
                  /\ i > 1
                  /\ events[t][i - 1].kind = "ESCALATE"
                  /\ events[t][i - 1].from = events[t][i].to
        /\ state[t] = "ESCALATED" =>
              /\ events[t] # <<>>
              /\ events[t][Len(events[t])].kind = "ESCALATE"
              /\ events[t][Len(events[t])].from = resume[t]
    BY DEF IInv, TypeOK, ResumeReturns
  <1>2. CASE t # c.task
    <2>1. UNCHANGED <<state[t], resume[t], events[t]>>
      BY <1>0, <1>2 DEF Applied, Deliver, IInv, TypeOK
    <2> QED
      BY <1>1, <2>1
  <1>3. CASE t = c.task
    <2>1. /\ events'[t] = Append(events[t], e)
          /\ state'[t] = e.to /\ e.to = Target(t, c.kind)
          /\ resume'[t] = (IF c.kind = "ESCALATE" THEN state[t] ELSE None)
          /\ e.kind = c.kind /\ e.from = state[t]
          /\ c.kind \in Kinds /\ state[t] \in Sources[c.kind]
      BY <1>0, <1>3 DEF Applied, Deliver, IInv, TypeOK, Commands
    <2>2. /\ Len(events[t]) \in Nat
          /\ Len(events'[t]) = Len(events[t]) + 1
          /\ events'[t][Len(events[t]) + 1] = e
          /\ \A i \in 1 .. Len(events[t]) : events'[t][i] = events[t][i]
      BY <1>1, <2>1
    <2>3. ASSUME NEW i \in 1 .. Len(events'[t]), events'[t][i].kind = "RESUME"
          PROVE  /\ i > 1
                 /\ events'[t][i - 1].kind = "ESCALATE"
                 /\ events'[t][i - 1].from = events'[t][i].to
      <3>1. CASE i \in 1 .. Len(events[t])
        <4>1. events'[t][i] = events[t][i]
          BY <2>2, <3>1
        <4>2. i > 1 /\ events[t][i - 1].kind = "ESCALATE"
              /\ events[t][i - 1].from = events[t][i].to
          BY <1>1, <2>3, <3>1, <4>1
        <4>3. i - 1 \in 1 .. Len(events[t])
          BY <2>2, <3>1, <4>2
        <4> QED
          BY <2>2, <4>1, <4>2, <4>3
      <3>2. CASE i = Len(events[t]) + 1
        <4>1. c.kind = "RESUME" /\ state[t] = "ESCALATED" /\ e.to = resume[t]
          BY <2>1, <2>2, <2>3, <3>2 DEF Sources, Target
        <4>2. events[t] # <<>> /\ events[t][Len(events[t])].kind = "ESCALATE"
              /\ events[t][Len(events[t])].from = resume[t]
          BY <1>1, <4>1
        <4>3. Len(events[t]) >= 1 /\ i - 1 = Len(events[t])
          BY <1>1, <2>2, <3>2, <4>2
        <4>4. events'[t][i - 1] = events[t][Len(events[t])] /\ events'[t][i] = e
          BY <2>2, <3>2, <4>3
        <4> QED
          BY <2>2, <3>2, <4>1, <4>2, <4>3, <4>4
      <3> QED
        BY <2>2, <3>1, <3>2
    <2>4. state'[t] = "ESCALATED" => c.kind = "ESCALATE"
      <3>1. c.kind = "RESUME" => resume[t] \in ScopeSteeringStates
        BY <1>3 DEF Deliver, BriefGate
      <3> QED
        BY <2>1, <3>1 DEF Target, FixedTarget, Kinds, Sources, ScopeSteeringStates
    <2>5. state'[t] = "ESCALATED" =>
             /\ events'[t] # <<>>
             /\ events'[t][Len(events'[t])].kind = "ESCALATE"
             /\ events'[t][Len(events'[t])].from = resume'[t]
      <3>1. events'[t] # <<>> /\ events'[t][Len(events'[t])] = e
        BY <1>1, <2>1, <2>2
      <3> QED
        BY <2>1, <2>4, <3>1
    <2> QED
      BY <2>3, <2>5
  <1> QED
    BY <1>2, <1>3

\* Without an appended event, and apart from appended scope changes, the scope stays.
LEMMA ScopeDeliver ==
    ASSUME IInv, NEW c \in inflight, NEW grant \in BOOLEAN,
           NEW head \in Heads \cup {None}, Deliver(c, grant, head), NEW t \in Tasks,
           t # c.task \/ c.kind # "SCOPE_STEER"
    PROVE  Scope(t)' = Scope(t)
  <1>0. PICK e \in Events : Applied(c, head, e)
    BY DeliverEffect DEF IInv
  <1>1. CASE t # c.task
    <2>1. events'[t] = events[t]
      BY <1>0, <1>1 DEF Applied, IInv, TypeOK
    <2> QED
      BY <2>1 DEF Scope, At
  <1>2. CASE t = c.task /\ c.kind # "SCOPE_STEER"
    <2>1. events'[t] = Append(events[t], e) /\ e.kind = c.kind
      BY <1>0, <1>2 DEF Applied, IInv, TypeOK
    <2>2. At(t, {"SCOPE_STEER"})' = At(t, {"SCOPE_STEER"})
      <3>1. events[t] \in Seq(Events)
        BY DEF IInv, TypeOK
      <3>2. e.kind # "SCOPE_STEER"
        BY <1>2, <2>1
      <3> QED
        BY <2>1, <3>1, <3>2 DEF At
    <2> QED
      BY <2>2 DEF Scope
  <1> QED
    BY <1>1, <1>2

\* An accepted command keeps brief and contract bindings within the present scope.
LEMMA BindingsDeliver ==
    ASSUME IInv, NEW c \in inflight, NEW grant \in BOOLEAN,
           NEW head \in Heads \cup {None}, Deliver(c, grant, head)
    PROVE  BriefIsOfScope' /\ ContractIsOfScope'
  <1>0. c.task \in Tasks
    BY DEF IInv, TypeOK, Commands
  <1>1. Rebind(c.task, c.kind) /\ TypeOK
    BY DEF Deliver, IInv
  <1> SUFFICES ASSUME NEW t \in Tasks
               PROVE  /\ brief'[t].status # "unbound" => brief'[t].scope = Scope(t)'
                      /\ contract'[t] # None => contract'[t] = Scope(t)'
    BY DEF BriefIsOfScope, ContractIsOfScope
  <1>2. CASE t = c.task /\ c.kind = "SCOPE_STEER"
    BY <1>1, <1>2 DEF Rebind, TypeOK
  <1>3. CASE t # c.task \/ c.kind # "SCOPE_STEER"
    <2>1. Scope(t)' = Scope(t)
      BY <1>3, ScopeDeliver
    <2>2. contract'[t] = contract[t]
      BY <1>0, <1>1, <1>3 DEF Rebind, TypeOK
    <2>3. /\ brief'[t].scope = brief[t].scope
          /\ brief'[t].status # "unbound" =>
                brief[t].status # "unbound"
      <3>1. brief \in [Tasks -> [status : BriefStatus, scope : Nat]]
        BY <1>1 DEF TypeOK
      <3>2. CASE t = c.task /\ c.kind = "REVISE_BRIEF"
        <4>1. brief[t].status = "stored"
          BY <3>2 DEF Deliver, BriefGate
        <4>2. brief' = [brief EXCEPT ![t].status = "revision_requested"]
          BY <1>1, <3>2 DEF Rebind
        <4> QED
          BY <3>1, <4>1, <4>2
      <3>3. CASE ~(t = c.task /\ c.kind = "REVISE_BRIEF")
        BY <1>0, <1>1, <1>3, <3>1, <3>3 DEF Rebind
      <3> QED
        BY <3>2, <3>3
    <2> QED
      BY <2>1, <2>2, <2>3 DEF IInv, BriefIsOfScope, ContractIsOfScope
  <1> QED
    BY <1>2, <1>3

\* Outside the kind RESUME a command settles the task in a state of its own kind; an
\* escalation and a resumption leave the settled state alone.
LEMMA SettledDeliver ==
    ASSUME IInv, NEW c \in inflight, NEW grant \in BOOLEAN,
           NEW head \in Heads \cup {None}, Deliver(c, grant, head)
    PROVE  Settled(c.task)' = IF c.kind \in {"ESCALATE", "RESUME"} THEN Settled(c.task)
                              ELSE FixedTarget[c.kind]
  <1>0. PICK e \in Events : Applied(c, head, e)
    BY DeliverEffect DEF IInv
  <1> DEFINE t == c.task
  <1>1. /\ t \in Tasks /\ c.kind \in Kinds /\ state[t] \in Sources[c.kind]
        /\ state'[t] = Target(t, c.kind)
        /\ resume'[t] = (IF c.kind = "ESCALATE" THEN state[t] ELSE None)
    BY <1>0 DEF Applied, Deliver, IInv, TypeOK, Commands
  <1>2. CASE c.kind = "RESUME"
    <2>1. state[t] = "ESCALATED" /\ state'[t] = resume[t] /\ resume[t] \in ScopeSteeringStates
      BY <1>1, <1>2 DEF Sources, Target, Deliver, BriefGate
    <2> QED
      BY <1>2, <2>1 DEF Settled, ScopeSteeringStates
  <1>3. CASE c.kind = "ESCALATE"
    <2>1. state[t] \in ScopeSteeringStates /\ state'[t] = "ESCALATED" /\ resume'[t] = state[t]
      BY <1>1, <1>3 DEF Sources, Target, FixedTarget
    <2> QED
      BY <1>3, <2>1 DEF Settled, ScopeSteeringStates
  <1>4. CASE c.kind \notin {"ESCALATE", "RESUME"}
    <2>1. FixedTarget[c.kind] # "ESCALATED"
      BY <1>1, <1>4 DEF Kinds, Sources, FixedTarget
    <2> QED
      BY <1>1, <1>4, <2>1 DEF Settled, Target
  <1> QED
    BY <1>2, <1>3, <1>4

\* A task the command is not for keeps everything the properties read.
LEMMA OtherTask ==
    ASSUME IInv, NEW c \in inflight, NEW grant \in BOOLEAN,
           NEW head \in Heads \cup {None}, Deliver(c, grant, head),
           NEW t \in Tasks, t # c.task
    PROVE  /\ UNCHANGED <<events[t], state[t], resume[t], brief[t], contract[t]>>
           /\ Settled(t)' = Settled(t)
           /\ Scope(t)' = Scope(t)
           /\ \A K : At(t, K)' = At(t, K)
  <1>0. PICK e \in Events : Applied(c, head, e)
    BY DeliverEffect DEF IInv
  <1>1. UNCHANGED <<events[t], state[t], resume[t]>>
    BY <1>0 DEF Applied, Deliver, IInv, TypeOK
  <1>2. UNCHANGED <<brief[t], contract[t]>>
    BY <1>0 DEF Applied, Deliver, Rebind, IInv, TypeOK
  <1> QED
    BY <1>1, <1>2 DEF Settled, Scope, At

\* The task the command is for: the log grows by the event of the command.
LEMMA OwnTask ==
    ASSUME IInv, NEW c \in inflight, NEW grant \in BOOLEAN,
           NEW head \in Heads \cup {None}, Deliver(c, grant, head),
           NEW t, t = c.task, NEW n, n = Len(events[t])
    PROVE  /\ t \in Tasks /\ c.kind \in Kinds /\ n \in Nat
           /\ state[t] \in Sources[c.kind]
           /\ events'[t] \in Seq(Events)
           /\ Len(events'[t]) = n + 1
           /\ events'[t][n + 1].kind = c.kind
           /\ events'[t][n + 1].head = head
           /\ \A i \in 1 .. n : events'[t][i] = events[t][i]
  <1>0. PICK e \in Events : Applied(c, head, e)
    BY DeliverEffect DEF IInv
  <1>1. events[c.task] \in Seq(Events) /\ events'[c.task] = Append(events[c.task], e)
    BY <1>0 DEF Applied, IInv, TypeOK
  <1>2. c.task \in Tasks /\ c.kind \in Kinds /\ state[c.task] \in Sources[c.kind]
        /\ e.kind = c.kind /\ e.head = head
    BY <1>0 DEF Applied, Commands
  <1>3. /\ events'[t] \in Seq(Events) /\ n \in Nat /\ Len(events'[t]) = n + 1
        /\ events'[t][n + 1] = e
        /\ \A i \in 1 .. n : events'[t][i] = events[t][i]
    BY <1>1
  <1> QED
    BY <1>2, <1>3

\* An accepted command moves a task past briefing only on an accepted, bound brief.
LEMMA AcceptedDeliver ==
    ASSUME IInv, NEW c \in inflight, NEW grant \in BOOLEAN,
           NEW head \in Heads \cup {None}, Deliver(c, grant, head)
    PROVE  WorkHasAcceptedBrief'
  <1> DEFINE A == {"AUTO_ACCEPT_BRIEF", "APPROVE_EXACT_BRIEF"}
             R == {"SCOPE_STEER", "REVISE_BRIEF"}
  <1> SUFFICES ASSUME NEW t \in Tasks, Settled(t)' \in AcceptedStates
               PROVE  /\ \E i \in At(t, A)' : \A j \in At(t, R)' : j < i
                      /\ brief'[t] = [status |-> "stored", scope |-> Scope(t)']
    BY DEF WorkHasAcceptedBrief, Since
  <1>0. Settled(t) \in AcceptedStates =>
           /\ \E i \in At(t, A) : \A j \in At(t, R) : j < i
           /\ brief[t] = [status |-> "stored", scope |-> Scope(t)]
    BY DEF IInv, WorkHasAcceptedBrief, Since
  <1>1. CASE t # c.task
    BY <1>0, <1>1, OtherTask
  <1>2. CASE t = c.task
    <2>0. PICK n : n = Len(events[t])
      OBVIOUS
    <2>1. /\ c.kind \in Kinds /\ n \in Nat /\ state[t] \in Sources[c.kind]
          /\ Len(events'[t]) = n + 1 /\ events'[t][n + 1].kind = c.kind /\ events'[t][n + 1].head = head
          /\ \A i \in 1 .. n : events'[t][i] = events[t][i]
      BY <1>2, <2>0, OwnTask
    <2>10. /\ At(t, A)' = At(t, A) \cup (IF c.kind \in A THEN {n + 1} ELSE {})
           /\ At(t, R)' = At(t, R) \cup (IF c.kind \in R THEN {n + 1} ELSE {})
      <3>1. At(t, A)' = At(t, A) \cup (IF c.kind \in A THEN {n + 1} ELSE {})
        BY <2>0, <2>1 DEF At
      <3>2. At(t, R)' = At(t, R) \cup (IF c.kind \in R THEN {n + 1} ELSE {})
        BY <2>0, <2>1 DEF At
      <3> QED
        BY <3>1, <3>2
    <2>2. Settled(t)' = IF c.kind \in {"ESCALATE", "RESUME"} THEN Settled(t)
                        ELSE FixedTarget[c.kind]
      BY <1>2, SettledDeliver
    <2>3. c.kind \notin R
      BY <2>2 DEF FixedTarget, AcceptedStates
    <2>4. Scope(t)' = Scope(t)
      BY <2>3, ScopeDeliver
    <2>5. brief'[t] = brief[t]
      BY <2>3 DEF Deliver, Rebind
    <2>6. CASE c.kind \in A
      <3>1. brief[t].status = "stored" /\ brief[t] \in [status : BriefStatus, scope : Nat]
        BY <1>2, <2>6 DEF Deliver, BriefGate, IInv, TypeOK
      <3>2. brief[t] = [status |-> "stored", scope |-> Scope(t)]
        BY <3>1 DEF IInv, BriefIsOfScope
      <3>3. At(t, R) \subseteq 1 .. n
        BY <2>0, <1>2, AtFinite DEF IInv
      <3>4. n + 1 \in At(t, A)' /\ \A j \in At(t, R)' : j < n + 1
        BY <2>1, <2>10, <2>3, <2>6, <3>3
      <3> QED
        BY <2>4, <2>5, <3>2, <3>4
    <2>7. CASE c.kind \notin A
      <3>1. Settled(t) \in AcceptedStates
        BY <2>1, <2>2, <2>3, <2>7
           DEF FixedTarget, Sources, Kinds, AcceptedStates, Settled, ScopeSteeringStates,
               ActiveStates
      <3> QED
        BY <1>0, <2>10, <2>3, <2>4, <2>5, <2>7, <3>1
    <2> QED
      BY <2>6, <2>7
  <1> QED
    BY <1>1, <1>2

\* The readiness gate accepts no head but the one of the newest draft gate.
LEMMA LatestHead ==
    ASSUME NEW t \in Tasks, events[t] \in Seq(Events), NEW j \in Nat, VerifiedBy(t, j),
           LatestVerifiedHead(t) \in Heads
    PROVE  LatestVerifiedHead(t) = events[t][j].head
  <1> DEFINE newest == {i \in 1 .. Len(events[t]) :
                           /\ events[t][i].head # None
                           /\ \A k \in 1 .. Len(events[t]) :
                                 k > i => events[t][k].head = None}
             i == CHOOSE i \in newest : TRUE
  <1>1. newest # {} /\ LatestVerifiedHead(t) = events[t][i].head
    BY LifecycleAssumption DEF LatestVerifiedHead
  <1>2. i \in newest
    BY <1>1
  <1>3. j \in 1 .. Len(events[t]) /\ events[t][j].head \in Heads
    BY DEF VerifiedBy, At
  <1>4. ~ (j > i)
    BY <1>2, <1>3, LifecycleAssumption
  <1>5. CASE i = j
    BY <1>1, <1>5
  <1>6. CASE i > j
    BY <1>1, <1>2, <1>6 DEF VerifiedBy
  <1> QED
    BY <1>2, <1>3, <1>4, <1>5, <1>6

\* The head an accepted command records: the gates decide.
LEMMA HeadOfGate ==
    ASSUME NEW c, NEW grant, NEW head, Deliver(c, grant, head)
    PROVE  /\ c.kind = "OPEN_VERIFIED_DRAFT_PR" => head \in Heads
           /\ c.kind \in {"MARK_MERGE_READY", "ACKNOWLEDGE_HANDOFF"} =>
                 head \in Heads /\ head = LatestVerifiedHead(c.task)
           /\ c.kind \notin {"OPEN_VERIFIED_DRAFT_PR", "MARK_MERGE_READY",
                             "ACKNOWLEDGE_HANDOFF"} => head = None
  BY DEF Deliver, GateHeads, ReadyHead

\* An accepted command keeps the draft gate newer than repairs and scope changes.
LEMMA PullRequestDeliver ==
    ASSUME IInv, NEW c \in inflight, NEW grant \in BOOLEAN,
           NEW head \in Heads \cup {None}, Deliver(c, grant, head)
    PROVE  PullRequestHead'
  <1> DEFINE V == {"OPEN_VERIFIED_DRAFT_PR"}
             W == {"OPEN_VERIFIED_DRAFT_PR", "BEGIN_REPAIR", "SCOPE_STEER"}
             VerifiedNext(t, j) ==
                /\ j \in At(t, V)'
                /\ \A k \in At(t, W)' : k <= j
                /\ events'[t][j].head \in Heads
                /\ \A k \in 1 .. Len(events'[t]) :
                      k > j => events'[t][k].head \in {None, events'[t][j].head}
  <1> SUFFICES ASSUME NEW t \in Tasks, Settled(t)' \in PullRequestStates
               PROVE  \E j \in 1 .. Len(events'[t]) : VerifiedNext(t, j)
    BY DEF PullRequestHead, VerifiedBy
  <1>0. Settled(t) \in PullRequestStates =>
           \E j \in 1 .. Len(events[t]) : VerifiedBy(t, j)
    BY DEF IInv, PullRequestHead
  <1>1. CASE t # c.task
    <2>1. /\ Settled(t) \in PullRequestStates /\ events'[t] = events[t]
          /\ At(t, V)' = At(t, V) /\ At(t, W)' = At(t, W)
      BY <1>1, OtherTask
    <2> QED
      BY <1>0, <2>1 DEF VerifiedBy
  <1>2. CASE t = c.task
    <2>0. PICK n : n = Len(events[t])
      OBVIOUS
    <2>1. /\ c.kind \in Kinds /\ n \in Nat /\ state[t] \in Sources[c.kind]
          /\ Len(events'[t]) = n + 1
          /\ events'[t][n + 1].kind = c.kind /\ events'[t][n + 1].head = head
          /\ \A i \in 1 .. n : events'[t][i] = events[t][i]
      BY <1>2, <2>0, OwnTask
    <2>10. /\ At(t, V)' = At(t, V) \cup (IF c.kind \in V THEN {n + 1} ELSE {})
           /\ At(t, W)' = At(t, W) \cup (IF c.kind \in W THEN {n + 1} ELSE {})
      <3>1. At(t, V)' = At(t, V) \cup (IF c.kind \in V THEN {n + 1} ELSE {})
        BY <2>0, <2>1, SMTT(20) DEF At
      <3>2. At(t, W)' = At(t, W) \cup (IF c.kind \in W THEN {n + 1} ELSE {})
        BY <2>0, <2>1, SMTT(20) DEF At
      <3> QED
        BY <3>1, <3>2
    <2>2. Settled(t)' = IF c.kind \in {"ESCALATE", "RESUME"} THEN Settled(t)
                        ELSE FixedTarget[c.kind]
      BY <1>2, SettledDeliver
    <2>3. CASE c.kind = "OPEN_VERIFIED_DRAFT_PR"
      <3>1. At(t, W) \subseteq 1 .. n
        BY <1>2, <2>0, AtFinite DEF IInv
      <3>2. head \in Heads
        BY <2>3, HeadOfGate
      <3>3. VerifiedNext(t, n + 1)
        BY <2>1, <2>10, <2>3, <3>1, <3>2
      <3> QED
        BY <2>1, <3>3
    <2>4. CASE c.kind # "OPEN_VERIFIED_DRAFT_PR"
      <3>1. c.kind \notin W /\ Settled(t) \in PullRequestStates
        BY <2>1, <2>2, <2>4
           DEF FixedTarget, Sources, Kinds, PullRequestStates, Settled, ScopeSteeringStates,
               ActiveStates
      <3>2. PICK j \in 1 .. n : VerifiedBy(t, j)
        BY <1>0, <1>2, <2>0, <3>1
      <3>3. head \in {None, events[t][j].head}
        <4>1. events[t] \in Seq(Events) /\ j \in Nat
          BY <2>1 DEF IInv, TypeOK
        <4> QED
          BY <1>2, <2>4, <3>2, <4>1, HeadOfGate, LatestHead
      <3>4. VerifiedNext(t, j)
        <4>1. j \in At(t, V)' /\ \A k \in At(t, W)' : k <= j
          BY <2>10, <2>4, <3>1, <3>2 DEF VerifiedBy
        <4>2. events'[t][j] = events[t][j]
          BY <2>1
        <4>3. ASSUME NEW k \in 1 .. n + 1, k > j
              PROVE  events'[t][k].head \in {None, events[t][j].head}
          <5>1. CASE k = n + 1
            BY <2>1, <3>3, <5>1
          <5>2. CASE k \in 1 .. n
            BY <1>2, <2>0, <2>1, <3>2, <4>3, <5>2 DEF VerifiedBy
          <5> QED
            BY <2>1, <5>1, <5>2
        <4> QED
          BY <2>1, <3>2, <4>1, <4>2, <4>3 DEF VerifiedBy
      <3> QED
        BY <2>1, <3>4
    <2> QED
      BY <2>3, <2>4
  <1> QED
    BY <1>1, <1>2

\* An accepted command offers no head but the one the newest draft gate verified.
LEMMA OfferedDeliver ==
    ASSUME IInv, NEW c \in inflight, NEW grant \in BOOLEAN,
           NEW head \in Heads \cup {None}, Deliver(c, grant, head)
    PROVE  OfferedHeadIsVerified'
  <1> DEFINE O == {"MARK_MERGE_READY", "ACKNOWLEDGE_HANDOFF"}
             V == {"OPEN_VERIFIED_DRAFT_PR"}
             W == {"OPEN_VERIFIED_DRAFT_PR", "BEGIN_REPAIR", "SCOPE_STEER"}
  <1> SUFFICES ASSUME NEW t \in Tasks, NEW i \in At(t, O)'
               PROVE  \E j \in At(t, V)' :
                        /\ j < i
                        /\ events'[t][j].head = events'[t][i].head
                        /\ \A k \in At(t, W)' : k <= j \/ k > i
    BY DEF OfferedHeadIsVerified
  <1>0. i \in At(t, O) =>
           \E j \in At(t, V) : /\ j < i
                               /\ events[t][j].head = events[t][i].head
                               /\ \A k \in At(t, W) : k <= j \/ k > i
    BY DEF IInv, OfferedHeadIsVerified
  <1>1. CASE t # c.task
    <2>1. /\ events'[t] = events[t]
          /\ At(t, V)' = At(t, V) /\ At(t, W)' = At(t, W) /\ At(t, O)' = At(t, O)
      BY <1>1, OtherTask
    <2> QED
      BY <1>0, <2>1
  <1>2. CASE t = c.task
    <2>0. PICK n : n = Len(events[t])
      OBVIOUS
    <2>1. /\ c.kind \in Kinds /\ n \in Nat /\ state[t] \in Sources[c.kind]
          /\ Len(events'[t]) = n + 1
          /\ events'[t][n + 1].kind = c.kind /\ events'[t][n + 1].head = head
          /\ \A m \in 1 .. n : events'[t][m] = events[t][m]
      BY <1>2, <2>0, OwnTask
    <2>2. /\ At(t, V)' = At(t, V) \cup (IF c.kind \in V THEN {n + 1} ELSE {})
          /\ At(t, W)' = At(t, W) \cup (IF c.kind \in W THEN {n + 1} ELSE {})
          /\ At(t, O)' = At(t, O) \cup (IF c.kind \in O THEN {n + 1} ELSE {})
      <3>1. At(t, V)' = At(t, V) \cup (IF c.kind \in V THEN {n + 1} ELSE {})
        BY <2>0, <2>1, SMTT(20) DEF At
      <3>2. At(t, W)' = At(t, W) \cup (IF c.kind \in W THEN {n + 1} ELSE {})
        BY <2>0, <2>1, SMTT(20) DEF At
      <3>3. At(t, O)' = At(t, O) \cup (IF c.kind \in O THEN {n + 1} ELSE {})
        BY <2>0, <2>1, SMTT(20) DEF At
      <3> QED
        BY <3>1, <3>2, <3>3
    <2>3. At(t, V) \subseteq 1 .. n /\ At(t, O) \subseteq 1 .. n
      BY <2>0, AtFinite DEF IInv
    <2>4. CASE i \in At(t, O)
      <3>1. PICK j \in At(t, V) : /\ j < i
                                  /\ events[t][j].head = events[t][i].head
                                  /\ \A k \in At(t, W) : k <= j \/ k > i
        BY <1>0, <2>4
      <3>2. \A k \in At(t, W)' : k <= j \/ k > i
        BY <2>1, <2>2, <2>3, <2>4, <3>1
      <3>3. events'[t][j].head = events'[t][i].head
        BY <2>1, <2>3, <2>4, <3>1
      <3> QED
        BY <2>2, <3>1, <3>2, <3>3
    <2>5. CASE c.kind \in O /\ i = n + 1
      <3>1. Settled(t) \in PullRequestStates
        BY <2>1, <2>5 DEF Sources, PullRequestStates, Settled
      <3>2. PICK j \in 1 .. n : VerifiedBy(t, j)
        BY <2>0, <3>1 DEF IInv, PullRequestHead
      <3>3. head = events[t][j].head
        <4>1. events[t] \in Seq(Events) /\ j \in Nat
          BY <2>1 DEF IInv, TypeOK
        <4> QED
          BY <1>2, <2>5, <3>2, <4>1, HeadOfGate, LatestHead
      <3>4. j \in At(t, V)' /\ j < i
        BY <2>1, <2>2, <2>5, <3>2 DEF VerifiedBy
      <3>5. events'[t][j].head = events'[t][i].head
        BY <2>1, <2>5, <3>3
      <3>6. \A k \in At(t, W)' : k <= j
        BY <2>2, <2>5, <3>2 DEF VerifiedBy
      <3> QED
        BY <3>4, <3>5, <3>6
    <2> QED
      BY <2>2, <2>4, <2>5
  <1> QED
    BY <1>1, <1>2

-----------------------------------------------------------------------------
(* The invariant *)

\* Steps that leave the row, the log and the bindings of every task alone.
LEMMA QuietStep ==
    ASSUME IInv, TypeOK',
           UNCHANGED <<state, resume, outcome, brief, contract, events>>
    PROVE  IInv'
  <1>1. LogIsPath' /\ CommandsApplyOnce' /\ ResumeReturns'
    BY DEF IInv, LogIsPath, CommandsApplyOnce, ResumeReturns
  <1>2. RowsWellFormed'
    BY DEF IInv, RowsWellFormed, LifecycleProjection, Row, OutcomeOf
  <1>3. BriefIsOfScope' /\ ContractIsOfScope' /\ WorkHasAcceptedBrief'
    BY DEF IInv, BriefIsOfScope, ContractIsOfScope, WorkHasAcceptedBrief, Scope, Since, At,
           Settled
  <1>4. PullRequestHead' /\ OfferedHeadIsVerified'
    BY DEF IInv, PullRequestHead, OfferedHeadIsVerified, VerifiedBy, At, Settled
  <1> QED
    BY <1>1, <1>2, <1>3, <1>4 DEF IInv

\* Binding a brief or a contract of the current scope.
LEMMA BindingStep ==
    ASSUME IInv, TypeOK', NEW t \in Tasks, StoreBrief(t) \/ BindContract(t)
    PROVE  IInv'
  <1>0. UNCHANGED <<state, resume, outcome, events>>
    BY DEF StoreBrief, BindContract
  <1>1. LogIsPath' /\ CommandsApplyOnce' /\ ResumeReturns'
    BY <1>0 DEF IInv, LogIsPath, CommandsApplyOnce, ResumeReturns
  <1>2. RowsWellFormed'
    BY <1>0 DEF IInv, RowsWellFormed, LifecycleProjection, Row, OutcomeOf
  <1>3. \A u \in Tasks : Scope(u)' = Scope(u) /\ Settled(u)' = Settled(u)
    BY <1>0 DEF Scope, At, Settled
  <1>4. BriefIsOfScope'
    BY <1>3 DEF IInv, BriefIsOfScope, StoreBrief, BindContract, TypeOK
  <1>5. ContractIsOfScope'
    BY <1>3 DEF IInv, ContractIsOfScope, StoreBrief, BindContract, TypeOK
  <1>6. WorkHasAcceptedBrief'
    <2> SUFFICES ASSUME NEW u \in Tasks, Settled(u) \in AcceptedStates
                 PROVE  /\ Since(u, {"AUTO_ACCEPT_BRIEF", "APPROVE_EXACT_BRIEF"},
                                    {"SCOPE_STEER", "REVISE_BRIEF"})'
                        /\ brief'[u] = [status |-> "stored", scope |-> Scope(u)']
      BY <1>3 DEF WorkHasAcceptedBrief
    <2>1. /\ Since(u, {"AUTO_ACCEPT_BRIEF", "APPROVE_EXACT_BRIEF"},
                      {"SCOPE_STEER", "REVISE_BRIEF"})
          /\ brief[u] = [status |-> "stored", scope |-> Scope(u)]
      BY DEF IInv, WorkHasAcceptedBrief
    <2>2. Since(u, {"AUTO_ACCEPT_BRIEF", "APPROVE_EXACT_BRIEF"},
                   {"SCOPE_STEER", "REVISE_BRIEF"})'
      BY <1>0, <2>1 DEF Since, At
    <2>3. brief'[u] = brief[u]
      BY <2>1 DEF StoreBrief, BindContract, IInv, TypeOK
    <2> QED
      BY <1>3, <2>1, <2>2, <2>3
  <1>7. PullRequestHead' /\ OfferedHeadIsVerified'
    BY <1>0, <1>3 DEF IInv, PullRequestHead, OfferedHeadIsVerified, VerifiedBy, At
  <1> QED
    BY <1>1, <1>2, <1>4, <1>5, <1>6, <1>7 DEF IInv

\* The invariant holds of fresh intake rows.
LEMMA InvInit == Init => IInv
  <1> SUFFICES ASSUME Init PROVE IInv
    OBVIOUS
  <1>1. TypeOK
    BY TypeInit
  <1>2. \A t \in Tasks : events[t] = <<>> /\ state[t] = "INTAKE" /\ Settled(t) = "INTAKE"
    BY DEF Init, Settled
  <1>3. \A t \in Tasks : Len(events[t]) = 0 /\ 1 .. Len(events[t]) = {}
    BY <1>2
  <1>4. LogIsPath /\ CommandsApplyOnce /\ ResumeReturns
    BY <1>2, <1>3 DEF LogIsPath, CommandsApplyOnce, ResumeReturns
  <1>5. RowsWellFormed
    BY DEF Init, RowsWellFormed, LifecycleProjection, Row, OutcomeOf
  <1>6. BriefIsOfScope /\ ContractIsOfScope
    BY DEF Init, BriefIsOfScope, ContractIsOfScope
  <1>7. WorkHasAcceptedBrief /\ PullRequestHead
    BY <1>2 DEF WorkHasAcceptedBrief, PullRequestHead, AcceptedStates, PullRequestStates
  <1>8. OfferedHeadIsVerified
    BY <1>3 DEF OfferedHeadIsVerified, At
  <1> QED
    BY <1>1, <1>4, <1>5, <1>6, <1>7, <1>8 DEF IInv

\* Every step of the transition service keeps the invariant.
LEMMA InvStep == IInv /\ [Next]_vars => IInv'
  <1> SUFFICES ASSUME IInv, [Next]_vars PROVE IInv'
    OBVIOUS
  <1>0. TypeOK'
    BY TypeStep DEF IInv
  <1>1. ASSUME NEW c \in Sendable, Issue(c) PROVE IInv'
    BY <1>0, <1>1, QuietStep DEF Issue
  <1>2. ASSUME NEW c \in inflight, Forget(c) PROVE IInv'
    BY <1>0, <1>2, QuietStep DEF Forget
  <1>3. ASSUME NEW c \in inflight, NEW grant \in BOOLEAN,
               NEW head \in Heads \cup {None}, Deliver(c, grant, head)
        PROVE  IInv'
    BY <1>0, <1>3, PathDeliver, RowsDeliver, OnceDeliver, ResumeDeliver, BindingsDeliver,
       AcceptedDeliver, PullRequestDeliver, OfferedDeliver DEF IInv
  <1>4. ASSUME NEW t \in Tasks, StoreBrief(t) \/ BindContract(t) PROVE IInv'
    BY <1>0, <1>4, BindingStep
  <1>5. CASE UNCHANGED vars
    BY <1>0, <1>5, QuietStep DEF vars
  <1> QED
    BY <1>1, <1>2, <1>3, <1>4, <1>5 DEF Next

-----------------------------------------------------------------------------
(* Theorems *)

\* The conjunction that _transition_task maintains: every checked invariant with its
\* strengthening.
THEOREM Invariant == Spec => []IInv
  BY InvInit, InvStep, PTL DEF Spec

\* A transition id is applied once over the logs of all tasks, and only on the state
\* the caller of _transition_task had read.
THEOREM CommandsApplyOnceAlways == Spec => []CommandsApplyOnce
  <1>1. IInv => CommandsApplyOnce
    BY DEF IInv
  <1> QED
    BY <1>1, Invariant, PTL

\* A resumption returns the task to the state its escalation interrupted.
THEOREM ResumeReturnsAlways == Spec => []ResumeReturns
  <1>1. IInv => ResumeReturns
    BY DEF IInv
  <1> QED
    BY <1>1, Invariant, PTL

\* Work beyond briefing has a brief that was accepted for the present scope and is
\* still bound.
THEOREM WorkHasAcceptedBriefAlways == Spec => []WorkHasAcceptedBrief
  <1>1. IInv => WorkHasAcceptedBrief
    BY DEF IInv
  <1> QED
    BY <1>1, Invariant, PTL

\* A scope change leaves no validation contract of an older scope behind.
THEOREM ContractIsOfScopeAlways == Spec => []ContractIsOfScope
  <1>1. IInv => ContractIsOfScope
    BY DEF IInv
  <1> QED
    BY <1>1, Invariant, PTL

\* A task with a pull request passed the draft gate after its last repair and its last
\* scope change.
THEOREM PullRequestIsVerifiedAlways == Spec => []PullRequestIsVerified
  <1>1. IInv => PullRequestIsVerified
    <2> SUFFICES ASSUME IInv, NEW t \in Tasks, Settled(t) \in PullRequestStates
                 PROVE  \E i \in At(t, {"OPEN_VERIFIED_DRAFT_PR"}) :
                           \A k \in At(t, {"BEGIN_REPAIR", "SCOPE_STEER"}) : k < i
      BY DEF PullRequestIsVerified, Since
    <2>1. events[t] \in Seq(Events)
      BY DEF IInv, TypeOK
    <2>2. PICK j \in 1 .. Len(events[t]) : VerifiedBy(t, j)
      BY DEF IInv, PullRequestHead
    <2>3. ASSUME NEW k \in At(t, {"BEGIN_REPAIR", "SCOPE_STEER"}) PROVE k < j
      <3>1. k \in 1 .. Len(events[t]) /\ events[t][k].kind \in {"BEGIN_REPAIR", "SCOPE_STEER"}
        BY DEF At
      <3>2. k <= j /\ events[t][j].kind = "OPEN_VERIFIED_DRAFT_PR"
        BY <2>2, <3>1 DEF VerifiedBy, At
      <3> QED
        BY <2>1, <3>1, <3>2
    <2> QED
      BY <2>2, <2>3 DEF VerifiedBy
  <1> QED
    BY <1>1, Invariant, PTL

\* The head offered for merge, and handed off, is the one the newest draft gate verified.
THEOREM OfferedHeadIsVerifiedAlways == Spec => []OfferedHeadIsVerified
  <1>1. IInv => OfferedHeadIsVerified
    BY DEF IInv
  <1> QED
    BY <1>1, Invariant, PTL

\* A plan of the engine is an edge the triggers know under the kind of its event.
LEMMA DeliverEdge ==
    ASSUME IInv, NEW c \in inflight, NEW grant \in BOOLEAN,
           NEW head \in Heads \cup {None}, Deliver(c, grant, head)
    PROVE  /\ LegalLifecycleEdge(Row(c.task), Row(c.task)')
           /\ EventEdge(c.kind, Row(c.task), Row(c.task)')
  <1>0. PICK e \in Events : Applied(c, head, e)
    BY DeliverEffect DEF IInv
  <1> DEFINE t == c.task
  <1>1. /\ t \in Tasks /\ c.kind \in Kinds /\ state[t] \in Sources[c.kind]
        /\ state'[t] = Target(t, c.kind)
        /\ resume'[t] = (IF c.kind = "ESCALATE" THEN state[t] ELSE None)
    BY <1>0 DEF Applied, Deliver, IInv, TypeOK, Commands
  <1>2. CASE c.kind = "RESUME"
    <2>1. state[t] = "ESCALATED" /\ state'[t] = resume[t]
      BY <1>1, <1>2 DEF Sources, Target
    <2> QED
      BY <1>2, <2>1 DEF LegalLifecycleEdge, EventEdge, Row
  <1>3. CASE c.kind \in {"ESCALATE", "CANCEL", "FAIL", "SCOPE_STEER"}
    BY <1>1, <1>3 DEF Sources, Target, FixedTarget, LegalLifecycleEdge, EventEdge, Row
  <1>4. CASE c.kind \notin {"RESUME", "ESCALATE", "CANCEL", "FAIL", "SCOPE_STEER"}
    <2>1. /\ state'[t] = FixedTarget[c.kind]
          /\ Row(t).state = state[t] /\ Row(t)'.state = state'[t]
      BY <1>1, <1>4 DEF Target, Row
    <2>2. \/ state[t] = "INTAKE" /\ state'[t] = "BRIEFING"
          \/ <<state[t], state'[t]>> \in
                { <<"BRIEFING", "BRIEF_PENDING_APPROVAL">>,
                  <<"BRIEFING", "IMPLEMENTING">>,
                  <<"BRIEF_PENDING_APPROVAL", "BRIEFING">>,
                  <<"BRIEF_PENDING_APPROVAL", "IMPLEMENTING">>,
                  <<"IMPLEMENTING", "VALIDATING">>,
                  <<"VALIDATING", "REPAIRING">>,
                  <<"PR_ACTIVE", "REPAIRING">>,
                  <<"REPAIRING", "VALIDATING">>,
                  <<"VALIDATING", "PR_ACTIVE">>,
                  <<"PR_ACTIVE", "READY_FOR_HUMAN_MERGE">>,
                  <<"READY_FOR_HUMAN_MERGE", "PR_ACTIVE">>,
                  <<"READY_FOR_HUMAN_MERGE", "HANDED_OFF">> }
      BY <1>1, <1>4, <2>1 DEF Kinds, Sources, FixedTarget
    <2>3. LegalLifecycleEdge(Row(t), Row(t)')
      BY <2>1, <2>2 DEF LegalLifecycleEdge, ScopeSteeringStates, ActiveStates
    <2>4. EventEdge(c.kind, Row(t), Row(t)')
      BY <1>1, <1>4, <2>1 DEF Kinds, Sources, FixedTarget, EventEdge
    <2> QED
      BY <2>3, <2>4
  <1> QED
    BY <1>1, <1>2, <1>3, <1>4 DEF Kinds, Sources

\* Whatever a step writes to a task row, the triggers of migration 0005 accept.
LEMMA TriggersStep ==
    IInv /\ [Next]_vars => [\A t \in Tasks : TriggersAccept(Row(t), Row(t)', events'[t])]_vars
  <1> SUFFICES ASSUME IInv, [Next]_vars, NEW t \in Tasks
               PROVE  TriggersAccept(Row(t), Row(t)', events'[t])
    OBVIOUS
  <1>0. LifecycleProjection(Row(t)')
    <2>1. LifecycleProjection(Row(t))'
      BY InvStep DEF IInv, RowsWellFormed
    <2> QED
      BY <2>1 DEF LifecycleProjection
  <1>1. ASSUME Row(t)' = Row(t) PROVE TriggersAccept(Row(t), Row(t)', events'[t])
    BY <1>0, <1>1 DEF TriggersAccept
  <1>2. ASSUME NEW c \in inflight, NEW grant \in BOOLEAN,
               NEW head \in Heads \cup {None}, Deliver(c, grant, head)
        PROVE  TriggersAccept(Row(t), Row(t)', events'[t])
    <2>1. CASE t # c.task
      <3>1. Row(t)' = Row(t)
        <4>1. outcome'[t] = outcome[t]
          BY <1>2, <2>1 DEF Deliver, IInv, TypeOK
        <4> QED
          BY <1>2, <2>1, <4>1, OtherTask DEF Row
      <3> QED
        BY <1>1, <3>1
    <2>2. CASE t = c.task
      <3>1. PICK e \in Events : Applied(c, head, e)
        BY <1>2, DeliverEffect DEF IInv
      <3>2. /\ events[t] \in Seq(Events) /\ events'[t] = Append(events[t], e)
            /\ e.kind = c.kind /\ e.from = state[t] /\ e.to = state'[t]
        BY <2>2, <3>1 DEF Applied, IInv, TypeOK
      <3>3. events'[t] # <<>> /\ events'[t][Len(events'[t])] = e
        BY <3>2
      <3>4. LegalLifecycleEdge(Row(t), Row(t)') /\ EventEdge(e.kind, Row(t), Row(t)')
        BY <1>2, <2>2, <3>2, DeliverEdge
      <3>5. Row(t).state = state[t] /\ Row(t)'.state = state'[t]
        BY DEF Row
      <3> QED
        BY <1>0, <3>2, <3>3, <3>4, <3>5 DEF TriggersAccept
    <2> QED
      BY <2>1, <2>2
  <1>3. ASSUME NEW c \in Sendable, Issue(c) PROVE Row(t)' = Row(t)
    BY <1>3 DEF Issue, Row
  <1>4. ASSUME NEW c \in inflight, Forget(c) PROVE Row(t)' = Row(t)
    BY <1>4 DEF Forget, Row
  <1>5. ASSUME NEW u \in Tasks, StoreBrief(u) \/ BindContract(u) PROVE Row(t)' = Row(t)
    BY <1>5 DEF StoreBrief, BindContract, Row
  <1>6. CASE UNCHANGED vars
    BY <1>6, <1>1 DEF vars, Row
  <1> QED
    BY <1>1, <1>2, <1>3, <1>4, <1>5, <1>6 DEF Next

\* No accepted command is lost to the triggers of migration 0005: what the engine
\* plans, they accept.
THEOREM EngineSatisfiesTriggersAlways == Spec => EngineSatisfiesTriggers
  BY Invariant, TriggersStep, PTL DEF Spec, EngineSatisfiesTriggers

\* A step finds no command it could apply to a terminal task, nor a binding to change.
LEMMA TerminalStep ==
    ASSUME TypeOK, [Next]_vars, NEW t \in Tasks, state[t] \in TerminalStates
    PROVE  UNCHANGED <<state[t], outcome[t], retries[t], brief[t], contract[t], events[t]>>
  <1>0. state[t] \notin ActiveStates
    BY DEF TerminalStates, ActiveStates
  <1>1. ASSUME NEW c \in Sendable, Issue(c)
        PROVE  UNCHANGED <<state, outcome, retries, brief, contract, events>>
    BY <1>1 DEF Issue
  <1>2. ASSUME NEW c \in inflight, Forget(c)
        PROVE  UNCHANGED <<state, outcome, retries, brief, contract, events>>
    BY <1>2 DEF Forget
  <1>3. ASSUME NEW c \in inflight, NEW grant \in BOOLEAN,
               NEW head \in Heads \cup {None}, Deliver(c, grant, head)
        PROVE  UNCHANGED <<state[t], outcome[t], retries[t], brief[t], contract[t], events[t]>>
    <2>1. c.kind \in Kinds /\ c.task \in Tasks /\ state[c.task] \in Sources[c.kind]
      BY <1>3 DEF Deliver, TypeOK, Commands
    <2>2. t # c.task
      BY <1>0, <2>1, TableFacts
    <2> QED
      BY <1>3, <2>1, <2>2 DEF Deliver, Rebind, TypeOK
  <1>4. ASSUME NEW u \in Tasks, StoreBrief(u) \/ BindContract(u)
        PROVE  UNCHANGED <<state[t], outcome[t], retries[t], brief[t], contract[t], events[t]>>
    <2>1. state[u] \in ActiveStates
      BY <1>4 DEF StoreBrief, BindContract, ActiveStates
    <2> QED
      BY <1>0, <1>4, <2>1 DEF StoreBrief, BindContract, TypeOK
  <1>5. CASE UNCHANGED vars
    BY <1>5 DEF vars
  <1> QED
    BY <1>1, <1>2, <1>3, <1>4, <1>5 DEF Next

\* Nothing changes a handed-off, failed or cancelled task or its log.
THEOREM TerminalIsFinalAlways == Spec => TerminalIsFinal
  <1>1. TypeOK /\ [Next]_vars =>
          [\A t \in Tasks : state[t] \in TerminalStates =>
              UNCHANGED <<state[t], outcome[t], retries[t], brief[t], contract[t],
                          events[t]>>]_vars
    BY TerminalStep
  <1> QED
    BY <1>1, TypeCorrect, PTL DEF Spec, TerminalIsFinal

-----------------------------------------------------------------------------
(* The promise *)

\* The promise and the engine have one view of the states that are left by escalation.
LEMMA UnderwayIs == Promise!Underway = ScopeSteeringStates
  BY DEF Promise!Underway, ScopeSteeringStates, ActiveStates

\* An accepted command moves the row of its task along an edge of the promise, and no
\* other row.
LEMMA DeliverPromised ==
    ASSUME IInv, NEW c \in inflight, NEW grant \in BOOLEAN,
           NEW head \in Heads \cup {None}, Deliver(c, grant, head)
    PROVE  Promise!Next
  <1>0. PICK e \in Events : Applied(c, head, e)
    BY DeliverEffect DEF IInv
  <1> DEFINE t == c.task
             s == state'[t]
             r == resume'[t]
  <1>1. t \in Tasks /\ Promise!Becomes(t, s, r)
    BY <1>0 DEF Applied, Deliver, IInv, TypeOK, Promise!Becomes
  <1>2. LegalLifecycleEdge(Row(t), Row(t)')
    BY DeliverEdge
  <1>3. LifecycleProjection(Row(t)')
    <2>1. LifecycleProjection(Row(t))'
      BY <1>1, RowsDeliver DEF RowsWellFormed
    <2> QED
      BY <2>1 DEF LifecycleProjection
  <1>4. IF state[t] = "ESCALATED" THEN resume[t] \in ScopeSteeringStates ELSE resume[t] = None
    BY <1>1 DEF IInv, RowsWellFormed, LifecycleProjection, Row
  <1>5. /\ Row(t).state = state[t] /\ Row(t).resume = resume[t]
        /\ Row(t)'.state = s /\ Row(t)'.resume = r
    BY DEF Row
  <1>6. IF s = "ESCALATED" THEN r \in ScopeSteeringStates ELSE r = None
    BY <1>3, <1>5 DEF LifecycleProjection
  <1> HIDE DEF t, s, r
  <1>7. CASE state[t] \in ActiveStates /\ s \in {"FAILED", "CANCELLED"}
    <2>1. state[t] \in Promise!Underway \cup {"ESCALATED"} /\ r = None
      BY <1>6, <1>7, UnderwayIs DEF ScopeSteeringStates
    <2> QED
      BY <1>1, <1>7, <2>1 DEF Promise!Next, Promise!Stop
  <1>8. CASE state[t] \in ScopeSteeringStates /\ s = "ESCALATED" /\ r = state[t]
    BY <1>1, <1>8, UnderwayIs DEF Promise!Next, Promise!Escalate
  <1>9. CASE state[t] = "ESCALATED" /\ s = resume[t]
    <2>1. r = None
      BY <1>4, <1>6, <1>9 DEF ScopeSteeringStates
    <2> QED
      BY <1>1, <1>9, <2>1 DEF Promise!Next, Promise!Resume
  <1>10. CASE state[t] \in ScopeSteeringStates /\ s = "BRIEFING"
    BY <1>1, <1>6, <1>10, UnderwayIs DEF Promise!Next, Promise!Rescope
  <1>11. CASE <<state[t], s>> \in Promise!Steps
    <2>1. s \in Promise!Underway \cup {"HANDED_OFF"} /\ r = None
      BY <1>6, <1>11 DEF Promise!Steps, Promise!Underway
    <2> QED
      BY <1>1, <1>11, <2>1 DEF Promise!Next, Promise!Proceed
  <1> QED
    BY <1>2, <1>5, <1>7, <1>8, <1>9, <1>10, <1>11 DEF LegalLifecycleEdge, Promise!Steps

\* The engine keeps TaskPromise: what commands, repeated, late or refused, do to a task are
\* the edges every other part relies on (evaluate_task_transition, _transition_task).
THEOREM PromiseIsKept == Spec => TaskKeepsPromise
  <1>1. Init => Promise!Init
    BY DEF Init, Promise!Init
  <1>2. IInv /\ [Next]_vars => [Promise!Next]_(Promise!promise)
    <2> SUFFICES ASSUME IInv, [Next]_vars, ~UNCHANGED <<state, resume>> PROVE Promise!Next
      BY DEF Promise!promise
    <2>1. ASSUME NEW c \in inflight, NEW grant \in BOOLEAN,
                 NEW head \in Heads \cup {None}, Deliver(c, grant, head)
          PROVE  Promise!Next
      BY <2>1, DeliverPromised
    <2> QED
      BY <2>1 DEF Next, Issue, Forget, StoreBrief, BindContract, vars
  <1> QED
    BY <1>1, <1>2, Invariant, PTL DEF Spec, TaskKeepsPromise, Promise!Spec

=============================================================================
