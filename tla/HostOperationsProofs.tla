------------------------- MODULE HostOperationsProofs -------------------------
(***************************************************************************)
(* Proofs about the host agent's journal and guard: for any number of      *)
(* leases, requests, connections and restarts an effect happens at most    *)
(* once, the journal tells the truth about it, a guarded effect keeps its  *)
(* lease, and every answer passes the gateway's check.                     *)
(*                                                                         *)
(* The invariant ties a working thread to the one reservation it holds:    *)
(* from Reserve to its answer a thread owns a RUNNING row that no other    *)
(* thread works on, and how far it is says whether the effect happened.    *)
(***************************************************************************)
EXTENDS HostOperations, TLAPS

Working == {"reserved", "guarded", "performed", "watching", "watched", "finishing"}

Busy(c) == thread[c].stage \in Working

\* A thread that is past reception has a request.
HasRequest(c) == thread[c].stage # "idle" => thread[c].msg \in Messages

\* A working thread owns a reservation made for its request.
OwnsRow(c) ==
    Busy(c) => /\ receipts[thread[c].msg.id] = thread[c].msg
               /\ Row(c).state = "RUNNING"
               /\ Row(c).content = thread[c].msg.content

\* Where a thread is says whether its effect happened.
Progress(c) ==
    /\ thread[c].stage \in {"reserved", "guarded"} => effects[Job(c)][Op(c)] = 0
    /\ thread[c].stage \in {"received", "reserved"} => ~thread[c].attempted
    /\ thread[c].stage \in {"performed", "watching", "watched"} =>
          effects[Job(c)][Op(c)] = 1 /\ thread[c].attempted
    /\ thread[c].stage = "finishing" =>
          /\ thread[c].status \in {"OK", "REJECTED"}
          /\ thread[c].status = "OK" /\ Works(c) # "read" => effects[Job(c)][Op(c)] = 1
          /\ thread[c].status = "REJECTED" => effects[Job(c)][Op(c)] = 0

\* A thread under the guard is in it alone, and its lease is the newest.
HoldsGuard(c) ==
    thread[c].stage \in {"guarded", "performed"} =>
        guard[Job(c)] = c /\ fences[Job(c)].token = thread[c].msg.token

\* An answer agrees with the journal and passes the gateway's check.
Accepted(c) ==
    thread[c].stage = "answered" =>
        /\ thread[c].status = "OK" => thread[c].executed # None
        /\ thread[c].executed # None =>
              /\ thread[c].executed <= thread[c].msg.token
              /\ ~thread[c].replayed => thread[c].executed = thread[c].msg.token
              /\ Row(c) = [state |-> IF thread[c].status = "OK" THEN "SUCCEEDED" ELSE "FAILED",
                           content |-> thread[c].msg.content, token |-> thread[c].executed]

Fits(c) == HasRequest(c) /\ OwnsRow(c) /\ Progress(c) /\ HoldsGuard(c) /\ Accepted(c)

\* No two threads work on the same operation.
Alone(c, d) == Busy(c) /\ Busy(d) /\ Job(c) = Job(d) /\ Op(c) = Op(d) => c = d

\* A row tells the truth about its effect, and its result names a lease the fence of
\* the job has not fallen behind.
True(j, o) ==
    /\ effects[j][o] <= 1
    /\ operations[j][o].state = "SUCCEEDED" /\ Kind[o] # "read" => effects[j][o] = 1
    /\ operations[j][o].state \in {"ABSENT", "FAILED"} => effects[j][o] = 0
    /\ operations[j][o].state \in {"SUCCEEDED", "FAILED"} =>
          operations[j][o].token \in Tokens /\ operations[j][o].token <= fences[j].token

\* What was delivered for a request is the final result of its operation.
Delivered(i) ==
    deliveries[i] # None =>
        /\ receipts[i] \in Messages
        /\ deliveries[i] = operations[JobOf[receipts[i].token]][receipts[i].op]
        /\ deliveries[i].state \in {"SUCCEEDED", "FAILED"}

IInv ==
    /\ TypeOK
    /\ \A c \in Threads : Fits(c)
    /\ \A c, d \in Threads : Alone(c, d)
    /\ \A j \in Jobs, o \in Ops : True(j, o)
    /\ \A i \in Ids : Delivered(i)

-----------------------------------------------------------------------------
(* Threads and their positions *)

\* A request names a lease of a job, an operation and an id.
LEMMA RequestFacts ==
    ASSUME NEW m \in Messages
    PROVE  /\ m.id \in Ids /\ m.token \in Tokens /\ m.ext \in 1 .. MaxExt
           /\ m.op \in Ops /\ m.content \in Contents
           /\ JobOf[m.token] \in Jobs /\ m.token \in Nat
  BY HostAssumption DEF Messages

\* What a position is after an answer, a result, or a change of stage or mark.
LEMMA PositionFacts ==
    ASSUME NEW r \in Positions, NEW status \in {"OK", "REJECTED", "AMBIGUOUS", None},
           NEW replayed \in BOOLEAN, NEW executed \in Tokens \cup {None},
           NEW stage \in Stages, NEW attempted \in BOOLEAN
    PROVE  /\ [r EXCEPT !.stage = "answered", !.status = status, !.replayed = replayed,
                        !.executed = executed] \in Positions
           /\ [r EXCEPT !.stage = stage, !.status = status] \in Positions
           /\ [r EXCEPT !.stage = stage, !.attempted = attempted] \in Positions
           /\ [r EXCEPT !.stage = stage] \in Positions
           /\ [r EXCEPT !.attempted = attempted] \in Positions
  <1>1. [r EXCEPT !.stage = "answered", !.status = status, !.replayed = replayed,
                  !.executed = executed] \in Positions
    BY DEF Positions, Stages
  <1>2. [r EXCEPT !.stage = stage, !.status = status] \in Positions
    BY DEF Positions
  <1>3. [r EXCEPT !.stage = stage, !.attempted = attempted] \in Positions
    BY DEF Positions
  <1>4. /\ [r EXCEPT !.stage = stage] \in Positions
        /\ [r EXCEPT !.attempted = attempted] \in Positions
    BY DEF Positions
  <1> QED
    BY <1>1, <1>2, <1>3, <1>4

\* Thread c goes to position r, and only it.
Moves(c, r) ==
    /\ thread' = [thread EXCEPT ![c] = r]
    /\ thread' \in [Threads -> Positions]
    /\ thread'[c] = r
    /\ \A d \in Threads \ {c} : thread'[d] = thread[d]

\* Assigning a position moves a thread.
LEMMA MoveFacts ==
    ASSUME TypeOK, NEW c \in Threads, NEW r \in Positions,
           thread' = [thread EXCEPT ![c] = r]
    PROVE  Moves(c, r)
  BY DEF Moves, TypeOK

\* An answer moves the thread to its end.
LEMMA AnswerMoves ==
    ASSUME TypeOK, NEW c \in Threads, NEW status \in {"OK", "REJECTED", "AMBIGUOUS"},
           NEW replayed \in BOOLEAN, NEW executed \in Tokens \cup {None},
           Answer(c, status, replayed, executed)
    PROVE  \E r \in Positions : /\ Moves(c, r)
                                /\ r.stage = "answered" /\ r.msg = thread[c].msg
                                /\ r.status = status /\ r.replayed = replayed
                                /\ r.executed = executed
  <1> DEFINE r == [thread[c] EXCEPT !.stage = "answered", !.status = status,
                                    !.replayed = replayed, !.executed = executed]
  <1>1. thread[c] \in Positions
    BY DEF TypeOK
  <1>2. r \in Positions
    <2>1. status \in {"OK", "REJECTED", "AMBIGUOUS", None}
      OBVIOUS
    <2>2. "answered" \in Stages /\ TRUE \in BOOLEAN
      BY DEF Stages
    <2> QED
      BY <1>1, <2>1, <2>2, PositionFacts
  <1>3. thread' = [thread EXCEPT ![c] = r]
    BY DEF Answer
  <1>4. Moves(c, r)
    BY <1>2, <1>3, MoveFacts
  <1>5. /\ r.stage = "answered" /\ r.msg = thread[c].msg
        /\ r.status = status /\ r.replayed = replayed
        /\ r.executed = executed
    BY <1>1 DEF Positions
  <1> HIDE DEF r
  <1> QED
    BY <1>2, <1>4, <1>5

\* A result moves the thread to finishing.
LEMMA ResultMoves ==
    ASSUME TypeOK, NEW c \in Threads, NEW status \in {"OK", "REJECTED"}, Result(c, status)
    PROVE  \E r \in Positions : /\ Moves(c, r)
                                /\ r.stage = "finishing" /\ r.msg = thread[c].msg
                                /\ r.status = status
  <1> DEFINE r == [thread[c] EXCEPT !.stage = "finishing", !.status = status]
  <1>1. thread[c] \in Positions
    BY DEF TypeOK
  <1>2. r \in Positions
    BY <1>1, PositionFacts DEF Stages
  <1>3. thread' = [thread EXCEPT ![c] = r]
    BY DEF Result
  <1>4. Moves(c, r)
    BY <1>2, <1>3, MoveFacts
  <1>5. r.stage = "finishing" /\ r.msg = thread[c].msg /\ r.status = status
    BY <1>1 DEF Positions
  <1> HIDE DEF r
  <1> QED
    BY <1>2, <1>4, <1>5

\* A change of stage and mark keeps the request.
LEMMA StageMoves ==
    ASSUME TypeOK, NEW c \in Threads, NEW stage \in Stages, NEW attempted \in BOOLEAN,
           \/ thread' = [thread EXCEPT ![c].stage = stage] /\ attempted = thread[c].attempted
           \/ thread' = [thread EXCEPT ![c].stage = stage, ![c].attempted = attempted]
           \/ thread' = [thread EXCEPT ![c].attempted = attempted] /\ stage = thread[c].stage
    PROVE  \E r \in Positions : /\ Moves(c, r)
                                /\ r.stage = stage /\ r.msg = thread[c].msg
                                /\ r.attempted = attempted
  <1> DEFINE r == [thread[c] EXCEPT !.stage = stage, !.attempted = attempted]
  <1>1. thread[c] \in Positions
    BY DEF TypeOK
  <1>2. r \in Positions
    BY <1>1, PositionFacts
  <1>3. thread' = [thread EXCEPT ![c] = r]
    <2>1. r = [thread[c] EXCEPT !.stage = stage] \/ attempted # thread[c].attempted
      BY <1>1 DEF Positions
    <2>2. r = [thread[c] EXCEPT !.attempted = attempted] \/ stage # thread[c].stage
      BY <1>1 DEF Positions
    <2> QED
      BY <2>1, <2>2
  <1>4. Moves(c, r)
    BY <1>2, <1>3, MoveFacts
  <1>5. r.stage = stage /\ r.msg = thread[c].msg /\ r.attempted = attempted
    BY <1>1 DEF Positions
  <1> HIDE DEF r
  <1> QED
    BY <1>2, <1>4, <1>5

-----------------------------------------------------------------------------
(* Steps of one thread that leave the journal alone *)

\* Thread c goes to r; it does not take up work, it enters or leaves the guard of its
\* job only if no other thread is inside, and it may start its own effect.
ThreadStep(c, r) ==
    /\ Moves(c, r)
    /\ UNCHANGED <<passed, journal>>
    /\ r.stage \in Working => Busy(c) /\ r.msg = thread[c].msg
    /\ \/ guard' = guard
       \/ /\ thread[c].msg \in Messages
          /\ guard[Job(c)] \in {None, c}
          /\ \E v \in {None, c} : guard' = [guard EXCEPT ![Job(c)] = v]
    /\ \/ effects' = effects
       \/ Busy(c) /\ effects[Job(c)][Op(c)] = 0 /\ Started(c)

\* What a working thread works on exists.
LEMMA BusyFacts ==
    ASSUME IInv, NEW c \in Threads, thread[c].stage # "idle"
    PROVE  /\ thread[c].msg \in Messages /\ thread[c].msg.token \in Tokens
           /\ thread[c].msg.id \in Ids /\ Job(c) \in Jobs /\ Op(c) \in Ops
           /\ thread[c].msg.token \in Nat
  <1>1. thread[c].msg \in Messages
    BY DEF IInv, Fits, HasRequest
  <1> QED
    BY <1>1, RequestFacts DEF Job, Op

\* Starting an effect counts it, and only it.
LEMMA StartFacts ==
    ASSUME IInv, NEW c \in Threads, Busy(c), Started(c)
    PROVE  /\ effects' \in [Jobs -> [Ops -> Nat]]
           /\ effects'[Job(c)][Op(c)] = effects[Job(c)][Op(c)] + 1
           /\ \A j \in Jobs, o \in Ops :
                 j # Job(c) \/ o # Op(c) => effects'[j][o] = effects[j][o]
  <1>1. Job(c) \in Jobs /\ Op(c) \in Ops
    BY BusyFacts DEF Busy, Working
  <1>2. effects \in [Jobs -> [Ops -> Nat]]
    BY DEF IInv, TypeOK
  <1>3. effects[Job(c)] \in [Ops -> Nat]
    BY <1>1, <1>2
  <1> DEFINE e == [effects[Job(c)] EXCEPT ![Op(c)] = @ + 1]
  <1>4. e \in [Ops -> Nat] /\ e[Op(c)] = effects[Job(c)][Op(c)] + 1
        /\ \A o \in Ops : o # Op(c) => e[o] = effects[Job(c)][o]
    BY <1>1, <1>3
  <1>5. effects' = [effects EXCEPT ![Job(c)] = e]
    BY DEF Started
  <1> HIDE DEF e
  <1> QED
    BY <1>1, <1>2, <1>4, <1>5

\* Such a step keeps the invariant if its thread still fits.
LEMMA ThreadSteps ==
    ASSUME IInv, NEW c \in Threads, NEW r \in Positions, ThreadStep(c, r), Fits(c)'
    PROVE  IInv'
  <1>1. /\ \A d \in Threads \ {c} : thread'[d] = thread[d]
        /\ thread'[c] = r /\ thread' \in [Threads -> Positions]
        /\ fences' = fences /\ operations' = operations /\ receipts' = receipts
        /\ deliveries' = deliveries /\ passed' = passed
    BY DEF ThreadStep, Moves, journal
  <1>2. TypeOK
    BY DEF IInv
  <1>3. /\ effects' \in [Jobs -> [Ops -> Nat]]
        /\ \A j \in Jobs, o \in Ops : effects'[j][o] # effects[j][o] =>
              /\ Busy(c) /\ j = Job(c) /\ o = Op(c)
              /\ effects[j][o] = 0 /\ effects'[j][o] = 1
    <2>1. CASE effects' = effects
      BY <2>1, <1>2 DEF TypeOK
    <2>2. CASE Busy(c) /\ effects[Job(c)][Op(c)] = 0 /\ Started(c)
      BY <2>2, StartFacts
    <2> QED
      BY <2>1, <2>2 DEF ThreadStep
  <1>4. /\ guard' \in [Jobs -> Threads \cup {None}]
        /\ \A j \in Jobs : guard'[j] # guard[j] => guard[j] \in {None, c}
    <2>1. CASE guard' = guard
      BY <2>1, <1>2 DEF TypeOK
    <2>2. ASSUME thread[c].msg \in Messages, guard[Job(c)] \in {None, c},
                 NEW v \in {None, c}, guard' = [guard EXCEPT ![Job(c)] = v]
          PROVE  <1>4
      BY <2>2, <1>2 DEF TypeOK
    <2> QED
      BY <2>1, <2>2 DEF ThreadStep
  <1>5. TypeOK'
    BY <1>1, <1>2, <1>3, <1>4 DEF TypeOK
  <1>6. \A d \in Threads : Fits(d)'
    <2> SUFFICES ASSUME NEW d \in Threads, d # c PROVE Fits(d)'
      OBVIOUS
    <2>1. thread'[d] = thread[d] /\ Fits(d)
      BY <1>1 DEF IInv
    <2>2. HasRequest(d)' /\ OwnsRow(d)' /\ Accepted(d)'
      BY <1>1, <2>1 DEF Fits, HasRequest, OwnsRow, Accepted, Busy, Row, Job, Op
    <2>3. Progress(d)'
      <3>1. CASE ~Busy(d)
        BY <2>1, <3>1 DEF Fits, Progress, Busy, Working
      <3>2. CASE Busy(d)
        <4>1. Job(d) \in Jobs /\ Op(d) \in Ops
          BY <3>2, BusyFacts DEF Busy, Working
        <4>2. effects'[Job(d)][Op(d)] = effects[Job(d)][Op(d)]
          BY <1>3, <3>2, <4>1 DEF IInv, Alone
        <4> QED
          BY <2>1, <4>2 DEF Fits, Progress, Job, Op, Works
      <3> QED
        BY <3>1, <3>2
    <2>4. HoldsGuard(d)'
      <3> SUFFICES ASSUME thread[d].stage \in {"guarded", "performed"}
                   PROVE  guard'[Job(d)] = d /\ fences[Job(d)].token = thread[d].msg.token
        BY <1>1, <2>1 DEF HoldsGuard, Job
      <3>1. Job(d) \in Jobs
        BY BusyFacts
      <3> QED
        BY <1>4, <2>1, <3>1, HostAssumption DEF Fits, HoldsGuard
    <2> QED
      BY <2>2, <2>3, <2>4 DEF Fits
  <1>7. \A d, e \in Threads : Alone(d, e)'
    <2>1. \A d \in Threads : Busy(d)' => Busy(d) /\ Job(d)' = Job(d) /\ Op(d)' = Op(d)
      BY <1>1 DEF ThreadStep, Busy, Job, Op
    <2> QED
      BY <2>1 DEF IInv, Alone
  <1>8. \A j \in Jobs, o \in Ops : True(j, o)'
    <2> SUFFICES ASSUME NEW j \in Jobs, NEW o \in Ops PROVE True(j, o)'
      OBVIOUS
    <2>1. True(j, o)
      BY DEF IInv
    <2>2. CASE effects'[j][o] = effects[j][o]
      BY <1>1, <2>1, <2>2 DEF True
    <2>3. CASE effects'[j][o] # effects[j][o]
      <3>1. operations[j][o].state = "RUNNING" /\ effects'[j][o] = 1
        BY <1>3, <2>3 DEF IInv, Fits, OwnsRow, Row
      <3> QED
        BY <1>1, <3>1 DEF True
    <2> QED
      BY <2>2, <2>3
  <1>9. \A i \in Ids : Delivered(i)'
    BY <1>1 DEF IInv, Delivered
  <1> QED
    BY <1>5, <1>6, <1>7, <1>8, <1>9 DEF IInv

-----------------------------------------------------------------------------
(* Steps of one thread that change the journal *)

\* Thread c goes to r and changes no more of the journal than the fence of its job and
\* a row that is not final and that no other thread works on.
JournalStep(c, r) ==
    /\ Moves(c, r)
    /\ r.msg = thread[c].msg
    /\ UNCHANGED <<passed, guard, effects>>
    /\ guard[Job(c)] = None
    /\ \A j \in Jobs : fences'[j].token >= fences[j].token
    /\ \A j \in Jobs \ {Job(c)} : fences'[j] = fences[j]
    /\ \A i \in Ids : receipts[i] \in Messages => receipts'[i] = receipts[i]
    /\ \A j \in Jobs, o \in Ops : operations'[j][o] # operations[j][o] =>
          /\ j = Job(c) /\ o = Op(c)
          /\ operations[j][o].state \in {"ABSENT", "RUNNING"}
          /\ \A d \in Threads \ {c} : Busy(d) => j # Job(d) \/ o # Op(d)

\* Such a step is nothing to the other threads.
LEMMA OthersFit ==
    ASSUME IInv, NEW c \in Threads, NEW r \in Positions, JournalStep(c, r)
    PROVE  \A d \in Threads \ {c} : Fits(d)'
  <1> SUFFICES ASSUME NEW d \in Threads \ {c} PROVE Fits(d)'
    OBVIOUS
  <1>1. thread'[d] = thread[d] /\ Fits(d)
    BY DEF IInv, JournalStep, Moves
  <1>2. CASE thread[d].stage = "idle"
    BY <1>1, <1>2 DEF Fits, HasRequest, OwnsRow, Progress, HoldsGuard, Accepted, Busy, Working
  <1>3. CASE thread[d].stage # "idle"
    <2>1. /\ thread[d].msg \in Messages /\ Job(d) \in Jobs /\ Op(d) \in Ops
          /\ thread[d].msg.id \in Ids
      BY <1>3, BusyFacts
    <2>2. Job(d)' = Job(d) /\ Op(d)' = Op(d) /\ Works(d)' = Works(d) /\ (Busy(d)' <=> Busy(d))
      BY <1>1 DEF Job, Op, Works, Busy
    <2>3. HasRequest(d)'
      BY <1>1, <2>1 DEF HasRequest
    <2>4. OwnsRow(d)'
      <3> SUFFICES ASSUME Busy(d)
                   PROVE  /\ receipts'[thread[d].msg.id] = thread[d].msg
                          /\ operations'[Job(d)][Op(d)] = operations[Job(d)][Op(d)]
        BY <1>1, <2>2 DEF Fits, OwnsRow, Row
      <3>1. receipts[thread[d].msg.id] = thread[d].msg
        BY <1>1 DEF Fits, OwnsRow
      <3> QED
        BY <2>1, <3>1 DEF JournalStep
    <2>5. Progress(d)'
      BY <1>1, <2>2 DEF Fits, Progress, JournalStep
    <2>6. HoldsGuard(d)'
      <3> SUFFICES ASSUME thread[d].stage \in {"guarded", "performed"}
                   PROVE  fences'[Job(d)] = fences[Job(d)]
        BY <1>1, <2>2 DEF Fits, HoldsGuard, JournalStep
      <3>1. guard[Job(d)] = d
        BY <1>1 DEF Fits, HoldsGuard
      <3> QED
        BY <2>1, <3>1, HostAssumption DEF JournalStep
    <2>7. Accepted(d)'
      <3> SUFFICES ASSUME thread[d].stage = "answered", thread[d].executed # None
                   PROVE  operations'[Job(d)][Op(d)] = operations[Job(d)][Op(d)]
        BY <1>1, <2>2 DEF Fits, Accepted, Row
      <3>1. Row(d).state \in {"SUCCEEDED", "FAILED"}
        BY <1>1 DEF Fits, Accepted
      <3> QED
        BY <2>1, <3>1 DEF JournalStep, Row
    <2> QED
      BY <2>3, <2>4, <2>5, <2>6, <2>7 DEF Fits
  <1> QED
    BY <1>2, <1>3

\* A row that does not change stays true: fences only rise.
LEMMA TrueKept ==
    ASSUME IInv, TypeOK', NEW j \in Jobs, NEW o \in Ops,
           operations'[j][o] = operations[j][o], effects' = effects,
           fences'[j].token >= fences[j].token
    PROVE  True(j, o)'
  <1>1. True(j, o)
    BY DEF IInv
  <1>2. fences[j].token \in Nat /\ fences'[j].token \in Nat /\ Tokens \subseteq Nat
    <2>1. fences \in [Jobs -> [token : Tokens \cup {0}, ext : 0 .. MaxExt]]
      BY DEF IInv, TypeOK
    <2>2. fences' \in [Jobs -> [token : Tokens \cup {0}, ext : 0 .. MaxExt]]
      BY DEF TypeOK
    <2>3. Tokens \cup {0} \subseteq Nat
      BY HostAssumption
    <2> QED
      BY <2>1, <2>2, <2>3
  <1>3. operations[j][o].token \in Tokens => operations[j][o].token \in Nat
    BY <1>2
  <1> QED
    BY <1>1, <1>2, <1>3 DEF True

\* It keeps the invariant if its thread fits, its row and its delivery are true, and
\* a thread that takes up work has the row for itself.
LEMMA JournalSteps ==
    ASSUME IInv, NEW c \in Threads, NEW r \in Positions, JournalStep(c, r), TypeOK',
           thread[c].stage # "idle",
           Fits(c)', True(Job(c), Op(c))',
           r.stage \in Working =>
              \A d \in Threads \ {c} : Busy(d) => Job(c) # Job(d) \/ Op(c) # Op(d),
           \A i \in Ids : deliveries'[i] # deliveries[i] => Delivered(i)'
    PROVE  IInv'
  <1>1. Job(c)' = Job(c) /\ Op(c)' = Op(c)
    BY DEF JournalStep, Moves, Job, Op
  <1>2. \A d \in Threads : Fits(d)'
    BY OthersFit
  <1>3. \A d, e \in Threads : Alone(d, e)'
    <2>1. thread'[c] = r /\ \A d \in Threads \ {c} : thread'[d] = thread[d]
      BY DEF JournalStep, Moves
    <2>2. \A d \in Threads \ {c} :
             /\ Busy(d)' <=> Busy(d)
             /\ Job(d)' = Job(d) /\ Op(d)' = Op(d)
      BY <2>1 DEF Busy, Job, Op
    <2>3. Busy(c)' => /\ Job(c)' = Job(c) /\ Op(c)' = Op(c)
                      /\ \A d \in Threads \ {c} : Busy(d) => Job(c) # Job(d) \/ Op(c) # Op(d)
      BY <1>1, <2>1 DEF Busy
    <2> QED
      BY <2>2, <2>3 DEF IInv, Alone
  <1>4. \A j \in Jobs, o \in Ops : True(j, o)'
    <2> SUFFICES ASSUME NEW j \in Jobs, NEW o \in Ops, j # Job(c) \/ o # Op(c)
                 PROVE  True(j, o)'
      BY <1>1
    <2>1. /\ operations'[j][o] = operations[j][o] /\ effects' = effects
          /\ fences'[j].token >= fences[j].token
      BY DEF JournalStep
    <2> QED
      BY <2>1, TrueKept
  <1>5. \A i \in Ids : Delivered(i)'
    <2> SUFFICES ASSUME NEW i \in Ids, deliveries'[i] = deliveries[i], deliveries[i] # None
                 PROVE  Delivered(i)'
      BY DEF Delivered
    <2>1. Delivered(i) /\ receipts[i] \in Messages /\ receipts'[i] = receipts[i]
      BY DEF IInv, Delivered, JournalStep
    <2> DEFINE j == JobOf[receipts[i].token]
               o == receipts[i].op
    <2>2. j \in Jobs /\ o \in Ops
      BY <2>1, RequestFacts
    <2>3. operations'[j][o] = operations[j][o]
      BY <2>1, <2>2 DEF Delivered, JournalStep
    <2> QED
      BY <2>1, <2>3 DEF Delivered
  <1> QED
    BY <1>2, <1>3, <1>4, <1>5 DEF IInv

-----------------------------------------------------------------------------
(* Each action keeps the invariant *)

\* The guard of the thread's job stays, is entered by the thread, or is left by it.
GuardStep(c) ==
    \/ guard' = guard
    \/ /\ guard[Job(c)] \in {None, c}
       /\ \E v \in {None, c} : guard' = [guard EXCEPT ![Job(c)] = v]

\* A thread under the guard may leave it.
LEMMA LeaveFacts ==
    ASSUME IInv, NEW c \in Threads, thread[c].stage \in {"guarded", "performed"}, Freed(c)
    PROVE  GuardStep(c)
  <1>1. guard[Job(c)] = c
    BY DEF IInv, Fits, HoldsGuard
  <1> QED
    BY <1>1 DEF GuardStep, Freed

\* An answer without a result: a refusal or an ambiguous outcome.
LEMMA NoResultSteps ==
    ASSUME IInv, NEW c \in Threads, NEW status \in {"REJECTED", "AMBIGUOUS"},
           thread[c].stage # "idle", Answer(c, status, FALSE, None),
           GuardStep(c), UNCHANGED <<passed, journal, effects>>
    PROVE  IInv'
  <1>1. PICK r \in Positions : /\ Moves(c, r)
                               /\ r.stage = "answered" /\ r.msg = thread[c].msg
                               /\ r.status = status /\ r.executed = None
    <2>1. PICK replayed \in BOOLEAN : replayed = FALSE
      OBVIOUS
    <2>2. Answer(c, status, replayed, None)
      BY <2>1
    <2>3. status \in {"OK", "REJECTED", "AMBIGUOUS"} /\ None \in Tokens \cup {None} /\ TypeOK
      BY DEF IInv
    <2> QED
      BY <2>2, <2>3, AnswerMoves
  <1>2. thread[c].msg \in Messages
    BY BusyFacts
  <1>3. ThreadStep(c, r)
    <2>1. r.stage \notin Working
      BY <1>1 DEF Working
    <2> QED
      BY <1>1, <1>2, <2>1 DEF ThreadStep, GuardStep
  <1>4. Fits(c)'
    <2>1. thread'[c] = r
      BY <1>1 DEF Moves
    <2> QED
      BY <1>1, <1>2, <2>1 DEF Fits, HasRequest, OwnsRow, Progress, HoldsGuard, Accepted,
                              Busy, Working
  <1> QED
    BY <1>3, <1>4, ThreadSteps

\* A result of a handler that agrees with what happened.
LEMMA ResultSteps ==
    ASSUME IInv, NEW c \in Threads, NEW status \in {"OK", "REJECTED"}, Busy(c),
           Result(c, status),
           status = "OK" /\ Works(c) # "read" => effects[Job(c)][Op(c)] = 1,
           status = "REJECTED" => effects[Job(c)][Op(c)] = 0,
           GuardStep(c), UNCHANGED <<passed, journal, effects>>
    PROVE  IInv'
  <1>1. PICK r \in Positions : /\ Moves(c, r)
                               /\ r.stage = "finishing" /\ r.msg = thread[c].msg
                               /\ r.status = status
    BY ResultMoves DEF IInv
  <1>2. thread[c].msg \in Messages
    BY BusyFacts DEF Busy, Working
  <1>3. ThreadStep(c, r)
    BY <1>1, <1>2 DEF ThreadStep, GuardStep, Working
  <1>4. Fits(c)'
    <2>1. thread'[c] = r
      BY <1>1 DEF Moves
    <2>2. Fits(c)
      BY DEF IInv
    <2>3. Job(c)' = Job(c) /\ Op(c)' = Op(c) /\ Works(c)' = Works(c) /\ Row(c)' = Row(c)
      BY <1>1, <2>1 DEF Job, Op, Works, Row, journal
    <2>4. OwnsRow(c)'
      BY <1>1, <2>1, <2>2, <2>3 DEF Fits, OwnsRow, journal
    <2>5. Progress(c)'
      BY <1>1, <2>1, <2>3 DEF Progress
    <2> QED
      BY <1>1, <1>2, <2>1, <2>4, <2>5 DEF Fits, HasRequest, HoldsGuard, Accepted
  <1> QED
    BY <1>3, <1>4, ThreadSteps

\* A handler that fails.
LEMMA FailedSteps ==
    ASSUME IInv, NEW c \in Threads, Busy(c), thread[c].stage # "finishing", Failed(c),
           GuardStep(c), UNCHANGED <<passed, journal, effects>>
    PROVE  IInv'
  <1>1. CASE thread[c].attempted
    <2>1. Answer(c, "AMBIGUOUS", FALSE, None)
      BY <1>1 DEF Failed
    <2> QED
      BY <2>1, NoResultSteps DEF Busy, Working
  <1>2. CASE ~thread[c].attempted
    <2>1. Result(c, "REJECTED")
      BY <1>2 DEF Failed
    <2>2. effects[Job(c)][Op(c)] = 0
      BY <1>2 DEF IInv, Fits, Progress, Busy, Working
    <2> QED
      BY <2>1, <2>2, ResultSteps
  <1> QED
    BY <1>1, <1>2

\* A handler that goes on, maybe starting its effect or entering or leaving the guard.
LEMMA StageSteps ==
    ASSUME IInv, NEW c \in Threads, Busy(c),
           NEW stage \in Working \ {"reserved", "finishing"}, NEW attempted \in BOOLEAN,
           \/ thread' = [thread EXCEPT ![c].stage = stage] /\ attempted = thread[c].attempted
           \/ thread' = [thread EXCEPT ![c].stage = stage, ![c].attempted = attempted]
           \/ thread' = [thread EXCEPT ![c].attempted = attempted] /\ stage = thread[c].stage,
           GuardStep(c), UNCHANGED <<passed, journal>>,
           stage = "guarded" => effects' = effects /\ effects[Job(c)][Op(c)] = 0,
           stage # "guarded" =>
              /\ attempted
              /\ \/ effects' = effects /\ effects[Job(c)][Op(c)] = 1
                 \/ effects[Job(c)][Op(c)] = 0 /\ Started(c),
           stage \in {"guarded", "performed"} =>
              guard'[Job(c)] = c /\ fences[Job(c)].token = thread[c].msg.token
    PROVE  IInv'
  <1>1. stage \in Stages /\ TypeOK
    BY DEF Working, Stages, IInv
  <1>2. PICK r \in Positions : /\ Moves(c, r)
                               /\ r.stage = stage /\ r.msg = thread[c].msg
                               /\ r.attempted = attempted
    BY <1>1, StageMoves
  <1>3. thread[c].msg \in Messages
    BY BusyFacts DEF Busy, Working
  <1>4. ThreadStep(c, r)
    BY <1>2, <1>3 DEF ThreadStep, GuardStep
  <1>5. Fits(c)'
    <2>1. thread'[c] = r
      BY <1>2 DEF Moves
    <2>2. Fits(c)
      BY DEF IInv
    <2>3. Job(c)' = Job(c) /\ Op(c)' = Op(c) /\ Works(c)' = Works(c) /\ Row(c)' = Row(c)
      BY <1>2, <2>1 DEF Job, Op, Works, Row, journal
    <2>4. OwnsRow(c)'
      BY <1>2, <2>1, <2>2, <2>3 DEF Fits, OwnsRow, journal
    <2>5. effects'[Job(c)][Op(c)] = IF stage = "guarded" THEN 0 ELSE 1
      BY StartFacts
    <2>6. Progress(c)'
      BY <1>2, <2>1, <2>3, <2>5 DEF Progress, Working
    <2>7. HoldsGuard(c)'
      BY <1>2, <2>1, <2>3 DEF HoldsGuard, journal
    <2> QED
      BY <1>2, <1>3, <2>1, <2>4, <2>6, <2>7 DEF Fits, HasRequest, Accepted, Working
  <1> QED
    BY <1>4, <1>5, ThreadSteps

\* Every step of a handler.
LEMMA HandleSteps ==
    ASSUME IInv, NEW c \in Threads, Handle(c)
    PROVE  IInv'
  <1>1. Fits(c)
    BY DEF IInv
  <1>2. CASE Read(c)
    <2>1. PICK status \in {"OK", "REJECTED"} : Result(c, status)
      BY <1>2 DEF Read
    <2>2. Busy(c) /\ effects[Job(c)][Op(c)] = 0 /\ Works(c) = "read"
      BY <1>1, <1>2 DEF Read, Busy, Working, Fits, Progress
    <2> QED
      BY <1>2, <2>1, <2>2, ResultSteps DEF Read, GuardStep
  <1>3. CASE FailEarly(c)
    BY <1>3, FailedSteps DEF FailEarly, GuardStep, Busy, Working
  <1>4. CASE Enter(c)
    <2>1. Busy(c) /\ effects[Job(c)][Op(c)] = 0 /\ Job(c) \in Jobs
      BY <1>1, <1>4, BusyFacts DEF Enter, Busy, Working, Fits, Progress
    <2>2. CASE Authorized(c)
      <3> DEFINE attempted == Works(c) = "plain"
      <3>1. /\ guard' = [guard EXCEPT ![Job(c)] = c]
            /\ thread' = [thread EXCEPT ![c].stage = "guarded", ![c].attempted = attempted]
        BY <1>4, <2>2 DEF Enter, Holds
      <3>2. guard'[Job(c)] = c
        BY <2>1, <3>1 DEF IInv, TypeOK
      <3>3. GuardStep(c)
        BY <1>4, <3>1 DEF Enter, GuardStep
      <3>4. fences[Job(c)].token = thread[c].msg.token
        BY <2>2 DEF Authorized
      <3>5. UNCHANGED <<passed, journal, effects>>
        BY <1>4 DEF Enter
      <3>6. attempted \in BOOLEAN
        OBVIOUS
      <3>7. "guarded" \in Working \ {"reserved", "finishing"}
        BY DEF Working
      <3> HIDE DEF attempted
      <3> QED
        BY <2>1, <3>1, <3>2, <3>3, <3>4, <3>5, <3>6, <3>7, StageSteps
    <2>3. CASE ~Authorized(c)
      BY <1>4, <2>1, <2>3, FailedSteps DEF Enter, GuardStep
    <2> QED
      BY <2>2, <2>3
  <1>5. CASE Decline(c)
    BY <1>5, LeaveFacts, FailedSteps DEF Decline, Busy, Working
  <1>6. CASE Mark(c)
    <2>1. /\ Busy(c) /\ effects[Job(c)][Op(c)] = 0 /\ guard[Job(c)] = c
          /\ fences[Job(c)].token = thread[c].msg.token
      BY <1>1, <1>6 DEF Mark, Busy, Working, Fits, Progress, HoldsGuard
    <2>2. "guarded" \in Working \ {"reserved", "finishing"} /\ TRUE \in BOOLEAN
      BY DEF Working
    <2> QED
      BY <1>6, <2>1, <2>2, StageSteps DEF Mark, GuardStep
  <1>7. CASE Perform(c)
    <2>1. /\ Busy(c) /\ effects[Job(c)][Op(c)] = 0 /\ guard[Job(c)] = c
          /\ fences[Job(c)].token = thread[c].msg.token
      BY <1>1, <1>7 DEF Perform, Busy, Working, Fits, Progress, HoldsGuard
    <2>2. "performed" \in Working \ {"reserved", "finishing"}
      BY DEF Working
    <2>3. thread[c].attempted \in BOOLEAN /\ thread[c].attempted
      BY <1>7 DEF Perform, IInv, TypeOK, Positions
    <2> QED
      BY <1>7, <2>1, <2>2, <2>3, StageSteps DEF Perform, GuardStep
  <1>8. CASE Leave(c)
    <2>1. Busy(c) /\ effects[Job(c)][Op(c)] = 1 /\ GuardStep(c)
      BY <1>1, <1>8, LeaveFacts DEF Leave, Busy, Working, Fits, Progress
    <2>2. CASE Result(c, "OK")
      BY <1>8, <2>1, <2>2, ResultSteps DEF Leave
    <2>3. CASE Failed(c)
      BY <1>8, <2>1, <2>3, FailedSteps DEF Leave
    <2> QED
      BY <1>8, <2>2, <2>3 DEF Leave
  <1>9. CASE Launch(c)
    <2>1. Busy(c) /\ effects[Job(c)][Op(c)] = 0 /\ GuardStep(c)
      BY <1>1, <1>9, LeaveFacts DEF Launch, Busy, Working, Fits, Progress
    <2>2. "watching" \in Working \ {"reserved", "finishing"} /\ TRUE \in BOOLEAN
      BY DEF Working
    <2> QED
      BY <1>9, <2>1, <2>2, StageSteps DEF Launch
  <1>10. CASE Watch(c)
    <2>1. Busy(c) /\ effects[Job(c)][Op(c)] = 1 /\ thread[c].attempted
      BY <1>1, <1>10 DEF Watch, Busy, Working, Fits, Progress
    <2>2. "watched" \in Working \ {"reserved", "finishing"}
      BY DEF Working
    <2>3. thread[c].attempted \in BOOLEAN
      BY DEF IInv, TypeOK, Positions
    <2> QED
      BY <1>10, <2>1, <2>2, <2>3, StageSteps DEF Watch, GuardStep
  <1>11. CASE Capture(c)
    <2>1. Busy(c) /\ effects[Job(c)][Op(c)] = 1
      BY <1>1, <1>11 DEF Capture, Busy, Working, Fits, Progress
    <2>2. CASE Result(c, "OK")
      BY <1>11, <2>1, <2>2, ResultSteps DEF Capture, GuardStep
    <2>3. CASE Failed(c)
      BY <1>11, <2>1, <2>3, FailedSteps DEF Capture, GuardStep
    <2> QED
      BY <1>11, <2>2, <2>3 DEF Capture
  <1> QED
    BY <1>2, <1>3, <1>4, <1>5, <1>6, <1>7, <1>8, <1>9, <1>10, <1>11 DEF Handle

\* What begin stores of an accepted request only raises the fence of its job and never
\* overwrites a receipt.
LEMMA AdmitFacts ==
    ASSUME IInv, NEW c \in Threads, Admit(c)
    PROVE  /\ thread[c].stage = "received" /\ thread[c].msg \in Messages
           /\ guard[Job(c)] = None
           /\ fences' \in [Jobs -> [token : Tokens \cup {0}, ext : 0 .. MaxExt]]
           /\ \A j \in Jobs : fences'[j].token >= fences[j].token
           /\ \A j \in Jobs \ {Job(c)} : fences'[j] = fences[j]
           /\ fences'[Job(c)].token = thread[c].msg.token
           /\ receipts' \in [Ids -> Messages \cup {None}]
           /\ \A i \in Ids : receipts[i] \in Messages => receipts'[i] = receipts[i]
           /\ receipts'[thread[c].msg.id] = thread[c].msg
           /\ Row(c).state # "ABSENT" => Row(c).content = thread[c].msg.content
  <1> DEFINE m == thread[c].msg
             f == fences[Job(c)]
  <1>1. thread[c].stage = "received" /\ guard[Job(c)] = None
        /\ (Row(c).state # "ABSENT" => Row(c).content = m.content)
    BY DEF Admit
  <1>2. /\ m \in Messages /\ m.token \in Tokens /\ m.id \in Ids /\ Job(c) \in Jobs
        /\ m.token \in Nat /\ m.ext \in 1 .. MaxExt /\ Job(c) = JobOf[m.token]
    BY <1>1, BusyFacts, RequestFacts DEF Job
  <1> Tokens \cup {0} \subseteq Nat /\ MaxExt \in Nat
    BY HostAssumption
  <1>3. /\ fences \in [Jobs -> [token : Tokens \cup {0}, ext : 0 .. MaxExt]]
        /\ receipts \in [Ids -> Messages \cup {None}]
    BY DEF IInv, TypeOK
  <1>4. f \in [token : Tokens \cup {0}, ext : 0 .. MaxExt] /\ f.token \in Nat
    BY <1>2, <1>3
  <1>5. m.token >= f.token
    BY <1>2 DEF Admit, Admits
  <1>6. /\ Fence(m) \in [token : Tokens \cup {0}, ext : 0 .. MaxExt]
        /\ Fence(m).token = m.token
    <2>1. CASE m.token = f.token /\ m.ext < f.ext
      BY <1>2, <1>4, <2>1 DEF Fence
    <2>2. CASE ~(m.token = f.token /\ m.ext < f.ext)
      <3>1. Fence(m) = [token |-> m.token, ext |-> m.ext]
        BY <1>2, <2>2 DEF Fence
      <3>2. m.ext \in 0 .. MaxExt
        BY <1>2
      <3> QED
        BY <1>2, <3>1, <3>2
    <2> QED
      BY <2>1, <2>2
  <1>7. fences' = [fences EXCEPT ![Job(c)] = Fence(m)]
    BY DEF Admit
  <1>8. /\ fences' \in [Jobs -> [token : Tokens \cup {0}, ext : 0 .. MaxExt]]
        /\ fences'[Job(c)] = Fence(m)
        /\ \A j \in Jobs \ {Job(c)} : fences'[j] = fences[j]
    BY <1>2, <1>3, <1>6, <1>7
  <1>9. \A j \in Jobs : fences'[j].token >= fences[j].token
    <2> SUFFICES ASSUME NEW j \in Jobs, j # Job(c) PROVE fences'[j].token >= fences[j].token
      BY <1>5, <1>6, <1>8
    <2>1. fences[j].token \in Nat
      BY <1>3
    <2> QED
      BY <1>8, <2>1
  <1>10. /\ receipts' = [receipts EXCEPT ![m.id] = m]
         /\ receipts[m.id] \in {None, m}
    BY DEF Admit
  <1>11. /\ receipts' \in [Ids -> Messages \cup {None}]
         /\ receipts'[m.id] = m
         /\ \A i \in Ids : receipts[i] \in Messages => receipts'[i] = receipts[i]
    BY <1>2, <1>3, <1>10, HostAssumption
  <1> QED
    BY <1>1, <1>2, <1>6, <1>8, <1>9, <1>11

\* A request whose operation is new takes it up.
LEMMA ReserveSteps ==
    ASSUME IInv, NEW c \in Threads, Reserve(c)
    PROVE  IInv'
  <1>1. Admit(c) /\ Row(c).state = "ABSENT"
    BY DEF Reserve, Reservable
  <1>2. /\ thread[c].msg \in Messages /\ Job(c) \in Jobs /\ Op(c) \in Ops
        /\ thread[c].stage = "received" /\ thread[c].msg.content \in Contents
    BY <1>1, AdmitFacts, BusyFacts, RequestFacts
  <1>3. PICK r \in Positions : /\ Moves(c, r)
                               /\ r.stage = "reserved" /\ r.msg = thread[c].msg
                               /\ r.attempted = thread[c].attempted
    <2>1. "reserved" \in Stages /\ TypeOK
      BY DEF Stages, IInv
    <2>2. thread[c].attempted \in BOOLEAN
      BY <2>1 DEF TypeOK, Positions
    <2>3. thread' = [thread EXCEPT ![c].stage = "reserved"]
      BY DEF Reserve
    <2>4. PICK r : r = [thread[c] EXCEPT !.stage = "reserved"]
      OBVIOUS
    <2>5. thread[c] \in Positions
      BY <2>1 DEF TypeOK
    <2>6. /\ r \in Positions /\ r.stage = "reserved" /\ r.msg = thread[c].msg
          /\ r.attempted = thread[c].attempted
      BY <2>1, <2>4, <2>5 DEF Positions
    <2>7. thread' = [thread EXCEPT ![c] = r]
      BY <2>3, <2>4
    <2>8. Moves(c, r)
      BY <2>1, <2>6, <2>7, MoveFacts
    <2> QED
      BY <2>6, <2>8
  <1> DEFINE row == [state |-> "RUNNING", content |-> thread[c].msg.content, token |-> None]
  <1>4. /\ operations' \in [Jobs -> [Ops -> Rows]]
        /\ operations'[Job(c)][Op(c)] = row
        /\ \A j \in Jobs, o \in Ops : operations'[j][o] # operations[j][o] =>
              j = Job(c) /\ o = Op(c)
    <2>1. operations \in [Jobs -> [Ops -> Rows]]
      BY DEF IInv, TypeOK
    <2>2. row \in Rows
      BY <1>2 DEF Rows
    <2>3. operations' = [operations EXCEPT ![Job(c)][Op(c)] = row]
      BY DEF Reserve
    <2> HIDE DEF row
    <2> QED
      BY <1>2, <2>1, <2>2, <2>3
  <1>5. \A d \in Threads \ {c} : Busy(d) => Job(c) # Job(d) \/ Op(c) # Op(d)
    BY <1>1 DEF IInv, Fits, OwnsRow, Row
  <1>6. UNCHANGED <<passed, deliveries, guard, effects>>
    BY DEF Reserve
  <1>7. JournalStep(c, r)
    BY <1>1, <1>3, <1>4, <1>5, <1>6, AdmitFacts DEF JournalStep, Row
  <1>8. TypeOK'
    BY <1>1, <1>3, <1>4, <1>6, AdmitFacts DEF TypeOK, IInv, Moves
  <1>9. thread'[c] = r
    BY <1>3 DEF Moves
  <1>10. Job(c)' = Job(c) /\ Op(c)' = Op(c)
    BY <1>3, <1>9 DEF Job, Op
  <1>11. effects[Job(c)][Op(c)] = 0 /\ ~thread[c].attempted
    BY <1>1, <1>2 DEF IInv, True, Fits, Progress, Row
  <1>12. Fits(c)'
    <2>1. OwnsRow(c)'
      BY <1>1, <1>3, <1>4, <1>9, <1>10, AdmitFacts DEF OwnsRow, Row
    <2>2. Progress(c)'
      BY <1>3, <1>6, <1>9, <1>10, <1>11 DEF Progress
    <2> QED
      BY <1>2, <1>3, <1>9, <2>1, <2>2 DEF Fits, HasRequest, HoldsGuard, Accepted
  <1>13. True(Job(c), Op(c))'
    BY <1>4, <1>6, <1>10, <1>11 DEF True
  <1>14. \A i \in Ids : deliveries'[i] # deliveries[i] => Delivered(i)'
    BY <1>6
  <1> QED
    BY <1>2, <1>5, <1>7, <1>8, <1>12, <1>13, <1>14, JournalSteps

\* A request whose operation is finished gets the stored result.
LEMMA ReplaySteps ==
    ASSUME IInv, NEW c \in Threads, Replay(c)
    PROVE  IInv'
  <1> DEFINE m == thread[c].msg
  <1>1. Admit(c) /\ Row(c).state \in {"SUCCEEDED", "FAILED"}
    BY DEF Replay
  <1>2. /\ m \in Messages /\ Job(c) \in Jobs /\ Op(c) \in Ops /\ m.id \in Ids
        /\ thread[c].stage = "received" /\ m.token \in Nat /\ TypeOK
    BY <1>1, AdmitFacts, BusyFacts DEF IInv
  <1>3. /\ Row(c) \in Rows /\ Row(c).content = m.content
        /\ Row(c).token \in Tokens /\ Row(c).token <= fences[Job(c)].token
    <2>1. Row(c) \in Rows
      BY <1>2 DEF TypeOK, Row
    <2>2. True(Job(c), Op(c))
      BY <1>2 DEF IInv
    <2> QED
      BY <1>1, <2>1, <2>2, AdmitFacts DEF True, Row
  <1>4. (IF deliveries[m.id] # None THEN deliveries[m.id] ELSE Row(c)) = Row(c)
    <2> SUFFICES ASSUME deliveries[m.id] # None PROVE deliveries[m.id] = Row(c)
      OBVIOUS
    <2>1. Delivered(m.id)
      BY <1>2 DEF IInv
    <2>2. receipts[m.id] = m
      BY <1>1, <2>1, HostAssumption DEF Delivered, Admit
    <2> QED
      BY <2>1, <2>2 DEF Delivered, Row, Job, Op
  <1>5. /\ deliveries' = [deliveries EXCEPT ![m.id] = Row(c)]
        /\ Answer(c, Status(Row(c).state), TRUE, Row(c).token)
        /\ UNCHANGED <<passed, operations, guard, effects>>
    BY <1>4 DEF Replay
  <1>6. Status(Row(c).state) \in {"OK", "REJECTED", "AMBIGUOUS"}
    BY DEF Status
  <1>7. PICK r \in Positions : /\ Moves(c, r)
                               /\ r.stage = "answered" /\ r.msg = m
                               /\ r.status = Status(Row(c).state) /\ r.replayed
                               /\ r.executed = Row(c).token
    <2>1. PICK replayed \in BOOLEAN : replayed = TRUE
      OBVIOUS
    <2>2. PICK status \in {"OK", "REJECTED", "AMBIGUOUS"} : status = Status(Row(c).state)
      BY <1>6
    <2>3. PICK executed \in Tokens \cup {None} : executed = Row(c).token
      BY <1>3
    <2>4. Answer(c, status, replayed, executed)
      BY <1>5, <2>1, <2>2, <2>3
    <2>5. PICK r \in Positions : /\ Moves(c, r)
                                 /\ r.stage = "answered" /\ r.msg = thread[c].msg
                                 /\ r.status = status /\ r.replayed = replayed
                                 /\ r.executed = executed
      BY <1>2, <2>4, AnswerMoves
    <2> QED
      BY <2>1, <2>2, <2>3, <2>5
  <1>8. JournalStep(c, r)
    BY <1>1, <1>5, <1>7, AdmitFacts DEF JournalStep
  <1>9. TypeOK'
    <2>1. deliveries' \in [Ids -> Rows \cup {None}]
      BY <1>2, <1>3, <1>5 DEF TypeOK
    <2> QED
      BY <1>1, <1>2, <1>5, <1>7, <2>1, AdmitFacts DEF TypeOK, Moves
  <1>10. /\ thread'[c] = r /\ Job(c)' = Job(c) /\ Op(c)' = Op(c) /\ Row(c)' = Row(c)
    BY <1>5, <1>7 DEF Moves, Job, Op, Row
  <1>11. Row(c).token <= m.token /\ Row(c).token # None
    <2>1. m.token >= fences[Job(c)].token
      BY <1>1 DEF Admit, Admits, Job
    <2>2. fences[Job(c)].token \in Nat /\ Row(c).token \in Nat
      <3>1. fences[Job(c)].token \in Tokens \cup {0} /\ Tokens \cup {0} \subseteq Nat
        BY <1>2, HostAssumption DEF TypeOK
      <3> QED
        BY <1>3, <3>1
    <2> QED
      BY <1>2, <1>3, <2>1, <2>2, HostAssumption
  <1>12. Row(c) = [state |-> IF Status(Row(c).state) = "OK" THEN "SUCCEEDED" ELSE "FAILED",
                   content |-> m.content, token |-> Row(c).token]
    BY <1>1, <1>3 DEF Rows, Status
  <1>13. Fits(c)'
    <2>1. Accepted(c)'
      BY <1>7, <1>10, <1>11, <1>12 DEF Accepted
    <2> QED
      BY <1>2, <1>7, <1>10, <2>1 DEF Fits, HasRequest, OwnsRow, Progress, HoldsGuard,
                                     Busy, Working
  <1>14. True(Job(c), Op(c))'
    BY <1>1, <1>2, <1>5, <1>9, <1>10, TrueKept, AdmitFacts
  <1>15. \A i \in Ids : deliveries'[i] # deliveries[i] => Delivered(i)'
    <2> SUFFICES ASSUME NEW i \in Ids, i = m.id PROVE Delivered(i)'
      BY <1>2, <1>5 DEF TypeOK
    <2>1. deliveries'[i] = Row(c) /\ receipts'[i] = m
      BY <1>1, <1>2, <1>5, AdmitFacts DEF TypeOK
    <2>2. operations'[JobOf[m.token]][m.op] = Row(c)
      BY <1>5 DEF Row, Job, Op
    <2> QED
      BY <1>1, <1>2, <2>1, <2>2 DEF Delivered
  <1>16. r.stage \notin Working
    BY <1>7 DEF Working
  <1> QED
    BY <1>2, <1>8, <1>9, <1>13, <1>14, <1>15, <1>16, JournalSteps

\* A request whose operation is not settled leaves it alone.
LEMMA UnsettledSteps ==
    ASSUME IInv, NEW c \in Threads, Unsettled(c)
    PROVE  IInv'
  <1>1. /\ Admit(c) /\ Answer(c, "AMBIGUOUS", FALSE, None)
        /\ UNCHANGED <<passed, operations, deliveries, guard, effects>>
    BY DEF Unsettled
  <1>2. /\ thread[c].msg \in Messages /\ Job(c) \in Jobs /\ Op(c) \in Ops
        /\ thread[c].stage = "received" /\ TypeOK
    BY <1>1, AdmitFacts, BusyFacts DEF IInv
  <1>3. PICK r \in Positions : /\ Moves(c, r)
                               /\ r.stage = "answered" /\ r.msg = thread[c].msg
                               /\ r.status = "AMBIGUOUS" /\ r.executed = None
    <2>1. PICK replayed \in BOOLEAN : replayed = FALSE
      OBVIOUS
    <2>2. Answer(c, "AMBIGUOUS", replayed, None)
      BY <1>1, <2>1
    <2> QED
      BY <1>2, <2>2, AnswerMoves
  <1>4. JournalStep(c, r)
    BY <1>1, <1>3, AdmitFacts DEF JournalStep
  <1>5. TypeOK'
    BY <1>1, <1>2, <1>3, AdmitFacts DEF TypeOK, Moves
  <1>6. thread'[c] = r /\ Job(c)' = Job(c) /\ Op(c)' = Op(c) /\ r.stage \notin Working
    BY <1>3 DEF Moves, Job, Op, Working
  <1>7. Fits(c)'
    BY <1>2, <1>3, <1>6 DEF Fits, HasRequest, OwnsRow, Progress, HoldsGuard, Accepted, Busy
  <1>8. True(Job(c), Op(c))'
    BY <1>1, <1>2, <1>5, <1>6, TrueKept, AdmitFacts
  <1> QED
    BY <1>1, <1>2, <1>4, <1>5, <1>6, <1>7, <1>8, JournalSteps

\* A result is stored in the row its thread owns, and delivered to its request.
LEMMA FinishSteps ==
    ASSUME IInv, NEW c \in Threads, Finish(c)
    PROVE  IInv'
  <1> DEFINE m == thread[c].msg
             status == thread[c].status
             row == [state |-> IF status = "OK" THEN "SUCCEEDED" ELSE "FAILED",
                     content |-> m.content, token |-> m.token]
  <1>1. /\ thread[c].stage = "finishing" /\ guard[Job(c)] = None /\ Authorized(c)
        /\ Row(c).state = "RUNNING" /\ Answer(c, status, FALSE, m.token)
        /\ operations' = [operations EXCEPT ![Job(c)][Op(c)] = row]
        /\ deliveries' = [deliveries EXCEPT ![m.id] = row]
        /\ UNCHANGED <<passed, fences, receipts, guard, effects>>
    BY DEF Finish
  <1>2. /\ m \in Messages /\ Job(c) \in Jobs /\ Op(c) \in Ops /\ m.id \in Ids
        /\ m.token \in Tokens /\ m.token \in Nat /\ m.content \in Contents
        /\ TypeOK /\ Busy(c) /\ Fits(c)
    BY <1>1, BusyFacts, RequestFacts DEF IInv, Busy, Working
  <1>3. status \in {"OK", "REJECTED"}
    BY <1>1, <1>2 DEF Fits, Progress
  <1>4. row \in Rows /\ row.state \in {"SUCCEEDED", "FAILED"}
        /\ row.token = m.token /\ (row.state = "SUCCEEDED" <=> status = "OK")
    BY <1>2 DEF Rows
  <1>5. PICK r \in Positions : /\ Moves(c, r)
                               /\ r.stage = "answered" /\ r.msg = m
                               /\ r.status = status /\ r.executed = m.token
    <2>1. PICK replayed \in BOOLEAN : replayed = FALSE
      OBVIOUS
    <2>2. PICK answer \in {"OK", "REJECTED", "AMBIGUOUS"} : answer = status
      BY <1>3
    <2>3. PICK executed \in Tokens \cup {None} : executed = m.token
      BY <1>2
    <2>4. Answer(c, answer, replayed, executed)
      BY <1>1, <2>1, <2>2, <2>3
    <2>5. PICK r \in Positions : /\ Moves(c, r)
                                 /\ r.stage = "answered" /\ r.msg = thread[c].msg
                                 /\ r.status = answer /\ r.executed = executed
      BY <1>2, <2>4, AnswerMoves
    <2> QED
      BY <2>2, <2>3, <2>5
  <1> HIDE DEF row
  <1>6. /\ operations' \in [Jobs -> [Ops -> Rows]]
        /\ operations'[Job(c)][Op(c)] = row
        /\ \A j \in Jobs, o \in Ops : operations'[j][o] # operations[j][o] =>
              j = Job(c) /\ o = Op(c)
    BY <1>1, <1>2, <1>4 DEF TypeOK
  <1>7. /\ deliveries' \in [Ids -> Rows \cup {None}]
        /\ deliveries'[m.id] = row
        /\ \A i \in Ids : deliveries'[i] # deliveries[i] => i = m.id
    BY <1>1, <1>2, <1>4 DEF TypeOK
  <1>8. \A d \in Threads \ {c} : Busy(d) => Job(c) # Job(d) \/ Op(c) # Op(d)
    BY <1>2 DEF IInv, Alone
  <1>9. \A j \in Jobs : fences'[j].token >= fences[j].token
    <2> SUFFICES ASSUME NEW j \in Jobs PROVE fences[j].token \in Nat
      BY <1>1
    <2>1. Tokens \cup {0} \subseteq Nat
      BY HostAssumption
    <2> QED
      BY <1>2, <2>1 DEF TypeOK
  <1>10. JournalStep(c, r)
    BY <1>1, <1>5, <1>6, <1>8, <1>9 DEF JournalStep, Row
  <1>11. TypeOK'
    BY <1>1, <1>2, <1>5, <1>6, <1>7 DEF TypeOK, Moves
  <1>12. thread'[c] = r /\ Job(c)' = Job(c) /\ Op(c)' = Op(c) /\ r.stage \notin Working
         /\ Row(c)' = row
    BY <1>5, <1>6 DEF Moves, Job, Op, Working, Row
  <1>13. Fits(c)'
    <2>1. m.token # None /\ m.token <= m.token
      BY <1>2, HostAssumption
    <2>2. Accepted(c)'
      BY <1>5, <1>12, <2>1 DEF Accepted, row
    <2> QED
      BY <1>2, <1>5, <1>12, <2>2 DEF Fits, HasRequest, OwnsRow, Progress, HoldsGuard, Busy
  <1>14. True(Job(c), Op(c))'
    <2>1. /\ status = "OK" /\ Works(c) # "read" => effects[Job(c)][Op(c)] = 1
          /\ status = "REJECTED" => effects[Job(c)][Op(c)] = 0
      BY <1>1, <1>2 DEF Fits, Progress
    <2>2. effects[Job(c)][Op(c)] <= 1
      BY <1>2 DEF IInv, True
    <2>3. row.token \in Tokens /\ row.token <= fences[Job(c)].token
      BY <1>1, <1>2, <1>4 DEF Authorized
    <2> QED
      BY <1>1, <1>3, <1>4, <1>6, <1>12, <2>1, <2>2, <2>3 DEF True, Works
  <1>15. \A i \in Ids : deliveries'[i] # deliveries[i] => Delivered(i)'
    <2> SUFFICES ASSUME NEW i \in Ids, i = m.id PROVE Delivered(i)'
      BY <1>7
    <2>1. receipts'[i] = m
      BY <1>1, <1>2 DEF Fits, OwnsRow
    <2>2. operations'[JobOf[m.token]][m.op] = row
      BY <1>6 DEF Job, Op
    <2> QED
      BY <1>2, <1>4, <1>7, <2>1, <2>2 DEF Delivered
  <1>16. thread[c].stage # "idle"
    BY <1>1
  <1> QED
    BY <1>10, <1>11, <1>12, <1>13, <1>14, <1>15, <1>16, JournalSteps

\* The invariant holds at the start.
LEMMA InvInit == Init => IInv
  <1> SUFFICES ASSUME Init PROVE IInv
    OBVIOUS
  <1>1. TypeOK
    <2>1. Idle \in Positions /\ Absent \in Rows
      BY DEF Idle, Positions, Stages, Absent, Rows
    <2>2. 0 \in 0 .. MaxExt
      BY HostAssumption
    <2>3. operations \in [Jobs -> [Ops -> Rows]] /\ thread \in [Threads -> Positions]
      BY <2>1 DEF Init
    <2> QED
      BY <2>2, <2>3 DEF Init, TypeOK
  <1>2. \A c \in Threads : thread[c].stage = "idle"
    BY DEF Init, Idle
  <1>3. \A c \in Threads : Fits(c) /\ ~Busy(c)
    BY <1>2 DEF Fits, HasRequest, OwnsRow, Progress, HoldsGuard, Accepted, Busy, Working
  <1>4. \A j \in Jobs, o \in Ops : True(j, o)
    BY DEF Init, Absent, True
  <1> QED
    BY <1>1, <1>3, <1>4 DEF IInv, Alone, Delivered, Init

\* A killed agent leaves rows as they are, and works on none.
LEMMA CrashSteps == IInv /\ Crash => IInv'
  <1> SUFFICES ASSUME IInv, Crash PROVE IInv'
    OBVIOUS
  <1>1. TypeOK'
    <2>1. Idle \in Positions
      BY DEF Idle, Positions, Stages
    <2>2. thread' \in [Threads -> Positions] /\ guard' \in [Jobs -> Threads \cup {None}]
      BY <2>1 DEF Crash
    <2> QED
      BY <2>2 DEF IInv, TypeOK, Crash, journal
  <1>2. \A c \in Threads : thread'[c].stage = "idle"
    BY DEF Crash, Idle
  <1>3. \A c \in Threads : Fits(c)' /\ ~Busy(c)'
    BY <1>2 DEF Fits, HasRequest, OwnsRow, Progress, HoldsGuard, Accepted, Busy, Working
  <1>4. /\ \A j \in Jobs, o \in Ops : True(j, o)'
        /\ \A i \in Ids : Delivered(i)'
    BY DEF IInv, True, Delivered, Crash, journal
  <1> QED
    BY <1>1, <1>3, <1>4 DEF IInv, Alone

\* A request may arrive at an idle thread, and an answer goes out.
LEMMA ConnectionSteps ==
    ASSUME IInv, NEW c \in Threads,
           Respond(c) \/ \E m \in Messages : Receive(c, m)
    PROVE  IInv'
  <1>1. PICK r \in Positions :
           /\ thread' = [thread EXCEPT ![c] = r]
           /\ \/ r.stage = "idle"
              \/ r.stage = "received" /\ r.msg \in Messages /\ ~r.attempted
    <2>1. CASE Respond(c)
      <3>1. Idle \in Positions /\ Idle.stage = "idle"
        BY DEF Idle, Positions, Stages
      <3> QED
        BY <2>1, <3>1 DEF Respond
    <2>2. ASSUME NEW m \in Messages, Receive(c, m)
          PROVE  \E r \in Positions :
                    /\ thread' = [thread EXCEPT ![c] = r]
                    /\ r.stage = "received" /\ r.msg \in Messages /\ ~r.attempted
      <3> DEFINE r == [Idle EXCEPT !.stage = "received", !.msg = m]
      <3>1. r \in Positions /\ r.stage = "received" /\ r.msg \in Messages /\ ~r.attempted
        BY DEF Idle, Positions, Stages
      <3>2. thread' = [thread EXCEPT ![c] = r]
        BY <2>2 DEF Receive
      <3> HIDE DEF r
      <3> QED
        BY <3>1, <3>2
    <2>3. CASE \E m \in Messages : Receive(c, m)
      <3>1. PICK m \in Messages : Receive(c, m)
        BY <2>3
      <3> QED
        BY <2>2, <3>1
    <2> QED
      BY <2>1, <2>3
  <1>2. Moves(c, r)
    BY <1>1, MoveFacts DEF IInv
  <1>3. UNCHANGED <<passed, journal, guard, effects>>
    BY DEF Respond, Receive
  <1>4. r.stage \notin Working /\ thread'[c] = r
    BY <1>1, <1>2 DEF Working, Moves
  <1>5. ThreadStep(c, r)
    BY <1>2, <1>3, <1>4 DEF ThreadStep
  <1>6. Fits(c)'
    BY <1>1, <1>4 DEF Fits, HasRequest, OwnsRow, Progress, HoldsGuard, Accepted, Busy
  <1> QED
    BY <1>5, <1>6, ThreadSteps

\* What the invariant speaks of is untouched.
LEMMA UntouchedSteps ==
    ASSUME IInv, UNCHANGED <<journal, guard, thread, effects>>,
           passed' \in [Tokens -> 0 .. MaxExt]
    PROVE  IInv'
  <1> /\ fences' = fences /\ operations' = operations /\ receipts' = receipts
      /\ deliveries' = deliveries /\ guard' = guard /\ thread' = thread
      /\ effects' = effects
    BY DEF journal
  <1>1. TypeOK'
    BY DEF IInv, TypeOK
  <1>2. ASSUME NEW c \in Threads PROVE Fits(c)'
    <2>1. Fits(c)
      BY DEF IInv
    <2>2. /\ Row(c)' = Row(c) /\ Job(c)' = Job(c) /\ Op(c)' = Op(c) /\ Works(c)' = Works(c)
          /\ Busy(c)' = Busy(c)
      BY DEF Row, Job, Op, Works, Busy
    <2>3. HasRequest(c)' /\ OwnsRow(c)'
      BY <2>1, <2>2 DEF Fits, HasRequest, OwnsRow
    <2>4. Progress(c)'
      BY <2>1, <2>2 DEF Fits, Progress
    <2>5. HoldsGuard(c)' /\ Accepted(c)'
      BY <2>1, <2>2 DEF Fits, HoldsGuard, Accepted
    <2> QED
      BY <2>3, <2>4, <2>5 DEF Fits
  <1>3. \A c, d \in Threads : Alone(c, d)'
    BY DEF IInv, Alone, Busy, Job, Op
  <1>4. /\ \A j \in Jobs, o \in Ops : True(j, o)'
        /\ \A i \in Ids : Delivered(i)'
    BY DEF IInv, True, Delivered
  <1> QED
    BY <1>1, <1>2, <1>3, <1>4 DEF IInv

\* The clock does not touch what the invariant speaks of.
LEMMA TickSteps ==
    ASSUME IInv, NEW n \in Tokens, Tick(n)
    PROVE  IInv'
  <1>1. passed' \in [Tokens -> 0 .. MaxExt]
    BY HostAssumption DEF IInv, TypeOK, Tick
  <1>2. UNCHANGED <<journal, guard, thread, effects>>
    BY DEF Tick
  <1> QED
    BY <1>1, <1>2, UntouchedSteps

\* Every step keeps the invariant.
LEMMA InvStep == IInv /\ [Next]_vars => IInv'
  <1> SUFFICES ASSUME IInv, [Next]_vars PROVE IInv'
    OBVIOUS
  <1>1. CASE \E n \in Tokens : Tick(n)
    BY <1>1, TickSteps
  <1>2. CASE \E c \in Threads, m \in Messages : Receive(c, m)
    BY <1>2, ConnectionSteps
  <1>3. ASSUME NEW c \in Threads, Dispatch(c)
        PROVE  IInv'
    <2>1. CASE Refuse(c)
      BY <2>1, NoResultSteps DEF Refuse, GuardStep
    <2>2. CASE FinishFails(c)
      BY <2>2, NoResultSteps DEF FinishFails, GuardStep
    <2>3. CASE Reserve(c)
      BY <2>3, ReserveSteps
    <2>4. CASE Replay(c)
      BY <2>4, ReplaySteps
    <2>5. CASE Unsettled(c)
      BY <2>5, UnsettledSteps
    <2>6. CASE Handle(c)
      BY <2>6, HandleSteps
    <2>7. CASE Finish(c)
      BY <2>7, FinishSteps
    <2>8. CASE Respond(c)
      BY <2>8, ConnectionSteps
    <2> QED
      BY <1>3, <2>1, <2>2, <2>3, <2>4, <2>5, <2>6, <2>7, <2>8 DEF Dispatch
  <1>4. CASE Crash
    BY <1>4, CrashSteps
  <1>5. CASE UNCHANGED vars
    BY <1>5, UntouchedSteps DEF vars, journal, IInv, TypeOK
  <1> QED
    BY <1>1, <1>2, <1>3, <1>4, <1>5 DEF Next

\* The invariant holds throughout.
THEOREM Invariance == Spec => []IInv
  BY InvInit, InvStep, PTL DEF Spec

-----------------------------------------------------------------------------
(* What follows *)

\* TypeOK: every variable keeps its type.
THEOREM TypeCorrect == Spec => []TypeOK
  <1>1. IInv => TypeOK
    BY DEF IInv
  <1> QED
    BY <1>1, Invariance, PTL

\* EffectsHappenOnce: whatever is repeated, reordered, taken over or restarted, no effect
\* of the host is started twice.
THEOREM EffectsAtMostOnce == Spec => []EffectsHappenOnce
  <1>1. IInv => EffectsHappenOnce
    BY DEF IInv, True, EffectsHappenOnce
  <1> QED
    BY <1>1, Invariance, PTL

\* JournalIsTrue: a stored success had its effect and a stored failure had none.
THEOREM JournalNeverLies == Spec => []JournalIsTrue
  <1>1. IInv => JournalIsTrue
    BY DEF IInv, True, JournalIsTrue
  <1> QED
    BY <1>1, Invariance, PTL

\* GuardedEffectIsCurrent: no newer lease is admitted while an effect runs under the guard.
THEOREM GuardKeepsTheFence == Spec => []GuardedEffectIsCurrent
  <1>1. IInv => GuardedEffectIsCurrent
    BY DEF IInv, Fits, HoldsGuard, GuardedEffectIsCurrent
  <1> QED
    BY <1>1, Invariance, PTL

\* AnswersAreAccepted: the gateway's check of the execution token accepts every answer,
\* and every answer agrees with the journal.
THEOREM AnswersPassTheGateway == Spec => []AnswersAreAccepted
  <1>1. IInv => AnswersAreAccepted
    BY DEF IInv, Fits, Accepted, AnswersAreAccepted
  <1> QED
    BY <1>1, Invariance, PTL

\* The change of a row: made by Reserve from nothing, or by Finish under the newest lease.
Fenced(j, o) ==
    operations'[j][o] # operations[j][o] =>
       \/ operations[j][o].state = "ABSENT" /\ operations'[j][o].state = "RUNNING"
       \/ /\ operations[j][o].state = "RUNNING"
          /\ operations'[j][o].token = fences[j].token
          /\ ~Over(fences[j].token, fences[j].ext)

\* ResultsAreFencedAndFinal: a result enters the journal only under the lease that is
\* current there, and stays.
THEOREM ResultsFencedAndFinal == Spec => ResultsAreFencedAndFinal
  <1>1. IInv /\ [Next]_vars => \A j \in Jobs, o \in Ops : Fenced(j, o)
    <2> SUFFICES ASSUME IInv, [Next]_vars, NEW j \in Jobs, NEW o \in Ops,
                        operations'[j][o] # operations[j][o]
                 PROVE  Fenced(j, o)
      BY DEF Fenced
    <2>1. PICK c \in Threads : Reserve(c) \/ Finish(c)
      BY DEF Next, Dispatch, Handle, Tick, Receive, Refuse, Replay, Unsettled, Read, FailEarly,
             Enter, Decline, Mark, Perform, Leave, Launch, Watch, Capture, FinishFails, Respond,
             Crash, vars, journal
    <2>2. Job(c) \in Jobs /\ Op(c) \in Ops /\ operations \in [Jobs -> [Ops -> Rows]]
      BY <2>1, BusyFacts DEF Reserve, Admit, Finish, IInv, TypeOK
    <2>3. CASE Reserve(c)
      <3> DEFINE row == [state |-> "RUNNING", content |-> thread[c].msg.content,
                         token |-> None]
      <3>1. operations' = [operations EXCEPT ![Job(c)][Op(c)] = row] /\ row.state = "RUNNING"
            /\ operations[Job(c)][Op(c)].state = "ABSENT"
        BY <2>3 DEF Reserve, Reservable, Row
      <3> HIDE DEF row
      <3> QED
        BY <2>2, <3>1 DEF Fenced
    <2>4. CASE Finish(c)
      <3> DEFINE row == [state |-> IF thread[c].status = "OK" THEN "SUCCEEDED" ELSE "FAILED",
                         content |-> thread[c].msg.content, token |-> thread[c].msg.token]
      <3>1. /\ operations' = [operations EXCEPT ![Job(c)][Op(c)] = row]
            /\ row.token = fences[Job(c)].token
            /\ operations[Job(c)][Op(c)].state = "RUNNING"
            /\ ~Over(fences[Job(c)].token, fences[Job(c)].ext)
        BY <2>4 DEF Finish, Authorized, Row
      <3> HIDE DEF row
      <3> QED
        BY <2>2, <3>1 DEF Fenced
    <2> QED
      BY <2>1, <2>3, <2>4
  <1>2. IInv /\ [Next]_vars =>
           [\A j \in Jobs, o \in Ops : Fenced(j, o)]_vars
    BY <1>1
  <1>3. [][\A j \in Jobs, o \in Ops : Fenced(j, o)]_vars <=> ResultsAreFencedAndFinal
    BY DEF ResultsAreFencedAndFinal, Fenced
  <1> QED
    BY <1>2, <1>3, Invariance, PTL DEF Spec

=============================================================================
