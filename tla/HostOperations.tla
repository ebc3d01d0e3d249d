---------------------------- MODULE HostOperations ----------------------------
(***************************************************************************)
(* The host agent's side of a job lease: the operation journal             *)
(* (journal.py), the dispatcher and its authorization guard (dispatch.py), *)
(* and the yielded validation process (execution.py).                      *)
(*                                                                         *)
(* The control plane sends signed requests under its current lease of a    *)
(* job; the host knows that lease only from the requests themselves.  One  *)
(* thread serves each connection: it fences and reserves the operation in  *)
(* the journal, performs the effect under a guard that stops a newer lease *)
(* from taking over, and stores the result.  Requests are lost, repeated,  *)
(* reordered and answered late, and the agent may be killed at any point:  *)
(* any request of any lease may arrive at any moment.                      *)
(*                                                                         *)
(* A lease is a fencing token with the extensions its heartbeats gave it.  *)
(* "passed" says how many of them the clock has overtaken, so an expiry    *)
(* comparison is a comparison of extensions.  Everything else that names   *)
(* the lease (lease_id, worker_id, attempt) follows from the token.        *)
(***************************************************************************)
EXTENDS Naturals, FiniteSets

CONSTANTS
    Jobs,        \* durable jobs: the scopes of task-lease operations
    Tokens,      \* fencing tokens
    JobOf,       \* the job a token was issued for
    MaxExt,      \* bound on the extensions of a lease
    Ops,         \* an operation name with an idempotency key
    Kind,        \* how the handler of an operation works: see Kinds
    Contents,    \* semantic fingerprints of an operation's arguments
    Ids,         \* request ids
    Threads,     \* connection threads of the agent
    None         \* no row, no token

\* A handler only reads; or it performs its effect under the guard, marked as
\* attempted from the outset or at the first mutation; or it starts a process under
\* the guard and then yields it.
Kinds == {"read", "plain", "staged", "yielding"}

\* Signed requests.
Messages == [id : Ids, token : Tokens, ext : 1 .. MaxExt, op : Ops, content : Contents]

ASSUME HostAssumption ==
    /\ Tokens \subseteq Nat \ {0}
    /\ JobOf \in [Tokens -> Jobs]
    /\ MaxExt \in Nat \ {0}
    /\ Kind \in [Ops -> Kinds]
    /\ None \notin Tokens \cup Threads \cup Messages

VARIABLES
    passed,      \* the clock: extensions of a lease that are over
    fences,      \* job_fences: the newest token seen (0: no row) and its extension
    operations,  \* operations by job and op
    receipts,    \* request_receipts: the request an id was used for
    deliveries,  \* deliveries: the result an id was answered with
    guard,       \* HostTaskGuard of a job: the thread inside, or None
    thread,      \* a thread's position in _dispatch_validated
    effects      \* how often an operation's effect was started

vars == <<passed, fences, operations, receipts, deliveries, guard, thread, effects>>
journal == <<fences, operations, receipts, deliveries>>

-----------------------------------------------------------------------------
(* Rows and leases *)

Absent == [state |-> "ABSENT", content |-> None, token |-> None]

Idle == [stage |-> "idle", msg |-> None, attempted |-> FALSE, status |-> None,
         replayed |-> FALSE, executed |-> None]

Over(token, ext) == ext <= passed[token]

Job(c) == JobOf[thread[c].msg.token]
Op(c) == thread[c].msg.op
Works(c) == Kind[Op(c)]

\* The row of the thread's operation.
Row(c) == operations[Job(c)][Op(c)]

\* Mutant of Status: the journal's state is answered as it is.
Status_State(state) == state

Status(state) == IF state = "SUCCEEDED" THEN "OK" ELSE "REJECTED"

\* Mutant of Admits: an older lease is let in as well.
Admits_Older(m) == ~Over(m.token, m.ext)

\* _apply_fence lets the request in: its lease runs, is not older than the newest one
\* seen, and if it is the newest one, the host has not seen it run out.
Admits(m) ==
    LET f == fences[JobOf[m.token]]
    IN  /\ ~Over(m.token, m.ext)
        /\ m.token >= f.token
        /\ m.token = f.token => ~Over(f.token, f.ext)

Fence(m) ==
    LET f == fences[JobOf[m.token]]
    IN  IF m.token = f.token /\ m.ext < f.ext THEN f ELSE [token |-> m.token, ext |-> m.ext]

\* Mutant of Authorized: only the clock is asked.
Authorized_AnyToken(c) == ~Over(thread[c].msg.token, fences[Job(c)].ext)

\* _assert_current_fence.
Authorized(c) ==
    LET f == fences[Job(c)]
    IN  f.token = thread[c].msg.token /\ ~Over(f.token, f.ext)

-----------------------------------------------------------------------------
(* Reception and reservation *)

Init ==
    /\ passed = [n \in Tokens |-> 0]
    /\ fences = [j \in Jobs |-> [token |-> 0, ext |-> 0]]
    /\ operations = [j \in Jobs |-> [o \in Ops |-> Absent]]
    /\ receipts = [i \in Ids |-> None]
    /\ deliveries = [i \in Ids |-> None]
    /\ guard = [j \in Jobs |-> None]
    /\ thread = [c \in Threads |-> Idle]
    /\ effects = [j \in Jobs |-> [o \in Ops |-> 0]]

\* The clock overtakes an extension of a lease.
Tick(n) ==
    /\ passed[n] < MaxExt
    /\ passed' = [passed EXCEPT ![n] = @ + 1]
    /\ UNCHANGED <<journal, guard, thread, effects>>

\* A connection delivers a verified, well-formed request to a thread.
Receive(c, m) ==
    /\ thread[c].stage = "idle"
    /\ thread' = [thread EXCEPT ![c] = [Idle EXCEPT !.stage = "received", !.msg = m]]
    /\ UNCHANGED <<passed, journal, guard, effects>>

\* The thread has its answer.
Answer(c, status, replayed, executed) ==
    thread' = [thread EXCEPT ![c] = [@ EXCEPT !.stage = "answered", !.status = status,
                                              !.replayed = replayed, !.executed = executed]]

\* begin refuses: fenced, expired, the id or the key was used for something else; or the
\* journal cannot be read.  Nothing is stored.
Refuse(c) ==
    /\ thread[c].stage = "received"
    /\ guard[Job(c)] = None
    /\ Answer(c, "REJECTED", FALSE, None)
    /\ UNCHANGED <<passed, journal, guard, effects>>

\* begin accepts the request; what it stores of it in any case.
Admit(c) ==
    LET m == thread[c].msg
    IN  /\ thread[c].stage = "received"
        /\ guard[Job(c)] = None
        /\ Admits(m)
        /\ receipts[m.id] \in {None, m}
        /\ Row(c).state # "ABSENT" => Row(c).content = m.content
        /\ fences' = [fences EXCEPT ![Job(c)] = Fence(m)]
        /\ receipts' = [receipts EXCEPT ![m.id] = m]

\* Mutant of Reservable: an operation some earlier request left unfinished runs again.
Reservable_Unfinished(c) == Row(c).state \in {"ABSENT", "RUNNING"}

Reservable(c) == Row(c).state = "ABSENT"

\* JournalAction.EXECUTE.
Reserve(c) ==
    /\ Admit(c)
    /\ Reservable(c)
    /\ operations' = [operations EXCEPT ![Job(c)][Op(c)] =
                         [state |-> "RUNNING", content |-> thread[c].msg.content,
                          token |-> None]]
    /\ thread' = [thread EXCEPT ![c].stage = "reserved"]
    /\ UNCHANGED <<passed, deliveries, guard, effects>>

\* JournalAction.REPLAY: from the delivery of this very request, or from the operation,
\* whose result is then delivered to this request too.
Replay(c) ==
    LET id == thread[c].msg.id
        result == IF deliveries[id] # None THEN deliveries[id] ELSE Row(c)
    IN  /\ Admit(c)
        /\ Row(c).state \in {"SUCCEEDED", "FAILED"}
        /\ deliveries' = [deliveries EXCEPT ![id] = result]
        /\ Answer(c, Status(result.state), TRUE, result.token)
        /\ UNCHANGED <<passed, operations, guard, effects>>

\* JournalAction.AMBIGUOUS: reserved by a request that has not finished, or never will.
Unsettled(c) ==
    /\ Admit(c)
    /\ Row(c).state = "RUNNING"
    /\ Answer(c, "AMBIGUOUS", FALSE, None)
    /\ UNCHANGED <<passed, operations, deliveries, guard, effects>>

-----------------------------------------------------------------------------
(* Handlers.  An assertion of the fence may also fail for want of the journal. *)

\* The handler is done, with a result for the journal.
Result(c, status) ==
    thread' = [thread EXCEPT ![c].stage = "finishing", ![c].status = status]

\* Mutant of Failed: a failure is a failure, whatever was attempted before.
Failed_AlwaysClean(c) == Result(c, "REJECTED")

\* A handler that fails: cleanly if it had attempted no effect, ambiguously otherwise.
Failed(c) ==
    IF thread[c].attempted THEN Answer(c, "AMBIGUOUS", FALSE, None)
                           ELSE Result(c, "REJECTED")

\* A read-only handler returns or is refused.
Read(c) ==
    /\ thread[c].stage = "reserved"
    /\ Works(c) = "read"
    /\ \E status \in {"OK", "REJECTED"} : Result(c, status)
    /\ UNCHANGED <<passed, journal, guard, effects>>

\* The handler fails before it asks for the guard (bad arguments, no credential).
FailEarly(c) ==
    /\ thread[c].stage = "reserved"
    /\ Works(c) # "read"
    /\ Failed(c)
    /\ UNCHANGED <<passed, journal, guard, effects>>

\* Mutant of Holds: the guard is not held while the effect runs.
Holds_Nothing(c, j) == None

\* Who is in the guard of j once c has entered it.
Holds(c, j) == c

\* perform_*_authorized_effect up to the effect: enter the guard, assert the fence.
Enter(c) ==
    /\ thread[c].stage = "reserved"
    /\ Works(c) # "read"
    /\ guard[Job(c)] = None
    /\ IF Authorized(c)
       THEN /\ guard' = [guard EXCEPT ![Job(c)] = Holds(c, Job(c))]
            /\ thread' = [thread EXCEPT ![c].stage = "guarded",
                                        ![c].attempted = (Works(c) = "plain")]
       ELSE Failed(c) /\ UNCHANGED guard
    /\ UNCHANGED <<passed, journal, effects>>

Started(c) == effects' = [effects EXCEPT ![Job(c)][Op(c)] = @ + 1]

Freed(c) == guard' = [guard EXCEPT ![Job(c)] = None]

\* The effect raises before it mutates anything: its own checks refuse it.
Decline(c) ==
    /\ thread[c].stage = "guarded"
    /\ Failed(c)
    /\ Freed(c)
    /\ UNCHANGED <<passed, journal, effects>>

\* A staged effect passed its checks: effect_started.
Mark(c) ==
    /\ thread[c].stage = "guarded"
    /\ Works(c) = "staged"
    /\ ~thread[c].attempted
    /\ thread' = [thread EXCEPT ![c].attempted = TRUE]
    /\ UNCHANGED <<passed, journal, guard, effects>>

\* The effect happens under the guard.
Perform(c) ==
    /\ thread[c].stage = "guarded"
    /\ Works(c) \in {"plain", "staged"}
    /\ thread[c].attempted
    /\ Started(c)
    /\ thread' = [thread EXCEPT ![c].stage = "performed"]
    /\ UNCHANGED <<passed, journal, guard>>

\* After the effect: it raised, or the fence is asserted again, still under the guard.
Leave(c) ==
    /\ thread[c].stage = "performed"
    /\ \/ Authorized(c) /\ Result(c, "OK")
       \/ Failed(c)
    /\ Freed(c)
    /\ UNCHANGED <<passed, journal, effects>>

\* A yielding effect starts its process, is marked as attempted and leaves the guard.
\* It holds the lock of its task (here: of its job) until the process is gone.
Launch(c) ==
    /\ thread[c].stage = "guarded"
    /\ Works(c) = "yielding"
    /\ \A d \in Threads : thread[d].stage = "watching" => Job(d) # Job(c)
    /\ Started(c)
    /\ thread' = [thread EXCEPT ![c].stage = "watching", ![c].attempted = TRUE]
    /\ Freed(c)
    /\ UNCHANGED <<passed, journal>>

\* The process is gone: it ended, or the thread killed it because its time was up, its
\* output too long, the fence lost or the agent told to stop.
Watch(c) ==
    /\ thread[c].stage = "watching"
    /\ thread' = [thread EXCEPT ![c].stage = "watched"]
    /\ UNCHANGED <<passed, journal, guard, effects>>

\* The last assertion of a yielded effect, or a failure to capture its output.
Capture(c) ==
    /\ thread[c].stage = "watched"
    /\ guard[Job(c)] = None
    /\ \/ Authorized(c) /\ Result(c, "OK")
       \/ Failed(c)
    /\ UNCHANGED <<passed, journal, guard, effects>>

-----------------------------------------------------------------------------
(* Results *)

\* finish: the result is stored if the request still holds the fence.
Finish(c) ==
    LET row == [state |-> IF thread[c].status = "OK" THEN "SUCCEEDED" ELSE "FAILED",
                content |-> thread[c].msg.content, token |-> thread[c].msg.token]
    IN  /\ thread[c].stage = "finishing"
        /\ guard[Job(c)] = None
        /\ Authorized(c)
        /\ Row(c).state = "RUNNING"
        /\ Row(c).content = thread[c].msg.content
        /\ operations' = [operations EXCEPT ![Job(c)][Op(c)] = row]
        /\ deliveries' = [deliveries EXCEPT ![thread[c].msg.id] = row]
        /\ Answer(c, thread[c].status, FALSE, row.token)
        /\ UNCHANGED <<passed, fences, receipts, guard, effects>>

\* finish fails: fenced, expired, or no journal.  The row stays RUNNING for good.
FinishFails(c) ==
    /\ thread[c].stage = "finishing"
    /\ guard[Job(c)] = None
    /\ Answer(c, "AMBIGUOUS", FALSE, None)
    /\ UNCHANGED <<passed, journal, guard, effects>>

\* The answer goes out, or the connection is gone.
Respond(c) ==
    /\ thread[c].stage = "answered"
    /\ thread' = [thread EXCEPT ![c] = Idle]
    /\ UNCHANGED <<passed, journal, guard, effects>>

\* The agent is killed and started again; nothing looks at unfinished rows.
Crash ==
    /\ thread' = [c \in Threads |-> Idle]
    /\ guard' = [j \in Jobs |-> None]
    /\ UNCHANGED <<passed, journal, effects>>

Handle(c) ==
    \/ Read(c)    \/ FailEarly(c) \/ Enter(c) \/ Decline(c) \/ Mark(c)
    \/ Perform(c) \/ Leave(c)     \/ Launch(c) \/ Watch(c)  \/ Capture(c)

Dispatch(c) ==
    \/ Refuse(c) \/ Reserve(c) \/ Replay(c) \/ Unsettled(c)
    \/ Handle(c)
    \/ Finish(c) \/ FinishFails(c) \/ Respond(c)

Next ==
    \/ \E n \in Tokens : Tick(n)
    \/ \E c \in Threads, m \in Messages : Receive(c, m)
    \/ \E c \in Threads : Dispatch(c)
    \/ Crash

Spec == Init /\ [][Next]_vars

-----------------------------------------------------------------------------
(* Properties *)

Stages == {"idle", "received", "reserved", "guarded", "performed", "watching", "watched",
           "finishing", "answered"}

Rows == [state : {"ABSENT", "RUNNING", "SUCCEEDED", "FAILED"},
         content : Contents \cup {None}, token : Tokens \cup {None}]

Positions == [stage : Stages, msg : Messages \cup {None}, attempted : BOOLEAN,
              status : {"OK", "REJECTED", "AMBIGUOUS", None}, replayed : BOOLEAN,
              executed : Tokens \cup {None}]

\* Every variable has its type.
TypeOK ==
    /\ passed \in [Tokens -> 0 .. MaxExt]
    /\ fences \in [Jobs -> [token : Tokens \cup {0}, ext : 0 .. MaxExt]]
    /\ operations \in [Jobs -> [Ops -> Rows]]
    /\ receipts \in [Ids -> Messages \cup {None}]
    /\ deliveries \in [Ids -> Rows \cup {None}]
    /\ guard \in [Jobs -> Threads \cup {None}]
    /\ thread \in [Threads -> Positions]
    /\ effects \in [Jobs -> [Ops -> Nat]]

\* "Completed operations replay and ambiguous in-flight work is never silently executed
\* twice": over all leases, requests, threads and restarts (journal.py 97-217).
EffectsHappenOnce == \A j \in Jobs, o \in Ops : effects[j][o] <= 1

\* What the journal says of a mutation is so: a success had its effect, and an effect is
\* "never durably misreported as a clean failure" (dispatch.py 398-447).
JournalIsTrue ==
    \A j \in Jobs, o \in Ops :
        /\ operations[j][o].state = "SUCCEEDED" /\ Kind[o] # "read" => effects[j][o] = 1
        /\ operations[j][o].state \in {"ABSENT", "FAILED"} => effects[j][o] = 0

\* While an effect is performed under the guard its lease stays the newest the host
\* knows: a newer one has to wait (dispatch.py 133-162, 292-301).
GuardedEffectIsCurrent ==
    \A c \in Threads :
        thread[c].stage \in {"guarded", "performed"} => fences[Job(c)].token = thread[c].msg.token

\* Whatever the host answers, the gateway's check of the execution token accepts: a result
\* was executed under the request's own lease, or replayed from the same or an older one
\* (host_gateway.py 183-198).  An answered request and the journal agree.
AnswersAreAccepted ==
    \A c \in Threads : thread[c].stage = "answered" =>
        LET a == thread[c]
        IN  /\ a.status = "OK" => a.executed # None
            /\ a.executed # None =>
                  /\ a.executed <= a.msg.token
                  /\ ~a.replayed => a.executed = a.msg.token
                  /\ Row(c) = [state |-> IF a.status = "OK" THEN "SUCCEEDED" ELSE "FAILED",
                               content |-> a.msg.content, token |-> a.executed]

\* A result enters the journal only under the lease that is current on the host at that
\* moment, and is final (journal.py 219-297).
ResultsAreFencedAndFinal ==
    [][\A j \in Jobs, o \in Ops : operations'[j][o] # operations[j][o] =>
          \/ operations[j][o].state = "ABSENT" /\ operations'[j][o].state = "RUNNING"
          \/ /\ operations[j][o].state = "RUNNING"
             /\ operations'[j][o].token = fences[j].token
             /\ ~Over(fences[j].token, fences[j].ext)]_vars

\* "A higher fencing token cannot take over while that effect is in progress."
TakeoverWaitsForEffects ==
    \A c \in Threads :
        thread[c].stage \in {"guarded", "performed", "watching"} =>
            fences[Job(c)].token = thread[c].msg.token

=============================================================================
