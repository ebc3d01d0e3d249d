--------------------------- MODULE WorkflowProofs ---------------------------
(* Proofs about cancellation and recovery: for any jobs, runs, processes, callers  *)
(* and services, and any number of restarts, what is fenced stays fenced, and a    *)
(* cleanup that is called complete is.                                             *)
(*                                                                                 *)
(* The invariant says what a call and a recovery may rely on between two           *)
(* transactions: that a process in a call's hands does not run again, and that a   *)
(* target which was cancelled has a later version than every recovery has read.    *)
(*                                                                                 *)
(* The second part is about the workspace of the task on its host, and the third   *)
(* about the scenes in which the modules of the workflow are checked together.     *)
EXTENDS MCWorkflow, DeliveryProofs, EvidenceProofs, ScopedToolsProofs

Lives   == {"ACTIVE", "WAITING", "CANCELLED", "FAILED"}
Reasons == {"NONE", "USER", "DECISION"}
Froms   == Lives \cup {"NONE"}
Ids     == CallerIds \cup {Nobody, "elsewhere"}

Endings == [id : Ids, from : Froms, reason : Reasons]
Fences  == [id : Ids, print : {<<>>} \cup (Froms \X Reasons), cleaned : BOOLEAN]
Duties  == [status : {"QUEUED", "RUNNING", "SUCCEEDED", "FAILED", "CANCELLED"},
            lease : 0 .. MaxJobLeases, expired : BOOLEAN]
Owned   == [job : Jobs \cup {Nobody}, lease : Nat,
            status : {"NONE", "STARTED", "RUNNING", "TERMINATION_REQUESTED", "TERMINATED", "GONE"}]
Targets == [job : Jobs \cup {Nobody}, version : Nat,
            status : {"NONE", "PENDING", "CURRENT", "UPDATED", "RETRY_REQUIRED", "CANCELLED"}]

Seen       == Processes \X {"TERMINATED", "GONE"}
Requesting == {"READ", "DECIDE", "FENCE"}
Cleanings  == {"CLEAN", "TERMINATE", "RECORD", "FINISH"}
CallRows   == [step : {"IDLE"} \cup Requesting \cup Cleanings, id : Ids, from : Froms,
               reason : Reasons, known : BOOLEAN, todo : SUBSET Processes,
               seen : {"NONE"} \cup Seen]

Boots == {"UP", "LEASES", "UNFENCED", "CLEANUPS", "HERMES_RUN", "HOST_PROCESS", "RECORD"}

CanTypes ==
    /\ life \in Lives /\ question \in BOOLEAN
    /\ ending \in Endings /\ fence \in Fences
    /\ duty \in [Jobs -> Duties]
    /\ owned \in [Processes -> Owned] /\ target \in [Keys -> Targets]
    /\ alive \subseteq Processes /\ over \subseteq AgentRuns
    /\ call \in [CallerIds -> CallRows]
    /\ boot \in [Services -> Boots]
    /\ page \in [Services -> SUBSET (Keys \X Nat)]

\* A task has ended exactly when an event says so, and then no question is open.
EndKnown ==
    /\ HasEnded <=> ending # NotEnded
    /\ ending # NotEnded => ending.id # Nobody
    /\ (life = "WAITING") <=> question

\* What is fenced: nothing works any more, and nothing is to be terminated once the
\* cleanup is complete.
FenceKnown ==
    IsFencedTask =>
        /\ fence.print # <<>> /\ fence.id = ending.id /\ HasEnded
        /\ \A j \in Jobs : ~IsActiveJob(j)
        /\ \A p \in Processes : owned[p].status # "RUNNING"
        /\ \A t \in AgentRuns : target[t].status \in {"NONE", "CANCELLED"}
        /\ fence.cleaned => \A p \in Processes : owned[p].status # "TERMINATION_REQUESTED"

\* A process has a target from its registration on, which is cancelled with its end.
Bound(p) ==
    /\ owned[p].status = "NONE" => owned[p] = NoProcess
    /\ owned[p].status # "NONE" => owned[p].job \in Jobs
    /\ owned[p].status \in {"NONE", "STARTED"} => target[p].status = "NONE"
    /\ owned[p].status \in {"TERMINATED", "GONE"} => p \notin alive /\ target[p].status = "CANCELLED"

\* What a recovery has read was there, and a cancelled target has been written since.
Read(s) ==
    \A kv \in page[s] :
        /\ target[kv[1]].status # "NONE" /\ kv[2] <= target[kv[1]].version
        /\ target[kv[1]].status = "CANCELLED" => kv[2] < target[kv[1]].version

\* What a call knows stays true, and a process it has seen end does not run again.
Knows(c) ==
    /\ call[c].step \in Requesting => call[c].id # Nobody
    /\ call[c].known => HasEnded /\ ending.id = call[c].id
    /\ call[c].step \in Cleanings => IsFencedTask
    /\ \A p \in call[c].todo : owned[p].status # "NONE"
    /\ call[c].step = "RECORD" =>
          /\ call[c].seen \in Seen
          /\ owned[call[c].seen[1]].status # "NONE"
          /\ call[c].seen[1] \notin alive

CanIInv ==
    /\ CanTypes /\ EndKnown /\ FenceKnown
    /\ \A p \in Processes : Bound(p)
    /\ \A s \in Services : Read(s)
    /\ \A c \in CallerIds : Knows(c)

-----------------------------------------------------------------------------

LEMMA CanInitially == CanInit => CanIInv
<1> SUFFICES ASSUME CanInit PROVE CanIInv OBVIOUS
<1>1. /\ NotEnded \in Endings /\ NoFence \in Fences /\ NoCall \in CallRows
      /\ NoProcess \in Owned /\ NoTarget \in Targets
  BY DEF NotEnded, Endings, NoFence, Fences, NoCall, CallRows, NoProcess, Owned, NoTarget, Targets,
         Ids, Froms, Reasons
<1>2. [status |-> "QUEUED", lease |-> 0, expired |-> FALSE] \in Duties
  BY CancellationAssumption DEF Duties
<1>3. CanTypes
  <2>1. {} \in SUBSET (Keys \X Nat) /\ "UP" \in Boots
    BY DEF Boots
  <2>2. page \in [Services -> SUBSET (Keys \X Nat)]
    BY <2>1 DEF CanInit
  <2>3. boot \in [Services -> Boots]
    BY <2>1 DEF CanInit
  <2>4. QED
    BY <1>1, <1>2, <2>2, <2>3 DEF CanInit, CanTypes, Lives
<1>4. EndKnown /\ FenceKnown
  BY DEF CanInit, EndKnown, FenceKnown, HasEnded, IsFencedTask
<1>5. (\A p \in Processes : Bound(p)) /\ \A s \in Services : Read(s)
  BY DEF CanInit, Bound, NoProcess, NoTarget, Keys, Read
<1>6. \A c \in CallerIds : Knows(c)
  BY DEF CanInit, Knows, NoCall, Requesting, Cleanings
<1>7. QED BY <1>3, <1>4, <1>5, <1>6 DEF CanIInv

-----------------------------------------------------------------------------
(* What a step leaves alone *)

\* A step that writes to no row but those of jobs.
LEMMA JobsKeep ==
    ASSUME CanIInv, UNCHANGED <<life, question, ending, fence, owned, alive, over, target>>,
           duty' \in [Jobs -> Duties], IsFencedTask => \A j \in Jobs : ~IsActiveJob(j)',
           call' \in [CallerIds -> CallRows], \A c \in CallerIds : Knows(c)',
           boot' \in [Services -> Boots],
           page' \in [Services -> SUBSET (Keys \X Nat)], \A s \in Services : Read(s)'
    PROVE  CanIInv'
<1>1. CanTypes' /\ EndKnown'
  BY DEF CanIInv, CanTypes, EndKnown, HasEnded
<1>2. FenceKnown'
  BY DEF CanIInv, FenceKnown, IsFencedTask, HasEnded
<1>3. \A p \in Processes : Bound(p)'
  BY DEF CanIInv, Bound
<1>4. QED BY <1>1, <1>2, <1>3 DEF CanIInv

\* A call whose entry, and all it knows about, stays.
LEMMA CallStays ==
    ASSUME NEW c \in CallerIds, Knows(c), call'[c] = call[c],
           IsFencedTask => IsFencedTask', HasEnded => HasEnded' /\ ending' = ending,
           \A p \in Processes : owned[p].status # "NONE" =>
               owned'[p].status # "NONE" /\ (p \in alive' => p \in alive),
           call[c] \in CallRows
    PROVE  Knows(c)'
<1>1. call[c].todo \in SUBSET Processes
  BY DEF CallRows
<1>2. (\A p \in call[c].todo : owned[p].status # "NONE")'
  BY <1>1 DEF Knows
<1>3. call[c].step = "RECORD" =>
          /\ call[c].seen \in Seen
          /\ owned'[call[c].seen[1]].status # "NONE"
          /\ call[c].seen[1] \notin alive'
  <2> SUFFICES ASSUME call[c].step = "RECORD"
               PROVE  /\ call[c].seen \in Seen
                      /\ owned'[call[c].seen[1]].status # "NONE"
                      /\ call[c].seen[1] \notin alive'
    OBVIOUS
  <2>1. call[c].seen \in Seen /\ owned[call[c].seen[1]].status # "NONE" /\ call[c].seen[1] \notin alive
    BY DEF Knows
  <2>2. call[c].seen[1] \in Processes
    BY <2>1 DEF Seen
  <2>3. QED BY <2>1, <2>2
<1>4. QED
  BY <1>2, <1>3 DEF Knows

\* A recovery that has read no more than it had, while targets are only written.
LEMMA ReadingStays ==
    ASSUME NEW s \in Services, Read(s), page'[s] \subseteq page[s], page[s] \in SUBSET (Keys \X Nat),
           target \in [Keys -> Targets], target' \in [Keys -> Targets],
           \A k \in Keys : \/ target'[k] = target[k]
                           \/ target[k].status = "NONE"
                           \/ target'[k].status # "NONE" /\ target'[k].version > target[k].version
    PROVE  Read(s)'
<1> SUFFICES ASSUME NEW kv \in page'[s]
             PROVE  /\ target'[kv[1]].status # "NONE" /\ kv[2] <= target'[kv[1]].version
                    /\ target'[kv[1]].status = "CANCELLED" => kv[2] < target'[kv[1]].version
  BY DEF Read
<1>1. kv \in page[s] /\ kv[1] \in Keys /\ kv[2] \in Nat
  OBVIOUS
<1>2. target[kv[1]].version \in Nat /\ target'[kv[1]].version \in Nat
  BY <1>1 DEF Targets
<1>3. /\ target[kv[1]].status # "NONE" /\ kv[2] <= target[kv[1]].version
      /\ target[kv[1]].status = "CANCELLED" => kv[2] < target[kv[1]].version
  BY <1>1 DEF Read
<1>4. QED BY <1>1, <1>2, <1>3

-----------------------------------------------------------------------------
(* Work *)

\* A step of a job's row alone.
LEMMA DutyKeeps ==
    ASSUME CanIInv, UNCHANGED <<life, question, ending, fence, owned, alive, over, target, call, services>>,
           duty' \in [Jobs -> Duties], IsFencedTask => \A j \in Jobs : ~IsActiveJob(j)'
    PROVE  CanIInv'
<1>1. \A c \in CallerIds : Knows(c)'
  BY CallStays DEF CanIInv, CanTypes, HasEnded, IsFencedTask
<1>2. \A s \in Services : Read(s)'
  BY DEF CanIInv, Read, services
<1>3. QED
  BY <1>1, <1>2, JobsKeep DEF CanIInv, CanTypes, services

\* A step of processes or targets, and of nothing else.
LEMMA ThingsKeep ==
    ASSUME CanIInv, UNCHANGED <<life, question, ending, fence, duty, call, services>>,
           over' \subseteq AgentRuns, alive' \subseteq Processes,
           owned' \in [Processes -> Owned], target' \in [Keys -> Targets], FenceKnown',
           \A p \in Processes : Bound(p)',
           \A p \in Processes : owned[p].status # "NONE" =>
               owned'[p].status # "NONE" /\ (p \in alive' => p \in alive),
           \A k \in Keys : \/ target'[k] = target[k]
                           \/ target[k].status = "NONE"
                           \/ target'[k].status # "NONE" /\ target'[k].version > target[k].version
    PROVE  CanIInv'
<1>1. \A c \in CallerIds : Knows(c)'
  BY CallStays DEF CanIInv, CanTypes, HasEnded, IsFencedTask
<1>2. \A s \in Services : Read(s)'
  BY ReadingStays DEF CanIInv, CanTypes, services
<1>3. CanTypes' /\ EndKnown'
  BY DEF CanIInv, CanTypes, EndKnown, HasEnded, services
<1>4. QED BY <1>1, <1>2, <1>3 DEF CanIInv

\* Whoever holds a lease works for a task that is not fenced.
LEMMA HolderIsUnfenced ==
    ASSUME CanIInv, NEW j \in Jobs, duty[j].status \in {"QUEUED", "RUNNING"}
    PROVE  ~IsFencedTask
BY DEF CanIInv, FenceKnown, IsActiveJob

LEMMA WorkKeeps == CanIInv /\ WorkStep => CanIInv'
<1> SUFFICES ASSUME CanIInv, WorkStep PROVE CanIInv'
  OBVIOUS
<1>0. /\ duty \in [Jobs -> Duties] /\ owned \in [Processes -> Owned] /\ target \in [Keys -> Targets]
      /\ alive \subseteq Processes /\ over \subseteq AgentRuns
      /\ \A p \in Processes : Bound(p)
  BY DEF CanIInv, CanTypes
<1>1. ASSUME NEW j \in Jobs, LeaseJob(j)
      PROVE  CanIInv'
  <2>1. duty[j].lease \in 0 .. MaxJobLeases /\ duty[j] \in Duties
    BY <1>0 DEF Duties
  <2>2. duty'[j] \in Duties /\ duty' \in [Jobs -> Duties]
    BY <1>0, <1>1, <2>1, CancellationAssumption DEF LeaseJob, Duties
  <2>3. ~IsFencedTask
    BY <1>1, HolderIsUnfenced DEF LeaseJob
  <2>4. QED
    BY <1>1, <2>2, <2>3, DutyKeeps DEF LeaseJob
<1>2. ASSUME NEW j \in Jobs, ExpireLease(j)
      PROVE  CanIInv'
  <2>1. duty' \in [Jobs -> Duties]
    BY <1>0, <1>2 DEF ExpireLease, Duties
  <2>2. ~IsFencedTask
    BY <1>2, HolderIsUnfenced DEF ExpireLease
  <2>3. QED
    BY <1>2, <2>1, <2>2, DutyKeeps DEF ExpireLease
<1>3. ASSUME NEW j \in Jobs, NEW status \in {"QUEUED", "SUCCEEDED", "FAILED"}, EndLease(j, status)
      PROVE  CanIInv'
  <2>1. duty' \in [Jobs -> Duties]
    BY <1>0, <1>3 DEF EndLease, Duties
  <2>2. ~IsFencedTask
    BY <1>3, HolderIsUnfenced DEF EndLease, HoldsLease
  <2>3. QED
    BY <1>3, <2>1, <2>2, DutyKeeps DEF EndLease
<1>4. ASSUME NEW j \in Jobs, NEW t \in AgentRuns, StartAgentRun(j, t)
      PROVE  CanIInv'
  <2>1. t \in Keys /\ target[t].status = "NONE" /\ t \notin Processes
    BY <1>4, CancellationAssumption DEF StartAgentRun, Keys, NoTarget
  <2>2. target' \in [Keys -> Targets] /\ \A k \in Keys \ {t} : target'[k] = target[k]
    BY <1>0, <1>4, <2>1 DEF StartAgentRun, Targets
  <2>3. ~IsFencedTask
    BY <1>4, HolderIsUnfenced DEF StartAgentRun, HoldsLease
  <2>4. FenceKnown'
    BY <1>4, <2>3 DEF StartAgentRun, FenceKnown, IsFencedTask
  <2>5. \A p \in Processes : Bound(p)'
    BY <1>0, <1>4, <2>1, <2>2 DEF StartAgentRun, Bound, Keys
  <2>6. QED
    BY <1>0, <1>4, <2>1, <2>2, <2>4, <2>5, ThingsKeep DEF StartAgentRun
<1>5. ASSUME NEW j \in Jobs, NEW p \in Processes, StartProcess(j, p)
      PROVE  CanIInv'
  <2>1. owned[p].status = "NONE" /\ duty[j].lease \in Nat
    <3>1. duty[j].lease \in 0 .. MaxJobLeases
      BY <1>0 DEF Duties
    <3>2. QED BY <1>5, <3>1, CancellationAssumption DEF StartProcess, NoProcess
  <2>2. /\ owned' \in [Processes -> Owned] /\ owned'[p].status = "STARTED" /\ owned'[p].job = j
        /\ \A q \in Processes \ {p} : owned'[q] = owned[q]
    BY <1>0, <1>5, <2>1 DEF StartProcess, Owned
  <2>3. ~IsFencedTask
    BY <1>5, HolderIsUnfenced DEF StartProcess, HoldsLease
  <2>4. FenceKnown'
    BY <1>5, <2>3 DEF StartProcess, FenceKnown, IsFencedTask
  <2>5. \A q \in Processes : Bound(q)'
    BY <1>0, <1>5, <2>1, <2>2 DEF StartProcess, Bound
  <2>6. QED
    BY <1>0, <1>5, <2>1, <2>2, <2>4, <2>5, ThingsKeep DEF StartProcess
<1>6. ASSUME NEW t \in AgentRuns, EndAgentRun(t)
      PROVE  CanIInv'
  <2>1. FenceKnown' /\ \A p \in Processes : Bound(p)'
    BY <1>6 DEF EndAgentRun, CanIInv, FenceKnown, Bound, IsFencedTask, HasEnded, IsActiveJob
  <2>2. QED
    BY <1>0, <1>6, <2>1, ThingsKeep DEF EndAgentRun
<1>7. ASSUME NEW p \in Processes, RegisterOwnedProcess(p)
      PROVE  CanIInv'
  <2>1. p \in Keys /\ target[p].status = "NONE" /\ owned[p].job \in Jobs /\ owned[p] \in Owned
    BY <1>0, <1>7 DEF RegisterOwnedProcess, Keys, Bound
  <2>2. /\ owned' \in [Processes -> Owned] /\ owned'[p].status = "RUNNING"
        /\ owned'[p].job = owned[p].job
        /\ \A q \in Processes \ {p} : owned'[q] = owned[q]
    BY <1>0, <1>7, <2>1 DEF RegisterOwnedProcess, Owned
  <2>3. target' \in [Keys -> Targets] /\ \A k \in Keys \ {p} : target'[k] = target[k]
    BY <1>0, <1>7, <2>1 DEF RegisterOwnedProcess, Targets
  <2>4. ~IsFencedTask
    BY <1>7, <2>1, HolderIsUnfenced DEF RegisterOwnedProcess, HoldsLease
  <2>5. FenceKnown'
    BY <1>7, <2>4 DEF RegisterOwnedProcess, FenceKnown, IsFencedTask
  <2>6. \A q \in Processes : Bound(q)'
    BY <1>0, <1>7, <2>1, <2>2, <2>3 DEF RegisterOwnedProcess, Bound, Keys
  <2>7. QED
    BY <1>0, <1>7, <2>1, <2>2, <2>3, <2>5, <2>6, ThingsKeep DEF RegisterOwnedProcess
<1>8. ASSUME NEW p \in Processes, EndProcess(p)
      PROVE  CanIInv'
  <2>1. FenceKnown' /\ \A q \in Processes : Bound(q)'
    BY <1>8 DEF EndProcess, CanIInv, FenceKnown, Bound, IsFencedTask, HasEnded, IsActiveJob
  <2>2. QED
    BY <1>0, <1>8, <2>1, ThingsKeep DEF EndProcess
<1>9. QED BY <1>1, <1>2, <1>3, <1>4, <1>5, <1>6, <1>7, <1>8 DEF WorkStep

-----------------------------------------------------------------------------
(* The task and the calls *)

LEMMA TaskKeeps ==
    ASSUME CanIInv, Ask \/ Resolve \/ \E state \in {"CANCELLED", "FAILED"} : EndElsewhere(state)
    PROVE  CanIInv'
<1>1. CASE Ask \/ Resolve
  <2>1. /\ UNCHANGED <<ending, fence, working, call, services>>
        /\ ~HasEnded /\ ~HasEnded' /\ (life' = "WAITING") = question'
        /\ life' \in Lives /\ question' \in BOOLEAN
    BY <1>1 DEF Ask, Resolve, CanIInv, EndKnown, HasEnded, Lives
  <2>2. CanTypes' /\ EndKnown'
    BY <2>1 DEF CanIInv, CanTypes, EndKnown, working, services
  <2>3. FenceKnown' /\ \A p \in Processes : Bound(p)'
    BY <2>1 DEF CanIInv, FenceKnown, Bound, IsFencedTask, working
  <2>4. (\A s \in Services : Read(s)') /\ \A c \in CallerIds : Knows(c)'
    BY <2>1 DEF CanIInv, Read, Knows, IsFencedTask, working, services
  <2>5. QED BY <2>2, <2>3, <2>4 DEF CanIInv
<1>2. ASSUME NEW state \in {"CANCELLED", "FAILED"}, EndElsewhere(state)
      PROVE  CanIInv'
  <2>1. /\ UNCHANGED <<fence, working, call, services>>
        /\ ~HasEnded /\ HasEnded' /\ life' \in {"CANCELLED", "FAILED"} /\ question' = FALSE
        /\ ending' = [id |-> "elsewhere", from |-> life, reason |-> "DECISION"]
    BY <1>2 DEF EndElsewhere, HasEnded
  <2>2. ending' \in Endings /\ ending' # NotEnded /\ ending'.id # Nobody
    BY <2>1, CancellationAssumption DEF CanIInv, CanTypes, Endings, NotEnded, Ids, Froms, Reasons, Lives
  <2>3. CanTypes' /\ EndKnown'
    BY <2>1, <2>2 DEF CanIInv, CanTypes, EndKnown, Lives, working, services
  <2>4. ~IsFencedTask /\ ~IsFencedTask'
    BY <2>1 DEF CanIInv, FenceKnown, IsFencedTask
  <2>5. FenceKnown' /\ \A p \in Processes : Bound(p)'
    BY <2>1, <2>4 DEF CanIInv, FenceKnown, Bound, working
  <2>6. (\A s \in Services : Read(s)') /\ \A c \in CallerIds : Knows(c)'
    BY <2>1, <2>4 DEF CanIInv, Read, Knows, working, services
  <2>7. QED BY <2>3, <2>5, <2>6 DEF CanIInv
<1>3. QED BY <1>1, <1>2

\* A step that writes only the entry of one call.
LEMMA OneCallKeeps ==
    ASSUME CanIInv, NEW c \in CallerIds,
           UNCHANGED <<life, question, ending, fence, working, services>>,
           NEW e \in CallRows, call' = [call EXCEPT ![c] = e], Knows(c)'
    PROVE  CanIInv'
<1>1. call' \in [CallerIds -> CallRows] /\ \A d \in CallerIds \ {c} : call'[d] = call[d]
  BY DEF CanIInv, CanTypes
<1>2. \A d \in CallerIds : Knows(d)'
  BY <1>1, CallStays DEF CanIInv, CanTypes, working, HasEnded, IsFencedTask
<1>3. \A s \in Services : Read(s)'
  BY DEF CanIInv, Read, working, services
<1>4. /\ duty' \in [Jobs -> Duties] /\ boot' \in [Services -> Boots]
      /\ page' \in [Services -> SUBSET (Keys \X Nat)]
      /\ IsFencedTask => \A j \in Jobs : ~IsActiveJob(j)'
  BY DEF CanIInv, CanTypes, FenceKnown, working, services, IsActiveJob
<1>5. QED
  BY <1>1, <1>2, <1>3, <1>4, JobsKeep DEF working

\* A call that returns, or goes on to a step for which it has what it takes.
LEMMA MovesKeep ==
    ASSUME CanIInv, NEW c \in CallerIds,
           UNCHANGED <<life, question, ending, fence, working, services>>,
           \/ Returns(c)
           \/ \E step \in Requesting : GoesTo(c, step) /\ call[c].id # Nobody
    PROVE  CanIInv'
<1>0. call \in [CallerIds -> CallRows] /\ call[c] \in CallRows /\ Knows(c)
  BY DEF CanIInv, CanTypes
<1>1. CASE Returns(c)
  <2> DEFINE e == [call[c] EXCEPT !.step = "IDLE", !.todo = {}]
  <2>1. e \in CallRows /\ e.step = "IDLE" /\ e.todo = {} /\ e.known = call[c].known /\ e.id = call[c].id
    BY <1>0 DEF CallRows
  <2>2. call' = [call EXCEPT ![c] = e]
    BY <1>0, <1>1 DEF Returns
  <2>3. call'[c] = e
    BY <1>0, <2>2
  <2>4. Knows(c)'
    BY <1>0, <2>1, <2>3 DEF Knows, Requesting, Cleanings, HasEnded
  <2>5. QED BY <2>1, <2>2, <2>4, OneCallKeeps
<1>2. ASSUME NEW step \in Requesting, GoesTo(c, step), call[c].id # Nobody
      PROVE  CanIInv'
  <2> DEFINE e == [call[c] EXCEPT !.step = step]
  <2>1. /\ e \in CallRows /\ e.step = step /\ e.todo = call[c].todo /\ e.known = call[c].known
        /\ e.id = call[c].id
    BY <1>0 DEF CallRows
  <2>2. call' = [call EXCEPT ![c] = e] /\ call'[c] = e
    BY <1>0, <1>2 DEF GoesTo
  <2>3. Knows(c)'
    BY <1>0, <1>2, <2>1, <2>2 DEF Knows, Requesting, Cleanings, HasEnded, working
  <2>4. QED BY <2>1, <2>2, <2>3, OneCallKeeps
<1>3. QED BY <1>1, <1>2

LEMMA AskCancelKeeps == ASSUME CanIInv, NEW c \in Cancellers, AskCancel(c) PROVE CanIInv'
<1>0. c \in CallerIds /\ call \in [CallerIds -> CallRows] /\ call[c] \in CallRows /\ Knows(c)
  BY DEF CanIInv, CanTypes, CallerIds
<1>1. CASE call[c].id = Nobody
  <2> DEFINE e == [NoCall EXCEPT !.step = "READ", !.id = c, !.from = life, !.reason = "USER"]
  <2>1. /\ e \in CallRows /\ e.step = "READ" /\ e.id = c /\ e.known = FALSE /\ e.todo = {}
        /\ c # Nobody
    BY <1>0, CancellationAssumption DEF NoCall, CallRows, Requesting, CanIInv, CanTypes, Ids, Froms,
                                        Reasons
  <2>2. call' = [call EXCEPT ![c] = e] /\ call'[c] = e
    BY <1>0, <1>1 DEF AskCancel
  <2>3. Knows(c)'
    <3> HIDE DEF e
    <3>1. QED BY <2>1, <2>2 DEF Knows, Requesting, Cleanings
  <2>4. QED
    BY <1>0, <2>1, <2>2, <2>3, OneCallKeeps DEF AskCancel
<1>2. CASE call[c].id # Nobody
  <2>1. GoesTo(c, "READ")
    BY <1>0, <1>2 DEF AskCancel, GoesTo
  <2>2. QED
    BY <1>0, <1>2, <2>1, MovesKeep DEF AskCancel, Requesting
<1>3. QED BY <1>1, <1>2

LEMMA ReadTaskKeeps == ASSUME CanIInv, NEW c \in CallerIds, ReadTask(c) PROVE CanIInv'
<1>0. /\ call \in [CallerIds -> CallRows] /\ call[c] \in CallRows /\ Knows(c)
      /\ call[c].step = "READ" /\ call[c].id # Nobody
      /\ UNCHANGED <<life, question, ending, fence, working, services>>
  BY DEF CanIInv, CanTypes, Knows, ReadTask, IsAt, Requesting
<1>1. CASE Returns(c) \/ GoesTo(c, "FENCE") \/ GoesTo(c, "DECIDE")
  BY <1>0, <1>1, MovesKeep DEF Requesting
<1>2. CASE EndedByRequest(c) /\ call' = [call EXCEPT ![c].step = "FENCE", ![c].known = TRUE]
  <2> DEFINE e == [call[c] EXCEPT !.step = "FENCE", !.known = TRUE]
  <2>1. e \in CallRows /\ e.step = "FENCE" /\ e.id = call[c].id /\ e.todo = call[c].todo
    BY <1>0 DEF CallRows, Requesting
  <2>2. call' = [call EXCEPT ![c] = e] /\ call'[c] = e
    BY <1>0, <1>2
  <2>3. HasEnded /\ ending.id = call[c].id
    BY <1>0, <1>2 DEF EndedByRequest, CanIInv, EndKnown, NotEnded
  <2>4. Knows(c)'
    BY <1>0, <2>1, <2>2, <2>3 DEF Knows, Requesting, Cleanings, HasEnded, working
  <2>5. QED BY <1>0, <2>1, <2>2, <2>4, OneCallKeeps
<1>3. QED
  BY <1>1, <1>2 DEF ReadTask

\* A step of one call, whatever else it writes, as long as it takes nothing back.
LEMMA CallKeeps ==
    ASSUME CanIInv, NEW c \in CallerIds, UNCHANGED services,
           CanTypes', EndKnown', FenceKnown', \A p \in Processes : Bound(p)', Knows(c)',
           \A d \in CallerIds \ {c} : call'[d] = call[d],
           IsFencedTask => IsFencedTask', HasEnded => HasEnded' /\ ending' = ending,
           \A p \in Processes : owned[p].status # "NONE" =>
               owned'[p].status # "NONE" /\ (p \in alive' => p \in alive),
           \A k \in Keys : \/ target'[k] = target[k]
                           \/ target[k].status = "NONE"
                           \/ target'[k].status # "NONE" /\ target'[k].version > target[k].version
    PROVE  CanIInv'
<1>1. \A d \in CallerIds \ {c} : Knows(d)'
  BY CallStays DEF CanIInv, CanTypes
<1>2. \A s \in Services : Read(s)'
  BY ReadingStays DEF CanIInv, CanTypes, services
<1>3. QED BY <1>1, <1>2 DEF CanIInv

LEMMA DecideCancelKeeps == ASSUME CanIInv, NEW c \in CallerIds, DecideCancel(c) PROVE CanIInv'
<1>0. /\ call \in [CallerIds -> CallRows] /\ call[c] \in CallRows /\ Knows(c)
      /\ call[c].step = "DECIDE" /\ call[c].id # Nobody
      /\ UNCHANGED <<fence, working, services>>
  BY DEF CanIInv, CanTypes, Knows, DecideCancel, IsAt, Requesting
<1>1. CASE question
  <2> DEFINE e == [call[c] EXCEPT !.step = "FENCE", !.known = TRUE]
  <2>1. /\ e \in CallRows /\ e.step = "FENCE" /\ e.id = call[c].id /\ e.todo = call[c].todo
        /\ e.known = TRUE
    BY <1>0 DEF CallRows, Requesting
  <2>2. /\ call' = [call EXCEPT ![c] = e] /\ call'[c] = e /\ call' \in [CallerIds -> CallRows]
        /\ \A d \in CallerIds \ {c} : call'[d] = call[d]
    BY <1>0, <1>1, <2>1 DEF DecideCancel
  <2>3. /\ life = "WAITING" /\ life' = "CANCELLED" /\ question' = FALSE
        /\ ending' = [id |-> call[c].id, from |-> "WAITING", reason |-> "DECISION"]
    BY <1>1 DEF DecideCancel, CanIInv, EndKnown
  <2>4. ~HasEnded /\ ~IsFencedTask /\ ~IsFencedTask' /\ HasEnded'
    BY <1>0, <2>3 DEF HasEnded, IsFencedTask, CanIInv, FenceKnown
  <2>5. ending' \in Endings /\ ending' # NotEnded
    <3>1. call[c].id \in Ids
      BY <1>0 DEF CallRows
    <3>2. QED BY <1>0, <2>3, <3>1 DEF Endings, NotEnded, Froms, Lives, Reasons
  <2>6. CanTypes' /\ EndKnown'
    BY <1>0, <2>2, <2>3, <2>4, <2>5 DEF CanIInv, CanTypes, EndKnown, Lives, working, services
  <2>7. FenceKnown' /\ \A p \in Processes : Bound(p)'
    BY <1>0, <2>4 DEF CanIInv, FenceKnown, Bound, working
  <2>8. Knows(c)'
    <3> HIDE DEF e
    <3>1. QED BY <1>0, <2>1, <2>2, <2>3, <2>4 DEF Knows, Requesting, Cleanings, working
  <2>9. QED
    BY <1>0, <2>2, <2>4, <2>6, <2>7, <2>8, CallKeeps DEF working
<1>2. CASE ~question
  BY <1>0, <1>2, MovesKeep DEF DecideCancel
<1>3. QED BY <1>1, <1>2

LEMMA FenceRefusedKeeps == ASSUME CanIInv, NEW c \in CallerIds, FenceRefused(c) PROVE CanIInv'
BY MovesKeep DEF FenceRefused

\* The row of a target that is cancelled.
LEMMA CancelledRow ==
    ASSUME NEW r \in Targets,
           NEW n, n = [r EXCEPT !.status = "CANCELLED", !.version = r.version + 1]
    PROVE  n \in Targets /\ n.status = "CANCELLED" /\ n.version > r.version
<1>1. r.version \in Nat /\ r.version + 1 \in Nat /\ r.version + 1 > r.version
  BY DEF Targets
<1> DEFINE m == [r EXCEPT !.status = "CANCELLED"]
<1>2. m \in Targets /\ m.status = "CANCELLED" /\ m.version = r.version
  BY DEF Targets
<1>3. n = [m EXCEPT !.version = r.version + 1]
  OBVIOUS
<1> HIDE DEF m
<1>4. n \in Targets /\ n.version = r.version + 1 /\ n.status = m.status
  BY <1>1, <1>2, <1>3 DEF Targets
<1>5. QED BY <1>1, <1>2, <1>4

\* What the second transaction writes of jobs, processes and targets.
LEMMA FenceWorkWrites ==
    ASSUME CanIInv, FenceWork, UNCHANGED <<alive, over>>
    PROVE  /\ duty' \in [Jobs -> Duties] /\ owned' \in [Processes -> Owned]
           /\ target' \in [Keys -> Targets]
           /\ \A j \in Jobs : ~IsActiveJob(j)'
           /\ \A p \in Processes :
                 /\ owned'[p].status # "RUNNING" /\ target'[p] = target[p]
                 /\ owned'[p].job = owned[p].job
                 /\ owned'[p] # owned[p] =>
                       owned[p].status = "RUNNING" /\ owned'[p].status = "TERMINATION_REQUESTED"
           /\ \A t \in AgentRuns : target'[t].status \in {"NONE", "CANCELLED"}
           /\ \A k \in Keys : \/ target'[k] = target[k]
                              \/ target'[k].status # "NONE" /\ target'[k].version > target[k].version
<1>0. /\ duty \in [Jobs -> Duties] /\ owned \in [Processes -> Owned] /\ target \in [Keys -> Targets]
  BY DEF CanIInv, CanTypes
<1>1. duty' \in [Jobs -> Duties] /\ \A j \in Jobs : ~IsActiveJob(j)'
  BY <1>0 DEF FenceWork, Duties, IsActiveJob
<1>2. /\ owned' \in [Processes -> Owned]
      /\ \A p \in Processes :
            /\ owned'[p].status # "RUNNING" /\ owned'[p].job = owned[p].job
            /\ owned'[p] # owned[p] =>
                  owned[p].status = "RUNNING" /\ owned'[p].status = "TERMINATION_REQUESTED"
  BY <1>0 DEF FenceWork, Owned
<1>3. ASSUME NEW k \in Keys
      PROVE  /\ target'[k] \in Targets
             /\ k \in AgentRuns => target'[k].status \in {"NONE", "CANCELLED"}
             /\ k \notin AgentRuns => target'[k] = target[k]
             /\ \/ target'[k] = target[k]
                \/ target'[k].status # "NONE" /\ target'[k].version > target[k].version
  <2>1. target[k] \in Targets /\ target[k].version \in Nat
    BY <1>0 DEF Targets
  <2>2. target'[k] = IF k \in AgentRuns /\ target[k].status \notin {"NONE", "CANCELLED"}
                     THEN [target[k] EXCEPT !.status = "CANCELLED", !.version = target[k].version + 1]
                     ELSE target[k]
    BY DEF FenceWork
  <2>3. CASE k \in AgentRuns /\ target[k].status \notin {"NONE", "CANCELLED"}
    <3>1. target'[k] \in Targets /\ target'[k].status = "CANCELLED"
      BY <2>1, <2>2, <2>3, CancelledRow
    <3>2. target'[k].version > target[k].version
      BY <2>1, <2>2, <2>3, CancelledRow
    <3>3. target'[k].status \in {"NONE", "CANCELLED"} /\ target'[k].status # "NONE"
      BY <3>1
    <3>4. QED BY <2>3, <3>1, <3>2, <3>3
  <2>4. CASE ~(k \in AgentRuns /\ target[k].status \notin {"NONE", "CANCELLED"})
    BY <2>1, <2>2, <2>4
  <2>5. QED BY <2>3, <2>4
<1>4. target' = [k \in Keys |-> target'[k]]
  BY DEF FenceWork
<1>5. target' \in [Keys -> Targets]
  BY <1>3, <1>4
<1>6. \A p \in Processes : p \in Keys /\ p \notin AgentRuns
  BY CancellationAssumption DEF Keys
<1>7. AgentRuns \subseteq Keys
  BY DEF Keys
<1>8. QED BY <1>1, <1>2, <1>3, <1>5, <1>6, <1>7

LEMMA FenceTaskKeeps == ASSUME CanIInv, NEW c \in CallerIds, FenceTask(c) PROVE CanIInv'
<1> DEFINE e == [call[c] EXCEPT !.step = "CLEAN"]
<1>0. /\ call \in [CallerIds -> CallRows] /\ call[c] \in CallRows /\ Knows(c)
      /\ call[c].step = "FENCE" /\ call[c].id # Nobody
      /\ UNCHANGED <<question, alive, over, services>> /\ FenceWork
  BY DEF CanIInv, CanTypes, Knows, FenceTask, IsAt, Requesting
<1>1. /\ e \in CallRows /\ e.step = "CLEAN" /\ e.todo = call[c].todo /\ e.known = call[c].known
      /\ e.id = call[c].id
  BY <1>0 DEF CallRows, Cleanings
<1>2. /\ call'[c] = e /\ call' \in [CallerIds -> CallRows]
      /\ \A d \in CallerIds \ {c} : call'[d] = call[d]
  BY <1>0, <1>1 DEF FenceTask, GoesTo
<1>3. call[c].id \in Ids /\ call[c].from \in Froms /\ call[c].reason \in Reasons
  BY <1>0 DEF CallRows
\* The event that ends the task is written once, and is that of the fence.
<1>4. /\ life' \in Lives /\ ending' \in Endings /\ EndKnown' /\ HasEnded'
      /\ HasEnded => ending' = ending
      /\ ~IsFencedTask => ending'.id = call[c].id
  <2>1. CASE EndsWithFence(c)
    <3>1. /\ life' = "CANCELLED" /\ ~HasEnded /\ ~question
          /\ ending' = [id |-> call[c].id, from |-> life, reason |-> call[c].reason]
      BY <2>1 DEF FenceTask, EndsWithFence
    <3>2. ending' \in Endings /\ ending' # NotEnded
      BY <1>0, <1>3, <3>1 DEF CanIInv, CanTypes, Endings, NotEnded, Froms
    <3>3. QED BY <1>0, <3>1, <3>2 DEF EndKnown, HasEnded, Lives
  <2>2. CASE ~EndsWithFence(c)
    <3>1. life' = life /\ ending' = ending /\ (FenceIsSame(c) \/ EndedByCall(c))
      BY <2>2 DEF FenceTask
    <3>2. HasEnded
      BY <3>1 DEF FenceIsSame, EndedByCall, CanIInv, FenceKnown
    <3>3. ~IsFencedTask => ending.id = call[c].id
      BY <1>0, <3>1 DEF FenceIsSame, EndedByCall, Knows
    <3>4. QED BY <1>0, <3>1, <3>2, <3>3 DEF CanIInv, CanTypes, EndKnown, HasEnded
  <2>3. QED BY <2>1, <2>2
<1>5. fence' \in Fences /\ IsFencedTask' /\ fence'.print # <<>> /\ fence'.id = ending'.id
  <2>1. CASE IsFencedTask
    <3>1. fence' = fence /\ HasEnded
      BY <2>1 DEF FenceTask, CanIInv, FenceKnown
    <3>2. QED BY <1>4, <2>1, <3>1 DEF CanIInv, CanTypes, FenceKnown, IsFencedTask
  <2>2. CASE ~IsFencedTask
    <3>1. fence' = [id |-> call[c].id, print |-> <<call[c].from, call[c].reason>>, cleaned |-> FALSE]
      BY <2>2 DEF FenceTask, Requested
    <3>2. QED BY <1>3, <1>4, <2>2, <3>1 DEF Fences, IsFencedTask, NoFence
  <2>3. QED BY <2>1, <2>2
<1>6. /\ duty' \in [Jobs -> Duties] /\ owned' \in [Processes -> Owned]
      /\ target' \in [Keys -> Targets]
      /\ \A j \in Jobs : ~IsActiveJob(j)'
      /\ \A p \in Processes :
            /\ owned'[p].status # "RUNNING" /\ target'[p] = target[p]
            /\ owned'[p].job = owned[p].job
            /\ owned'[p] # owned[p] =>
                  owned[p].status = "RUNNING" /\ owned'[p].status = "TERMINATION_REQUESTED"
      /\ \A t \in AgentRuns : target'[t].status \in {"NONE", "CANCELLED"}
      /\ \A k \in Keys : \/ target'[k] = target[k]
                         \/ target'[k].status # "NONE" /\ target'[k].version > target[k].version
  BY <1>0, FenceWorkWrites
<1>7. CanTypes'
  BY <1>0, <1>2, <1>4, <1>5, <1>6 DEF CanIInv, CanTypes, services
<1>8. FenceKnown'
  <2>1. ASSUME fence'.cleaned, NEW p \in Processes
        PROVE  owned'[p].status # "TERMINATION_REQUESTED"
    <3>1. IsFencedTask /\ fence' = fence
      BY <2>1 DEF FenceTask
    <3>2. owned[p].status \notin {"RUNNING", "TERMINATION_REQUESTED"}
      BY <2>1, <3>1 DEF CanIInv, FenceKnown
    <3>3. QED BY <1>6, <3>2
  <2>2. QED BY <1>4, <1>5, <1>6, <2>1 DEF FenceKnown
<1>9. \A p \in Processes : Bound(p)'
  BY <1>0, <1>6 DEF CanIInv, Bound
<1>10. Knows(c)'
  <2> HIDE DEF e
  <2>1. call[c].todo \in SUBSET Processes
    BY <1>0 DEF CallRows
  <2>2. \A p \in call[c].todo : owned'[p].status # "NONE"
    BY <1>0, <1>6, <2>1 DEF Knows
  <2>3. call[c].known => HasEnded' /\ ending'.id = call[c].id
    BY <1>0, <1>4 DEF Knows
  <2>4. QED BY <1>1, <1>2, <1>5, <2>2, <2>3 DEF Knows, Requesting, Cleanings
<1>11. \A p \in Processes : owned[p].status # "NONE" => owned'[p].status # "NONE"
  BY <1>6
<1>12. QED
  <2> HIDE DEF e
  <2>1. QED
    BY <1>0, <1>2, <1>4, <1>5, <1>6, <1>7, <1>8, <1>9, <1>10, <1>11, CallKeeps

-----------------------------------------------------------------------------
(* The cleanup *)

LEMMA ReadProcessesKeeps == ASSUME CanIInv, NEW c \in CallerIds, ReadProcesses(c) PROVE CanIInv'
<1>0. /\ call \in [CallerIds -> CallRows] /\ call[c] \in CallRows /\ Knows(c)
      /\ call[c].step = "CLEAN" /\ IsFencedTask
      /\ UNCHANGED <<life, question, ending, fence, working, services>>
  BY DEF CanIInv, CanTypes, Knows, ReadProcesses, IsAt, Cleanings
<1> DEFINE requested == {p \in Processes : owned[p].status = "TERMINATION_REQUESTED"}
           step == IF requested = {} THEN "FINISH" ELSE IF c \in Terminators THEN "TERMINATE" ELSE "IDLE"
<1>1. /\ requested \in SUBSET Processes /\ step \in {"FINISH", "TERMINATE", "IDLE"}
      /\ \A p \in requested : owned[p].status = "TERMINATION_REQUESTED"
      /\ call' = [call EXCEPT ![c].step = step, ![c].todo = requested]
  BY DEF ReadProcesses
<1> HIDE DEF requested, step
<1> DEFINE e == [call[c] EXCEPT !.step = step, !.todo = requested]
<1>2. /\ e \in CallRows /\ e.step = step /\ e.todo = requested /\ e.known = call[c].known
      /\ e.id = call[c].id
  BY <1>0, <1>1 DEF CallRows, Cleanings
<1>3. call' = [call EXCEPT ![c] = e] /\ call'[c] = e
  BY <1>0, <1>1
<1>4. Knows(c)'
  <2> HIDE DEF e
  <2>1. QED
    BY <1>0, <1>1, <1>2, <1>3 DEF Knows, Requesting, Cleanings, HasEnded, IsFencedTask, working
<1> HIDE DEF e
<1>5. QED BY <1>0, <1>2, <1>3, <1>4, OneCallKeeps

LEMMA TerminateOwnedKeeps ==
    ASSUME CanIInv, NEW c \in CallerIds, NEW p \in Processes, TerminateOwned(c, p)
    PROVE  CanIInv'
<1>0. /\ call \in [CallerIds -> CallRows] /\ call[c] \in CallRows /\ Knows(c)
      /\ call[c].step = "TERMINATE" /\ IsFencedTask /\ p \in call[c].todo
      /\ UNCHANGED <<life, question, ending, fence, duty, owned, over, target, services>>
  BY DEF CanIInv, CanTypes, Knows, TerminateOwned, IsAt, Cleanings
<1>1. CASE Returns(c) /\ UNCHANGED alive
  BY <1>0, <1>1, MovesKeep DEF working
<1>2. CASE /\ alive' = alive \ {p}
           /\ call' = [call EXCEPT ![c].step = "RECORD", ![c].todo = {p} \cup @,
                  ![c].seen = <<p, IF p \in alive THEN "TERMINATED" ELSE "GONE">>]
  <2> DEFINE seen == <<p, IF p \in alive THEN "TERMINATED" ELSE "GONE">>
  <2>1. /\ seen \in Seen /\ seen[1] = p
        /\ call' = [call EXCEPT ![c].step = "RECORD", ![c].todo = {p} \cup @, ![c].seen = seen]
    BY <1>2 DEF Seen
  <2> HIDE DEF seen
  <2> DEFINE e == [call[c] EXCEPT !.step = "RECORD", !.todo = {p} \cup call[c].todo, !.seen = seen]
  <2>2. /\ e \in CallRows /\ e.step = "RECORD" /\ e.todo = call[c].todo /\ e.known = call[c].known
        /\ e.id = call[c].id /\ e.seen = seen
    BY <1>0, <2>1 DEF CallRows, Cleanings
  <2>3. /\ call' = [call EXCEPT ![c] = e] /\ call'[c] = e /\ call' \in [CallerIds -> CallRows]
        /\ \A d \in CallerIds \ {c} : call'[d] = call[d]
    BY <1>0, <2>1, <2>2
  <2> HIDE DEF e
  <2>4. owned[p].status # "NONE" /\ p \notin alive' /\ seen[1] = p /\ seen \in Seen
    BY <1>0, <1>2, <2>1 DEF Knows
  <2>5. Knows(c)'
    <3>1. call'[c].step = "RECORD" /\ IsFencedTask'
      BY <1>0, <2>2, <2>3 DEF IsFencedTask
    <3>2. call'[c].known => HasEnded' /\ ending'.id = call'[c].id
      BY <1>0, <2>2, <2>3 DEF Knows, HasEnded
    <3>3. \A q \in call'[c].todo : owned'[q].status # "NONE"
      BY <1>0, <2>2, <2>3 DEF Knows
    <3>4. /\ call'[c].seen \in Seen /\ owned'[call'[c].seen[1]].status # "NONE"
          /\ call'[c].seen[1] \notin alive'
      BY <1>0, <2>2, <2>3, <2>4
    <3>5. QED BY <3>1, <3>2, <3>3, <3>4 DEF Knows, Requesting
  <2>6. CanTypes' /\ EndKnown'
    BY <1>0, <1>2, <2>3 DEF CanIInv, CanTypes, EndKnown, HasEnded, services
  <2>7. FenceKnown' /\ \A q \in Processes : Bound(q)'
    BY <1>0, <1>2 DEF CanIInv, FenceKnown, Bound, IsFencedTask, HasEnded, IsActiveJob
  <2>8. IsFencedTask' /\ (HasEnded => HasEnded')
    BY <1>0 DEF IsFencedTask, HasEnded
  <2>9. QED BY <1>0, <1>2, <2>3, <2>5, <2>6, <2>7, <2>8, CallKeeps
<1>3. QED BY <1>1, <1>2 DEF TerminateOwned

LEMMA CompleteProcessCleanupKeeps ==
    ASSUME CanIInv, NEW c \in CallerIds, CompleteProcessCleanup(c)
    PROVE  CanIInv'
<1>0. /\ call \in [CallerIds -> CallRows] /\ call[c] \in CallRows /\ Knows(c)
      /\ owned \in [Processes -> Owned] /\ target \in [Keys -> Targets]
      /\ call[c].step = "RECORD" /\ IsFencedTask
      /\ UNCHANGED <<life, question, ending, fence, duty, alive, over, services>>
      /\ \A q \in Processes : Bound(q)
  BY DEF CanIInv, CanTypes, Knows, CompleteProcessCleanup, IsAt, Cleanings
<1>1. call[c].seen \in Seen /\ call[c].seen[1] \notin alive
  BY <1>0 DEF Knows
<1>2. PICK p \in Processes, end \in {"TERMINATED", "GONE"} : call[c].seen[1] = p /\ call[c].seen[2] = end
  BY <1>1 DEF Seen
<1> DEFINE done == owned[p].status = "TERMINATION_REQUESTED"
           todo == IF done THEN call[c].todo \ {p} ELSE {}
           step == IF ~done THEN "IDLE" ELSE IF call[c].todo = {p} THEN "FINISH" ELSE "TERMINATE"
<1>3a. call' = [call EXCEPT ![c].step = step, ![c].todo = todo, ![c].seen = "NONE"]
  <2>1. CASE done
    <3>1. call' = [call EXCEPT ![c].todo = @ \ {p}, ![c].seen = "NONE",
                ![c].step = IF call[c].todo = {p} THEN "FINISH" ELSE "TERMINATE"]
      BY <1>2, <2>1 DEF CompleteProcessCleanup
    <3>2. QED BY <1>0, <2>1, <3>1 DEF CallRows
  <2>2. CASE ~done
    <3>1. call' = [call EXCEPT ![c].step = "IDLE", ![c].todo = {}, ![c].seen = "NONE"]
      BY <1>2, <2>2 DEF CompleteProcessCleanup
    <3>2. QED BY <2>2, <3>1
  <2>3. QED BY <2>1, <2>2
<1>3b. ~done => owned' = owned /\ target' = target
  BY <1>2 DEF CompleteProcessCleanup
<1>3c. done => /\ owned' = [owned EXCEPT ![p].status = end]
               /\ target' = [target EXCEPT ![p].status = "CANCELLED", ![p].version = @ + 1]
  BY <1>2 DEF CompleteProcessCleanup
<1>3d. todo \in SUBSET call[c].todo /\ step \in {"IDLE", "TERMINATE", "FINISH"}
  OBVIOUS
<1> HIDE DEF todo, step
<1> DEFINE e == [call[c] EXCEPT !.step = step, !.todo = todo, !.seen = "NONE"]
<1>4. /\ e \in CallRows /\ e.step = step /\ e.todo = todo /\ e.known = call[c].known
      /\ e.id = call[c].id
  BY <1>0, <1>3d DEF CallRows, Cleanings
<1>5. /\ call'[c] = e /\ call' \in [CallerIds -> CallRows]
      /\ \A d \in CallerIds \ {c} : call'[d] = call[d]
  BY <1>0, <1>3a, <1>4
<1> HIDE DEF e
\* The process has ended, and the row says so.
<1>6. p \in Keys /\ p \notin AgentRuns /\ p \notin alive
  BY <1>1, <1>2, CancellationAssumption DEF Keys
<1>7. /\ owned' \in [Processes -> Owned] /\ \A q \in Processes \ {p} : owned'[q] = owned[q]
      /\ owned'[p].job = owned[p].job
      /\ done => owned'[p].status = end
  BY <1>0, <1>3b, <1>3c DEF Owned
<1>8. /\ target' \in [Keys -> Targets] /\ \A k \in Keys \ {p} : target'[k] = target[k]
      /\ done => target'[p].status = "CANCELLED" /\ target'[p].version > target[p].version
  <2>1. CASE ~done
    BY <1>0, <1>3b, <2>1
  <2>2. CASE done
    <3> DEFINE n == [target[p] EXCEPT !.status = "CANCELLED", !.version = target[p].version + 1]
    <3>1. target[p] \in Targets
      BY <1>0, <1>6
    <3>2. n \in Targets /\ n.status = "CANCELLED" /\ n.version > target[p].version
      BY <3>1, CancelledRow
    <3>3. target' = [target EXCEPT ![p] = n]
      BY <1>0, <1>3c, <1>6, <2>2
    <3> HIDE DEF n
    <3>4. QED BY <1>0, <1>6, <3>2, <3>3
  <2>3. QED BY <2>1, <2>2
<1>9. CanTypes' /\ EndKnown'
  BY <1>0, <1>5, <1>7, <1>8 DEF CanIInv, CanTypes, EndKnown, HasEnded, services
<1>10. FenceKnown'
  <2>1. \A t \in AgentRuns : target'[t] = target[t]
    BY <1>6, <1>8 DEF Keys
  <2>2. QED
    BY <1>0, <1>3b, <1>7, <2>1 DEF CanIInv, FenceKnown, IsFencedTask, HasEnded, IsActiveJob
<1>11. \A q \in Processes : Bound(q)'
  <2>1. ASSUME NEW q \in Processes, q # p
        PROVE  Bound(q)'
    <3>1. owned'[q] = owned[q] /\ target'[q] = target[q]
      BY <1>7, <1>8, <2>1 DEF Keys
    <3>2. QED BY <1>0, <3>1 DEF Bound
  <2>2. Bound(p)'
    <3>1. CASE ~done
      BY <1>0, <1>3b, <3>1 DEF Bound
    <3>2. CASE done
      BY <1>0, <1>6, <1>7, <1>8, <3>2 DEF Bound
    <3>3. QED BY <3>1, <3>2
  <2>3. QED BY <2>1, <2>2
<1>12. \A q \in Processes : owned[q].status # "NONE" => owned'[q].status # "NONE"
  BY <1>3b, <1>7
<1>13. Knows(c)'
  <2>1. call[c].todo \in SUBSET Processes
    BY <1>0 DEF CallRows
  <2>2. \A q \in todo : owned'[q].status # "NONE"
    BY <1>0, <1>3d, <1>12, <2>1 DEF Knows
  <2>3. call[c].known => HasEnded' /\ ending'.id = call[c].id
    BY <1>0 DEF Knows, HasEnded
  <2>4. IsFencedTask' /\ step \notin Requesting /\ step # "RECORD"
    BY <1>0, <1>3d DEF IsFencedTask, Requesting
  <2>5. QED BY <1>4, <1>5, <2>2, <2>3, <2>4 DEF Knows
<1>14. IsFencedTask' /\ (HasEnded => HasEnded') /\ ending' = ending /\ alive' = alive
  BY <1>0 DEF IsFencedTask, HasEnded
<1>15. QED
  <2>1. ASSUME NEW k \in Keys
        PROVE  \/ target'[k] = target[k]
               \/ target'[k].status # "NONE" /\ target'[k].version > target[k].version
    <3>1. CASE k # p
      BY <1>8, <3>1
    <3>2. CASE k = p
      BY <1>3b, <1>8, <3>2
    <3>3. QED BY <3>1, <3>2
  <2>2. QED
    BY <1>0, <1>5, <1>9, <1>10, <1>11, <1>12, <1>13, <1>14, <2>1, CallKeeps

LEMMA FinishCancellationKeeps == ASSUME CanIInv, NEW c \in CallerIds, FinishCancellation(c) PROVE CanIInv'
<1> DEFINE e == [call[c] EXCEPT !.step = "IDLE", !.todo = {}]
<1>0. /\ call \in [CallerIds -> CallRows] /\ call[c] \in CallRows /\ Knows(c) /\ Returns(c)
      /\ call[c].step = "FINISH" /\ IsFencedTask /\ fence \in Fences
      /\ UNCHANGED <<life, question, ending, working, services>>
  BY DEF CanIInv, CanTypes, Knows, FinishCancellation, IsAt, Cleanings
<1>1. /\ e \in CallRows /\ e.step = "IDLE" /\ e.todo = {} /\ e.known = call[c].known
      /\ e.id = call[c].id
  BY <1>0 DEF CallRows
<1>2. /\ call'[c] = e /\ call' \in [CallerIds -> CallRows]
      /\ \A d \in CallerIds \ {c} : call'[d] = call[d]
  BY <1>0, <1>1 DEF Returns
<1> HIDE DEF e
<1>3. fence.print # <<>> /\ fence.id = ending.id
  BY <1>0 DEF CanIInv, FenceKnown
<1>4. /\ fence' \in Fences /\ fence'.print = fence.print /\ fence'.id = fence.id
      /\ \/ fence' = fence
         \/ \A p \in Processes : owned[p].status # "TERMINATION_REQUESTED"
  BY <1>0 DEF FinishCancellation, Fences
<1>5. IsFencedTask'
  BY <1>3, <1>4 DEF IsFencedTask, NoFence
<1>6. CanTypes' /\ EndKnown'
  BY <1>0, <1>2, <1>4 DEF CanIInv, CanTypes, EndKnown, HasEnded, services, working
<1>7. FenceKnown'
  BY <1>0, <1>3, <1>4 DEF CanIInv, FenceKnown, HasEnded, IsActiveJob, working
<1>8. \A p \in Processes : Bound(p)'
  BY <1>0 DEF CanIInv, Bound, working
<1>9. Knows(c)'
  BY <1>0, <1>1, <1>2 DEF Knows, Requesting, Cleanings, HasEnded
<1>10. HasEnded => HasEnded' /\ ending' = ending
  BY <1>0 DEF HasEnded
<1>11. UNCHANGED <<owned, alive, target>>
  BY <1>0 DEF working
<1>12. QED
  BY <1>0, <1>2, <1>5, <1>6, <1>7, <1>8, <1>9, <1>10, <1>11, CallKeeps

LEMMA CallStepKeeps == ASSUME CanIInv, NEW c \in CallerIds, CallStep(c) PROVE CanIInv'
BY ReadTaskKeeps, DecideCancelKeeps, FenceTaskKeeps, FenceRefusedKeeps, ReadProcessesKeeps,
   TerminateOwnedKeeps, CompleteProcessCleanupKeeps, FinishCancellationKeeps DEF CallStep

-----------------------------------------------------------------------------
(* Restart and recovery *)

LEMMA RestartKeeps == ASSUME CanIInv, NEW s \in Services, RestartService(s) PROVE CanIInv'
<1>0. /\ call \in [CallerIds -> CallRows] /\ duty \in [Jobs -> Duties]
      /\ boot \in [Services -> Boots] /\ page \in [Services -> SUBSET (Keys \X Nat)]
      /\ \A c \in CallerIds : Knows(c)
      /\ UNCHANGED <<life, question, ending, fence, owned, alive, over, target>>
  BY DEF CanIInv, CanTypes, RestartService
<1>1. boot' \in [Services -> Boots]
  BY <1>0 DEF RestartService, Boot, Boots
<1>2. page' \in [Services -> SUBSET (Keys \X Nat)] /\ \A q \in Services : page'[q] \subseteq page[q]
  BY <1>0 DEF RestartService
<1>3. \A q \in Services : Read(q)'
  BY <1>0, <1>2, ReadingStays DEF CanIInv, CanTypes
<1>4. /\ duty' \in [Jobs -> Duties]
      /\ \A j \in Jobs : duty'[j].status = duty[j].status
  BY <1>0 DEF RestartService, Duties
<1>5. IsFencedTask => \A j \in Jobs : ~IsActiveJob(j)'
  BY <1>4 DEF CanIInv, FenceKnown, IsActiveJob
<1>6. ASSUME NEW c \in CallerIds
      PROVE  call'[c] \in CallRows /\ Knows(c)'
  <2>1. call[c] \in CallRows /\ Knows(c)
    BY <1>0
  <2>2. CASE call'[c] = call[c]
    BY <1>0, <2>1, <2>2, CallStays DEF HasEnded, IsFencedTask
  <2>3. CASE call'[c] = [call[c] EXCEPT !.step = "IDLE", !.todo = {}, !.seen = "NONE", !.known = FALSE]
    <3>1. /\ call'[c] \in CallRows /\ call'[c].step = "IDLE" /\ call'[c].todo = {}
          /\ call'[c].known = FALSE
      BY <2>1, <2>3 DEF CallRows
    <3>2. QED BY <3>1 DEF Knows, Requesting, Cleanings
  <2>4. QED BY <2>2, <2>3 DEF RestartService
<1>7. call' = [c \in CallerIds |-> call'[c]]
  BY DEF RestartService
<1>8. call' \in [CallerIds -> CallRows]
  BY <1>6, <1>7
<1>9. QED BY <1>0, <1>1, <1>2, <1>3, <1>4, <1>5, <1>6, <1>8, JobsKeep

\* A step of a recovery that makes no more than one call, and has read nothing.
LEMMA RecoveryKeeps ==
    ASSUME CanIInv, NEW s \in Services, NEW step \in Boots, Boot(s, step),
           UNCHANGED <<life, question, ending, fence, working, page>>,
           NEW e \in CallRows, call' = call \/ (call' = [call EXCEPT ![s] = e] /\ Knows(s)')
    PROVE  CanIInv'
<1>0. call \in [CallerIds -> CallRows] /\ s \in CallerIds /\ \A c \in CallerIds : Knows(c)
  BY DEF CanIInv, CanTypes, CallerIds
<1>1. call' \in [CallerIds -> CallRows]
  BY <1>0
<1>2. \A c \in CallerIds : Knows(c)'
  <2>1. ASSUME NEW c \in CallerIds, call'[c] = call[c]
        PROVE  Knows(c)'
    BY <1>0, <2>1, CallStays DEF working, HasEnded, IsFencedTask
  <2>2. QED BY <1>0, <2>1
<1>3. boot' \in [Services -> Boots]
  BY DEF Boot, CanIInv, CanTypes
<1>4. (\A q \in Services : Read(q)') /\ page' \in [Services -> SUBSET (Keys \X Nat)]
  BY DEF CanIInv, CanTypes, Read, working
<1>5. duty' \in [Jobs -> Duties] /\ (IsFencedTask => \A j \in Jobs : ~IsActiveJob(j)')
  BY DEF CanIInv, CanTypes, FenceKnown, IsActiveJob, working
<1>6. QED BY <1>1, <1>2, <1>3, <1>4, <1>5, JobsKeep DEF working

LEMMA RecoverLeasesKeeps == ASSUME CanIInv, NEW s \in Services, RecoverLeases(s) PROVE CanIInv'
<1>0. /\ UNCHANGED <<life, question, ending, fence, owned, alive, over, target, call, page, boots>>
      /\ duty \in [Jobs -> Duties]
  BY DEF RecoverLeases, CanIInv, CanTypes
<1>1. boot' \in [Services -> Boots]
  BY DEF RecoverLeases, Boot, CanIInv, CanTypes, Boots
<1>2. duty' \in [Jobs -> Duties]
  BY <1>0 DEF RecoverLeases, Duties
<1>3. ASSUME IsFencedTask, NEW j \in Jobs
      PROVE  ~IsActiveJob(j)'
  <2>1. duty[j].status \notin {"QUEUED", "RUNNING"}
    BY <1>3 DEF CanIInv, FenceKnown, IsActiveJob
  <2>2. duty'[j] = duty[j]
    BY <2>1 DEF RecoverLeases
  <2>3. QED BY <2>1, <2>2 DEF IsActiveJob
<1>4. (\A q \in Services : Read(q)') /\ page' \in [Services -> SUBSET (Keys \X Nat)]
  BY <1>0 DEF CanIInv, CanTypes, Read
<1>5. \A c \in CallerIds : Knows(c)'
  BY <1>0, CallStays DEF CanIInv, CanTypes, HasEnded, IsFencedTask
<1>6. call' \in [CallerIds -> CallRows]
  BY <1>0 DEF CanIInv, CanTypes
<1>7. QED BY <1>0, <1>1, <1>2, <1>3, <1>4, <1>5, <1>6, JobsKeep

LEMMA RecoverUnfencedKeeps == ASSUME CanIInv, NEW s \in Services, RecoverUnfenced(s) PROVE CanIInv'
<1> DEFINE e == [NoCall EXCEPT !.step = "READ", !.id = ending.id, !.from = ending.from,
                               !.reason = ending.reason]
<1>0. /\ s \in CallerIds /\ call \in [CallerIds -> CallRows] /\ ending \in Endings
      /\ UNCHANGED <<life, question, ending, fence, working, page>> /\ Boot(s, "CLEANUPS")
      /\ "CLEANUPS" \in Boots
  BY DEF RecoverUnfenced, CanIInv, CanTypes, CallerIds, Boots
<1>1. e \in CallRows /\ e.step = "READ" /\ e.id = ending.id /\ e.known = FALSE /\ e.todo = {}
  BY <1>0 DEF NoCall, CallRows, Requesting, Endings
<1> HIDE DEF e
<1>2. call' = call \/ (call' = [call EXCEPT ![s] = e] /\ ending # NotEnded)
  BY DEF RecoverUnfenced, e
<1>3. ASSUME call' = [call EXCEPT ![s] = e], ending # NotEnded
      PROVE  Knows(s)'
  <2>1. call'[s] = e
    BY <1>0, <1>3
  <2>2. ending.id # Nobody
    BY <1>3 DEF CanIInv, EndKnown
  <2>3. QED BY <1>1, <2>1, <2>2 DEF Knows, Requesting, Cleanings
<1>4. QED BY <1>0, <1>1, <1>2, <1>3, RecoveryKeeps

LEMMA RecoverCleanupsKeeps == ASSUME CanIInv, NEW s \in Services, RecoverCleanups(s) PROVE CanIInv'
<1> DEFINE e == [NoCall EXCEPT !.step = "CLEAN"]
<1>0. /\ s \in CallerIds /\ call \in [CallerIds -> CallRows]
      /\ UNCHANGED <<life, question, ending, fence, working, page>> /\ Boot(s, "HERMES_RUN")
      /\ "HERMES_RUN" \in Boots
  BY DEF RecoverCleanups, CanIInv, CanTypes, CallerIds, Boots
<1>1. e \in CallRows /\ e.step = "CLEAN" /\ e.known = FALSE /\ e.todo = {}
  BY DEF NoCall, CallRows, Cleanings, Ids, Froms, Reasons
<1> HIDE DEF e
<1>2. call' = call \/ (call' = [call EXCEPT ![s] = e] /\ IsFencedTask)
  BY DEF RecoverCleanups, e
<1>3. ASSUME call' = [call EXCEPT ![s] = e], IsFencedTask
      PROVE  Knows(s)'
  <2>1. call'[s] = e /\ IsFencedTask'
    BY <1>0, <1>3 DEF IsFencedTask
  <2>2. QED BY <1>1, <2>1 DEF Knows, Requesting
<1>4. QED BY <1>0, <1>1, <1>2, <1>3, RecoveryKeeps

LEMMA ReadTargetsKeeps ==
    ASSUME CanIInv, NEW s \in Services, NEW kind \in {"HERMES_RUN", "HOST_PROCESS"}, ReadTargets(s, kind)
    PROVE  CanIInv'
<1> DEFINE found == {k \in Keys : KindOf(k) = kind /\ target[k].status \notin {"NONE", "CANCELLED"}}
           items == {<<k, target[k].version>> : k \in found}
<1>0. /\ target \in [Keys -> Targets] /\ page \in [Services -> SUBSET (Keys \X Nat)]
      /\ UNCHANGED <<life, question, ending, fence, working, call, boots>>
  BY DEF CanIInv, CanTypes, ReadTargets
<1>1. page' = [page EXCEPT ![s] = items]
  BY DEF ReadTargets
<1>2. \A k \in found : k \in Keys /\ target[k].version \in Nat
                      /\ target[k].status \notin {"NONE", "CANCELLED"}
  BY <1>0 DEF Targets
<1>3. items \in SUBSET (Keys \X Nat)
  BY <1>2
<1>4. page' \in [Services -> SUBSET (Keys \X Nat)]
  BY <1>0, <1>1, <1>3
<1>5. Read(s)'
  <2>1. \A kv \in items : /\ target[kv[1]].status \notin {"NONE", "CANCELLED"}
                          /\ kv[2] <= target[kv[1]].version
    BY <1>2
  <2>2. page'[s] = items /\ target' = target
    BY <1>0, <1>1 DEF working
  <2> HIDE DEF items
  <2>3. QED BY <2>1, <2>2 DEF Read
<1>6. \A q \in Services : Read(q)'
  <2>1. ASSUME NEW q \in Services, q # s
        PROVE  Read(q)'
    <3>1. page'[q] = page[q]
      BY <1>0, <1>1, <2>1
    <3>2. QED BY <1>0, <3>1 DEF CanIInv, Read, working
  <2>2. QED BY <1>5, <2>1
<1>7. boot' \in [Services -> Boots]
  BY DEF ReadTargets, Boot, CanIInv, CanTypes, Boots
<1>8. duty' \in [Jobs -> Duties] /\ (IsFencedTask => \A j \in Jobs : ~IsActiveJob(j)')
  BY <1>0 DEF CanIInv, CanTypes, FenceKnown, IsActiveJob, working
<1>9. call' \in [CallerIds -> CallRows] /\ \A c \in CallerIds : Knows(c)'
  BY <1>0, CallStays DEF CanIInv, CanTypes, HasEnded, IsFencedTask, working
<1> HIDE DEF items, found
<1>10. QED BY <1>0, <1>4, <1>6, <1>7, <1>8, <1>9, JobsKeep DEF working

LEMMA RecordTargetKeeps ==
    ASSUME CanIInv, NEW s \in Services, NEW kv \in page[s], RecordTarget(s, kv)
    PROVE  CanIInv'
<1>0. /\ target \in [Keys -> Targets] /\ page \in [Services -> SUBSET (Keys \X Nat)]
      /\ \A p \in Processes : Bound(p)
      /\ UNCHANGED <<life, question, ending, fence, duty, owned, alive, over, call, boots>>
  BY DEF CanIInv, CanTypes, RecordTarget
<1> DEFINE k == kv[1]
<1>1. k \in Keys /\ kv[2] \in Nat /\ target[k] \in Targets /\ target[k].version \in Nat
  BY <1>0 DEF Targets
<1>2. /\ target[k].status # "NONE" /\ kv[2] <= target[k].version
      /\ target[k].status = "CANCELLED" => kv[2] < target[k].version
  BY DEF CanIInv, Read
<1>3. page' = [page EXCEPT ![s] = page[s] \ {kv}]
  BY <1>0 DEF RecordTarget
\* Only what nobody has written since is written, and that was not cancelled.
<1>4. \/ target' = target
      \/ /\ target[k].status # "CANCELLED"
         /\ \E status \in {"RETRY_REQUIRED", "UPDATED", "CURRENT"} :
               target' = [target EXCEPT ![k].status = status, ![k].version = @ + 1]
  <2>1. CASE IsUnchanged(k, kv[2])
    <3>1. PICK status \in Observation(s, k) :
             target' = [target EXCEPT ![k].status = status, ![k].version = @ + 1]
      BY <2>1 DEF RecordTarget
    <3>2. status \in {"RETRY_REQUIRED", "UPDATED", "CURRENT"}
      BY DEF Observation
    <3>3. target[k].status # "CANCELLED"
      BY <1>1, <1>2, <2>1 DEF IsUnchanged
    <3>4. QED BY <3>1, <3>2, <3>3
  <2>2. CASE ~IsUnchanged(k, kv[2])
    BY <2>2 DEF RecordTarget
  <2>3. QED BY <2>1, <2>2
<1> HIDE DEF k
<1>5. /\ target' \in [Keys -> Targets] /\ \A q \in Keys \ {k} : target'[q] = target[q]
      /\ \/ target'[k] = target[k]
         \/ /\ target[k].status # "CANCELLED" /\ target'[k].status # "NONE"
            /\ target'[k].version > target[k].version
  <2>1. CASE target' = target
    BY <1>0, <2>1
  <2>2. ASSUME NEW status \in {"RETRY_REQUIRED", "UPDATED", "CURRENT"}, target[k].status # "CANCELLED",
               target' = [target EXCEPT ![k].status = status, ![k].version = @ + 1]
        PROVE  /\ target' \in [Keys -> Targets] /\ \A q \in Keys \ {k} : target'[q] = target[q]
               /\ target'[k].status # "NONE" /\ target'[k].version > target[k].version
    <3> DEFINE m == [target[k] EXCEPT !.status = status]
               n == [m EXCEPT !.version = target[k].version + 1]
    <3>1. m \in Targets /\ m.status = status
      BY <1>1 DEF Targets
    <3>2. target' = [target EXCEPT ![k] = n]
      BY <1>0, <1>1, <2>2
    <3> HIDE DEF m
    <3>3. n \in Targets /\ n.status = status /\ n.version = target[k].version + 1
      BY <1>1, <3>1 DEF Targets
    <3> HIDE DEF n
    <3>4. target' \in [Keys -> Targets] /\ (\A q \in Keys \ {k} : target'[q] = target[q]) /\ target'[k] = n
      BY <1>0, <1>1, <3>2, <3>3
    <3>5. target'[k].version > target[k].version
      BY <1>1, <3>3, <3>4
    <3>6. QED BY <2>2, <3>3, <3>4, <3>5
  <2>3. QED BY <1>4, <2>1, <2>2
<1>6. CanTypes'
  BY <1>0, <1>3, <1>5 DEF CanIInv, CanTypes, RecordTarget, Boot, Boots
<1>7. EndKnown'
  BY <1>0 DEF CanIInv, EndKnown, HasEnded
<1>8. FenceKnown'
  <2>1. IsFencedTask => \A t \in AgentRuns : target'[t].status \in {"NONE", "CANCELLED"}
    BY <1>2, <1>5 DEF CanIInv, FenceKnown, Keys, k
  <2>2. QED BY <1>0, <2>1 DEF CanIInv, FenceKnown, IsFencedTask, HasEnded, IsActiveJob
<1>9. \A p \in Processes : Bound(p)'
  BY <1>0, <1>2, <1>5 DEF Bound, Keys, k
<1>10. \A c \in CallerIds : Knows(c)'
  BY <1>0, CallStays DEF CanIInv, CanTypes, HasEnded, IsFencedTask
<1>11. \A q \in Services : Read(q)'
  <2>1. \A q \in Services : page'[q] \subseteq page[q] /\ page[q] \in SUBSET (Keys \X Nat)
    BY <1>0, <1>3
  <2>2. ASSUME NEW q \in Keys
        PROVE  \/ target'[q] = target[q]
               \/ target'[q].status # "NONE" /\ target'[q].version > target[q].version
    <3>1. CASE q # k
      BY <1>5, <3>1
    <3>2. CASE q = k
      BY <1>5, <3>2
    <3>3. QED BY <3>1, <3>2
  <2>3. \A q \in Services : Read(q)
    BY DEF CanIInv
  <2>4. QED BY <1>0, <1>5, <2>1, <2>2, <2>3, ReadingStays
<1>12. QED BY <1>6, <1>7, <1>8, <1>9, <1>10, <1>11 DEF CanIInv

LEMMA RecoveryStepKeeps == ASSUME CanIInv, NEW s \in Services, RecoveryStep(s) PROVE CanIInv'
BY RecoverLeasesKeeps, RecoverUnfencedKeeps, RecoverCleanupsKeeps, ReadTargetsKeeps, RecordTargetKeeps
   DEF RecoveryStep

-----------------------------------------------------------------------------
(* Theorems *)

LEMMA CanStepKeeps == CanIInv /\ [CanNext]_canvars => CanIInv'
<1> SUFFICES ASSUME CanIInv, [CanNext]_canvars PROVE CanIInv'
  OBVIOUS
<1>1. CASE CanNext
  BY <1>1, WorkKeeps, TaskKeeps, AskCancelKeeps, CallStepKeeps, RestartKeeps, RecoveryStepKeeps
     DEF CanNext
<1>2. CASE UNCHANGED canvars
  <2>1. CanTypes' /\ EndKnown' /\ FenceKnown'
    BY <1>2 DEF CanIInv, canvars, CanTypes, EndKnown, FenceKnown, HasEnded, IsFencedTask, IsActiveJob
  <2>2. (\A p \in Processes : Bound(p)') /\ (\A s \in Services : Read(s)')
    BY <1>2 DEF CanIInv, canvars, Bound, Read
  <2>3. \A c \in CallerIds : Knows(c)'
    BY <1>2 DEF CanIInv, canvars, Knows, HasEnded, IsFencedTask
  <2>4. QED BY <2>1, <2>2, <2>3 DEF CanIInv
<1>3. QED BY <1>1, <1>2

\* The invariant holds of every call, restart and recovery (reliability.py), whatever
\* stands between two transactions of them.
THEOREM CanInvariance == CanSpec => []CanIInv
<1>1. CanInit => CanIInv
  BY CanInitially
<1>2. CanIInv /\ [CanNext]_canvars => CanIInv'
  BY CanStepKeeps
<1>3. QED BY <1>1, <1>2, PTL DEF CanSpec

\* Every row and every call of the model has one of the values the code gives it, and a
\* task has an ending event exactly when it has ended.
THEOREM CanTypeCorrect == CanSpec => []CanTypeOK
<1>1. CanIInv => CanTypeOK
  <2> SUFFICES ASSUME CanIInv PROVE CanTypeOK
    OBVIOUS
  <2>1. \A j \in Jobs : duty[j] \in Duties
    BY DEF CanIInv, CanTypes
  <2>2. \A k \in Keys : target[k] \in Targets
    BY DEF CanIInv, CanTypes
  <2>3. /\ life \in Lives /\ question \in BOOLEAN /\ (life = "WAITING") = question
        /\ HasEnded = (ending # NotEnded) /\ alive \subseteq Processes /\ over \subseteq AgentRuns
    <3>1. HasEnded \in BOOLEAN /\ (ending # NotEnded) \in BOOLEAN /\ (HasEnded <=> ending # NotEnded)
      BY DEF CanIInv, EndKnown, HasEnded
    <3>2. question \in BOOLEAN /\ ((life = "WAITING") <=> question)
      BY DEF CanIInv, CanTypes, EndKnown
    <3>3. QED BY <3>1, <3>2 DEF CanIInv, CanTypes
  <2>4. \A j \in Jobs : /\ duty[j].status \in {"QUEUED", "RUNNING", "SUCCEEDED", "FAILED", "CANCELLED"}
                        /\ duty[j].lease \in 0 .. MaxJobLeases
    BY <2>1 DEF Duties
  <2>5. \A k \in Keys : target[k].status \in {"NONE", "PENDING", "CURRENT", "UPDATED", "RETRY_REQUIRED",
                                              "CANCELLED"}
    BY <2>2 DEF Targets
  <2>6. IsFencedTask => fence.id = ending.id
    BY DEF CanIInv, FenceKnown
  <2>7. QED BY <2>3, <2>4, <2>5, <2>6 DEF CanTypeOK, Lives
<1>2. QED BY <1>1, CanInvariance, PTL

\* Once a task is fenced (cancel_task and _finish_cancellation_if_clean) no job, process or
\* Hermes run of it comes back to life, and a cleanup that is called complete is.
THEOREM FenceHoldsAlways == CanSpec => []FenceHolds
<1>1. CanIInv => FenceHolds
  <2> SUFFICES ASSUME CanIInv, IsFencedTask PROVE FenceHolds
    BY DEF FenceHolds
  <2>1. /\ HasEnded
        /\ \A j \in Jobs : ~IsActiveJob(j)
        /\ \A p \in Processes : owned[p].status # "RUNNING"
        /\ \A t \in AgentRuns : target[t].status \in {"NONE", "CANCELLED"}
    BY DEF CanIInv, FenceKnown
  <2>2. ASSUME fence.cleaned, NEW p \in Processes, IsRegistered(p)
        PROVE  p \notin alive /\ target[p].status = "CANCELLED"
    <3>1. owned[p].status \notin {"NONE", "STARTED", "RUNNING", "TERMINATION_REQUESTED"}
      BY <2>1, <2>2 DEF CanIInv, FenceKnown, IsRegistered
    <3>2. owned[p] \in Owned
      BY DEF CanIInv, CanTypes
    <3>3. owned[p].status \in {"TERMINATED", "GONE"}
      BY <3>1, <3>2 DEF Owned
    <3>4. QED BY <3>3 DEF CanIInv, Bound
  <2>3. QED BY <2>1, <2>2 DEF FenceHolds
<1>2. QED BY <1>1, CanInvariance, PTL

-----------------------------------------------------------------------------
(* The workspace                                                                  *)
(*                                                                                *)
(* For any paths, contents and callers and any number of commits, wherever the    *)
(* agent dies, the branch is on the base or on a commit the manifest has named,   *)
(* and none of those changes a prohibited path.  The invariant says of each write *)
(* of an operation what the operation has done by then, so that stopping there    *)
(* leaves what the property promises.                                             *)

LifecycleSteps == {"ADD", "ACTIVATE", "REMOVE", "DELETE_BRANCH", "RECORD_CLEANED"}

\* The writes of a commit: before it is recorded, until the branch moves, and after.
Unnamed     == {"STAGE", "RECORD"}
Unmoved     == {"READ_TREE", "UPDATE_REF", "UNDO_INDEX", "UNDO_RECORD"}
Moved       == {"VERIFY", "UNDO_REF"}
CommitSteps == Unnamed \cup Unmoved \cup Moved

OpRows == [step : {"NONE"} \cup LifecycleSteps \cup CommitSteps, expected : Nat,
           paths : SUBSET Paths, old : Nat \cup {NoCommit}, new : Nat]

ManifestStates    == {"NONE", "CREATING", "ACTIVE", "CLEANED"}
Manifests == [state : ManifestStates, candidate : recorded \cup {NoCommit}]
Pushes    == [step : {"NONE", "SEND", "CHECK", "GOOD", "CHANGED"}, head : Nat,
              seen : [state : ManifestStates, candidate : Nat \cup {NoCommit}]]
Commits   == [parent : {0}, tree : Trees]

WsTypes ==
    /\ manifest \in Manifests
    /\ branch \in recorded \cup {0, NoCommit}
    /\ worktree \in {"ABSENT", "PARTIAL", "READY"}
    /\ staged \in Trees /\ files \in Trees
    /\ commits \in Seq(Commits)
    /\ recorded \subseteq 1 .. Len(commits)
    /\ published \in recorded \cup {NoCommit}
    /\ push \in [Callers -> Pushes]
    /\ op \in OpRows

\* What is sent was a candidate.
Sent == \A c \in Callers : push[c].step = "SEND" => push[c].head \in recorded

\* What is not owned is not there, and a creation has made no commit.
Unowned ==
    /\ manifest.state \in {"NONE", "CLEANED"} => branch = NoCommit /\ worktree = "ABSENT"
    /\ manifest.state = "CREATING" => branch \in {0, NoCommit}

\* How far a creation or a cleanup is.
Lifetimes ==
    /\ op.step \in {"ADD", "ACTIVATE"} => manifest.state = "CREATING"
    /\ op.step \in {"REMOVE", "DELETE_BRANCH", "RECORD_CLEANED"} =>
          manifest.state \in {"CREATING", "ACTIVE"}
    /\ op.step \in {"DELETE_BRANCH", "RECORD_CLEANED"} => worktree = "ABSENT"
    /\ op.step = "RECORD_CLEANED" => branch = NoCommit

\* A commit builds on the base or on the candidate it found,
Based ==
    op.step \in CommitSteps =>
        /\ manifest.state = "ACTIVE"
        /\ op.old \in recorded \cup {NoCommit}
        /\ op.expected \in {0, op.old}

\* changes nothing that is prohibited,
Harmless ==
    /\ op.step = "STAGE" => AreAllowed(op.paths)
    /\ op.step \in CommitSteps \ {"STAGE"} =>
          /\ op.new \in 1 .. Len(commits)
          /\ AreAllowed(HistoryPaths(op.new))
          /\ op.new # op.expected

\* and is recorded before the branch moves.
Named ==
    /\ op.step \in Unnamed => manifest.candidate = op.old /\ branch = op.expected
    /\ op.step = "RECORD" => op.new \notin recorded
    /\ op.step \in Unmoved \cup Moved =>
          manifest.candidate = op.new /\ op.new \in recorded
    /\ op.step \in Unmoved => branch = op.expected
    /\ op.step \in Moved => branch = op.new

Repaired == \E m, n \in recorded : m # n

\* Between commits the branch is on the candidate, or there has been another.
OutcomesSettled ==
    op.step \notin CommitSteps => branch \in {0, NoCommit, manifest.candidate} \/ Repaired

PathsAllowed == \A n \in recorded : AreAllowed(HistoryPaths(n))

WsIInv ==
    /\ WsTypes /\ Sent /\ Unowned /\ Lifetimes /\ Based /\ Harmless /\ Named /\ OutcomesSettled
    /\ PathsAllowed

-----------------------------------------------------------------------------

\* The tree of the base, or of a commit there is, is a tree.
LEMMA TreesAreTrees ==
    ASSUME WsTypes, NEW n \in 0 .. Len(commits)
    PROVE  Tree(n) \in Trees
<1>1. BaseTree \in Trees
  BY WorkspaceAssumption DEF BaseTree, Trees
<1>2. CASE n = 0
  BY <1>1, <1>2 DEF Tree
<1>3. CASE n # 0
  <2>1. commits[n] \in Commits
    BY <1>3 DEF WsTypes
  <2>2. QED BY <1>3, <2>1 DEF Tree, Commits
<1>4. QED BY <1>2, <1>3

LEMMA WsInitially == WsInit => WsIInv
<1> SUFFICES ASSUME WsInit PROVE WsIInv OBVIOUS
<1>1. BaseTree \in Trees
  BY WorkspaceAssumption DEF BaseTree, Trees
<1>2. WsTypes
  BY <1>1 DEF WsInit, WsTypes, Manifests, ManifestStates, Manifest, Nothing, Silent, Pushes, OpRows
<1>3. QED
  BY <1>2 DEF WsInit, WsIInv, Sent, Unowned, Lifetimes, Based, Harmless, Named, OutcomesSettled,
              PathsAllowed,
              Nothing, Silent, Manifest, CommitSteps, Unnamed, Unmoved, Moved

-----------------------------------------------------------------------------
(* Each operation keeps the invariant *)

LEMMA LifecycleKeeps == WsIInv /\ Lifecycle => WsIInv'
<1> SUFFICES ASSUME WsIInv, Lifecycle PROVE WsIInv'
  OBVIOUS
<1>0. BaseTree \in Trees
  BY WorkspaceAssumption DEF BaseTree, Trees
<1> USE DEF CommitSteps, Unnamed, Unmoved, Moved, LifecycleSteps, repository, elsewhere, Continue, Release,
           Nothing, LockIsFree, StepAfter
<1>1. CASE BeginCreate
  <2>1. WsTypes'
    BY <1>0, <1>1 DEF WsIInv, WsTypes, OpRows, Manifests, ManifestStates, Manifest, Lifetimes, Named,
                      BeginCreate
  <2>2. Sent' /\ Unowned' /\ Lifetimes' /\ OutcomesSettled'
    BY <1>0, <1>1 DEF WsIInv, WsTypes, Sent, Unowned, Lifetimes, OutcomesSettled, Repaired, Based,
                      Named,
           OpRows, Manifest, BeginCreate
  <2>3. Based' /\ Harmless' /\ Named' /\ PathsAllowed'
    BY <1>0, <1>1 DEF WsIInv, WsTypes, OpRows, Based, Harmless, Named, PathsAllowed, HistoryPaths,
           Tree, Manifest, BeginCreate
  <2>4. QED BY <2>1, <2>2, <2>3 DEF WsIInv
<1>2. CASE ResumeCreate
  <2>1. WsTypes'
    BY <1>0, <1>2 DEF WsIInv, WsTypes, OpRows, Manifests, ManifestStates, Manifest, Lifetimes, Named,
                      ResumeCreate
  <2>2. Sent' /\ Unowned' /\ Lifetimes' /\ OutcomesSettled'
    BY <1>0, <1>2 DEF WsIInv, WsTypes, Sent, Unowned, Lifetimes, OutcomesSettled, Repaired, Based,
                      Named,
           OpRows, Manifest, ResumeCreate
  <2>3. Based' /\ Harmless' /\ Named' /\ PathsAllowed'
    BY <1>0, <1>2 DEF WsIInv, WsTypes, OpRows, Based, Harmless, Named, PathsAllowed, HistoryPaths,
           Tree, Manifest, ResumeCreate
  <2>4. QED BY <2>1, <2>2, <2>3 DEF WsIInv
<1>3. CASE AddWorktree
  <2>1. WsTypes'
    BY <1>0, <1>3 DEF WsIInv, WsTypes, OpRows, Manifests, ManifestStates, Manifest, Lifetimes, Named,
                      AddWorktree
  <2>2. Sent' /\ Unowned' /\ Lifetimes' /\ OutcomesSettled'
    BY <1>0, <1>3 DEF WsIInv, WsTypes, Sent, Unowned, Lifetimes, OutcomesSettled, Repaired, Based,
                      Named,
           OpRows, Manifest, AddWorktree
  <2>3. Based' /\ Harmless' /\ Named' /\ PathsAllowed'
    BY <1>0, <1>3 DEF WsIInv, WsTypes, OpRows, Based, Harmless, Named, PathsAllowed, HistoryPaths,
           Tree, Manifest, AddWorktree
  <2>4. QED BY <2>1, <2>2, <2>3 DEF WsIInv
<1>4. CASE AddWorktreeFails
  <2>1. WsTypes'
    BY <1>0, <1>4 DEF WsIInv, WsTypes, OpRows, Manifests, ManifestStates, Manifest, Lifetimes, Named,
                      AddWorktreeFails
  <2>2. Sent' /\ Unowned' /\ Lifetimes' /\ OutcomesSettled'
    BY <1>0, <1>4 DEF WsIInv, WsTypes, Sent, Unowned, Lifetimes, OutcomesSettled, Repaired, Based,
                      Named,
           OpRows, Manifest, AddWorktreeFails
  <2>3. Based' /\ Harmless' /\ Named' /\ PathsAllowed'
    BY <1>0, <1>4 DEF WsIInv, WsTypes, OpRows, Based, Harmless, Named, PathsAllowed, HistoryPaths,
           Tree, Manifest, AddWorktreeFails
  <2>4. QED BY <2>1, <2>2, <2>3 DEF WsIInv
<1>5. CASE FindWorktree
  <2>1. WsTypes'
    BY <1>0, <1>5 DEF WsIInv, WsTypes, OpRows, Manifests, ManifestStates, Manifest, Lifetimes, Named,
                      FindWorktree
  <2>2. Sent' /\ Unowned' /\ Lifetimes' /\ OutcomesSettled'
    BY <1>0, <1>5 DEF WsIInv, WsTypes, Sent, Unowned, Lifetimes, OutcomesSettled, Repaired, Based,
                      Named,
           OpRows, Manifest, FindWorktree
  <2>3. Based' /\ Harmless' /\ Named' /\ PathsAllowed'
    BY <1>0, <1>5 DEF WsIInv, WsTypes, OpRows, Based, Harmless, Named, PathsAllowed, HistoryPaths,
           Tree, Manifest, FindWorktree
  <2>4. QED BY <2>1, <2>2, <2>3 DEF WsIInv
<1>6. CASE RecordActive
  <2>1. WsTypes'
    BY <1>0, <1>6 DEF WsIInv, WsTypes, OpRows, Manifests, ManifestStates, Manifest, Lifetimes, Named,
                      RecordActive
  <2>2. Sent' /\ Unowned' /\ Lifetimes' /\ OutcomesSettled'
    BY <1>0, <1>6 DEF WsIInv, WsTypes, Sent, Unowned, Lifetimes, OutcomesSettled, Repaired, Based,
                      Named,
           OpRows, Manifest, RecordActive
  <2>3. Based' /\ Harmless' /\ Named' /\ PathsAllowed'
    BY <1>0, <1>6 DEF WsIInv, WsTypes, OpRows, Based, Harmless, Named, PathsAllowed, HistoryPaths,
           Tree, Manifest, RecordActive
  <2>4. QED BY <2>1, <2>2, <2>3 DEF WsIInv
<1>7. CASE BeginCleanup
  <2>1. WsTypes'
    BY <1>0, <1>7 DEF WsIInv, WsTypes, OpRows, Manifests, ManifestStates, Manifest, Lifetimes, Named,
                      BeginCleanup
  <2>2. Sent' /\ Unowned' /\ Lifetimes' /\ OutcomesSettled'
    BY <1>0, <1>7 DEF WsIInv, WsTypes, Sent, Unowned, Lifetimes, OutcomesSettled, Repaired, Based,
                      Named,
           OpRows, Manifest, BeginCleanup
  <2>3. Based' /\ Harmless' /\ Named' /\ PathsAllowed'
    BY <1>0, <1>7 DEF WsIInv, WsTypes, OpRows, Based, Harmless, Named, PathsAllowed, HistoryPaths,
           Tree, Manifest, BeginCleanup
  <2>4. QED BY <2>1, <2>2, <2>3 DEF WsIInv
<1>8. CASE RemoveWorktree
  <2>1. WsTypes'
    BY <1>0, <1>8 DEF WsIInv, WsTypes, OpRows, Manifests, ManifestStates, Manifest, Lifetimes, Named,
                      RemoveWorktree
  <2>2. Sent' /\ Unowned' /\ Lifetimes' /\ OutcomesSettled'
    BY <1>0, <1>8 DEF WsIInv, WsTypes, Sent, Unowned, Lifetimes, OutcomesSettled, Repaired, Based,
                      Named,
           OpRows, Manifest, RemoveWorktree
  <2>3. Based' /\ Harmless' /\ Named' /\ PathsAllowed'
    BY <1>0, <1>8 DEF WsIInv, WsTypes, OpRows, Based, Harmless, Named, PathsAllowed, HistoryPaths,
           Tree, Manifest, RemoveWorktree
  <2>4. QED BY <2>1, <2>2, <2>3 DEF WsIInv
<1>9. CASE RemoveWorktreeFails
  <2>1. WsTypes'
    BY <1>0, <1>9 DEF WsIInv, WsTypes, OpRows, Manifests, ManifestStates, Manifest, Lifetimes, Named,
                      RemoveWorktreeFails
  <2>2. Sent' /\ Unowned' /\ Lifetimes' /\ OutcomesSettled'
    BY <1>0, <1>9 DEF WsIInv, WsTypes, Sent, Unowned, Lifetimes, OutcomesSettled, Repaired, Based,
                      Named,
           OpRows, Manifest, RemoveWorktreeFails
  <2>3. Based' /\ Harmless' /\ Named' /\ PathsAllowed'
    BY <1>0, <1>9 DEF WsIInv, WsTypes, OpRows, Based, Harmless, Named, PathsAllowed, HistoryPaths,
           Tree, Manifest, RemoveWorktreeFails
  <2>4. QED BY <2>1, <2>2, <2>3 DEF WsIInv
<1>10. CASE DeleteBranch
  <2>1. WsTypes'
    BY <1>0, <1>10 DEF WsIInv, WsTypes, OpRows, Manifests, ManifestStates, Manifest, Lifetimes, Named,
                       DeleteBranch
  <2>2. Sent' /\ Unowned' /\ Lifetimes' /\ OutcomesSettled'
    BY <1>0, <1>10 DEF WsIInv, WsTypes, Sent, Unowned, Lifetimes, OutcomesSettled, Repaired, Based,
                       Named,
           OpRows, Manifest, DeleteBranch
  <2>3. Based' /\ Harmless' /\ Named' /\ PathsAllowed'
    BY <1>0, <1>10 DEF WsIInv, WsTypes, OpRows, Based, Harmless, Named, PathsAllowed, HistoryPaths,
           Tree, Manifest, DeleteBranch
  <2>4. QED BY <2>1, <2>2, <2>3 DEF WsIInv
<1>11. CASE RecordCleaned
  <2>1. WsTypes'
    BY <1>0, <1>11 DEF WsIInv, WsTypes, OpRows, Manifests, ManifestStates, Manifest, Lifetimes, Named,
                       RecordCleaned
  <2>2. Sent' /\ Unowned' /\ Lifetimes' /\ OutcomesSettled'
    BY <1>0, <1>11 DEF WsIInv, WsTypes, Sent, Unowned, Lifetimes, OutcomesSettled, Repaired, Based,
                       Named,
           OpRows, Manifest, RecordCleaned
  <2>3. Based' /\ Harmless' /\ Named' /\ PathsAllowed'
    BY <1>0, <1>11 DEF WsIInv, WsTypes, OpRows, Based, Harmless, Named, PathsAllowed, HistoryPaths,
           Tree, Manifest, RecordCleaned
  <2>4. QED BY <2>1, <2>2, <2>3 DEF WsIInv
<1>20. QED BY <1>1, <1>2, <1>3, <1>4, <1>5, <1>6, <1>7, <1>8, <1>9, <1>10, <1>11 DEF Lifecycle

LEMMA CommittingKeeps == WsIInv /\ Committing => WsIInv'
<1> SUFFICES ASSUME WsIInv, Committing PROVE WsIInv'
  OBVIOUS
<1> USE WorkspaceAssumption
<1>0. \A n \in 0 .. Len(commits) : Tree(n) \in Trees
  BY TreesAreTrees DEF WsIInv
<1>1. CASE RecordOwnership
  <2>1. /\ op.step = "RECORD" /\ op \in OpRows
        /\ op' = [op EXCEPT !.step = "READ_TREE"]
        /\ manifest' = [manifest EXCEPT !.candidate = op.new] /\ manifest \in Manifests
        /\ recorded' = recorded \cup {op.new}
        /\ UNCHANGED <<branch, worktree, staged, files, commits, push, published>>
    BY <1>1 DEF WsIInv, WsTypes, RecordOwnership, StepAfter, Continue, repository
  <2>2. op'.step = "READ_TREE" /\ op' \in OpRows /\ UNCHANGED <<op.new, op.expected, op.old>>
    BY <2>1 DEF OpRows, CommitSteps, Unmoved
  <2>3. op.new \in 1 .. Len(commits) /\ AreAllowed(HistoryPaths(op.new)) /\ op.new # op.expected
    BY <2>1 DEF WsIInv, Harmless, CommitSteps, Unnamed
  <2>4. \A n : HistoryPaths(n)' = HistoryPaths(n)
    BY <2>1 DEF HistoryPaths, Tree
  <2>5. manifest'.candidate = op.new /\ manifest'.state = manifest.state /\ manifest' \in Manifests'
    BY <2>1 DEF Manifests
  <2>6. WsTypes'
    BY <2>1, <2>2, <2>3, <2>5 DEF WsIInv, WsTypes
  <2>7. Harmless' /\ PathsAllowed'
    BY <2>1, <2>2, <2>3, <2>4 DEF WsIInv, Harmless, PathsAllowed, AreAllowed
  <2>8. Based' /\ Named'
    BY <2>1, <2>2, <2>5 DEF WsIInv, Based, Named, CommitSteps, Unnamed, Unmoved, Moved
  <2>9. Sent' /\ Unowned' /\ Lifetimes' /\ OutcomesSettled'
    BY <2>1, <2>2, <2>5 DEF WsIInv, Sent, Unowned, Lifetimes, OutcomesSettled, CommitSteps, Unmoved
  <2>10. QED BY <2>6, <2>7, <2>8, <2>9 DEF WsIInv
<1>2. CASE ReadTree
  <2>1. op.new \in 0 .. Len(commits)
    BY <1>2 DEF WsIInv, Harmless, ReadTree, CommitSteps, Unmoved
  <2>2. staged' \in Trees
    BY <1>0, <1>2, <2>1 DEF ReadTree
  <2>3. QED
    BY <1>2, <2>2 DEF WsIInv, WsTypes, OpRows, Manifests, ManifestStates, LifecycleSteps, Unowned,
                      Lifetimes, Based, Harmless,
           Named, OutcomesSettled, Repaired, PathsAllowed, Sent, CommitSteps, Unnamed, Unmoved, Moved,
           HistoryPaths, Tree, repository, elsewhere, Continue, Release, Nothing, LockIsFree,
           Manifest, ReadTree, StepAfter
<1>10. CASE \E h \in 0 .. Len(commits) : BeginCommit(h)
  <2> PICK h \in 0 .. Len(commits) : BeginCommit(h)
    BY <1>10
  <2>1. /\ op.step = "NONE" /\ manifest.state = "ACTIVE" /\ branch = h
        /\ h = 0 \/ h = manifest.candidate
        /\ AreAllowed(ChangedPaths) /\ ChangedPaths \in SUBSET Paths
        /\ op' = [step |-> "STAGE", expected |-> h, paths |-> ChangedPaths,
                  old |-> manifest.candidate, new |-> 0]
        /\ UNCHANGED <<manifest, branch, worktree, staged, files, commits, push, recorded, published>>
    BY DEF BeginCommit, LockIsFree, WithinBoundary, IsActive, Nothing, ChangedPaths, repository,
           elsewhere
  <2>2. manifest.candidate \in recorded \cup {NoCommit} /\ manifest.candidate \in Nat \cup {NoCommit}
    <3>1. recorded \subseteq Nat
      BY DEF WsIInv, WsTypes
    <3>2. QED BY <3>1 DEF WsIInv, WsTypes, Manifests
  <2>3. op' \in OpRows
    BY <2>1, <2>2 DEF OpRows, CommitSteps, Unnamed
  <2>4. \A n : HistoryPaths(n)' = HistoryPaths(n)
    BY <2>1 DEF HistoryPaths, Tree
  <2>5. WsTypes' /\ PathsAllowed'
    BY <2>1, <2>3, <2>4 DEF WsIInv, WsTypes, Manifests, PathsAllowed, AreAllowed
  <2>6. Sent' /\ Unowned' /\ Lifetimes' /\ OutcomesSettled'
    BY <2>1 DEF WsIInv, Sent, Unowned, Lifetimes, OutcomesSettled, CommitSteps, Unnamed
  <2>7. Based' /\ Harmless' /\ Named'
    BY <2>1, <2>2 DEF Based, Harmless, Named, CommitSteps, Unnamed, Unmoved, Moved, AreAllowed
  <2>8. QED BY <2>5, <2>6, <2>7 DEF WsIInv
<1>11. CASE Stage
  <2>1. op.step = "STAGE" /\ StagedTree \in Trees
    <3>1. op.step = "STAGE" /\ op.expected \in 0 .. Len(commits)
      BY <1>11 DEF WsIInv, WsTypes, Based, Stage, CommitSteps, Unnamed, OpRows
    <3>2. Tree(op.expected) \in Trees /\ files \in Trees
      BY <1>0, <3>1 DEF WsIInv, WsTypes
    <3>3. QED
      BY <3>1, <3>2 DEF StagedTree, Trees
  <2>2. CASE op'.step = "NONE"
    <3>1. op' = Nothing /\ UNCHANGED <<manifest, branch, worktree, staged, files, commits, push, recorded, published>>
      <4>1. op \in OpRows
        BY DEF WsIInv, WsTypes
      <4>2. QED
        BY <1>11, <2>2, <4>1 DEF Stage, StepAfter, Release, repository, elsewhere, OpRows
    <3>2. op'.step = "NONE" /\ op' \in OpRows
      BY <3>1 DEF Nothing, OpRows
    <3>3. \A n : HistoryPaths(n)' = HistoryPaths(n)
      BY <3>1 DEF HistoryPaths, Tree
    <3>4. WsTypes' /\ PathsAllowed'
      BY <3>1, <3>2, <3>3 DEF WsIInv, WsTypes, Manifests, PathsAllowed, AreAllowed
    <3>5. OutcomesSettled'
      BY <2>1, <3>1 DEF WsIInv, OutcomesSettled, Based, Named, CommitSteps, Unnamed
    <3>6. Sent' /\ Unowned' /\ Lifetimes' /\ Based' /\ Harmless' /\ Named'
      BY <3>1, <3>2 DEF WsIInv, Sent, Unowned, Lifetimes, Based, Harmless, Named, CommitSteps, Unnamed,
                        Unmoved, Moved
    <3>7. QED BY <3>4, <3>5, <3>6 DEF WsIInv
  <2>3. CASE op'.step # "NONE"
    <3> DEFINE commit == [parent |-> 0, tree |-> StagedTree]
    <3>0. op \in OpRows /\ commits \in Seq(Commits) /\ Len(commits) \in Nat
      BY DEF WsIInv, WsTypes
    <3> PICK k \in Nat : k = Len(commits) + 1
      BY <3>0
    <3>1. commits' = Append(commits, commit) /\ op' = [op EXCEPT !.step = "RECORD", !.new = k]
      BY <1>11, <2>1, <2>3 DEF Stage, StepAfter, Release, Nothing
    <3>2. commit \in Commits
      BY <2>1 DEF Commits
    <3>3. /\ commits' \in Seq(Commits) /\ Len(commits') = k
          /\ commits'[k] = commit
          /\ \A n \in 1 .. Len(commits) : commits'[n] = commits[n]
      BY <3>0, <3>1, <3>2
    <3>4. k # 0 /\ k \notin 0 .. Len(commits) /\ 1 .. Len(commits) \subseteq 1 .. k
      BY <3>0
    <3>5. \A n \in 0 .. Len(commits) : Tree(n)' = Tree(n)
      BY <3>3 DEF Tree, BaseTree
    <3>6. op' \in OpRows /\ op'.step = "RECORD" /\ op'.new = k /\ UNCHANGED <<op.expected, op.old>>
      <4>1. "RECORD" \in {"NONE"} \cup LifecycleSteps \cup CommitSteps
        BY DEF CommitSteps, Unnamed
      <4>2. QED
        BY <3>0, <3>1, <4>1 DEF OpRows
    <3>7. AreAllowed(HistoryPaths(k))'
      <4>1. Tree(k)' = StagedTree
        BY <3>3, <3>4 DEF Tree
      <4>2. op.expected = 0 \/ op.expected \in recorded
        BY <2>1, <3>0, WorkspaceAssumption DEF WsIInv, Based, CommitSteps, Unnamed, OpRows
      <4>3. AreAllowed(HistoryPaths(op.expected)) /\ AreAllowed(op.paths)
        BY <2>1, <4>2 DEF WsIInv, PathsAllowed, Harmless, AreAllowed, HistoryPaths, Tree, BaseTree
      <4>4. HistoryPaths(k)' \subseteq op.paths \cup HistoryPaths(op.expected)
        BY <4>1 DEF HistoryPaths, StagedTree
      <4>5. QED BY <4>3, <4>4 DEF AreAllowed
    <3>8. \A n \in 1 .. Len(commits) : HistoryPaths(n)' = HistoryPaths(n)
      BY <3>5 DEF HistoryPaths
    <3>9. WsTypes'
      BY <1>11, <3>3, <3>4, <3>6 DEF WsIInv, WsTypes, Stage, Manifests, repository, elsewhere
    <3>10. Harmless'
      <4>1. op'.expected # k
        BY <2>1, <3>4, <3>6, WorkspaceAssumption DEF WsIInv, WsTypes, Based, CommitSteps, Unnamed,
                                                     OpRows
      <4>2. op'.new \in 1 .. Len(commits') /\ AreAllowed(HistoryPaths(op.new))'
        BY <3>3, <3>4, <3>6, <3>7 DEF HistoryPaths, AreAllowed, Tree
      <4>3. QED
        BY <3>6, <4>1, <4>2 DEF Harmless
    <3>11. Named'
      BY <1>11, <2>1, <3>4, <3>6
         DEF WsIInv, WsTypes, Named, Stage, Unnamed, Unmoved, Moved, repository, elsewhere
    <3>12. PathsAllowed'
      BY <1>11, <3>8 DEF WsIInv, WsTypes, PathsAllowed, Stage, elsewhere, AreAllowed
    <3>13. Sent' /\ Unowned' /\ Lifetimes' /\ Based' /\ OutcomesSettled'
      BY <1>11, <2>1, <3>6
         DEF WsIInv, Sent, Unowned, Lifetimes, Based, OutcomesSettled, Repaired, Stage, repository,
             elsewhere,
             CommitSteps, Unnamed, Unmoved, Moved
    <3>14. QED
      BY <3>9, <3>10, <3>11, <3>12, <3>13 DEF WsIInv
  <2>4. QED BY <2>2, <2>3
<1> USE DEF CommitSteps, Unnamed, Unmoved, Moved, LifecycleSteps, repository, elsewhere, Continue, Release,
           Nothing, LockIsFree, StepAfter
<1>3. CASE UpdateRef
  <2>1. WsTypes'
    BY <1>3 DEF WsIInv, WsTypes, OpRows, Manifests, ManifestStates, Manifest, Lifetimes, Named,
                UpdateRef
  <2>2. Sent' /\ Unowned' /\ Lifetimes' /\ OutcomesSettled'
    BY <1>3 DEF WsIInv, WsTypes, Sent, Unowned, Lifetimes, OutcomesSettled, Repaired, Based, Named,
           OpRows, Manifest, UpdateRef
  <2>3. Based' /\ Harmless' /\ Named' /\ PathsAllowed'
    BY <1>3 DEF WsIInv, WsTypes, OpRows, Based, Harmless, Named, PathsAllowed, HistoryPaths,
           Tree, Manifest, UpdateRef
  <2>4. QED BY <2>1, <2>2, <2>3 DEF WsIInv
<1>4. CASE UpdateFails
  <2>1. WsTypes'
    BY <1>4 DEF WsIInv, WsTypes, OpRows, Manifests, ManifestStates, Manifest, Lifetimes, Named,
                UpdateFails
  <2>2. Sent' /\ Unowned' /\ Lifetimes' /\ OutcomesSettled'
    BY <1>4 DEF WsIInv, WsTypes, Sent, Unowned, Lifetimes, OutcomesSettled, Repaired, Based, Named,
           OpRows, Manifest, UpdateFails
  <2>3. Based' /\ Harmless' /\ Named' /\ PathsAllowed'
    BY <1>4 DEF WsIInv, WsTypes, OpRows, Based, Harmless, Named, PathsAllowed, HistoryPaths,
           Tree, Manifest, UpdateFails
  <2>4. QED BY <2>1, <2>2, <2>3 DEF WsIInv
<1>5. CASE Verify
  <2>1. WsTypes'
    BY <1>5 DEF WsIInv, WsTypes, OpRows, Manifests, ManifestStates, Manifest, Lifetimes, Named, Verify
  <2>2. Sent' /\ Unowned' /\ Lifetimes' /\ OutcomesSettled'
    BY <1>5 DEF WsIInv, WsTypes, Sent, Unowned, Lifetimes, OutcomesSettled, Repaired, Based, Named,
           OpRows, Manifest, Verify
  <2>3. Based' /\ Harmless' /\ Named' /\ PathsAllowed'
    BY <1>5 DEF WsIInv, WsTypes, OpRows, Based, Harmless, Named, PathsAllowed, HistoryPaths,
           Tree, Manifest, Verify
  <2>4. QED BY <2>1, <2>2, <2>3 DEF WsIInv
<1>6. CASE UndoRef
  <2>1. WsTypes'
    BY <1>6 DEF WsIInv, WsTypes, OpRows, Manifests, ManifestStates, Manifest, Lifetimes, Based, Named,
           UndoRef
  <2>2. Sent' /\ Unowned' /\ Lifetimes' /\ OutcomesSettled'
    BY <1>6 DEF WsIInv, WsTypes, Sent, Unowned, Lifetimes, OutcomesSettled, Repaired, Based, Named,
           OpRows, Manifest, UndoRef
  <2>3. Based' /\ Harmless' /\ Named' /\ PathsAllowed'
    BY <1>6 DEF WsIInv, WsTypes, OpRows, Based, Harmless, Named, PathsAllowed, HistoryPaths,
           Tree, Manifest, UndoRef
  <2>4. QED BY <2>1, <2>2, <2>3 DEF WsIInv
<1>7. CASE UndoIndex
  <2>1. WsTypes'
    BY <1>0, <1>7 DEF WsIInv, WsTypes, OpRows, Manifests, ManifestStates, Manifest, Lifetimes, Based,
                      Named,
           UndoIndex
  <2>2. Sent' /\ Unowned' /\ Lifetimes' /\ OutcomesSettled'
    BY <1>0, <1>7 DEF WsIInv, WsTypes, Sent, Unowned, Lifetimes, OutcomesSettled, Repaired, Based,
                      Named,
           OpRows, Manifest, UndoIndex
  <2>3. Based' /\ Harmless' /\ Named' /\ PathsAllowed'
    BY <1>0, <1>7 DEF WsIInv, WsTypes, OpRows, Based, Harmless, Named, PathsAllowed, HistoryPaths,
           Tree, Manifest, UndoIndex
  <2>4. QED BY <2>1, <2>2, <2>3 DEF WsIInv
<1>8. CASE UndoRecord
  <2>1. WsTypes'
    BY <1>8 DEF WsIInv, WsTypes, OpRows, Manifests, ManifestStates, Manifest, Lifetimes, Based, Named,
           UndoRecord
  <2>2. Sent' /\ Unowned' /\ Lifetimes' /\ OutcomesSettled'
    BY <1>8 DEF WsIInv, WsTypes, Sent, Unowned, Lifetimes, OutcomesSettled, Repaired, Based, Named,
           OpRows, Manifest, UndoRecord
  <2>3. Based' /\ Harmless' /\ Named' /\ PathsAllowed'
    BY <1>8 DEF WsIInv, WsTypes, OpRows, Based, Harmless, Named, PathsAllowed, HistoryPaths,
           Tree, Manifest, UndoRecord
  <2>4. QED BY <2>1, <2>2, <2>3 DEF WsIInv
<1>9. CASE \E changes \in Changes : ApplyFileChanges(changes)
  <2>1. WsTypes'
    BY <1>9 DEF WsIInv, WsTypes, OpRows, Manifests, ManifestStates, Manifest, Lifetimes, Named,
                ApplyFileChanges, Changes, SomeApplied, Trees
  <2>2. Sent' /\ Unowned' /\ Lifetimes' /\ OutcomesSettled'
    BY <1>9 DEF WsIInv, WsTypes, Sent, Unowned, Lifetimes, OutcomesSettled, Repaired, Based, Named,
           OpRows, Manifest, ApplyFileChanges, Changes, SomeApplied, Trees
  <2>3. Based' /\ Harmless' /\ Named' /\ PathsAllowed'
    BY <1>9 DEF WsIInv, WsTypes, OpRows, Based, Harmless, Named, PathsAllowed, HistoryPaths,
           Tree, Manifest, ApplyFileChanges, Changes, SomeApplied, Trees
  <2>4. QED BY <2>1, <2>2, <2>3 DEF WsIInv
<1>20. QED BY <1>1, <1>2, <1>3, <1>4, <1>5, <1>6, <1>7, <1>8, <1>9, <1>10, <1>11 DEF Committing

\* A step that leaves the workspace alone only has to keep the pushes.
LEMMA ElsewhereKeeps ==
    ASSUME WsIInv, UNCHANGED <<manifest, repository, commits, recorded>>,
           op' = op \/ op' = Nothing,
           push' \in [Callers -> Pushes], published' \in recorded \cup {NoCommit}, Sent',
           op'.step = op.step \/ OutcomesSettled'
    PROVE  WsIInv'
<1>1. op' \in OpRows
  BY DEF WsIInv, WsTypes, Nothing, OpRows
<1>2. \A n : HistoryPaths(n)' = HistoryPaths(n)
  BY DEF HistoryPaths, Tree
<1>3. WsTypes' /\ PathsAllowed'
  BY <1>1, <1>2 DEF WsIInv, WsTypes, Manifests, PathsAllowed, AreAllowed, repository
<1>4. CASE op' = op
  BY <1>2, <1>3, <1>4 DEF WsIInv, Unowned, Lifetimes, Based, Harmless, Named, OutcomesSettled, Repaired,
                          AreAllowed, repository
<1>5. CASE op' = Nothing
  <2>1. op'.step = "NONE" /\ op'.step \notin CommitSteps /\ Unowned'
    BY <1>5 DEF WsIInv, Nothing, CommitSteps, Unnamed, Unmoved, Moved, Unowned, repository
  <2>2. OutcomesSettled'
    BY <2>1 DEF WsIInv, OutcomesSettled, Repaired, repository
  <2>3. Lifetimes' /\ Based' /\ Harmless' /\ Named'
    BY <2>1 DEF Lifetimes, Based, Harmless, Named, CommitSteps, Unnamed, Unmoved, Moved
  <2>4. QED BY <1>3, <2>1, <2>2, <2>3 DEF WsIInv
<1>6. QED BY <1>4, <1>5

LEMMA PushingKeeps == WsIInv /\ Pushing => WsIInv'
<1> SUFFICES ASSUME WsIInv, NEW c \in Callers,
                    \/ \E h \in 1 .. Len(commits) : BeginPush(c, h)
                    \/ Send(c) \/ SendFails(c) \/ CheckPush(c)
             PROVE  WsIInv'
  BY DEF Pushing
<1>0. /\ push \in [Callers -> Pushes] /\ published \in recorded \cup {NoCommit} /\ Sent
      /\ manifest \in Manifests /\ recorded \subseteq Nat
  BY DEF WsIInv, WsTypes
<1>1. CASE \E h \in 1 .. Len(commits) : BeginPush(c, h)
  <2> PICK h \in 1 .. Len(commits) : BeginPush(c, h)
    BY <1>1
  <2>1. h \in recorded /\ h \in Nat
    BY <1>0, WorkspaceAssumption DEF BeginPush, IsOwnedCandidate, Manifests
  <2>2. manifest \in [state : ManifestStates, candidate : Nat \cup {NoCommit}]
    BY <1>0 DEF Manifests
  <2>3. push' \in [Callers -> Pushes] /\ Sent'
    BY <1>0, <2>1, <2>2 DEF BeginPush, PushGoesOn, Pushes, Sent
  <2>4. QED
    BY <1>0, <2>3, ElsewhereKeeps DEF BeginPush
<1>2. CASE Send(c)
  <2>1. push[c].head \in recorded
    BY <1>0, <1>2 DEF Send, PushIs, Sent
  <2>2. push' \in [Callers -> Pushes] /\ Sent'
    BY <1>0, <1>2 DEF Send, PushGoesOn, Pushes, Sent
  <2>3. QED
    BY <1>2, <2>1, <2>2, ElsewhereKeeps DEF Send
<1>3. Silent \in Pushes
  BY DEF Silent, Pushes, Manifest, ManifestStates
<1>4. CASE SendFails(c)
  <2>1. push[c].head \in recorded
    BY <1>0, <1>4 DEF SendFails, PushIs, Sent
  <2>2. push' \in [Callers -> Pushes] /\ Sent'
    BY <1>0, <1>3, <1>4 DEF SendFails, PushGoesOn, Silent, Sent
  <2>3. QED
    BY <1>0, <1>4, <2>1, <2>2, ElsewhereKeeps DEF SendFails
<1>5. CASE CheckPush(c)
  <2>1. push' \in [Callers -> Pushes] /\ Sent'
    BY <1>0, <1>3, <1>5 DEF CheckPush, PushGoesOn, Silent, Pushes, Sent
  <2>2. QED
    BY <1>0, <1>5, <2>1, ElsewhereKeeps DEF CheckPush
<1>6. QED BY <1>1, <1>2, <1>4, <1>5

\* Wherever the agent dies, what the operation has done by then is enough.
LEMMA InterruptedKeeps == WsIInv /\ Interrupted => WsIInv'
<1> SUFFICES ASSUME WsIInv, Interrupted PROVE WsIInv'
  OBVIOUS
<1>1. OutcomesSettled'
  <2>1. op'.step = "NONE" /\ UNCHANGED <<branch, manifest, recorded>>
    BY DEF Interrupted, Release, Nothing, repository
  <2>2. CASE op.step \notin CommitSteps
    BY <2>1, <2>2 DEF WsIInv, OutcomesSettled, Repaired
  <2>3. CASE op.step \in Unnamed \cup Moved
    BY <2>1, <2>3 DEF WsIInv, OutcomesSettled, Based, Named, CommitSteps
  <2>4. CASE op.step \in Unmoved
    <3>1. /\ manifest.candidate = op.new /\ op.new \in recorded /\ branch = op.expected
          /\ op.expected = 0 \/ op.expected = op.old
          /\ op.old \in recorded \cup {NoCommit} /\ op.new # op.expected
      BY <2>4 DEF WsIInv, Based, Named, Harmless, CommitSteps, Unmoved
    <3>2. op.expected \in {0, NoCommit} \/ Repaired
      BY <3>1 DEF Repaired
    <3>3. QED BY <2>1, <3>1, <3>2 DEF OutcomesSettled, Repaired
  <2>5. QED BY <2>2, <2>3, <2>4 DEF CommitSteps
<1>2. Silent \in Pushes /\ Silent.step # "SEND"
  BY DEF Silent, Pushes, Manifest, ManifestStates
<1>3. push' \in [Callers -> Pushes] /\ Sent'
  BY <1>2 DEF Interrupted, Sent
<1>4. published' \in recorded \cup {NoCommit}
  BY DEF WsIInv, WsTypes, Interrupted
<1>5. QED
  BY <1>1, <1>3, <1>4, ElsewhereKeeps DEF Interrupted, Release

LEMMA RunsKeep ==
    ASSUME WsIInv, StartRun \/ EndRun \/ \E p \in Paths, v \in Contents : RunWrites(p, v)
    PROVE  WsIInv'
<1>0. /\ push \in [Callers -> Pushes] /\ published \in recorded \cup {NoCommit} /\ Sent
      /\ files \in Trees
  BY DEF WsIInv, WsTypes
<1>1. CASE StartRun \/ EndRun
  BY <1>0, <1>1, ElsewhereKeeps DEF StartRun, EndRun, Sent
<1>2. CASE \E p \in Paths, v \in Contents : RunWrites(p, v)
  <2> PICK p \in Paths, v \in Contents : RunWrites(p, v)
    BY <1>2
  <2>1. files' \in Trees
    BY <1>0 DEF RunWrites, Trees
  <2>2. \A n : HistoryPaths(n)' = HistoryPaths(n)
    BY DEF HistoryPaths, Tree, RunWrites
  <2>3. QED
    BY <2>1, <2>2 DEF WsIInv, WsTypes, Sent, Unowned, Lifetimes, Based, Harmless, Named,
                      OutcomesSettled, Repaired,
                      PathsAllowed, AreAllowed, Manifests, RunWrites, elsewhere
<1>3. QED BY <1>1, <1>2

LEMMA StutterKeeps == WsIInv /\ UNCHANGED wsvars => WsIInv'
<1> SUFFICES ASSUME WsIInv, UNCHANGED wsvars PROVE WsIInv'
  OBVIOUS
<1>1. UNCHANGED <<manifest, repository, commits, recorded, op, push, published>>
  BY DEF wsvars, repository
<1>2. push' \in [Callers -> Pushes] /\ published' \in recorded \cup {NoCommit} /\ Sent'
  BY <1>1 DEF WsIInv, WsTypes, Sent
<1>3. QED BY <1>1, <1>2, ElsewhereKeeps

\* Every step of an operation, of a push, of a configured run and every death of the
\* agent keeps the invariant, from the first creation on.
THEOREM WsInvariance == WsSpec => []WsIInv
<1>1. WsIInv /\ [WsNext]_wsvars => WsIInv'
  BY LifecycleKeeps, CommittingKeeps, PushingKeeps, RunsKeep, InterruptedKeeps, StutterKeeps
     DEF WsNext
<1>2. QED BY WsInitially, <1>1, PTL DEF WsSpec

\* Every variable stays in its type (workspaces.py's WorkspaceOwnership and the state of
\* the repository beside it).
THEOREM WsTypeCorrect == WsSpec => []WsTypeOK
<1>1. WsIInv => WsTypeOK
  <2> SUFFICES ASSUME WsIInv PROVE WsTypeOK
    OBVIOUS
  <2>1. Len(commits) \in Nat /\ \A n \in 1 .. Len(commits) : commits[n] \in Commits
    BY DEF WsIInv, WsTypes
  <2>2. recorded \subseteq 0 .. Len(commits)
    BY <2>1 DEF WsIInv, WsTypes
  <2>3. branch \in 0 .. Len(commits) \cup {NoCommit}
    BY <2>1, <2>2 DEF WsIInv, WsTypes
  <2>4. QED
    BY <2>1, <2>3 DEF WsIInv, WsTypes, Manifests, ManifestStates, Commits, WsTypeOK
<1>2. QED BY <1>1, WsInvariance, PTL

\* LAUNCHD.md's promise about an interrupted commit, as far as it is kept: the manifest
\* names a candidate before the branch of the task moves to it (workspaces.py, commit).
THEOREM ManifestStaysTrue == WsSpec => []ManifestIsTrue
<1>1. WsIInv => ManifestIsTrue
  <2> SUFFICES ASSUME WsIInv PROVE ManifestIsTrue
    OBVIOUS
  <2>1. IsFiniteSet(recorded)
    <3>1. IsFiniteSet(1 .. Len(commits)) /\ recorded \subseteq 1 .. Len(commits)
      BY FS_Interval DEF WsIInv, WsTypes
    <3>2. QED BY <3>1, FS_Subset
  <2>2. Repaired => Cardinality(recorded) > 1
    <3> SUFFICES ASSUME NEW m \in recorded, NEW n \in recorded, m # n
                 PROVE  Cardinality(recorded) > 1
      BY DEF Repaired
    <3>1. Cardinality(recorded) \in Nat
      BY <2>1, FS_CardinalityType
    <3>2. Cardinality({m, n}) = 2
      <4>1. IsFiniteSet({m}) /\ Cardinality({m}) = 1
        BY FS_Singleton
      <4>2. Cardinality({m} \cup {n}) = Cardinality({m}) + 1
        BY <4>1, FS_AddElement
      <4>3. {m} \cup {n} = {m, n}
        OBVIOUS
      <4>4. QED BY <4>1, <4>2, <4>3
    <3>3. Cardinality({m, n}) <= Cardinality(recorded)
      BY <2>1, FS_Subset, {m, n} \subseteq recorded
    <3>4. QED BY <3>1, <3>2, <3>3
  <2>3. LockIsFree => op.step \notin CommitSteps
    BY DEF LockIsFree, CommitSteps, Unnamed, Unmoved, Moved
  <2>4. Cardinality(recorded) \in Nat
    BY <2>1, FS_CardinalityType
  <2>5. Cardinality(recorded) <= 1 => ~Repaired
    BY <2>2, <2>4
  <2>6. QED
    BY <2>3, <2>5 DEF WsIInv, WsTypes, Unowned, OutcomesSettled, PathsAllowed, ManifestIsTrue
<1>2. QED BY <1>1, WsInvariance, PTL
------------------------------------------------------------------------------
(* Scenes *)

(* MCWorkflow sets one module going at a time, by a next-state relation that may  *)
(* restrict the module's own. What every scene does is nevertheless a behaviour   *)
(* of each module, so what is proved of a module holds in the scenes.             *)

LEMMA ReadyNextIsNext == ASSUME ReadyNext PROVE PrNext
<1>1. CASE PublishOnce \/ Handle \/ (opening # None /\ Activate(TRUE))
  BY <1>1 DEF PublishOnce, Handle, PrNext, Service, Outside, Publication
<1>2. ASSUME NEW h \in Heads, AcknowledgeHandoff(h) PROVE PrNext
  BY <1>2 DEF PrNext, Outside
<1>3. ASSUME NEW at \in {Now, Now + 1}, ToggleDraft(at) PROVE PrNext
  BY <1>3 DEF PrNext, Outside
<1>4. ASSUME NEW at \in {Now, Now + 1}, NEW of \in {"ci", "rev", "thr"}, NEW s \in States(of),
             Update(of, s, at)
      PROVE  PrNext
  <2>1. of \in Resources \ {"pr"}
    BY DEF Resources
  <2>2. QED BY <1>4, <2>1 DEF PrNext, Outside
<1>5. ASSUME NEW h \in Foreign, OtherPush(h) PROVE PrNext
  BY <1>5 DEF PrNext, Outside
<1>6. QED BY <1>1, <1>2, <1>3, <1>4, <1>5 DEF ReadyNext

LEMMA RepairNextIsNext == ASSUME RepairNext PROVE PrNext
<1>1. CASE PublishOnce \/ Handle
  BY <1>1 DEF PublishOnce, Handle, PrNext, Service, Outside, Publication
<1>2. ASSUME NEW i \in 1 .. Len(repairs), RepairStep(i) PROVE PrNext
  BY <1>2 DEF PrNext, Service
<1>3. ASSUME NEW a \in approvals, ResumeApproved(a) \/ \E allow \in BOOLEAN : Answer(a, allow)
      PROVE  PrNext
  BY <1>3 DEF PrNext, Outside
<1>4. CASE ActivatePolicy
  BY <1>4 DEF PrNext, Outside
<1>5. ASSUME NEW of \in Comments, NEW s \in States(of), Update(of, s, Now + 1) PROVE PrNext
  <2>1. of \in Resources \ {"pr"}
    BY CommentAssumption DEF Resources
  <2>2. QED BY <1>5, <2>1 DEF PrNext, Outside
<1>6. ASSUME NEW h \in Foreign, OtherPush(h) PROVE PrNext
  BY <1>6 DEF PrNext, Outside
<1>7. QED BY <1>1, <1>2, <1>3, <1>4, <1>5, <1>6 DEF RepairNext

LEMMA AttemptsNextIsNext == ASSUME OneAttemptNext \/ TwoAttemptsNext PROVE ToolNext
<1>1. ASSUME NEW a \in Attempts, HandlerStep(a) PROVE ToolNext
  BY <1>1 DEF ToolNext
<1>2. ASSUME NEW a \in Attempts, NEW p \in Proposals, Propose(a, p) PROVE ToolNext
  BY <1>2 DEF ToolNext
<1>3. ASSUME NEW a \in Attempts, NEW s \in {"SUCCEEDED", "FAILED"}, AgentFinishes(a, s)
      PROVE  ToolNext
  BY <1>3 DEF ToolNext
<1>4. ASSUME Lease \/ LoseLease \/ StopEditing \/ PreflightGoesStale PROVE ToolNext
  BY <1>4 DEF ToolNext
<1>5. CASE OneAttemptNext
  BY <1>1, <1>2, <1>3, <1>4, <1>5 DEF OneAttemptNext
<1>6. CASE TwoAttemptsNext
  BY <1>1, <1>2, <1>3, <1>4, <1>6, SceneAssumption DEF TwoAttemptsNext
<1>7. QED BY <1>5, <1>6

\* What a scene does is a step of its module, and the others stand still.
LEMMA ScenesStep ==
    ASSUME [ScenesNext /\ UNCHANGED scene]_<<prvars, valvars, toolvars, evvars, wsvars, canvars, scene>>
    PROVE  /\ [PrNext]_prvars /\ [ValNext]_valvars /\ [ToolNext]_toolvars
           /\ [EvNext]_evvars /\ [WsNext]_wsvars /\ [CanNext]_canvars
<1>1. ValidationNext => ValNext
  BY DEF ValidationNext
<1>2. IndexNext \/ LearningNext => EvNext
  BY DEF IndexNext, LearningNext
<1>3. CancellationNext => CanNext
  BY DEF CancellationNext
<1>4. CASE ScenesNext
  BY <1>1, <1>2, <1>3, <1>4, ReadyNextIsNext, RepairNextIsNext, AttemptsNextIsNext DEF ScenesNext
<1>5. QED BY <1>4

\* A behaviour of the scenes is a behaviour of every module the workflow is made of:
\* pull requests, validation, scoped tools, evidence, the workspace and cancellation.
THEOREM ScenesAreBehaviours ==
    WorkflowSpec => PrSpec /\ ValSpec /\ ToolSpec /\ EvSpec /\ WsSpec /\ CanSpec
<1>1. ScenesInit => PrInit /\ ValInit /\ ToolInit /\ EvInit /\ WsInit /\ CanInit
  BY DEF ScenesInit
<1>2. QED
  BY <1>1, ScenesStep, PTL
     DEF WorkflowSpec, PrSpec, ValSpec, ToolSpec, EvSpec, WsSpec, CanSpec

\* The rows of every module keep their types in every scene: the states and counters of
\* review_resolution.py, validation_evidence.py, scoped_tools.py, evidence.py,
\* workspaces.py and cancellation.py.
THEOREM WorkflowTypesHold == WorkflowSpec => []WorkflowTypeOK
BY ScenesAreBehaviours, PrTypeCorrect, ValTypeCorrect, ToolTypeCorrect, EvTypeCorrect,
   WsTypeCorrect, CanTypeCorrect, PTL DEF WorkflowTypeOK
=============================================================================
