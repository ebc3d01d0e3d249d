------------------------------ MODULE Evidence ------------------------------
(* The evidence of one task and what is derived from it: records and corrections   *)
(* (evidence.py), the retrieval index and its rebuilding (retrieval_index.py), the  *)
(* cited summaries and rule candidates (candidate_learning.py), and the bytes they  *)
(* name in the artifact store (artifacts.py).                                       *)
(*                                                                                 *)
(* The store takes no part in a transaction. Whoever writes does it in two steps    *)
(* here, the bytes and the commit, and holds its row locks between them; a crash    *)
(* may come in between. Every envelope holds the id of its row, so no two rows      *)
(* share an address: <<e, 0>> for record e, <<e, g>> for its chunk of generation g, *)
(* <<s, 0>> for summary s. A record has one chunk in a generation.                  *)
EXTENDS Naturals, FiniteSets

CONSTANTS
    Records,     \* ids of evidence of the task
    TaskRequest, \* the record of the task's request
    Summaries,   \* ids of cited summaries
    RuleIds,     \* ids of rule candidates
    Deleters,    \* callers of delete and delete_internal
    MaxBuilds,   \* bound: how often a rebuild is opened
    MaxRestarts  \* bound: how often the control plane stops and starts again

ASSUME EvidenceAssumption ==
    TaskRequest \in Records /\ Records \cap Summaries = {} /\ MaxBuilds \in Nat

VARIABLES
    record,     \* EvidenceRecord rows with their deletion request and tombstone
    store,      \* the addresses that have bytes
    derivative, \* EvidenceDerivative rows, a chunk's with its RetrievalIndexChunk
    index,      \* indexed_at of the current generation; 0: none
    candidate,  \* RuleCandidate rows
    projection, \* {the record task.raw_request names}; {}: it was deleted
    clock,      \* ticks whenever a time is taken
    service,    \* "UP", or "STARTING" before it accepts traffic
    restarts,   \* how often it stopped
    capture,    \* the capture in flight
    deletion,   \* the deletions in flight, by caller, with the one of the startup
    rebuild,    \* the worker that rebuilds the index
    summary     \* the summary being created

rows   == <<record, derivative, index, candidate, projection>>
evvars == <<rows, store, clock, service, restarts, capture, deletion, rebuild, summary>>

Startup   == "startup"
Idle      == [step |-> "IDLE"]
Canonical(id) == <<id, 0>>
Addresses == {<<e, g>> : e \in Records, g \in 0 .. MaxBuilds} \union
             {Canonical(s) : s \in Summaries}

NoRecord  == [state |-> "NONE", of |-> {}, request |-> FALSE, at |-> 0, fenced |-> 0,
              gone |-> FALSE]

\* How often a rebuild was opened, which is the generation it builds.
NotBuilding == [step |-> "IDLE", gen |-> rebuild.gen]

Tick == clock' = clock + 1

\* put_bytes, get_bytes and delete_bytes: what is there is not written again, and what
\* is not there need not be deleted.
Put(a)    == store' = store \union {a}
Stored(a) == a \in store
Delete(a) == store' = store \ {a}

Chunk(e, g) ==
    [id |-> <<e, g>>, kind |-> "CHUNK", source |-> e, cites |-> {}, state |-> "LIVE"]
Summary(s, source, cites) ==
    [id |-> Canonical(s), kind |-> "SUMMARY", source |-> source, cites |-> cites,
     state |-> "LIVE"]
RuleCandidate(c, cites) == [id |-> c, cites |-> cites, status |-> "EVALUATED"]

-----------------------------------------------------------------------------
(* What can be read *)

IsRow(e)     == record[e].state = "ROW"
IsFenced(e)    == record[e].fenced > 0
Tombstoned(e) == record[e].gone
Corrected(e) == \E f \in Records : IsRow(f) /\ e \in record[f].of

\* _live_record
LiveRecord(e) == IsRow(e) /\ ~IsFenced(e)

\* load_evidence
Loads(e) == LiveRecord(e) /\ Stored(Canonical(e))

\* load_evidence_derivative
LoadsDerivative(d) == d.state = "LIVE" /\ LiveRecord(d.source) /\ Stored(d.id)

Chunks == {d \in derivative : d.kind = "CHUNK" /\ d.state = "LIVE"}

\* invalidated_evidence_ids
Invalidated(ids) == {e \in ids : Corrected(e) \/ IsFenced(e)}

\* _citation_records
Citable(ids) == \A e \in ids : e \notin Invalidated(ids) /\ Loads(e)

\* search verifies each chunk of a source it may show, and fails if it cannot.
SearchFails ==
    \E d \in Chunks : ~Corrected(d.source) /\ Loads(d.source) /\ ~LoadsDerivative(d)

-----------------------------------------------------------------------------
(* Locks *)

\* The record rows that open transactions hold, and the derivative rows.
Held ==
    UNION {IF capture = Idle THEN {} ELSE capture.of,
           UNION {deletion[d].locked : d \in {x \in DOMAIN deletion : deletion[x].step = "DESTROY"}},
           IF rebuild.step = "OPEN" THEN rebuild.locked ELSE {},
           IF summary = Idle THEN {} ELSE summary.cites}

HeldDerivatives ==
    UNION {UNION {deletion[d].rows : d \in {x \in DOMAIN deletion : deletion[x].step = "DESTROY"}},
           IF rebuild.step = "OPEN" THEN rebuild.retired ELSE {}}

\* A rebuild locks the Task row.
TaskIsFree == rebuild.step # "OPEN"

-----------------------------------------------------------------------------
(* Records *)

\* capture_evidence up to the bytes.
PutRecord(e, of) ==
    /\ service = "UP" /\ capture = Idle
    /\ record[e].state = "NONE"
    /\ Tick
    /\ Put(Canonical(e))
    /\ capture' = [step |-> "PUT", id |-> e, of |-> of, at |-> clock + 1]
    /\ UNCHANGED <<rows, service, restarts, deletion, rebuild, summary>>

Capture(e) == PutRecord(e, {})

\* create_correction: a record is corrected once.
Correct(e, f) ==
    /\ f \notin Held
    /\ Loads(f) /\ ~Corrected(f)
    /\ PutRecord(e, {f})

\* The rest of capture_evidence: the correction of the task's request takes its place.
CommitCapture ==
    LET ofRequest == \E f \in capture.of : record[f].request
    IN  /\ capture # Idle
        /\ record' = [record EXCEPT ![capture.id] =
               [NoRecord EXCEPT !.state = "ROW", !.of = capture.of, !.at = capture.at,
                                !.request = ofRequest]]
        /\ ofRequest => TaskIsFree /\ projection = capture.of
        /\ projection' = IF ofRequest THEN {capture.id} ELSE projection
        /\ capture' = Idle
        /\ UNCHANGED <<derivative, index, candidate, store, clock, service, restarts, deletion,
                       rebuild, summary>>

\* What rolls back leaves its bytes, and its id is never used again.
AbortCapture ==
    /\ capture # Idle
    /\ record' = [record EXCEPT ![capture.id].state = "LOST"]
    /\ capture' = Idle
    /\ UNCHANGED <<derivative, index, candidate, projection, store, clock, service, restarts,
                   deletion, rebuild, summary>>

-----------------------------------------------------------------------------
(* Deletion *)

\* _request_deletion and, for INTERNAL evidence, _request_internal_deletion: the fence.
\* A record that has a request keeps it (_stage_deletion_request), and can be deleted
\* again, as nothing sets record.deleted_at.
RequestDeletion(d, e) ==
    /\ service = "UP" /\ d # Startup /\ deletion[d] = Idle
    /\ IsRow(e) /\ e \notin Held
    /\ IF IsFenced(e)
       THEN UNCHANGED <<record, clock>>
       ELSE Tick /\ record' = [record EXCEPT ![e].fenced = clock + 1]
    /\ deletion' = [deletion EXCEPT ![d] = [step |-> "FINALIZE", id |-> e]]
    /\ UNCHANGED <<derivative, index, candidate, projection, store, service, restarts, capture,
                   rebuild, summary>>

\* resume_pending_deletions, before any traffic.
ResumeDeletion(e) ==
    /\ service = "STARTING" /\ deletion[Startup] = Idle
    /\ IsFenced(e) /\ ~Tombstoned(e)
    /\ deletion' = [deletion EXCEPT ![Startup] = [step |-> "FINALIZE", id |-> e]]
    /\ UNCHANGED <<rows, store, clock, service, restarts, capture, rebuild, summary>>

\* A mutant: those that only cite the record are forgotten.
Derived_Direct(e) == {d.id : d \in {x \in derivative : x.state = "LIVE" /\ x.source = e}}

\* direct_derivatives and cited_derivatives
Derived(e) ==
    {d.id : d \in {x \in derivative : x.state = "LIVE" /\ (x.source = e \/ e \in x.cites)}}

\* _finalize_deletion takes its locks,
FinalizeDeletion(d) ==
    LET e == deletion[d].id
    IN  /\ deletion[d].step = "FINALIZE"
        /\ e \notin Held
        /\ deletion' = [deletion EXCEPT ![d] =
               IF Tombstoned(e) THEN Idle
               ELSE [step |-> "DESTROY", id |-> e, locked |-> {e}, rows |-> Derived(e),
                     left |-> Derived(e) \union {Canonical(e)}]]
        /\ Tombstoned(e) \/ Derived(e) \intersect HeldDerivatives = {}
        /\ UNCHANGED <<rows, store, clock, service, restarts, capture, rebuild, summary>>

\* destroys the bytes, its own after all others,
DestroyBytes(d, a) ==
    /\ deletion[d].step = "DESTROY" /\ a \in deletion[d].left
    /\ a = Canonical(deletion[d].id) => deletion[d].left = {a}
    /\ Delete(a)
    /\ deletion' = [deletion EXCEPT ![d].left = @ \ {a}]
    /\ UNCHANGED <<rows, clock, service, restarts, capture, rebuild, summary>>

\* and commits what it did to the rows, with the tombstone.
CommitDeletion(d) ==
    LET e == deletion[d].id
    IN  /\ deletion[d].step = "DESTROY" /\ deletion[d].left = {}
        /\ record[e].request => TaskIsFree
        /\ record' = [record EXCEPT ![e].gone = TRUE]
        /\ derivative' = {IF x.id \in deletion[d].rows THEN [x EXCEPT !.state = "DESTROYED"]
                          ELSE x : x \in derivative}
        /\ candidate' = {c \in candidate : e \in c.cites => c.status = "APPROVED"}
        /\ projection' = projection \ {e}
        /\ deletion' = [deletion EXCEPT ![d] = Idle]
        /\ UNCHANGED <<index, store, clock, service, restarts, capture, rebuild, summary>>

\* The database ends the transaction, or the store fails: the record stays fenced.
AbortDeletion(d) ==
    /\ deletion[d].step = "DESTROY"
    /\ deletion' = [deletion EXCEPT ![d] = Idle]
    /\ UNCHANGED <<rows, store, clock, service, restarts, capture, rebuild, summary>>

-----------------------------------------------------------------------------
(* The retrieval index *)

\* _task_index_is_stale
IsStale ==
    \/ index = 0
    \/ \E e \in Records : IsRow(e) /\ (record[e].at > index \/ record[e].fenced > index)

\* _one_projection
ProjectionStatus(e) ==
    CASE Tombstoned(e) -> "DELETED"
      [] IsFenced(e) /\ ~Tombstoned(e) -> "DELETION_PENDING"
      [] Loads(e) -> "VERIFIED"
      [] OTHER -> "FAILS"

\* _verified_task_projections, in transactions of its own: verified and current.
ReadProjections ==
    /\ service = "UP" /\ rebuild.step = "IDLE" /\ rebuild.gen < MaxBuilds
    /\ IsStale
    /\ \A e \in Records : IsRow(e) => ProjectionStatus(e) # "FAILS"
    /\ rebuild' = [step |-> "READ", gen |-> rebuild.gen,
                   todo |-> {e \in Records : /\ IsRow(e) /\ ProjectionStatus(e) = "VERIFIED"
                                             /\ ~Corrected(e)}]
    /\ UNCHANGED <<rows, store, clock, service, restarts, capture, deletion, summary>>

\* A mutant: the old generation is destroyed at once.
OpenRebuild_Eager ==
    LET old == {d.id : d \in Chunks}
    IN  /\ rebuild.step = "READ"
        /\ old \intersect HeldDerivatives = {}
        /\ Tick
        /\ rebuild' = [step |-> "OPEN", gen |-> rebuild.gen + 1, todo |-> rebuild.todo,
                       at |-> clock + 1, retired |-> old, locked |-> {}]
        /\ store' = store \ old
        /\ UNCHANGED <<rows, service, restarts, capture, deletion, summary>>

\* rebuild_task_index_internal takes the time, then the Task and the old generation.
OpenRebuild ==
    LET old == {d.id : d \in Chunks}
    IN  /\ rebuild.step = "READ"
        /\ old \intersect HeldDerivatives = {}
        /\ Tick
        /\ rebuild' = [step |-> "OPEN", gen |-> rebuild.gen + 1, todo |-> rebuild.todo,
                       at |-> clock + 1, retired |-> old, locked |-> {}]
        /\ UNCHANGED <<rows, store, service, restarts, capture, deletion, summary>>

\* A source that was corrected since is left out; one that cannot be loaded fails it all.
IndexRecord(e) ==
    /\ rebuild.step = "OPEN" /\ e \in rebuild.todo
    /\ IF Corrected(e)
       THEN /\ rebuild' = [rebuild EXCEPT !.todo = @ \ {e}]
            /\ UNCHANGED store
       ELSE /\ Loads(e) /\ e \notin Held
            /\ Put(<<e, rebuild.gen>>)
            /\ rebuild' = [rebuild EXCEPT !.todo = @ \ {e}, !.locked = @ \union {e}]
    /\ UNCHANGED <<rows, clock, service, restarts, capture, deletion, summary>>

\* _retire_index_in_session: no byte is deleted before the commit.
RetireIndex(ids) ==
    {IF x.id \in ids THEN [x EXCEPT !.state = "RETIRED"] ELSE x : x \in derivative}

CommitRebuild ==
    /\ rebuild.step = "OPEN" /\ rebuild.todo = {}
    /\ derivative' = RetireIndex(rebuild.retired) \union
           {Chunk(e, rebuild.gen) : e \in rebuild.locked}
    /\ index' = rebuild.at
    /\ rebuild' = [step |-> "SWEEP", gen |-> rebuild.gen, left |-> rebuild.retired]
    /\ UNCHANGED <<record, candidate, projection, store, clock, service, restarts, capture,
                   deletion, summary>>

\* The exception rolls back, and what was created is deleted.
FailRebuild ==
    /\ rebuild.step = "OPEN"
    /\ rebuild' = [step |-> "SWEEP", gen |-> rebuild.gen,
                   left |-> {<<e, rebuild.gen>> : e \in rebuild.locked}]
    /\ UNCHANGED <<rows, store, clock, service, restarts, capture, deletion, summary>>

\* After the transaction.
Sweep ==
    /\ rebuild.step = "SWEEP"
    /\ IF rebuild.left = {}
       THEN rebuild' = NotBuilding /\ UNCHANGED store
       ELSE \E a \in rebuild.left :
                /\ Delete(a)
                /\ rebuild' = [rebuild EXCEPT !.left = @ \ {a}]
    /\ UNCHANGED <<rows, clock, service, restarts, capture, deletion, summary>>

\* delete_task_index_internal
DeleteIndex ==
    LET old == {d.id : d \in Chunks}
    IN  /\ service = "UP" /\ rebuild.step = "IDLE" /\ index # 0
        /\ old \intersect HeldDerivatives = {}
        /\ derivative' = RetireIndex(old)
        /\ index' = 0
        /\ rebuild' = [step |-> "SWEEP", gen |-> rebuild.gen, left |-> old]
        /\ UNCHANGED <<record, candidate, projection, store, clock, service, restarts, capture,
                       deletion, summary>>

-----------------------------------------------------------------------------
(* Learning *)

\* create_summary up to the bytes; the first citation is the derivative's source.
PutSummary(s, source, cites) ==
    /\ service = "UP" /\ summary = Idle
    /\ \A x \in derivative : x.id # Canonical(s)
    /\ source \in cites /\ cites \intersect Held = {} /\ Citable(cites)
    /\ Put(Canonical(s))
    /\ summary' = [step |-> "PUT", id |-> s, source |-> source, cites |-> cites]
    /\ UNCHANGED <<rows, clock, service, restarts, capture, deletion, rebuild>>

CommitSummary ==
    /\ summary # Idle
    /\ derivative' = derivative \union
           {Summary(summary.id, summary.source, summary.cites)}
    /\ summary' = Idle
    /\ UNCHANGED <<record, index, candidate, projection, store, clock, service, restarts, capture,
                   deletion, rebuild>>

\* _delete_unreferenced_artifact
AbortSummary ==
    /\ summary # Idle
    /\ Delete(Canonical(summary.id))
    /\ summary' = Idle
    /\ UNCHANGED <<rows, clock, service, restarts, capture, deletion, rebuild>>

\* create_rule_candidate, from a summary that is still valid (_validated_summary).
CreateCandidate(c, s) ==
    /\ service = "UP"
    /\ \A x \in candidate : x.id # c
    /\ \E x \in derivative :
          /\ x.id = Canonical(s) /\ LoadsDerivative(x)
          /\ x.cites \intersect Held = {} /\ Citable(x.cites)
          /\ candidate' = candidate \union {RuleCandidate(c, x.cites)}
    /\ UNCHANGED <<record, derivative, index, projection, store, clock, service, restarts, capture,
                   deletion, rebuild, summary>>

\* The answer to its REVIEW_RULE request, whose citations must still be readable
\* (_candidate_evidence_ids).
DecideCandidate(x, status) ==
    /\ service = "UP"
    /\ x \in candidate /\ x.status = "EVALUATED"
    /\ x.cites \intersect Held = {} /\ Citable(x.cites)
    /\ candidate' = (candidate \ {x}) \union {[x EXCEPT !.status = status]}
    /\ UNCHANGED <<record, derivative, index, projection, store, clock, service, restarts, capture,
                   deletion, rebuild, summary>>

-----------------------------------------------------------------------------
(* The control plane *)

Stop ==
    /\ restarts < MaxRestarts
    /\ restarts' = restarts + 1
    /\ service' = "STARTING"
    /\ record' = IF capture = Idle THEN record
                 ELSE [record EXCEPT ![capture.id].state = "LOST"]
    /\ capture' = Idle
    /\ deletion' = [d \in DOMAIN deletion |-> Idle]
    /\ rebuild' = NotBuilding
    /\ summary' = Idle
    /\ UNCHANGED <<derivative, index, candidate, projection, store, clock>>

\* Every pending deletion is done before the lifespan goes on.
Start ==
    /\ service = "STARTING" /\ deletion[Startup] = Idle
    /\ \A e \in Records : IsFenced(e) => Tombstoned(e)
    /\ service' = "UP"
    /\ UNCHANGED <<rows, store, clock, restarts, capture, deletion, rebuild, summary>>

EvInit ==
    /\ record = [e \in Records |->
           IF e = TaskRequest THEN [NoRecord EXCEPT !.state = "ROW", !.request = TRUE, !.at = 1]
           ELSE NoRecord]
    /\ store = {Canonical(TaskRequest)}
    /\ derivative = {} /\ index = 0 /\ candidate = {}
    /\ projection = {TaskRequest}
    /\ clock = 1
    /\ service = "UP" /\ restarts = 0
    /\ capture = Idle /\ summary = Idle
    /\ deletion = [d \in Deleters \union {Startup} |-> Idle]
    /\ rebuild = [step |-> "IDLE", gen |-> 0]

EvNext ==
    \/ \E e \in Records : Capture(e) \/ \E f \in Records : Correct(e, f)
    \/ CommitCapture \/ AbortCapture
    \/ \E e \in Records : ResumeDeletion(e) \/ \E d \in Deleters : RequestDeletion(d, e)
    \/ \E d \in DOMAIN deletion :
          \/ FinalizeDeletion(d) \/ CommitDeletion(d) \/ AbortDeletion(d)
          \/ \E a \in Addresses : DestroyBytes(d, a)
    \/ ReadProjections \/ OpenRebuild \/ CommitRebuild \/ FailRebuild \/ Sweep \/ DeleteIndex
    \/ \E e \in Records : IndexRecord(e)
    \/ \E s \in Summaries, cites \in SUBSET Records, e \in Records : PutSummary(s, e, cites)
    \/ CommitSummary \/ AbortSummary
    \/ \E c \in RuleIds, s \in Summaries : CreateCandidate(c, s)
    \/ \E x \in candidate, status \in {"APPROVED", "REJECTED"} : DecideCandidate(x, status)
    \/ Stop \/ Start

EvSpec == EvInit /\ [][EvNext]_evvars

-----------------------------------------------------------------------------
(* Properties *)

\* Type invariant of the rows and of the store.
EvTypeOK ==
    /\ \A e \in Records :
          /\ record[e].state \in {"NONE", "ROW", "LOST"}
          /\ record[e].of \subseteq Records
          /\ record[e].at <= clock /\ record[e].fenced <= clock
          /\ Tombstoned(e) => IsFenced(e)
    /\ store \subseteq Addresses
    /\ \A d \in derivative :
          /\ d.id \in Addresses /\ d.source \in Records /\ d.cites \subseteq Records
          /\ d.kind \in {"CHUNK", "SUMMARY"} /\ d.state \in {"LIVE", "RETIRED", "DESTROYED"}
    /\ Cardinality({d.id : d \in derivative}) = Cardinality(derivative)
    /\ \A c \in candidate : c.status \in {"EVALUATED", "APPROVED", "REJECTED"}
    /\ projection \subseteq Records /\ Cardinality(projection) <= 1
    /\ index <= clock /\ service \in {"UP", "STARTING"}

\* What a row still names can be read, though bytes are written and deleted outside of
\* every transaction and a crash or a rollback may come at any point: a record without
\* a deletion request, a chunk that a search opens, and a summary none of whose
\* citations is to be deleted (load_evidence, search, _validated_summary). The task's
\* request names such a record, or one whose deletion is not complete.
RowsHaveBytes ==
    /\ \A e \in Records : LiveRecord(e) => Loads(e)
    /\ ~SearchFails
    /\ \A d \in derivative :
          d.kind = "SUMMARY" /\ d.state = "LIVE" /\ (\A e \in d.cites : ~IsFenced(e))
              => LoadsDerivative(d)
    /\ \A e \in projection : IsRow(e) /\ ~Tombstoned(e) /\ ~Corrected(e)

\* Deletion is complete when its tombstone is there, whatever was captured, indexed,
\* cited or decided meanwhile: of a deleted record neither its bytes remain, nor a live
\* derivative of it or one that cites it, nor a candidate that was not approved. The
\* bytes of a derivative remain only where a rebuild had retired its row and is yet to
\* delete them, or stopped before it did.
DeletedIsDestroyed ==
    \A e \in Records : Tombstoned(e) =>
        /\ Canonical(e) \notin store
        /\ \A d \in derivative : d.source = e \/ e \in d.cites =>
              /\ d.state # "LIVE"
              /\ d.id \in store =>
                    /\ d.state = "RETIRED"
                    /\ restarts = 0 => rebuild.step = "SWEEP" /\ d.id \in rebuild.left
        /\ \A c \in candidate : e \in c.cites => c.status = "APPROVED"

=============================================================================
