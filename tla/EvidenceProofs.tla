---------------------------- MODULE EvidenceProofs ----------------------------
(* Proofs about evidence and what is derived from it: for any records, summaries, *)
(* candidates, deletions at once and rebuilds, what a row names can be read, and   *)
(* what was deleted is gone.                                                       *)
(*                                                                                *)
(* The invariant says of each writer, between its bytes and its commit, what it    *)
(* has done to the store so far and why nobody else undoes it: addresses are       *)
(* never used for two rows, and the records it holds stay without a request.       *)
EXTENDS Evidence, FiniteSetTheorems, TLAPS

Destroyers == Deleters \cup {Startup}
Names   == (Records \cup Summaries) \X Nat

Finalizing == [step : {"FINALIZE"}, id : Records]
Destroying == [step : {"DESTROY"}, id : Records, locked : SUBSET Records, rows : SUBSET Names,
               left : SUBSET Names]
Reading  == [step : {"READ"}, gen : Nat, todo : SUBSET Records]
Building == [step : {"OPEN"}, gen : Nat, todo : SUBSET Records, at : Nat, retired : SUBSET Names,
             locked : SUBSET Records]
Sweeping == [step : {"SWEEP"}, gen : Nat, left : SUBSET Names]

RecordTypes ==
    /\ record \in [Records -> [state : {"NONE", "ROW", "LOST"}, of : SUBSET Records,
                               request : BOOLEAN, at : Nat, fenced : Nat, gone : BOOLEAN]]
    /\ clock \in Nat /\ restarts \in Nat
CaptureType  == capture \in {Idle} \cup [step : {"PUT"}, id : Records, of : SUBSET Records, at : Nat]
DeletionType == deletion \in [Destroyers -> {Idle} \cup Finalizing \cup Destroying]
RebuildType  == rebuild \in [step : {"IDLE"}, gen : Nat] \cup Reading \cup Building \cup Sweeping
SummaryType  == summary \in {Idle} \cup
                   [step : {"PUT"}, id : Summaries, source : Records, cites : SUBSET Records]
DerivativeType ==
    derivative \subseteq [id : Names, kind : {"CHUNK", "SUMMARY"}, source : Records,
                          cites : SUBSET Records, state : {"LIVE", "RETIRED", "DESTROYED"}]

EvTypes == /\ RecordTypes /\ CaptureType /\ DeletionType /\ RebuildType /\ SummaryType
           /\ DerivativeType

\* Only a record has a deletion request; its bytes are there until it has one, and not
\* after its tombstone.
RowFits(e) ==
    /\ Tombstoned(e) => IsFenced(e)
    /\ IsFenced(e) => IsRow(e)
    /\ IsRow(e) /\ ~IsFenced(e) => Stored(Canonical(e))
    /\ Tombstoned(e) => ~Stored(Canonical(e))
    /\ \A f \in record[e].of : IsRow(f)

\* A capture between its bytes and its commit.
Captured ==
    capture # Idle =>
        /\ record[capture.id].state = "NONE" /\ Stored(Canonical(capture.id))
        /\ \A f \in capture.of : IsRow(f)

\* The address of a chunk, of a summary, and of one whose generation is committed.
IsChunk(a, e) == a[1] = e /\ a[2] > 0
IsSummary(a)  == \E s \in Summaries : a = Canonical(s)
Aged(a)       == a[2] <= rebuild.gen /\ (rebuild.step = "OPEN" => a[2] < rebuild.gen)

\* What a derivative was made from; each kind has addresses of its own.
Sources(x) == {x.source} \cup x.cites
WellShaped(x) ==
    /\ x.kind = "CHUNK" => IsChunk(x.id, x.source) /\ x.cites = {}
    /\ x.kind = "SUMMARY" => IsSummary(x.id) /\ x.source \in x.cites
    /\ \A e \in Sources(x) : IsRow(e)

\* The bytes of a derivative are there as long as all its sources are, and gone with it,
\* but for those that are still to be swept.
Derives(x) ==
    /\ x.state = "LIVE" => \A e \in Sources(x) : ~Tombstoned(e)
    /\ x.state = "LIVE" /\ (\A e \in Sources(x) : ~IsFenced(e)) => Stored(x.id)
    /\ x.state = "DESTROYED" => ~Stored(x.id)
    /\ x.state = "RETIRED" /\ Stored(x.id) /\ restarts = 0 =>
          rebuild.step = "SWEEP" /\ x.id \in rebuild.left

Unique == \A x, y \in derivative : x.id = y.id => x = y

\* A deletion destroys the bytes of its record and of all that is derived from it, and of
\* nothing else.
Deletes(d) ==
    /\ deletion[d].step \in {"FINALIZE", "DESTROY"} => IsFenced(deletion[d].id)
    /\ deletion[d].step = "DESTROY" =>
          LET e == deletion[d].id
          IN  /\ deletion[d].left \subseteq deletion[d].rows \cup {Canonical(e)}
              /\ \A a \in deletion[d].rows : \E x \in derivative : x.id = a
              /\ \A x \in derivative : x.id \in deletion[d].rows => e \in Sources(x)
              /\ \A x \in derivative :
                    x.state = "LIVE" /\ e \in Sources(x) => x.id \in deletion[d].rows
              /\ \A a \in (deletion[d].rows \cup {Canonical(e)}) \ deletion[d].left : ~Stored(a)

\* A rebuild writes to addresses of its generation, for records it holds; what it sweeps
\* is no live chunk.
Builds ==
    /\ rebuild.step = "OPEN" =>
          /\ rebuild.gen > 0
          /\ \A e \in rebuild.locked : LiveRecord(e) /\ Stored(<<e, rebuild.gen>>)
          /\ \A a \in rebuild.retired : Aged(a) /\ \E e \in Records : IsChunk(a, e)
    /\ rebuild.step = "SWEEP" =>
          /\ \A a \in rebuild.left : \E e \in Records : IsChunk(a, e)
          /\ \A x \in derivative : x.id \in rebuild.left => x.state # "LIVE"

\* A summary between its bytes and its commit.
Summarizes ==
    summary # Idle =>
        /\ summary.source \in summary.cites /\ \A e \in summary.cites : LiveRecord(e)
        /\ Stored(Canonical(summary.id))
        /\ \A x \in derivative : x.id # Canonical(summary.id)

\* A candidate that may still be decided cites nothing that is gone.
Learns ==
    \A c \in candidate :
        c.cites \subseteq Records /\ \A e \in c.cites : Tombstoned(e) => c.status = "APPROVED"

Projects ==
    \A e \in projection :
        e \in Records /\ IsRow(e) /\ ~Tombstoned(e) /\ ~Corrected(e) /\ record[e].request

Kept == /\ \A e \in Records : RowFits(e)
        /\ Captured
Made == /\ \A x \in derivative : WellShaped(x) /\ Aged(x.id) /\ Derives(x)
        /\ Unique
UnderWay == /\ \A d \in Destroyers : Deletes(d)
            /\ Builds /\ Summarizes

EvIInv == EvTypes /\ Kept /\ Made /\ UnderWay /\ Learns /\ Projects

-----------------------------------------------------------------------------
(* What a step leaves alone *)

\* No derivative has the address of a record.
LEMMA Apart ==
    ASSUME EvIInv, NEW x \in derivative, NEW e \in Records
    PROVE  x.id # Canonical(e)
<1>1. WellShaped(x) /\ x.kind \in {"CHUNK", "SUMMARY"}
  BY DEF EvIInv, Made, EvTypes, DerivativeType
<1>2. CASE x.kind = "CHUNK"
  BY <1>1, <1>2 DEF WellShaped, IsChunk, Canonical
<1>3. CASE x.kind = "SUMMARY"
  BY <1>1, <1>3, EvidenceAssumption DEF WellShaped, IsSummary, Canonical
<1>4. QED BY <1>1, <1>2, <1>3

\* A step that changes no row, loses no bytes but those of what is to be deleted, and adds
\* none that a row names.
LEMMA RowsStay ==
    ASSUME EvIInv, UNCHANGED <<rows, restarts>>,
           \A e \in Records : Canonical(e) \in store' => Canonical(e) \in store \/ ~IsRow(e),
           \A e \in Records : Canonical(e) \in store => Canonical(e) \in store' \/ IsFenced(e),
           \A x \in derivative : x.id \in store' => x.id \in store,
           \A x \in derivative : x.id \in store /\ x.state = "LIVE" =>
               x.id \in store' \/ \E e \in Sources(x) : IsFenced(e),
           \A x \in derivative : Aged(x.id)',
           \A x \in derivative :
               x.state = "RETIRED" /\ x.id \in store' /\ rebuild.step = "SWEEP"
                  /\ x.id \in rebuild.left => rebuild'.step = "SWEEP" /\ x.id \in rebuild'.left
    PROVE  (\A e \in Records : RowFits(e)') /\ Made' /\ Learns' /\ Projects'
<1>0. record' = record /\ derivative' = derivative /\ candidate' = candidate /\ projection' = projection
      /\ restarts' = restarts
  BY DEF rows
<1>1. ASSUME NEW e \in Records
      PROVE  RowFits(e)'
  <2>1. RowFits(e)
    BY DEF EvIInv, Kept
  <2>2. QED BY <1>0, <2>1 DEF RowFits, IsRow, IsFenced, Tombstoned, Stored
<1>2. ASSUME NEW x \in derivative
      PROVE  WellShaped(x)' /\ Derives(x)' /\ Aged(x.id)'
  <2>1. WellShaped(x) /\ Derives(x)
    BY DEF EvIInv, Made
  <2>2. WellShaped(x)'
    BY <1>0, <2>1 DEF WellShaped, Sources, IsRow
  <2>3. Derives(x)'
    BY <1>0, <2>1 DEF Derives, Sources, IsFenced, Tombstoned, Stored
  <2>4. QED BY <2>2, <2>3
<1>3. Made'
  <2>1. Unique'
    BY <1>0 DEF EvIInv, Made, Unique
  <2>2. QED BY <1>0, <1>2, <2>1 DEF Made
<1>4. Learns'
  BY <1>0 DEF EvIInv, Learns, Tombstoned
<1>5. Projects'
  BY <1>0 DEF EvIInv, Projects, IsRow, Tombstoned, Corrected
<1>6. QED BY <1>1, <1>3, <1>4, <1>5

\* A deletion, as long as no row changes and no bytes come that a row names.
LEMMA DeletionStays ==
    ASSUME EvIInv, NEW d \in Destroyers, deletion'[d] = deletion[d], UNCHANGED <<record, derivative>>,
           \A e \in Records : Canonical(e) \in store' => Canonical(e) \in store \/ ~IsRow(e),
           \A x \in derivative : x.id \in store' => x.id \in store
    PROVE  Deletes(d)'
<1>1. Deletes(d)
  BY DEF EvIInv, UnderWay
<1>2. CASE deletion[d].step = "DESTROY"
  <2>1. deletion[d].id \in Records
    BY <1>2 DEF EvIInv, EvTypes, DeletionType, Idle, Finalizing, Destroying
  <2>2. IsRow(deletion[d].id)
    BY <1>1, <1>2, <2>1 DEF EvIInv, Kept, RowFits, Deletes
  <2>3. \A a \in (deletion[d].rows \cup {Canonical(deletion[d].id)}) \ deletion[d].left : a \notin store'
    BY <1>1, <1>2, <2>1, <2>2 DEF Deletes, Stored
  <2>4. QED BY <1>1, <1>2, <2>3 DEF Deletes, IsFenced, Sources, Stored
<1>3. CASE deletion[d].step # "DESTROY"
  BY <1>1, <1>3 DEF Deletes, IsFenced
<1>4. QED BY <1>2, <1>3

\* A rebuild that stays where it is, while what it holds stays.
LEMMA BuildStays ==
    ASSUME EvIInv, UNCHANGED <<rebuild, record, derivative>>,
           rebuild.step = "OPEN" =>
              \A e \in rebuild.locked : <<e, rebuild.gen>> \in store => <<e, rebuild.gen>> \in store'
    PROVE  Builds'
BY DEF EvIInv, UnderWay, Builds, LiveRecord, IsRow, IsFenced, Stored, Aged

\* A capture and a summary.
LEMMA CaptureStays ==
    ASSUME EvIInv, UNCHANGED <<capture, record>>,
           capture # Idle => Canonical(capture.id) \in store'
    PROVE  Captured'
BY DEF EvIInv, Kept, Captured, IsRow, Stored

LEMMA SummaryStays ==
    ASSUME EvIInv, UNCHANGED <<summary, record, derivative>>,
           summary # Idle => Canonical(summary.id) \in store'
    PROVE  Summarizes'
BY DEF EvIInv, UnderWay, Summarizes, LiveRecord, IsRow, IsFenced, Stored

-----------------------------------------------------------------------------
(* Steps that leave the store and the rows *)

\* Nothing is written at all.
LEMMA NothingIsWritten ==
    ASSUME EvIInv, UNCHANGED <<rows, store, restarts, capture, summary>>, EvTypes',
           \A x \in derivative : Aged(x.id)',
           rebuild.step = "SWEEP" => UNCHANGED rebuild,
           Builds', \A d \in Destroyers : Deletes(d)'
    PROVE  EvIInv'
<1>1. record' = record /\ derivative' = derivative
  BY DEF rows
<1>2. (\A e \in Records : RowFits(e)') /\ Made' /\ Learns' /\ Projects'
  BY RowsStay
<1>3. Captured'
  <2>1. capture # Idle => Canonical(capture.id) \in store'
    BY DEF EvIInv, Kept, Captured, Stored
  <2>2. QED BY <1>1, <2>1, CaptureStays
<1>4. Summarizes'
  <2>1. summary # Idle => Canonical(summary.id) \in store'
    BY DEF EvIInv, UnderWay, Summarizes, Stored
  <2>2. QED BY <1>1, <2>1, SummaryStays
<1>5. QED BY <1>2, <1>3, <1>4 DEF EvIInv, Kept, UnderWay

\* The deletion of one caller goes on.
LEMMA DeletionGoesOn ==
    ASSUME EvIInv, NEW d \in Destroyers, UNCHANGED <<rows, store, clock, restarts, capture, rebuild, summary>>,
           DeletionType', \A c \in Destroyers \ {d} : deletion'[c] = deletion[c], Deletes(d)'
    PROVE  EvIInv'
<1>1. record' = record /\ derivative' = derivative
  BY DEF rows
<1>2. EvTypes'
  BY <1>1 DEF EvIInv, EvTypes, RecordTypes, CaptureType, RebuildType, SummaryType, DerivativeType
<1>3. \A x \in derivative : Aged(x.id)'
  BY DEF EvIInv, Made, Aged
<1>4. ASSUME NEW c \in Destroyers \ {d}
      PROVE  Deletes(c)'
  BY <1>1, DeletionStays
<1>5. Builds'
  BY <1>1, BuildStays
<1>6. QED BY <1>2, <1>3, <1>4, <1>5, NothingIsWritten

LEMMA NothingHappens == EvIInv /\ UNCHANGED evvars => EvIInv'
<1> SUFFICES ASSUME EvIInv, UNCHANGED evvars PROVE EvIInv'
  OBVIOUS
<1>1. UNCHANGED <<rows, store, clock, restarts, capture, rebuild, summary, deletion>>
  BY DEF evvars
<1>2. record' = record /\ derivative' = derivative
  BY <1>1 DEF rows
<1>3. EvTypes'
  BY <1>1, <1>2 DEF EvIInv, EvTypes, RecordTypes, CaptureType, RebuildType, SummaryType, DerivativeType,
                    DeletionType
<1>4. \A x \in derivative : Aged(x.id)'
  BY <1>1 DEF EvIInv, Made, Aged
<1>5. \A d \in Destroyers : Deletes(d)'
  BY <1>1, <1>2, DeletionStays
<1>6. Builds'
  BY <1>1, <1>2, BuildStays
<1>7. QED BY <1>1, <1>3, <1>4, <1>5, <1>6, NothingIsWritten

LEMMA StartKeeps == EvIInv /\ Start => EvIInv'
<1> SUFFICES ASSUME EvIInv, Start PROVE EvIInv'
  OBVIOUS
<1>1. UNCHANGED <<rows, store, clock, restarts, capture, rebuild, summary, deletion>>
  BY DEF Start
<1>2. record' = record /\ derivative' = derivative
  BY <1>1 DEF rows
<1>3. EvTypes'
  BY <1>1, <1>2 DEF EvIInv, EvTypes, RecordTypes, CaptureType, RebuildType, SummaryType, DerivativeType,
                    DeletionType
<1>4. \A x \in derivative : Aged(x.id)'
  BY <1>1 DEF EvIInv, Made, Aged
<1>5. \A d \in Destroyers : Deletes(d)'
  BY <1>1, <1>2, DeletionStays
<1>6. Builds'
  BY <1>1, <1>2, BuildStays
<1>7. QED BY <1>1, <1>3, <1>4, <1>5, <1>6, NothingIsWritten

LEMMA ResumeDeletionKeeps == ASSUME EvIInv, NEW e \in Records, ResumeDeletion(e) PROVE EvIInv'
<1>1. /\ Startup \in Destroyers /\ IsFenced(e)
      /\ deletion' = [deletion EXCEPT ![Startup] = [step |-> "FINALIZE", id |-> e]]
      /\ UNCHANGED <<rows, store, clock, restarts, capture, rebuild, summary>>
  BY DEF ResumeDeletion, Destroyers
<1>2. /\ DeletionType' /\ \A c \in Destroyers \ {Startup} : deletion'[c] = deletion[c]
      /\ deletion'[Startup] = [step |-> "FINALIZE", id |-> e]
  BY <1>1 DEF EvIInv, EvTypes, DeletionType, Finalizing
<1>3. record' = record
  BY <1>1 DEF rows
<1>4. Deletes(Startup)'
  BY <1>1, <1>2, <1>3 DEF Deletes, IsFenced
<1>5. QED BY <1>1, <1>2, <1>4, DeletionGoesOn

LEMMA AbortDeletionKeeps == ASSUME EvIInv, NEW d \in Destroyers, AbortDeletion(d) PROVE EvIInv'
<1>1. /\ deletion' = [deletion EXCEPT ![d] = Idle]
      /\ UNCHANGED <<rows, store, clock, restarts, capture, rebuild, summary>>
  BY DEF AbortDeletion
<1>2. /\ DeletionType' /\ \A c \in Destroyers \ {d} : deletion'[c] = deletion[c]
      /\ deletion'[d].step = "IDLE"
  BY <1>1 DEF EvIInv, EvTypes, DeletionType, Idle
<1>3. Deletes(d)'
  BY <1>2 DEF Deletes
<1>4. QED BY <1>1, <1>2, <1>3, DeletionGoesOn

\* The derivatives that a deletion is to destroy.
LEMMA DerivedRows ==
    ASSUME EvIInv, NEW e \in Records
    PROVE  /\ Derived(e) \in SUBSET Names
           /\ \A a \in Derived(e) : \E x \in derivative : x.id = a
           /\ \A x \in derivative : x.id \in Derived(e) => e \in Sources(x)
           /\ \A x \in derivative : x.state = "LIVE" /\ e \in Sources(x) => x.id \in Derived(e)
<1>1. \A a \in Derived(e) :
         \E x \in derivative : x.id = a /\ x.state = "LIVE" /\ (x.source = e \/ e \in x.cites)
  BY DEF Derived
<1>2. \A x \in derivative : x.state = "LIVE" /\ (x.source = e \/ e \in x.cites) => x.id \in Derived(e)
  BY DEF Derived
<1>3. \A x, y \in derivative : x.id = y.id => x = y
  BY DEF EvIInv, Made, Unique
<1>4. \A x \in derivative : x.id \in Names
  BY DEF EvIInv, EvTypes, DerivativeType
<1>5. QED BY <1>1, <1>2, <1>3, <1>4 DEF Sources

LEMMA FinalizeDeletionKeeps == ASSUME EvIInv, NEW d \in Destroyers, FinalizeDeletion(d) PROVE EvIInv'
<1>0. /\ deletion[d].step = "FINALIZE"
      /\ UNCHANGED <<rows, store, clock, restarts, capture, rebuild, summary>>
  BY DEF FinalizeDeletion
<1>1. PICK e \in Records : e = deletion[d].id
  BY <1>0 DEF EvIInv, EvTypes, DeletionType, Idle, Finalizing, Destroying
<1>2. IsFenced(e)
  BY <1>0, <1>1 DEF EvIInv, UnderWay, Deletes
<1>3. record' = record /\ derivative' = derivative /\ store' = store
  BY <1>0 DEF rows
<1>4. CASE deletion' = [deletion EXCEPT ![d] = Idle]
  <2>1. /\ DeletionType' /\ \A c \in Destroyers \ {d} : deletion'[c] = deletion[c]
        /\ deletion'[d].step = "IDLE"
    BY <1>4 DEF EvIInv, EvTypes, DeletionType, Idle
  <2>2. Deletes(d)'
    BY <2>1 DEF Deletes
  <2>3. QED BY <1>0, <2>1, <2>2, DeletionGoesOn
<1>5. CASE deletion' = [deletion EXCEPT ![d] =
                           [step |-> "DESTROY", id |-> e, locked |-> {e}, rows |-> Derived(e),
                            left |-> Derived(e) \cup {Canonical(e)}]]
  <2>1. PICK ids \in SUBSET Names :
           /\ ids = Derived(e)
           /\ \A a \in ids : \E x \in derivative : x.id = a
           /\ \A x \in derivative : x.id \in ids => e \in Sources(x)
           /\ \A x \in derivative : x.state = "LIVE" /\ e \in Sources(x) => x.id \in ids
    BY DerivedRows
  <2>2. Canonical(e) \in Names
    BY DEF Canonical, Names
  <2>3. PICK left \in SUBSET Names : left = ids \cup {Canonical(e)}
    BY <2>2
  <2> DEFINE del == [step |-> "DESTROY", id |-> e, locked |-> {e}, rows |-> ids, left |-> left]
  <2>4. /\ del \in Destroying /\ del.step = "DESTROY" /\ del.id = e /\ del.rows = ids
        /\ del.left = left
    BY DEF Destroying
  <2>5. deletion' = [deletion EXCEPT ![d] = del]
    BY <1>5, <2>1, <2>3
  <2> HIDE DEF del
  <2>6. /\ DeletionType' /\ \A c \in Destroyers \ {d} : deletion'[c] = deletion[c]
        /\ deletion'[d] = del
    BY <2>4, <2>5 DEF EvIInv, EvTypes, DeletionType
  <2>7. Deletes(d)'
    BY <1>2, <1>3, <2>1, <2>3, <2>4, <2>6 DEF Deletes, IsFenced, Sources
  <2>8. QED BY <1>0, <2>6, <2>7, DeletionGoesOn
<1>6. QED BY <1>1, <1>4, <1>5 DEF FinalizeDeletion

\* The index goes on without the store or the rows.
LEMMA RebuildGoesOn ==
    ASSUME EvIInv, UNCHANGED <<rows, store, restarts, capture, deletion, summary>>, clock' \in Nat,
           RebuildType', \A x \in derivative : Aged(x.id)', rebuild.step # "SWEEP", Builds'
    PROVE  EvIInv'
<1>1. record' = record /\ derivative' = derivative
  BY DEF rows
<1>2. EvTypes'
  BY <1>1 DEF EvIInv, EvTypes, RecordTypes, CaptureType, DeletionType, SummaryType, DerivativeType
<1>3. \A d \in Destroyers : Deletes(d)'
  BY <1>1, DeletionStays
<1>4. QED BY <1>2, <1>3, NothingIsWritten

LEMMA ReadProjectionsKeeps == EvIInv /\ ReadProjections => EvIInv'
<1> SUFFICES ASSUME EvIInv, ReadProjections PROVE EvIInv'
  OBVIOUS
<1>1. PICK todo \in SUBSET Records : rebuild' = [step |-> "READ", gen |-> rebuild.gen, todo |-> todo]
  BY DEF ReadProjections
<1>2. rebuild.step = "IDLE" /\ UNCHANGED <<rows, store, clock, restarts, capture, deletion, summary>>
  BY DEF ReadProjections
<1>3. rebuild.gen \in Nat /\ clock' \in Nat
  BY <1>2 DEF EvIInv, EvTypes, RebuildType, Reading, Building, Sweeping, RecordTypes
<1>4. RebuildType' /\ rebuild'.step = "READ" /\ rebuild'.gen = rebuild.gen
  BY <1>1, <1>3 DEF RebuildType, Reading
<1>5. \A x \in derivative : Aged(x.id)'
  BY <1>4 DEF EvIInv, Made, Aged
<1>6. Builds'
  BY <1>4 DEF Builds
<1>7. QED BY <1>2, <1>3, <1>4, <1>5, <1>6, RebuildGoesOn

\* The chunks of the current generation.
LEMMA ChunkIds ==
    ASSUME EvIInv
    PROVE  /\ {d.id : d \in Chunks} \in SUBSET Names
           /\ \A a \in {d.id : d \in Chunks} :
                 Aged(a) /\ (\E e \in Records : IsChunk(a, e)) /\ \E x \in derivative : x.id = a
<1>1. ASSUME NEW x \in Chunks
      PROVE  x.id \in Names /\ x \in derivative /\ Aged(x.id) /\ x.source \in Records /\ IsChunk(x.id, x.source)
  <2>1. x \in derivative /\ x.kind = "CHUNK"
    BY DEF Chunks
  <2>2. QED BY <2>1 DEF EvIInv, EvTypes, DerivativeType, Made, WellShaped
<1>2. QED BY <1>1

LEMMA OpenRebuildKeeps == EvIInv /\ OpenRebuild => EvIInv'
<1> SUFFICES ASSUME EvIInv, OpenRebuild PROVE EvIInv'
  OBVIOUS
<1>1. PICK old \in SUBSET Names :
         /\ old = {d.id : d \in Chunks}
         /\ \A a \in old : Aged(a) /\ \E e \in Records : IsChunk(a, e)
  BY ChunkIds
<1>2. /\ rebuild.step = "READ" /\ clock' = clock + 1
      /\ rebuild' = [step |-> "OPEN", gen |-> rebuild.gen + 1, todo |-> rebuild.todo,
                     at |-> clock + 1, retired |-> old, locked |-> {}]
      /\ UNCHANGED <<rows, store, restarts, capture, deletion, summary>>
  BY <1>1 DEF OpenRebuild, Tick
<1>3. rebuild.gen \in Nat /\ rebuild.todo \in SUBSET Records /\ clock \in Nat
  BY <1>2 DEF EvIInv, EvTypes, RebuildType, Reading, Building, Sweeping, RecordTypes
<1>4. PICK g \in Nat, t \in Nat : g = rebuild.gen + 1 /\ t = clock + 1 /\ g > 0
  BY <1>3
<1>5. /\ RebuildType' /\ rebuild'.step = "OPEN" /\ rebuild'.gen = g /\ rebuild'.retired = old
      /\ rebuild'.locked = {}
  <2>1. rebuild' = [step |-> "OPEN", gen |-> g, todo |-> rebuild.todo, at |-> t, retired |-> old,
                    locked |-> {}]
    BY <1>2, <1>4
  <2>2. QED BY <1>3, <2>1 DEF RebuildType, Building
<1>6. \A a \in Names : a[2] <= rebuild.gen => Aged(a)'
  BY <1>3, <1>4, <1>5 DEF Aged, Names
<1>7. \A x \in derivative : Aged(x.id)'
  BY <1>6 DEF EvIInv, Made, Aged, EvTypes, DerivativeType
<1>8. Builds'
  <2>1. \A a \in old : Aged(a)'
    BY <1>1, <1>6 DEF Aged
  <2>2. QED BY <1>1, <1>4, <1>5, <2>1 DEF Builds, IsChunk, Aged
<1>9. QED BY <1>2, <1>3, <1>4, <1>5, <1>7, <1>8, RebuildGoesOn

LEMMA FailRebuildKeeps == EvIInv /\ FailRebuild => EvIInv'
<1> SUFFICES ASSUME EvIInv, FailRebuild PROVE EvIInv'
  OBVIOUS
<1>1. rebuild.step = "OPEN" /\ UNCHANGED <<rows, store, clock, restarts, capture, deletion, summary>>
  BY DEF FailRebuild
<1>2. rebuild.gen \in Nat /\ rebuild.gen > 0 /\ rebuild.locked \in SUBSET Records /\ clock' \in Nat
  BY <1>1 DEF EvIInv, EvTypes, RebuildType, Reading, Building, Sweeping, RecordTypes, UnderWay, Builds
<1>3. PICK left \in SUBSET Names :
         /\ left = {<<e, rebuild.gen>> : e \in rebuild.locked}
         /\ \A a \in left : a[2] = rebuild.gen /\ \E e \in Records : IsChunk(a, e)
  <2>1. \A e \in rebuild.locked :
           /\ <<e, rebuild.gen>> \in Names /\ <<e, rebuild.gen>>[2] = rebuild.gen
           /\ IsChunk(<<e, rebuild.gen>>, e) /\ e \in Records
    BY <1>2 DEF Names, IsChunk
  <2> DEFINE S == {<<e, rebuild.gen>> : e \in rebuild.locked}
  <2>2. ASSUME NEW a \in S
        PROVE  a \in Names /\ a[2] = rebuild.gen /\ \E e \in Records : IsChunk(a, e)
    <3>1. PICK e \in rebuild.locked : a = <<e, rebuild.gen>>
      OBVIOUS
    <3>2. QED BY <2>1, <3>1
  <2> HIDE DEF S
  <2>3. S \in SUBSET Names
    BY <2>2
  <2>4. QED BY <2>2, <2>3 DEF S
<1>4. RebuildType' /\ rebuild'.step = "SWEEP" /\ rebuild'.gen = rebuild.gen /\ rebuild'.left = left
  <2>1. rebuild' = [step |-> "SWEEP", gen |-> rebuild.gen, left |-> left]
    BY <1>3 DEF FailRebuild
  <2>2. QED BY <1>2, <2>1 DEF RebuildType, Sweeping
<1>5. \A x \in derivative : Aged(x.id)' /\ x.id \notin left
  BY <1>1, <1>2, <1>3, <1>4 DEF EvIInv, Made, Aged, EvTypes, DerivativeType, Names
<1>6. Builds'
  <2>1. derivative' = derivative
    BY <1>1 DEF rows
  <2>2. QED BY <1>3, <1>4, <1>5, <2>1 DEF Builds, IsChunk
<1>7. QED BY <1>1, <1>2, <1>4, <1>5, <1>6, RebuildGoesOn

-----------------------------------------------------------------------------
(* Steps that write or delete bytes *)

\* Bytes at an address that no row has yet.
LEMMA PutKeeps ==
    ASSUME EvIInv, NEW a, Put(a), UNCHANGED <<rows, restarts, deletion>>, EvTypes',
           \A e \in Records : IsRow(e) => a # Canonical(e),
           \A x \in derivative : x.id # a,
           rebuild'.step = rebuild.step, rebuild'.gen = rebuild.gen,
           rebuild.step = "SWEEP" => UNCHANGED rebuild,
           Captured', Builds', Summarizes'
    PROVE  EvIInv'
<1>1. record' = record /\ derivative' = derivative /\ store' = store \cup {a}
  BY DEF rows, Put
<1>2. /\ \A e \in Records : Canonical(e) \in store' => Canonical(e) \in store \/ ~IsRow(e)
      /\ \A x \in derivative : x.id \in store' => x.id \in store
  BY <1>1
<1>3. \A x \in derivative : Aged(x.id)'
  BY DEF EvIInv, Made, Aged
<1>4. (\A e \in Records : RowFits(e)') /\ Made' /\ Learns' /\ Projects'
  BY <1>1, <1>2, <1>3, RowsStay
<1>5. \A d \in Destroyers : Deletes(d)'
  BY <1>1, <1>2, DeletionStays
<1>6. QED BY <1>4, <1>5 DEF EvIInv, Kept, UnderWay

LEMMA PutRecordKeeps ==
    ASSUME EvIInv, NEW e \in Records, NEW of \in SUBSET Records, PutRecord(e, of),
           \A f \in of : IsRow(f)
    PROVE  EvIInv'
<1>1. /\ capture = Idle /\ record[e].state = "NONE" /\ clock' = clock + 1 /\ Put(Canonical(e))
      /\ capture' = [step |-> "PUT", id |-> e, of |-> of, at |-> clock + 1]
      /\ UNCHANGED <<rows, restarts, deletion, rebuild, summary>>
  BY DEF PutRecord, Tick
<1>2. record' = record /\ derivative' = derivative /\ store' = store \cup {Canonical(e)}
  BY <1>1 DEF rows, Put
<1>3. PICK t \in Nat : t = clock + 1
  BY DEF EvIInv, EvTypes, RecordTypes
<1>4. CaptureType' /\ capture'.id = e /\ capture'.of = of
  BY <1>1, <1>3 DEF CaptureType
<1>5. EvTypes'
  BY <1>1, <1>2, <1>3, <1>4 DEF EvIInv, EvTypes, RecordTypes, RebuildType, SummaryType, DerivativeType,
                                DeletionType
<1>6. Captured'
  BY <1>1, <1>2, <1>4 DEF Captured, IsRow, Stored
<1>7. Builds'
  BY <1>1, <1>2, BuildStays
<1>8. Summarizes'
  <2>1. summary # Idle => Canonical(summary.id) \in store'
    BY <1>2 DEF EvIInv, UnderWay, Summarizes, Stored
  <2>2. QED BY <1>1, <1>2, <2>1, SummaryStays
<1>9. \A f \in Records : IsRow(f) => Canonical(e) # Canonical(f)
  BY <1>1 DEF Canonical, IsRow
<1>10. \A x \in derivative : x.id # Canonical(e)
  BY Apart
<1>11. QED BY <1>1, <1>5, <1>6, <1>7, <1>8, <1>9, <1>10, PutKeeps

LEMMA CaptureKeeps ==
    ASSUME EvIInv, NEW e \in Records, Capture(e) \/ \E f \in Records : Correct(e, f) PROVE EvIInv'
<1>1. CASE Capture(e)
  BY <1>1, PutRecordKeeps DEF Capture
<1>2. ASSUME NEW f \in Records, Correct(e, f) PROVE EvIInv'
  <2>1. PutRecord(e, {f}) /\ IsRow(f)
    BY <1>2 DEF Correct, Loads, LiveRecord
  <2>2. QED BY <2>1, PutRecordKeeps
<1>3. QED BY <1>1, <1>2

LEMMA IndexRecordKeeps == ASSUME EvIInv, NEW e \in Records, IndexRecord(e) PROVE EvIInv'
<1>0. /\ rebuild.step = "OPEN" /\ rebuild \in Building
      /\ UNCHANGED <<rows, clock, restarts, capture, deletion, summary>>
  BY DEF IndexRecord, EvIInv, EvTypes, RebuildType, Reading, Building, Sweeping
<1>1. /\ rebuild.gen \in Nat /\ rebuild.todo \in SUBSET Records /\ rebuild.at \in Nat
      /\ rebuild.retired \in SUBSET Names /\ rebuild.locked \in SUBSET Records
  BY <1>0 DEF Building
<1>2. record' = record /\ derivative' = derivative
  BY <1>0 DEF rows
<1>3. PICK todo \in SUBSET Records : todo = rebuild.todo \ {e}
  BY <1>1
<1>4. CASE rebuild' = [rebuild EXCEPT !.todo = todo] /\ UNCHANGED store
  <2>1. /\ rebuild' \in Building /\ rebuild'.step = "OPEN" /\ rebuild'.gen = rebuild.gen
        /\ rebuild'.locked = rebuild.locked /\ rebuild'.retired = rebuild.retired
    BY <1>0, <1>4 DEF Building
  <2>2. RebuildType' /\ clock' \in Nat
    BY <1>0, <2>1 DEF RebuildType, EvIInv, EvTypes, RecordTypes
  <2>3. \A x \in derivative : Aged(x.id)'
    BY <1>0, <2>1 DEF EvIInv, Made, Aged
  <2>4. Builds'
    BY <1>0, <1>2, <1>4, <2>1 DEF EvIInv, UnderWay, Builds, LiveRecord, IsRow, IsFenced, Stored, Aged
  <2>5. QED BY <1>0, <1>4, <2>2, <2>3, <2>4, RebuildGoesOn
<1>5. CASE /\ Loads(e) /\ Put(<<e, rebuild.gen>>)
           /\ rebuild' = [rebuild EXCEPT !.todo = todo, !.locked = @ \cup {e}]
  <2>0. PICK locked \in SUBSET Records : locked = rebuild.locked \cup {e}
    BY <1>1
  <2>1. /\ rebuild' \in Building /\ rebuild'.step = "OPEN" /\ rebuild'.gen = rebuild.gen
        /\ rebuild'.locked = locked /\ rebuild'.retired = rebuild.retired
    BY <1>0, <1>5, <2>0 DEF Building
  <2>2. EvTypes'
    BY <1>0, <1>2, <2>1 DEF RebuildType, EvIInv, EvTypes, RecordTypes, CaptureType, SummaryType,
                            DerivativeType, DeletionType
  <2>3. rebuild.gen > 0 /\ (\A f \in rebuild.locked : LiveRecord(f) /\ <<f, rebuild.gen>> \in store)
        /\ \A a \in rebuild.retired : Aged(a) /\ \E f \in Records : IsChunk(a, f)
    BY <1>0 DEF EvIInv, UnderWay, Builds, Stored
  <2>4. store' = store \cup {<<e, rebuild.gen>>}
    BY <1>5 DEF Put
  <2>5. Builds'
    <3>1. \A a \in rebuild.retired : Aged(a)'
      BY <1>0, <2>1, <2>3 DEF Aged
    <3>2. \A f \in locked : LiveRecord(f)' /\ <<f, rebuild.gen>> \in store'
      BY <1>2, <1>5, <2>0, <2>3, <2>4 DEF Loads, LiveRecord, IsRow, IsFenced
    <3>3. QED BY <2>1, <2>3, <3>1, <3>2 DEF Builds, Stored
  <2>6. \A f \in Records : <<e, rebuild.gen>> # Canonical(f)
    BY <1>1, <2>3 DEF Canonical
  <2>7. \A x \in derivative : x.id # <<e, rebuild.gen>>
    BY <1>0, <1>1 DEF EvIInv, Made, Aged
  <2>8. Captured'
    <3>1. capture # Idle => Canonical(capture.id) \in store'
      BY <2>4 DEF EvIInv, Kept, Captured, Stored
    <3>2. QED BY <1>0, <1>2, <3>1, CaptureStays
  <2>9. Summarizes'
    <3>1. summary # Idle => Canonical(summary.id) \in store'
      BY <2>4 DEF EvIInv, UnderWay, Summarizes, Stored
    <3>2. QED BY <1>0, <1>2, <3>1, SummaryStays
  <2>10. QED BY <1>0, <1>5, <2>1, <2>2, <2>5, <2>6, <2>7, <2>8, <2>9, PutKeeps
<1>6. QED BY <1>3, <1>4, <1>5 DEF IndexRecord

LEMMA PutSummaryKeeps ==
    ASSUME EvIInv, NEW s \in Summaries, NEW e \in Records, NEW cites \in SUBSET Records,
           PutSummary(s, e, cites)
    PROVE  EvIInv'
<1>1. /\ summary = Idle /\ (\A x \in derivative : x.id # Canonical(s)) /\ e \in cites /\ Citable(cites)
      /\ Put(Canonical(s))
      /\ summary' = [step |-> "PUT", id |-> s, source |-> e, cites |-> cites]
      /\ UNCHANGED <<rows, clock, restarts, capture, deletion, rebuild>>
  BY DEF PutSummary
<1>2. record' = record /\ derivative' = derivative /\ store' = store \cup {Canonical(s)}
  BY <1>1 DEF rows, Put
<1>3. EvTypes'
  BY <1>1, <1>2 DEF EvIInv, EvTypes, RecordTypes, CaptureType, RebuildType, SummaryType, DerivativeType,
                    DeletionType
<1>4. \A f \in cites : LiveRecord(f)
  BY <1>1 DEF Citable, Loads
<1>5. Summarizes'
  BY <1>1, <1>2, <1>4 DEF Summarizes, LiveRecord, IsRow, IsFenced, Stored
<1>6. Captured'
  <2>1. capture # Idle => Canonical(capture.id) \in store'
    BY <1>2 DEF EvIInv, Kept, Captured, Stored
  <2>2. QED BY <1>1, <1>2, <2>1, CaptureStays
<1>7. Builds'
  BY <1>1, <1>2, BuildStays
<1>8. \A f \in Records : Canonical(s) # Canonical(f)
  BY EvidenceAssumption DEF Canonical
<1>9. QED BY <1>1, <1>3, <1>5, <1>6, <1>7, <1>8, PutKeeps

\* What is deleted is the bytes of a record that is to go, of a derivative of such a one, or of
\* no row.
LEMMA DeleteKeeps ==
    ASSUME EvIInv, NEW a, Delete(a), UNCHANGED <<rows, restarts, capture>>, EvTypes',
           \A e \in Records : a = Canonical(e) => IsFenced(e),
           \A x \in derivative : x.id = a /\ x.state = "LIVE" => \E e \in Sources(x) : IsFenced(e),
           rebuild'.step = rebuild.step \/ rebuild'.step = "IDLE", rebuild'.gen = rebuild.gen,
           \A x \in derivative :
               x.state = "RETIRED" /\ x.id \in store' /\ rebuild.step = "SWEEP"
                  /\ x.id \in rebuild.left => rebuild'.step = "SWEEP" /\ x.id \in rebuild'.left,
           \A d \in Destroyers : Deletes(d)', Builds', Summarizes'
    PROVE  EvIInv'
<1>1. record' = record /\ derivative' = derivative /\ store' = store \ {a}
  BY DEF rows, Delete
<1>2. \A x \in derivative : Aged(x.id)'
  BY DEF EvIInv, Made, Aged
<1>3. (\A e \in Records : RowFits(e)') /\ Made' /\ Learns' /\ Projects'
  BY <1>1, <1>2, RowsStay
<1>4. Captured'
  <2>1. ASSUME capture # Idle PROVE Canonical(capture.id) \in store'
    <3>1. capture.id \in Records
      BY <2>1 DEF EvIInv, EvTypes, CaptureType
    <3>2. ~IsFenced(capture.id)
      BY <2>1, <3>1 DEF EvIInv, Kept, Captured, RowFits, IsRow
    <3>3. QED BY <1>1, <2>1, <3>1, <3>2 DEF EvIInv, Kept, Captured, Stored
  <2>2. QED BY <1>1, <2>1, CaptureStays
<1>5. QED BY <1>3, <1>4 DEF EvIInv, Kept, UnderWay

\* Bytes that a deletion may destroy, seen from the others' work.
LEMMA DestroyBytesKeeps == ASSUME EvIInv, NEW d \in Destroyers, NEW a, DestroyBytes(d, a) PROVE EvIInv'
<1>0. /\ deletion[d].step = "DESTROY" /\ a \in deletion[d].left /\ Delete(a)
      /\ deletion' = [deletion EXCEPT ![d].left = @ \ {a}]
      /\ UNCHANGED <<rows, clock, restarts, capture, rebuild, summary>>
  BY DEF DestroyBytes
<1>1. deletion[d] \in Destroying /\ deletion \in [Destroyers -> {Idle} \cup Finalizing \cup Destroying]
  BY <1>0 DEF EvIInv, EvTypes, DeletionType, Idle, Finalizing, Destroying
<1>2. PICK e \in Records, ids \in SUBSET Names, left \in SUBSET Names :
         /\ e = deletion[d].id /\ ids = deletion[d].rows /\ left = deletion[d].left \ {a}
  BY <1>1 DEF Destroying
<1>3. /\ IsFenced(e) /\ IsRow(e)
      /\ deletion[d].left \subseteq ids \cup {Canonical(e)}
      /\ \A b \in ids : \E x \in derivative : x.id = b
      /\ \A x \in derivative : x.id \in ids => e \in Sources(x)
      /\ \A x \in derivative : x.state = "LIVE" /\ e \in Sources(x) => x.id \in ids
      /\ \A b \in (ids \cup {Canonical(e)}) \ deletion[d].left : b \notin store
  BY <1>0, <1>2 DEF EvIInv, UnderWay, Deletes, Stored, Kept, RowFits
<1>4. record' = record /\ derivative' = derivative /\ store' = store \ {a}
  BY <1>0 DEF rows, Delete
<1>5. a \in ids \/ a = Canonical(e)
  BY <1>0, <1>3
<1>6. /\ \A f \in Records : a = Canonical(f) => f = e
      /\ \A x \in derivative : x.id = a => e \in Sources(x)
  <2>1. \A f \in Records, x \in derivative : x.id # Canonical(f)
    BY Apart
  <2>2. \A f \in Records : Canonical(e) = Canonical(f) => e = f
    BY DEF Canonical
  <2>3. QED BY <1>3, <1>5, <2>1, <2>2
<1>7. /\ DeletionType' /\ deletion'[d].step = "DESTROY" /\ deletion'[d].id = e
      /\ deletion'[d].rows = ids /\ deletion'[d].left = left
      /\ \A c \in Destroyers \ {d} : deletion'[c] = deletion[c]
  <2> DEFINE del == [deletion[d] EXCEPT !.left = left]
  <2>1. del \in Destroying /\ del.step = "DESTROY" /\ del.id = e /\ del.rows = ids /\ del.left = left
    BY <1>0, <1>1, <1>2 DEF Destroying
  <2>2. deletion' = [deletion EXCEPT ![d] = del]
    BY <1>0, <1>1, <1>2
  <2> HIDE DEF del
  <2>3. QED BY <1>1, <2>1, <2>2 DEF DeletionType
<1>8. EvTypes'
  BY <1>0, <1>4, <1>7 DEF EvIInv, EvTypes, RecordTypes, CaptureType, RebuildType, SummaryType,
                          DerivativeType
<1>9. ASSUME NEW c \in Destroyers
      PROVE  Deletes(c)'
  <2>1. CASE c = d
    <3>1. /\ IsFenced(e)' /\ left \subseteq ids \cup {Canonical(e)}
          /\ \A b \in (ids \cup {Canonical(e)}) \ left : b \notin store'
      BY <1>2, <1>3, <1>4 DEF IsFenced
    <3>2. QED BY <1>3, <1>4, <1>7, <2>1, <3>1 DEF Deletes, Stored, Sources, IsFenced
  <2>2. CASE c # d
    BY <1>4, <1>7, <2>2, DeletionStays
  <2>3. QED BY <2>1, <2>2
<1>10. Builds'
  <2>1. ASSUME rebuild.step = "OPEN", NEW f \in rebuild.locked PROVE <<f, rebuild.gen>> # a
    <3>1. rebuild.gen \in Nat /\ rebuild.gen > 0
      BY <2>1 DEF EvIInv, EvTypes, RebuildType, Reading, Building, Sweeping, UnderWay, Builds
    <3>2. \A x \in derivative : x.id[2] < rebuild.gen
      BY <2>1 DEF EvIInv, Made, Aged
    <3>3. \A x \in derivative : x.id \in Names
      BY DEF EvIInv, EvTypes, DerivativeType
    <3>4. a # <<f, rebuild.gen>>
      BY <1>3, <1>5, <3>1, <3>2, <3>3 DEF Canonical, Names
    <3>5. QED BY <3>4
  <2>2. QED BY <1>0, <1>4, <2>1, BuildStays
<1>11. Summarizes'
  <2>1. ASSUME summary # Idle PROVE Canonical(summary.id) \in store'
    <3>1. /\ summary.id \in Summaries /\ Canonical(summary.id) \in store
          /\ \A x \in derivative : x.id # Canonical(summary.id)
      BY <2>1 DEF EvIInv, EvTypes, SummaryType, UnderWay, Summarizes, Stored
    <3>2. Canonical(summary.id) # Canonical(e)
      BY <3>1, EvidenceAssumption DEF Canonical
    <3>3. QED BY <1>3, <1>4, <1>5, <3>1, <3>2
  <2>2. QED BY <1>0, <1>4, <2>1, SummaryStays
<1>12. \A x \in derivative :
          x.state = "RETIRED" /\ x.id \in store' /\ rebuild.step = "SWEEP"
             /\ x.id \in rebuild.left => rebuild'.step = "SWEEP" /\ x.id \in rebuild'.left
  BY <1>0
<1>13. QED BY <1>0, <1>3, <1>6, <1>8, <1>9, <1>10, <1>11, <1>12, DeleteKeeps

LEMMA SweepKeeps == EvIInv /\ Sweep => EvIInv'
<1> SUFFICES ASSUME EvIInv, Sweep PROVE EvIInv'
  OBVIOUS
<1>0. /\ rebuild.step = "SWEEP" /\ rebuild \in Sweeping
      /\ UNCHANGED <<rows, clock, restarts, capture, deletion, summary>>
  BY DEF Sweep, EvIInv, EvTypes, RebuildType, Reading, Building, Sweeping
<1>1. /\ record' = record /\ derivative' = derivative /\ rebuild.gen \in Nat
      /\ rebuild.left \in SUBSET Names
  BY <1>0 DEF rows, Sweeping
<1>2. CASE rebuild.left = {} /\ rebuild' = NotBuilding /\ UNCHANGED store
  <2>1. /\ RebuildType' /\ rebuild'.step = "IDLE" /\ rebuild'.gen = rebuild.gen
    BY <1>1, <1>2 DEF RebuildType, NotBuilding
  <2>2. EvTypes'
    BY <1>0, <1>1, <2>1 DEF EvIInv, EvTypes, RecordTypes, CaptureType, SummaryType, DerivativeType,
                            DeletionType
  <2>3. Builds'
    BY <2>1 DEF Builds
  <2>4. \A d \in Destroyers : Deletes(d)'
    BY <1>0, <1>1, <1>2, DeletionStays
  <2>5. \A x \in derivative : Aged(x.id)'
    BY <2>1 DEF EvIInv, Made, Aged
  <2>6. (\A e \in Records : RowFits(e)') /\ Made' /\ Learns' /\ Projects'
    BY <1>0, <1>2, <2>5, RowsStay
  <2>7. Captured'
    <3>1. capture # Idle => Canonical(capture.id) \in store'
      BY <1>2 DEF EvIInv, Kept, Captured, Stored
    <3>2. QED BY <1>0, <1>1, <3>1, CaptureStays
  <2>8. Summarizes'
    <3>1. summary # Idle => Canonical(summary.id) \in store'
      BY <1>2 DEF EvIInv, UnderWay, Summarizes, Stored
    <3>2. QED BY <1>0, <1>1, <3>1, SummaryStays
  <2>9. QED BY <2>2, <2>3, <2>4, <2>6, <2>7, <2>8 DEF EvIInv, Kept, UnderWay
<1>3. ASSUME NEW a \in rebuild.left, Delete(a), rebuild' = [rebuild EXCEPT !.left = @ \ {a}]
      PROVE  EvIInv'
  <2>1. PICK left \in SUBSET Names : left = rebuild.left \ {a}
    BY <1>1
  <2>2. /\ rebuild' \in Sweeping /\ rebuild'.step = "SWEEP" /\ rebuild'.gen = rebuild.gen
        /\ rebuild'.left = left
    BY <1>0, <1>3, <2>1 DEF Sweeping
  <2>3. EvTypes'
    BY <1>0, <1>1, <2>2 DEF EvIInv, EvTypes, RecordTypes, RebuildType, CaptureType, SummaryType,
                            DerivativeType, DeletionType
  <2>4. store' = store \ {a}
    BY <1>3 DEF Delete
  <2>5. /\ \A b \in rebuild.left : \E e \in Records : IsChunk(b, e)
        /\ \A x \in derivative : x.id \in rebuild.left => x.state # "LIVE"
    BY <1>0 DEF EvIInv, UnderWay, Builds
  <2>6. Builds'
    BY <1>1, <2>1, <2>2, <2>5 DEF Builds, IsChunk
  <2>7. \A d \in Destroyers : Deletes(d)'
    BY <1>0, <1>1, <2>4, DeletionStays
  <2>8. a[2] > 0
    BY <2>5, <1>3 DEF IsChunk
  <2>9. \A id : a # Canonical(id)
    BY <2>8 DEF Canonical
  <2>10. Summarizes'
    <3>1. summary # Idle => Canonical(summary.id) \in store'
      BY <2>4, <2>9 DEF EvIInv, UnderWay, Summarizes, Stored
    <3>2. QED BY <1>0, <1>1, <3>1, SummaryStays
  <2>11. \A x \in derivative :
            x.state = "RETIRED" /\ x.id \in store' /\ rebuild.step = "SWEEP"
               /\ x.id \in rebuild.left => rebuild'.step = "SWEEP" /\ x.id \in rebuild'.left
    BY <2>1, <2>2, <2>4
  <2>12. \A x \in derivative : x.id = a => x.state # "LIVE"
    BY <1>3, <2>5
  <2>13. QED BY <1>0, <1>3, <2>2, <2>3, <2>6, <2>7, <2>9, <2>10, <2>11, <2>12, DeleteKeeps
<1>4. QED BY <1>2, <1>3 DEF Sweep

LEMMA AbortSummaryKeeps == EvIInv /\ AbortSummary => EvIInv'
<1> SUFFICES ASSUME EvIInv, AbortSummary PROVE EvIInv'
  OBVIOUS
<1>0. /\ summary # Idle /\ summary' = Idle
      /\ UNCHANGED <<rows, clock, restarts, capture, deletion, rebuild>>
  BY DEF AbortSummary
<1>1. PICK s \in Summaries : s = summary.id
  BY <1>0 DEF EvIInv, EvTypes, SummaryType
<1>2. /\ record' = record /\ derivative' = derivative /\ store' = store \ {Canonical(s)}
      /\ Delete(Canonical(s))
  BY <1>0, <1>1 DEF rows, AbortSummary, Delete
<1>3. EvTypes'
  BY <1>0, <1>2 DEF EvIInv, EvTypes, RecordTypes, RebuildType, CaptureType, SummaryType, DerivativeType,
                    DeletionType
<1>4. \A d \in Destroyers : Deletes(d)'
  BY <1>0, <1>2, DeletionStays
<1>5. \A x \in derivative : x.id # Canonical(s)
  BY <1>0, <1>1 DEF EvIInv, UnderWay, Summarizes
<1>6. \A f \in Records : Canonical(s) # Canonical(f)
  BY EvidenceAssumption DEF Canonical
<1>7. Builds'
  <2>1. rebuild.step = "OPEN" => rebuild.gen > 0
    BY DEF EvIInv, UnderWay, Builds
  <2>2. rebuild.step = "OPEN" =>
           \A e \in rebuild.locked : <<e, rebuild.gen>> \in store => <<e, rebuild.gen>> \in store'
    BY <1>2, <2>1 DEF Canonical
  <2>3. QED BY <1>0, <1>2, <2>2, BuildStays
<1>8. Summarizes'
  BY <1>0 DEF Summarizes
<1>9. \A x \in derivative :
         x.state = "RETIRED" /\ x.id \in store' /\ rebuild.step = "SWEEP"
            /\ x.id \in rebuild.left => rebuild'.step = "SWEEP" /\ x.id \in rebuild'.left
  BY <1>0
<1>10. QED BY <1>0, <1>2, <1>3, <1>4, <1>5, <1>6, <1>7, <1>8, <1>9, DeleteKeeps

-----------------------------------------------------------------------------
(* Steps that commit rows *)

\* Candidates change, and nothing else.
LEMMA CandidatesChange ==
    ASSUME EvIInv, Learns',
           UNCHANGED <<record, derivative, projection, store, clock, restarts, capture, deletion,
                       rebuild, summary>>
    PROVE  EvIInv'
<1>1. EvTypes'
  BY DEF EvIInv, EvTypes, RecordTypes, CaptureType, RebuildType, SummaryType, DerivativeType,
         DeletionType
<1>2. Kept'
  <2>1. Captured'
    BY DEF EvIInv, Kept, Captured, IsRow, Stored
  <2>2. \A e \in Records : RowFits(e)'
    BY DEF EvIInv, Kept, RowFits, IsRow, IsFenced, Tombstoned, Stored
  <2>3. QED BY <2>1, <2>2 DEF Kept
<1>3. Made'
  BY DEF EvIInv, Made, Unique, WellShaped, Aged, Derives, Sources, IsRow, IsFenced, Tombstoned, Stored
<1>4. UnderWay'
  <2>1. \A d \in Destroyers : Deletes(d)'
    BY DeletionStays
  <2>2. Builds' /\ Summarizes'
    <3>1. summary # Idle => Canonical(summary.id) \in store'
      BY DEF EvIInv, UnderWay, Summarizes, Stored
    <3>2. QED BY <3>1, BuildStays, SummaryStays
  <2>3. QED BY <2>1, <2>2 DEF UnderWay
<1>5. Projects'
  BY DEF EvIInv, Projects, IsRow, Tombstoned, Corrected
<1>6. QED BY <1>1, <1>2, <1>3, <1>4, <1>5 DEF EvIInv

\* What may be cited is not gone.
LEMMA CitableIsLive ==
    ASSUME EvIInv, NEW ids \in SUBSET Records, Citable(ids)
    PROVE  \A e \in ids : LiveRecord(e) /\ ~Tombstoned(e)
BY DEF Citable, Loads, LiveRecord, EvIInv, Kept, RowFits

LEMMA CreateCandidateKeeps == ASSUME EvIInv, NEW c, NEW s, CreateCandidate(c, s) PROVE EvIInv'
<1>1. /\ UNCHANGED <<record, derivative, projection, store, clock, restarts, capture, deletion, rebuild,
                     summary>>
  BY DEF CreateCandidate
<1>2. PICK x \in derivative :
         Citable(x.cites) /\ candidate' = candidate \cup {RuleCandidate(c, x.cites)}
  BY DEF CreateCandidate
<1>3. x.cites \in SUBSET Records
  BY DEF EvIInv, EvTypes, DerivativeType
<1>4. \A e \in x.cites : ~Tombstoned(e)
  BY <1>2, <1>3, CitableIsLive
<1>5. Learns'
  BY <1>1, <1>2, <1>3, <1>4 DEF EvIInv, Learns, RuleCandidate, Tombstoned
<1>6. QED BY <1>1, <1>5, CandidatesChange

LEMMA DecideCandidateKeeps ==
    ASSUME EvIInv, NEW x \in candidate, NEW status \in {"APPROVED", "REJECTED"},
           DecideCandidate(x, status)
    PROVE  EvIInv'
<1>1. /\ UNCHANGED <<record, derivative, projection, store, clock, restarts, capture, deletion, rebuild,
                     summary>>
      /\ Citable(x.cites) /\ candidate' = (candidate \ {x}) \cup {[x EXCEPT !.status = status]}
  BY DEF DecideCandidate
<1>2. PICK ids \in SUBSET Records : ids = x.cites
  BY DEF EvIInv, Learns
<1>3. \A e \in ids : ~Tombstoned(e)
  BY <1>1, <1>2, CitableIsLive
<1>4. [x EXCEPT !.status = status].cites = ids
  BY <1>2
<1>5. Learns'
  BY <1>1, <1>3, <1>4 DEF EvIInv, Learns, Tombstoned
<1>6. QED BY <1>1, <1>5, CandidatesChange

\* The rows stay what they are, or some that was never one is given up.
LEMMA SameRecords ==
    ASSUME EvIInv, UNCHANGED <<derivative, candidate, projection, store>>,
           \A e \in Records :
              /\ record'[e].of = record[e].of /\ record'[e].request = record[e].request
              /\ record'[e].fenced = record[e].fenced /\ record'[e].gone = record[e].gone
              /\ record'[e].state = "ROW" <=> record[e].state = "ROW",
           \/ restarts' = restarts /\ rebuild' = rebuild
           \/ restarts' # 0 /\ rebuild' = NotBuilding
    PROVE  (\A e \in Records : RowFits(e)') /\ Made' /\ Learns' /\ Projects'
<1>1. ASSUME NEW e \in Records
      PROVE  /\ IsRow(e)' <=> IsRow(e)
             /\ IsFenced(e)' <=> IsFenced(e)
             /\ Tombstoned(e)' <=> Tombstoned(e)
             /\ Corrected(e)' <=> Corrected(e)
             /\ record'[e].of = record[e].of /\ record'[e].request = record[e].request
             /\ record[e].of \subseteq Records
  BY DEF IsRow, IsFenced, Tombstoned, Corrected, EvIInv, EvTypes, RecordTypes
<1>2. \A e \in Records : RowFits(e)'
  BY <1>1 DEF EvIInv, Kept, RowFits, Stored
<1>3. \A x \in derivative : Sources(x) \subseteq Records /\ x.id \in Names
  BY DEF EvIInv, EvTypes, DerivativeType, Sources
<1>4. ASSUME NEW x \in derivative
      PROVE  WellShaped(x)' /\ Aged(x.id)' /\ Derives(x)'
  <2>1. WellShaped(x) /\ Aged(x.id) /\ Derives(x)
    BY DEF EvIInv, Made
  <2>2. WellShaped(x)'
    BY <1>1, <1>3, <2>1 DEF WellShaped, Sources
  <2>3. Aged(x.id)'
    BY <2>1 DEF Aged, NotBuilding
  <2>4. Derives(x)'
    BY <1>1, <1>3, <2>1 DEF Derives, Sources, Stored
  <2>5. QED BY <2>2, <2>3, <2>4
<1>5. Made'
  <2>1. Unique'
    BY DEF EvIInv, Made, Unique
  <2>2. QED BY <1>4, <2>1 DEF Made
<1>6. Learns'
  BY <1>1 DEF EvIInv, Learns
<1>7. Projects'
  BY <1>1 DEF EvIInv, Projects
<1>8. QED BY <1>2, <1>5, <1>6, <1>7

\* A capture that is given up was no row.
LEMMA LostCapture ==
    ASSUME EvIInv, capture # Idle, record' = [record EXCEPT ![capture.id].state = "LOST"]
    PROVE  /\ record' \in [Records -> [state : {"NONE", "ROW", "LOST"}, of : SUBSET Records,
                                       request : BOOLEAN, at : Nat, fenced : Nat, gone : BOOLEAN]]
           /\ \A e \in Records :
                 /\ record'[e].of = record[e].of /\ record'[e].request = record[e].request
                 /\ record'[e].fenced = record[e].fenced /\ record'[e].gone = record[e].gone
                 /\ record'[e].state = "ROW" <=> record[e].state = "ROW"
<1>1. capture.id \in Records /\ record[capture.id].state = "NONE"
  BY DEF EvIInv, EvTypes, CaptureType, Kept, Captured
<1>2. QED BY <1>1 DEF EvIInv, EvTypes, RecordTypes

LEMMA AbortCaptureKeeps == EvIInv /\ AbortCapture => EvIInv'
<1> SUFFICES ASSUME EvIInv, AbortCapture PROVE EvIInv'
  OBVIOUS
<1>1. /\ capture # Idle /\ record' = [record EXCEPT ![capture.id].state = "LOST"] /\ capture' = Idle
      /\ UNCHANGED <<derivative, candidate, projection, store, clock, restarts, deletion, rebuild,
                     summary>>
  BY DEF AbortCapture
<1>2. /\ RecordTypes'
      /\ \A e \in Records :
            /\ record'[e].of = record[e].of /\ record'[e].request = record[e].request
            /\ record'[e].fenced = record[e].fenced /\ record'[e].gone = record[e].gone
            /\ record'[e].state = "ROW" <=> record[e].state = "ROW"
  BY <1>1, LostCapture DEF EvIInv, EvTypes, RecordTypes
<1>3. (\A e \in Records : RowFits(e)') /\ Made' /\ Learns' /\ Projects'
  BY <1>1, <1>2, SameRecords
<1>4. EvTypes'
  BY <1>1, <1>2 DEF EvIInv, EvTypes, CaptureType, RebuildType, SummaryType, DerivativeType, DeletionType
<1>5. Captured'
  BY <1>1 DEF Captured
<1>6. \A e \in Records : (IsFenced(e)' <=> IsFenced(e)) /\ (LiveRecord(e)' <=> LiveRecord(e))
  BY <1>2 DEF IsFenced, LiveRecord, IsRow
<1>7. ASSUME NEW d \in Destroyers
      PROVE  Deletes(d)'
  <2>1. deletion[d].step \in {"FINALIZE", "DESTROY"} => deletion[d].id \in Records
    BY DEF EvIInv, EvTypes, DeletionType, Idle, Finalizing, Destroying
  <2>2. Deletes(d)
    BY DEF EvIInv, UnderWay
  <2>3. QED BY <1>1, <1>6, <2>1, <2>2 DEF Deletes, Sources, Stored
<1>8. Builds'
  <2>1. rebuild.step = "OPEN" => rebuild.locked \subseteq Records
    BY DEF EvIInv, EvTypes, RebuildType, Reading, Building, Sweeping
  <2>2. QED BY <1>1, <1>6, <2>1 DEF EvIInv, UnderWay, Builds, Aged, Stored
<1>9. Summarizes'
  <2>1. summary # Idle => summary.cites \subseteq Records
    BY DEF EvIInv, EvTypes, SummaryType
  <2>2. QED BY <1>1, <1>6, <2>1 DEF EvIInv, UnderWay, Summarizes, Stored
<1>10. QED BY <1>3, <1>4, <1>5, <1>7, <1>8, <1>9 DEF EvIInv, Kept, UnderWay

LEMMA StopKeeps == EvIInv /\ Stop => EvIInv'
<1> SUFFICES ASSUME EvIInv, Stop PROVE EvIInv'
  OBVIOUS
<1>1. /\ restarts' = restarts + 1 /\ capture' = Idle /\ deletion' = [d \in DOMAIN deletion |-> Idle]
      /\ rebuild' = NotBuilding /\ summary' = Idle
      /\ UNCHANGED <<derivative, candidate, projection, store, clock>>
  BY DEF Stop
<1>2. /\ RecordTypes'
      /\ \A e \in Records :
            /\ record'[e].of = record[e].of /\ record'[e].request = record[e].request
            /\ record'[e].fenced = record[e].fenced /\ record'[e].gone = record[e].gone
            /\ record'[e].state = "ROW" <=> record[e].state = "ROW"
  <2>1. CASE capture = Idle
    BY <1>1, <2>1 DEF Stop, EvIInv, EvTypes, RecordTypes
  <2>2. CASE capture # Idle
    BY <1>1, <2>2, LostCapture DEF Stop, EvIInv, EvTypes, RecordTypes
  <2>3. QED BY <2>1, <2>2
<1>3. (\A e \in Records : RowFits(e)') /\ Made' /\ Learns' /\ Projects'
  <2>1. restarts' # 0
    BY <1>1 DEF EvIInv, EvTypes, RecordTypes
  <2>2. QED BY <1>1, <1>2, <2>1, SameRecords
<1>4. RebuildType' /\ rebuild'.step = "IDLE"
  BY <1>1 DEF EvIInv, EvTypes, RebuildType, Reading, Building, Sweeping, NotBuilding
<1>5. DeletionType' /\ \A d \in Destroyers : deletion'[d].step = "IDLE"
  BY <1>1 DEF EvIInv, EvTypes, DeletionType, Idle
<1>6. EvTypes'
  BY <1>1, <1>2, <1>4, <1>5 DEF EvIInv, EvTypes, CaptureType, SummaryType, DerivativeType
<1>7. Captured' /\ Summarizes' /\ Builds' /\ \A d \in Destroyers : Deletes(d)'
  BY <1>1, <1>4, <1>5 DEF Captured, Summarizes, Builds, Deletes
<1>8. QED BY <1>3, <1>6, <1>7 DEF EvIInv, Kept, UnderWay

\* A record that is captured, or a correction: no more was asked to be deleted.
LEMMA CommitCaptureKeeps == EvIInv /\ CommitCapture => EvIInv'
<1> SUFFICES ASSUME EvIInv, CommitCapture PROVE EvIInv'
  OBVIOUS
<1>1. /\ capture # Idle /\ capture' = Idle
      /\ UNCHANGED <<derivative, candidate, store, clock, restarts, deletion, rebuild, summary>>
  BY DEF CommitCapture
<1>2. PICK e \in Records, of \in SUBSET Records, t \in Nat :
         e = capture.id /\ of = capture.of /\ t = capture.at
  BY <1>1 DEF EvIInv, EvTypes, CaptureType
<1>3. PICK request \in BOOLEAN : request = \E f \in of : record[f].request
  OBVIOUS
<1>4. /\ record' = [record EXCEPT ![e] = [NoRecord EXCEPT !.state = "ROW", !.of = of, !.at = t,
                                                           !.request = request]]
      /\ request => projection = of
      /\ projection' = IF request THEN {e} ELSE projection
  BY <1>2, <1>3 DEF CommitCapture
<1>5. /\ RecordTypes' /\ record'[e].state = "ROW" /\ record'[e].of = of /\ record'[e].request = request
      /\ record'[e].fenced = 0 /\ record'[e].gone = FALSE
      /\ \A f \in Records \ {e} : record'[f] = record[f]
  BY <1>1, <1>4 DEF EvIInv, EvTypes, RecordTypes, NoRecord
<1>6. record[e].state = "NONE" /\ Canonical(e) \in store /\ \A f \in of : IsRow(f)
  BY <1>1, <1>2 DEF EvIInv, Kept, Captured, Stored
<1>7. ~IsFenced(e) /\ ~Tombstoned(e) /\ ~IsRow(e)
  BY <1>6 DEF EvIInv, Kept, RowFits, IsRow
<1>8. ASSUME NEW f \in Records
      PROVE  /\ IsRow(f)' <=> IsRow(f) \/ f = e
             /\ IsFenced(f)' <=> IsFenced(f)
             /\ Tombstoned(f)' <=> Tombstoned(f)
             /\ Corrected(f)' <=> Corrected(f) \/ f \in of
             /\ record[f].of \subseteq Records
  <2>1. IsRow(f)' <=> IsRow(f) \/ f = e
    BY <1>5 DEF IsRow
  <2>2. (IsFenced(f)' <=> IsFenced(f)) /\ (Tombstoned(f)' <=> Tombstoned(f))
    BY <1>5, <1>7 DEF IsFenced, Tombstoned
  <2>3. Corrected(f)' <=> Corrected(f) \/ f \in of
    BY <1>5, <1>7 DEF Corrected, IsRow
  <2>4. record[f].of \subseteq Records
    BY DEF EvIInv, EvTypes, RecordTypes
  <2>5. QED BY <2>1, <2>2, <2>3, <2>4
<1>9. ASSUME NEW f \in Records
      PROVE  RowFits(f)'
  <2>1. RowFits(f)
    BY DEF EvIInv, Kept
  <2>2. \A k \in record'[f].of : IsRow(k)'
    BY <1>5, <1>6, <1>8, <2>1 DEF RowFits
  <2>3. QED BY <1>1, <1>6, <1>7, <1>8, <2>1, <2>2 DEF RowFits, Stored
<1>10. Made'
  <2>1. ASSUME NEW x \in derivative
        PROVE  WellShaped(x)' /\ Aged(x.id)' /\ Derives(x)'
    <3>1. WellShaped(x) /\ Aged(x.id) /\ Derives(x) /\ Sources(x) \subseteq Records
      BY DEF EvIInv, Made, EvTypes, DerivativeType, Sources
    <3>2. QED BY <1>1, <1>8, <3>1 DEF WellShaped, Aged, Derives, Sources, Stored
  <2>2. Unique'
    BY <1>1 DEF EvIInv, Made, Unique
  <2>3. QED BY <1>1, <2>1, <2>2 DEF Made
<1>11. EvTypes'
  BY <1>1, <1>5 DEF EvIInv, EvTypes, CaptureType, RebuildType, SummaryType, DerivativeType, DeletionType
<1>12. Captured'
  BY <1>1 DEF Captured
<1>13. ASSUME NEW d \in Destroyers
       PROVE  Deletes(d)'
  <2>1. deletion[d].step \in {"FINALIZE", "DESTROY"} => deletion[d].id \in Records
    BY DEF EvIInv, EvTypes, DeletionType, Idle, Finalizing, Destroying
  <2>2. Deletes(d)
    BY DEF EvIInv, UnderWay
  <2>3. QED BY <1>1, <1>8, <2>1, <2>2 DEF Deletes, Sources, Stored
<1>14. Builds'
  <2>1. rebuild.step = "OPEN" => rebuild.locked \subseteq Records
    BY DEF EvIInv, EvTypes, RebuildType, Reading, Building, Sweeping
  <2>2. QED BY <1>1, <1>8, <2>1 DEF EvIInv, UnderWay, Builds, Aged, Stored, LiveRecord
<1>15. Summarizes'
  <2>1. summary # Idle => summary.cites \subseteq Records
    BY DEF EvIInv, EvTypes, SummaryType
  <2>2. QED BY <1>1, <1>8, <2>1 DEF EvIInv, UnderWay, Summarizes, Stored, LiveRecord
<1>16. Learns'
  BY <1>1, <1>8 DEF EvIInv, Learns
<1>17. Projects'
  <2>1. CASE request
    <3>1. ~Corrected(e)
      BY <1>7 DEF EvIInv, Kept, RowFits, Corrected
    <3>2. e \notin of
      BY <1>6, <1>7
    <3>3. QED BY <1>4, <1>5, <1>7, <1>8, <2>1, <3>1, <3>2 DEF Projects
  <2>2. CASE ~request
    <3>1. \A f \in projection :
             f \in Records /\ IsRow(f) /\ ~Tombstoned(f) /\ ~Corrected(f) /\ record[f].request
      BY DEF EvIInv, Projects
    <3>2. \A f \in projection : f \notin of /\ f # e
      BY <1>3, <1>7, <2>2, <3>1
    <3>3. QED BY <1>4, <1>5, <1>8, <2>2, <3>1, <3>2 DEF Projects
  <2>3. QED BY <2>1, <2>2
<1>18. QED
  BY <1>9, <1>10, <1>11, <1>12, <1>13, <1>14, <1>15, <1>16, <1>17 DEF EvIInv, Kept, UnderWay

LEMMA RequestDeletionKeeps ==
    ASSUME EvIInv, NEW d \in Destroyers, NEW e \in Records, RequestDeletion(d, e) PROVE EvIInv'
<1>1. /\ deletion[d] = Idle /\ IsRow(e) /\ e \notin Held
      /\ deletion' = [deletion EXCEPT ![d] = [step |-> "FINALIZE", id |-> e]]
      /\ UNCHANGED <<derivative, candidate, projection, store, restarts, capture, rebuild, summary>>
  BY DEF RequestDeletion
<1>2. PICK t \in Nat : t = clock + 1 /\ t > 0
  BY DEF EvIInv, EvTypes, RecordTypes
<1>3. \/ IsFenced(e) /\ UNCHANGED <<record, clock>>
      \/ clock' = t /\ record' = [record EXCEPT ![e].fenced = t]
  BY <1>2 DEF RequestDeletion, Tick
<1>4. /\ RecordTypes'
      /\ \A f \in Records :
            /\ record'[f].state = record[f].state /\ record'[f].of = record[f].of
            /\ record'[f].request = record[f].request /\ record'[f].gone = record[f].gone
            /\ f # e => record'[f].fenced = record[f].fenced
      /\ IsFenced(e)'
  BY <1>1, <1>2, <1>3 DEF EvIInv, EvTypes, RecordTypes, IsFenced
<1>5. ASSUME NEW f \in Records
      PROVE  /\ IsRow(f)' <=> IsRow(f)
             /\ IsFenced(f)' <=> IsFenced(f) \/ f = e
             /\ Tombstoned(f)' <=> Tombstoned(f)
             /\ Corrected(f)' <=> Corrected(f)
             /\ record[f].of \subseteq Records
  <2>1. (IsRow(f)' <=> IsRow(f)) /\ (Tombstoned(f)' <=> Tombstoned(f)) /\ (Corrected(f)' <=> Corrected(f))
    BY <1>4 DEF IsRow, Tombstoned, Corrected
  <2>2. IsFenced(f)' <=> IsFenced(f) \/ f = e
    BY <1>4 DEF IsFenced
  <2>3. record[f].of \subseteq Records
    BY DEF EvIInv, EvTypes, RecordTypes
  <2>4. QED BY <2>1, <2>2, <2>3
<1>6. \A f \in Records : RowFits(f)'
  BY <1>1, <1>4, <1>5 DEF EvIInv, Kept, RowFits, Stored
<1>7. Made'
  <2>1. ASSUME NEW x \in derivative
        PROVE  WellShaped(x)' /\ Aged(x.id)' /\ Derives(x)'
    <3>1. WellShaped(x) /\ Aged(x.id) /\ Derives(x) /\ Sources(x) \subseteq Records
      BY DEF EvIInv, Made, EvTypes, DerivativeType, Sources
    <3>2. QED BY <1>1, <1>5, <3>1 DEF WellShaped, Aged, Derives, Sources, Stored
  <2>2. Unique'
    BY <1>1 DEF EvIInv, Made, Unique
  <2>3. QED BY <1>1, <2>1, <2>2 DEF Made
<1>8. /\ DeletionType' /\ deletion'[d] = [step |-> "FINALIZE", id |-> e]
      /\ \A c \in Destroyers \ {d} : deletion'[c] = deletion[c]
  BY <1>1 DEF EvIInv, EvTypes, DeletionType, Finalizing
<1>9. EvTypes'
  BY <1>1, <1>4, <1>8 DEF EvIInv, EvTypes, CaptureType, RebuildType, SummaryType, DerivativeType
<1>10. Captured'
  <2>1. capture # Idle => capture.id \in Records /\ capture.of \subseteq Records
    BY DEF EvIInv, EvTypes, CaptureType
  <2>2. QED BY <1>1, <1>4, <1>5, <2>1 DEF EvIInv, Kept, Captured, Stored
<1>11. ASSUME NEW c \in Destroyers
       PROVE  Deletes(c)'
  <2>1. CASE c = d
    BY <1>4, <1>8, <2>1 DEF Deletes
  <2>2. CASE c # d
    <3>1. deletion[c].step \in {"FINALIZE", "DESTROY"} => deletion[c].id \in Records
      BY DEF EvIInv, EvTypes, DeletionType, Idle, Finalizing, Destroying
    <3>2. Deletes(c) /\ deletion'[c] = deletion[c]
      BY <1>8, <2>2 DEF EvIInv, UnderWay
    <3>3. QED BY <1>1, <1>5, <3>1, <3>2 DEF Deletes, Sources, Stored
  <2>3. QED BY <2>1, <2>2
<1>12. Builds'
  <2>1. rebuild.step = "OPEN" => rebuild.locked \subseteq Records /\ e \notin rebuild.locked
    BY <1>1 DEF EvIInv, EvTypes, RebuildType, Reading, Building, Sweeping, Held
  <2>2. QED BY <1>1, <1>5, <2>1 DEF EvIInv, UnderWay, Builds, Aged, Stored, LiveRecord
<1>13. Summarizes'
  <2>1. summary # Idle => summary.cites \subseteq Records /\ e \notin summary.cites
    BY <1>1 DEF EvIInv, EvTypes, SummaryType, Held
  <2>2. QED BY <1>1, <1>5, <2>1 DEF EvIInv, UnderWay, Summarizes, Stored, LiveRecord
<1>14. Learns'
  BY <1>1, <1>5 DEF EvIInv, Learns
<1>15. Projects'
  BY <1>1, <1>4, <1>5 DEF EvIInv, Projects
<1>16. QED BY <1>6, <1>7, <1>9, <1>10, <1>11, <1>12, <1>13, <1>14, <1>15 DEF EvIInv, Kept, UnderWay

LEMMA CommitSummaryKeeps == EvIInv /\ CommitSummary => EvIInv'
<1> SUFFICES ASSUME EvIInv, CommitSummary PROVE EvIInv'
  OBVIOUS
<1>1. /\ summary # Idle /\ summary' = Idle
      /\ derivative' = derivative \cup {Summary(summary.id, summary.source, summary.cites)}
      /\ UNCHANGED <<record, candidate, projection, store, clock, restarts, capture, deletion, rebuild>>
  BY DEF CommitSummary
<1>2. PICK s \in Summaries, e \in Records, cites \in SUBSET Records :
         s = summary.id /\ e = summary.source /\ cites = summary.cites
  BY <1>1 DEF EvIInv, EvTypes, SummaryType
<1>3. /\ e \in cites /\ Canonical(s) \in store /\ \A x \in derivative : x.id # Canonical(s)
      /\ \A f \in cites : LiveRecord(f) /\ IsRow(f) /\ ~IsFenced(f) /\ ~Tombstoned(f)
  BY <1>1, <1>2 DEF EvIInv, UnderWay, Summarizes, Stored, LiveRecord, Kept, RowFits
<1>4. PICK new : new = Summary(s, e, cites)
  OBVIOUS
<1>5. /\ new.id = Canonical(s) /\ new.kind = "SUMMARY" /\ new.source = e /\ new.cites = cites
      /\ new.state = "LIVE" /\ derivative' = derivative \cup {new}
      /\ new \in [id : Names, kind : {"CHUNK", "SUMMARY"}, source : Records,
                  cites : SUBSET Records, state : {"LIVE", "RETIRED", "DESTROYED"}]
  BY <1>1, <1>2, <1>4 DEF Summary, Names, Canonical
<1>6. EvTypes'
  BY <1>1, <1>5 DEF EvIInv, EvTypes, RecordTypes, CaptureType, RebuildType, SummaryType, DerivativeType,
                    DeletionType
<1>7. (\A f \in Records : RowFits(f)') /\ Captured'
  <2>1. \A f \in Records : RowFits(f)'
    BY <1>1 DEF EvIInv, Kept, RowFits, IsRow, IsFenced, Tombstoned, Stored
  <2>2. Captured'
    BY <1>1 DEF EvIInv, Kept, Captured, IsRow, Stored
  <2>3. QED BY <2>1, <2>2
<1>8. Made'
  <2>1. ASSUME NEW x \in derivative
        PROVE  WellShaped(x)' /\ Aged(x.id)' /\ Derives(x)'
    <3>1. WellShaped(x) /\ Aged(x.id) /\ Derives(x)
      BY DEF EvIInv, Made
    <3>2. QED BY <1>1, <3>1 DEF WellShaped, Aged, Derives, Sources, IsRow, IsFenced, Tombstoned, Stored
  <2>2. rebuild.gen \in Nat /\ (rebuild.step = "OPEN" => rebuild.gen > 0)
    BY DEF EvIInv, EvTypes, RebuildType, Reading, Building, Sweeping, UnderWay, Builds
  <2>3. WellShaped(new)'
    BY <1>1, <1>2, <1>3, <1>5 DEF WellShaped, Sources, IsSummary, IsRow
  <2>4. Aged(new.id)'
    BY <1>1, <1>5, <2>2 DEF Aged, Canonical
  <2>5. Derives(new)'
    BY <1>1, <1>3, <1>5 DEF Derives, Sources, Tombstoned, Stored
  <2>6. Unique'
    BY <1>3, <1>5 DEF EvIInv, Made, Unique
  <2>7. QED BY <1>5, <2>1, <2>3, <2>4, <2>5, <2>6 DEF Made
<1>9. ASSUME NEW d \in Destroyers
      PROVE  Deletes(d)'
  <2>1. Deletes(d)
    BY DEF EvIInv, UnderWay
  <2>2. deletion[d].step = "DESTROY" =>
           new.id \notin deletion[d].rows /\ deletion[d].id \notin Sources(new)
    BY <1>3, <1>5, <2>1 DEF Deletes, Sources
  <2>3. QED BY <1>1, <1>5, <2>1, <2>2 DEF Deletes, Sources, IsFenced, Stored
<1>10. Builds'
  <2>1. rebuild.step = "SWEEP" => Canonical(s) \notin rebuild.left
    BY DEF EvIInv, UnderWay, Builds, IsChunk, Canonical
  <2>2. QED BY <1>1, <1>5, <2>1 DEF EvIInv, UnderWay, Builds, LiveRecord, IsRow, IsFenced, Aged, Stored
<1>11. Summarizes'
  BY <1>1 DEF Summarizes
<1>12. Learns' /\ Projects'
  BY <1>1 DEF EvIInv, Learns, Projects, IsRow, Tombstoned, Corrected
<1>13. QED BY <1>6, <1>7, <1>8, <1>9, <1>10, <1>11, <1>12 DEF EvIInv, Kept, UnderWay

-----------------------------------------------------------------------------
(* Steps that mark derivatives *)

DerivativeRows ==
    [id : Names, kind : {"CHUNK", "SUMMARY"}, source : Records, cites : SUBSET Records,
     state : {"LIVE", "RETIRED", "DESTROYED"}]

Marked(ids, mark) ==
    {IF x.id \in ids THEN [x EXCEPT !.state = mark] ELSE x : x \in derivative}

\* What a marked row keeps, and the row it was.
LEMMA Marking ==
    ASSUME EvIInv, NEW ids, NEW mark \in {"RETIRED", "DESTROYED"}
    PROVE  /\ \A y \in Marked(ids, mark) :
                 y \in DerivativeRows /\
                 \E x \in derivative :
                    /\ y.id = x.id /\ y.kind = x.kind /\ y.source = x.source /\ y.cites = x.cites
                    /\ x.id \in ids => y.state = mark
                    /\ x.id \notin ids => y = x
           /\ \A x \in derivative : \E y \in Marked(ids, mark) : y.id = x.id
           /\ \A y, z \in Marked(ids, mark) : y.id = z.id => y = z
<1> DEFINE F(x) == IF x.id \in ids THEN [x EXCEPT !.state = mark] ELSE x
<1>1. Marked(ids, mark) = {F(x) : x \in derivative}
  BY DEF Marked
<1>2. ASSUME NEW x \in derivative
      PROVE  /\ F(x) \in DerivativeRows
             /\ F(x).id = x.id /\ F(x).kind = x.kind /\ F(x).source = x.source /\ F(x).cites = x.cites
             /\ x.id \in ids => F(x).state = mark
             /\ x.id \notin ids => F(x) = x
  <2>1. x \in DerivativeRows
    BY DEF EvIInv, EvTypes, DerivativeType, DerivativeRows
  <2>2. QED BY <2>1 DEF DerivativeRows
<1> HIDE DEF F
<1>3. ASSUME NEW y \in Marked(ids, mark)
      PROVE  \E x \in derivative : y = F(x)
  BY <1>1
<1>4. \A x \in derivative : F(x) \in Marked(ids, mark)
  BY <1>1
<1>5. ASSUME NEW y \in Marked(ids, mark), NEW z \in Marked(ids, mark), y.id = z.id
      PROVE  y = z
  <2>1. PICK x \in derivative : y = F(x)
    BY <1>3
  <2>2. PICK w \in derivative : z = F(w)
    BY <1>3
  <2>3. x = w
    BY <1>2, <1>5, <2>1, <2>2 DEF EvIInv, Made, Unique
  <2>4. QED BY <2>1, <2>2, <2>3
<1>6. QED BY <1>2, <1>3, <1>4, <1>5

\* The tombstone: what it covers has no bytes any more.
LEMMA CommitDeletionKeeps == ASSUME EvIInv, NEW d \in Destroyers, CommitDeletion(d) PROVE EvIInv'
<1>1. /\ deletion[d].step = "DESTROY" /\ deletion[d].left = {}
      /\ deletion' = [deletion EXCEPT ![d] = Idle]
      /\ UNCHANGED <<store, clock, restarts, capture, rebuild, summary>>
  BY DEF CommitDeletion
<1>2. PICK e \in Records, ids \in SUBSET Names : e = deletion[d].id /\ ids = deletion[d].rows
  BY <1>1 DEF EvIInv, EvTypes, DeletionType, Idle, Finalizing, Destroying
<1>3. /\ IsFenced(e) /\ IsRow(e) /\ Canonical(e) \notin store
      /\ \A a \in ids : a \notin store
      /\ \A x \in derivative : x.state = "LIVE" /\ e \in Sources(x) => x.id \in ids
  BY <1>1, <1>2 DEF EvIInv, UnderWay, Deletes, Stored, Kept, RowFits
<1>4. /\ record' = [record EXCEPT ![e].gone = TRUE]
      /\ derivative' = Marked(ids, "DESTROYED")
      /\ candidate' = {c \in candidate : e \in c.cites => c.status = "APPROVED"}
      /\ projection' = projection \ {e}
  BY <1>2 DEF CommitDeletion, Marked
<1>5. /\ RecordTypes'
      /\ \A f \in Records :
            /\ record'[f].state = record[f].state /\ record'[f].of = record[f].of
            /\ record'[f].request = record[f].request /\ record'[f].fenced = record[f].fenced
            /\ f # e => record'[f].gone = record[f].gone
      /\ record'[e].gone = TRUE
  <2>1. record \in [Records -> [state : {"NONE", "ROW", "LOST"}, of : SUBSET Records,
                               request : BOOLEAN, at : Nat, fenced : Nat, gone : BOOLEAN]]
    BY DEF EvIInv, EvTypes, RecordTypes
  <2> DEFINE r == [record[e] EXCEPT !.gone = TRUE]
  <2>2. /\ r \in [state : {"NONE", "ROW", "LOST"}, of : SUBSET Records, request : BOOLEAN,
                  at : Nat, fenced : Nat, gone : BOOLEAN]
        /\ r.state = record[e].state /\ r.of = record[e].of /\ r.request = record[e].request
        /\ r.fenced = record[e].fenced /\ r.gone = TRUE
    <3>1. record[e] \in [state : {"NONE", "ROW", "LOST"}, of : SUBSET Records, request : BOOLEAN,
                         at : Nat, fenced : Nat, gone : BOOLEAN]
      BY <2>1
    <3>2. r \in [state : {"NONE", "ROW", "LOST"}, of : SUBSET Records, request : BOOLEAN,
                 at : Nat, fenced : Nat, gone : BOOLEAN]
      BY <3>1
    <3>3. /\ r.state = record[e].state /\ r.of = record[e].of /\ r.fenced = record[e].fenced
          /\ r.gone = TRUE
      BY <3>1
    <3>4. r.request = record[e].request
      BY <3>1
    <3>5. QED BY <3>2, <3>3, <3>4
  <2>3. record' = [record EXCEPT ![e] = r]
    BY <1>4, <2>1
  <2> HIDE DEF r
  <2>4. /\ record' \in [Records -> [state : {"NONE", "ROW", "LOST"}, of : SUBSET Records,
                                    request : BOOLEAN, at : Nat, fenced : Nat, gone : BOOLEAN]]
        /\ record'[e] = r /\ \A f \in Records \ {e} : record'[f] = record[f]
    BY <2>1, <2>2, <2>3
  <2>5. RecordTypes'
    BY <1>1, <2>4 DEF EvIInv, EvTypes, RecordTypes
  <2>6. QED BY <2>2, <2>4, <2>5
<1>6. ASSUME NEW f \in Records
      PROVE  /\ IsRow(f)' <=> IsRow(f)
             /\ IsFenced(f)' <=> IsFenced(f)
             /\ Tombstoned(f)' <=> Tombstoned(f) \/ f = e
             /\ Corrected(f)' <=> Corrected(f)
             /\ record[f].of \subseteq Records
  <2>1. (IsRow(f)' <=> IsRow(f)) /\ (IsFenced(f)' <=> IsFenced(f)) /\ (Corrected(f)' <=> Corrected(f))
    BY <1>5 DEF IsRow, IsFenced, Corrected
  <2>2. Tombstoned(f)' <=> Tombstoned(f) \/ f = e
    BY <1>5 DEF Tombstoned
  <2>3. record[f].of \subseteq Records
    BY DEF EvIInv, EvTypes, RecordTypes
  <2>4. QED BY <2>1, <2>2, <2>3
<1>7. /\ \A y \in derivative' :
            y \in DerivativeRows /\
            \E x \in derivative :
               /\ y.id = x.id /\ y.kind = x.kind /\ y.source = x.source /\ y.cites = x.cites
               /\ x.id \in ids => y.state = "DESTROYED"
               /\ x.id \notin ids => y = x
      /\ \A x \in derivative : \E y \in derivative' : y.id = x.id
      /\ \A y, z \in derivative' : y.id = z.id => y = z
  BY <1>4, Marking
<1>8. ASSUME NEW f \in Records
      PROVE  RowFits(f)'
  <2>1. RowFits(f)
    BY DEF EvIInv, Kept
  <2>2. \A k \in record[f].of : IsRow(k)'
    BY <1>6, <2>1 DEF RowFits
  <2>3. QED BY <1>1, <1>3, <1>5, <1>6, <2>1, <2>2 DEF RowFits, Stored
<1>9. Made'
  <2>1. ASSUME NEW y \in derivative'
        PROVE  WellShaped(y)' /\ Aged(y.id)' /\ Derives(y)'
    <3>1. PICK x \in derivative :
             /\ y.id = x.id /\ y.kind = x.kind /\ y.source = x.source /\ y.cites = x.cites
             /\ x.id \in ids => y.state = "DESTROYED"
             /\ x.id \notin ids => y = x
      BY <1>7
    <3>2. WellShaped(x) /\ Aged(x.id) /\ Derives(x) /\ Sources(x) \subseteq Records
      BY DEF EvIInv, Made, EvTypes, DerivativeType, Sources
    <3>3. Sources(y) = Sources(x)
      BY <3>1 DEF Sources
    <3>4. WellShaped(y)' /\ Aged(y.id)'
      BY <1>1, <1>6, <3>1, <3>2, <3>3 DEF WellShaped, Aged, Sources
    <3>5. CASE x.id \in ids
      <4>1. y.state = "DESTROYED" /\ y.id \notin store'
        BY <1>1, <1>3, <3>1, <3>5
      <4>2. Derives(y)'
        BY <4>1 DEF Derives, Stored
      <4>3. QED BY <3>4, <4>2
    <3>6. CASE x.id \notin ids
      <4>1. y = x /\ (x.state = "LIVE" => e \notin Sources(x))
        BY <1>3, <3>1, <3>6
      <4>2. \A f \in Sources(x) :
               /\ IsFenced(f)' <=> IsFenced(f)
               /\ x.state = "LIVE" => ~Tombstoned(f)'
        BY <1>6, <3>2, <4>1 DEF Derives
      <4>3. Derives(x)'
        BY <1>1, <3>2, <4>2 DEF Derives, Sources, Stored
      <4>4. QED BY <3>4, <4>1, <4>3
    <3>7. QED BY <3>4, <3>5, <3>6
  <2>2. Unique'
    BY <1>7 DEF Unique
  <2>3. QED BY <2>1, <2>2 DEF Made
<1>10. /\ DeletionType' /\ deletion'[d].step = "IDLE" /\ \A c \in Destroyers \ {d} : deletion'[c] = deletion[c]
  BY <1>1 DEF EvIInv, EvTypes, DeletionType, Idle
<1>11. EvTypes'
  <2>1. DerivativeType'
    BY <1>7 DEF DerivativeType, DerivativeRows
  <2>2. QED BY <1>1, <1>5, <1>10, <2>1 DEF EvIInv, EvTypes, CaptureType, RebuildType, SummaryType
<1>12. Captured'
  <2>1. capture # Idle => capture.id \in Records /\ capture.of \subseteq Records
    BY DEF EvIInv, EvTypes, CaptureType
  <2>2. QED BY <1>1, <1>5, <1>6, <2>1 DEF EvIInv, Kept, Captured, Stored
<1>13. ASSUME NEW c \in Destroyers
       PROVE  Deletes(c)'
  <2>1. CASE c = d
    BY <1>10, <2>1 DEF Deletes
  <2>2. CASE c # d
    <3>1. deletion[c].step \in {"FINALIZE", "DESTROY"} => deletion[c].id \in Records
      BY DEF EvIInv, EvTypes, DeletionType, Idle, Finalizing, Destroying
    <3>2. Deletes(c) /\ deletion'[c] = deletion[c]
      BY <1>10, <2>2 DEF EvIInv, UnderWay
    <3>3. CASE deletion[c].step = "DESTROY"
      <4>1. PICK f \in Records : f = deletion[c].id
        BY <3>1, <3>3
      <4>2. \A a \in deletion[c].rows : \E y \in derivative' : y.id = a
        BY <1>7, <3>2, <3>3 DEF Deletes
      <4>3. ASSUME NEW y \in derivative'
            PROVE  /\ y.id \in deletion[c].rows => f \in Sources(y)
                   /\ y.state = "LIVE" /\ f \in Sources(y) => y.id \in deletion[c].rows
        <5>1. PICK x \in derivative :
                 /\ y.id = x.id /\ y.source = x.source /\ y.cites = x.cites
                 /\ x.id \in ids => y.state = "DESTROYED"
                 /\ x.id \notin ids => y = x
          BY <1>7
        <5>2. QED BY <3>2, <3>3, <4>1, <5>1 DEF Deletes, Sources
      <4>4. QED BY <1>1, <1>6, <3>2, <3>3, <4>1, <4>2, <4>3 DEF Deletes, Sources, Stored
    <3>4. CASE deletion[c].step # "DESTROY"
      BY <1>6, <3>1, <3>2, <3>4 DEF Deletes
    <3>5. QED BY <3>3, <3>4
  <2>3. QED BY <2>1, <2>2
<1>14. Builds'
  <2>1. rebuild.step = "OPEN" => rebuild.locked \subseteq Records
    BY DEF EvIInv, EvTypes, RebuildType, Reading, Building, Sweeping
  <2>2. rebuild.step = "SWEEP" => \A y \in derivative' : y.id \in rebuild.left => y.state # "LIVE"
    BY <1>7 DEF EvIInv, UnderWay, Builds
  <2>3. QED BY <1>1, <1>6, <2>1, <2>2 DEF EvIInv, UnderWay, Builds, Aged, Stored, LiveRecord
<1>15. Summarizes'
  <2>1. summary # Idle => summary.cites \subseteq Records
    BY DEF EvIInv, EvTypes, SummaryType
  <2>2. summary # Idle => \A y \in derivative' : y.id # Canonical(summary.id)
    BY <1>7 DEF EvIInv, UnderWay, Summarizes
  <2>3. QED BY <1>1, <1>6, <2>1, <2>2 DEF EvIInv, UnderWay, Summarizes, Stored, LiveRecord
<1>16. Learns'
  <2>1. \A c \in candidate' : c \in candidate /\ (e \in c.cites => c.status = "APPROVED")
    BY <1>4
  <2>2. QED BY <1>6, <2>1 DEF EvIInv, Learns
<1>17. Projects'
  BY <1>4, <1>5, <1>6 DEF EvIInv, Projects
<1>18. QED
  BY <1>8, <1>9, <1>11, <1>12, <1>13, <1>14, <1>15, <1>16, <1>17 DEF EvIInv, Kept, UnderWay

\* A generation is retired, with or without another in its place; its bytes are swept later.
LEMMA RetireKeeps ==
    ASSUME EvIInv, NEW ids \in SUBSET Names, NEW L \in SUBSET Records, NEW g \in Nat,
           g = rebuild.gen, rebuild.step \in {"IDLE", "OPEN"},
           \A a \in ids : Aged(a) /\ \E e \in Records : IsChunk(a, e),
           \A e \in L : rebuild.step = "OPEN" /\ LiveRecord(e) /\ Stored(<<e, g>>),
           derivative' = Marked(ids, "RETIRED") \cup {Chunk(e, g) : e \in L},
           rebuild' = [step |-> "SWEEP", gen |-> g, left |-> ids],
           UNCHANGED <<record, candidate, projection, store, clock, restarts, capture, deletion, summary>>
    PROVE  EvIInv'
<1>1. /\ \A y \in Marked(ids, "RETIRED") :
            y \in DerivativeRows /\
            \E x \in derivative :
               /\ y.id = x.id /\ y.kind = x.kind /\ y.source = x.source /\ y.cites = x.cites
               /\ x.id \in ids => y.state = "RETIRED"
               /\ x.id \notin ids => y = x
      /\ \A x \in derivative : \E y \in Marked(ids, "RETIRED") : y.id = x.id
      /\ \A y, z \in Marked(ids, "RETIRED") : y.id = z.id => y = z
  BY Marking
<1> DEFINE New == {Chunk(e, g) : e \in L}
<1>2. \A y \in New : \E e \in L : y = Chunk(e, g)
  OBVIOUS
<1>3. L # {} => g > 0 /\ rebuild.step = "OPEN"
  BY DEF EvIInv, UnderWay, Builds
<1>4. ASSUME NEW e \in L
      PROVE  /\ Chunk(e, g) \in DerivativeRows
             /\ Chunk(e, g).id = <<e, g>> /\ Chunk(e, g).kind = "CHUNK" /\ Chunk(e, g).source = e
             /\ Chunk(e, g).cites = {} /\ Chunk(e, g).state = "LIVE"
  BY DEF Chunk, DerivativeRows, Names
<1>5. derivative' = Marked(ids, "RETIRED") \cup New
  OBVIOUS
<1> HIDE DEF New
<1>6. ASSUME NEW x \in derivative
      PROVE  /\ x.id \in Names /\ x.id[2] \in Nat /\ x.id[2] <= g
             /\ rebuild.step = "OPEN" => x.id[2] < g
  BY DEF EvIInv, Made, Aged, EvTypes, DerivativeType, Names
<1>7. ASSUME NEW a \in ids
      PROVE  a[2] \in Nat /\ a[2] <= g /\ (rebuild.step = "OPEN" => a[2] < g)
  BY DEF Names, Aged
<1>8. RebuildType' /\ rebuild'.step = "SWEEP" /\ rebuild'.gen = g /\ rebuild'.left = ids
  BY DEF RebuildType, Sweeping
<1>9. EvTypes'
  <2>1. DerivativeType'
    BY <1>1, <1>2, <1>4, <1>5 DEF DerivativeType, DerivativeRows
  <2>2. QED BY <1>8, <2>1 DEF EvIInv, EvTypes, RecordTypes, CaptureType, DeletionType, SummaryType
<1>10. Kept'
  BY DEF EvIInv, Kept, RowFits, Captured, IsRow, IsFenced, Tombstoned, Stored
<1>11. ASSUME NEW e \in L
       PROVE  e \in Records /\ IsRow(e) /\ ~IsFenced(e) /\ ~Tombstoned(e) /\ <<e, g>> \in store
  BY DEF EvIInv, Kept, RowFits, LiveRecord, Stored
<1>12. ASSUME NEW y \in Marked(ids, "RETIRED")
       PROVE  WellShaped(y)' /\ Aged(y.id)' /\ Derives(y)'
  <2>1. PICK x \in derivative :
           /\ y.id = x.id /\ y.kind = x.kind /\ y.source = x.source /\ y.cites = x.cites
           /\ x.id \in ids => y.state = "RETIRED"
           /\ x.id \notin ids => y = x
    BY <1>1
  <2>2. WellShaped(x) /\ Derives(x)
    BY DEF EvIInv, Made
  <2>3. WellShaped(y)'
    BY <2>1, <2>2 DEF WellShaped, Sources, IsRow
  <2>4. Aged(y.id)'
    BY <1>6, <1>8, <2>1 DEF Aged
  <2>5. CASE x.id \in ids
    BY <1>8, <2>1, <2>3, <2>4, <2>5 DEF Derives
  <2>6. CASE x.id \notin ids
    <3>1. y = x /\ rebuild.step # "SWEEP"
      BY <2>1, <2>6
    <3>2. Derives(x)'
      BY <2>2, <3>1 DEF Derives, Sources, IsFenced, Tombstoned, Stored
    <3>3. QED BY <2>3, <2>4, <3>1, <3>2
  <2>7. QED BY <2>5, <2>6
<1>13. ASSUME NEW y \in New
       PROVE  WellShaped(y)' /\ Aged(y.id)' /\ Derives(y)'
  <2>1. PICK e \in L : y = Chunk(e, g)
    BY <1>2
  <2>2. /\ y.id = <<e, g>> /\ y.kind = "CHUNK" /\ y.source = e /\ y.cites = {} /\ y.state = "LIVE"
    BY <1>4, <2>1
  <2>3. Sources(y) = {e}
    BY <2>2 DEF Sources
  <2>4. WellShaped(y)'
    <3>1. IsChunk(y.id, y.source)
      BY <1>3, <2>2 DEF IsChunk
    <3>2. \A f \in Sources(y) : IsRow(f)'
      BY <1>11, <2>3 DEF IsRow
    <3>3. y.kind = "CHUNK" /\ y.cites = {}
      BY <2>2
    <3>4. (\A f \in Sources(y) : IsRow(f))' /\ IsChunk(y.id, y.source)'
      BY <3>1, <3>2 DEF Sources, IsChunk
    <3>5. QED BY <3>3, <3>4 DEF WellShaped
  <2>5. Aged(y.id)'
    BY <1>8, <2>2 DEF Aged
  <2>6. Derives(y)'
    BY <1>11, <2>2, <2>3 DEF Derives, Sources, IsFenced, Tombstoned, Stored
  <2>7. QED BY <2>4, <2>5, <2>6
<1>14. \A y \in Marked(ids, "RETIRED"), z \in New : y.id # z.id
  BY <1>1, <1>2, <1>3, <1>4, <1>6
<1>15. Made'
  <2>1. \A y, z \in New : y.id = z.id => y = z
    BY <1>2, <1>4
  <2>2. Unique'
    BY <1>1, <1>5, <1>14, <2>1 DEF Unique
  <2>3. QED BY <1>5, <1>12, <1>13, <2>2 DEF Made
<1>16. ASSUME NEW c \in Destroyers
       PROVE  Deletes(c)'
  <2>1. Deletes(c)
    BY DEF EvIInv, UnderWay
  <2>2. CASE deletion[c].step = "DESTROY"
    <3>1. PICK f \in Records, del \in SUBSET Names : f = deletion[c].id /\ del = deletion[c].rows
      BY <2>2 DEF EvIInv, EvTypes, DeletionType, Idle, Finalizing, Destroying
    <3>2. IsFenced(f)
      BY <2>1, <2>2, <3>1 DEF Deletes
    <3>3. \A a \in del : \E y \in derivative' : y.id = a
      BY <1>1, <1>5, <2>1, <2>2, <3>1 DEF Deletes
    <3>4. ASSUME NEW y \in Marked(ids, "RETIRED")
          PROVE  /\ y.id \in del => f \in Sources(y)
                 /\ y.state = "LIVE" /\ f \in Sources(y) => y.id \in del
      <4>1. PICK x \in derivative :
               /\ y.id = x.id /\ y.source = x.source /\ y.cites = x.cites
               /\ x.id \in ids => y.state = "RETIRED"
               /\ x.id \notin ids => y = x
        BY <1>1
      <4>2. QED BY <2>1, <2>2, <3>1, <4>1 DEF Deletes, Sources
    <3>5. ASSUME NEW y \in New
          PROVE  y.id \notin del /\ f \notin Sources(y)
      <4>1. PICK e \in L : y = Chunk(e, g)
        BY <1>2
      <4>2. y.id = <<e, g>> /\ y.source = e /\ y.cites = {}
        BY <1>4, <4>1
      <4>3. \A a \in del : \E x \in derivative : x.id = a
        BY <2>1, <2>2, <3>1 DEF Deletes
      <4>4. y.id \notin del
        BY <1>3, <1>6, <4>2, <4>3
      <4>5. QED BY <1>11, <3>2, <4>2, <4>4 DEF Sources
    <3>6. /\ \A y \in derivative' : y.id \in del => f \in Sources(y)
          /\ \A y \in derivative' : y.state = "LIVE" /\ f \in Sources(y) => y.id \in del
      BY <1>5, <3>4, <3>5
    <3>7. QED BY <2>1, <2>2, <3>1, <3>3, <3>6 DEF Deletes, Sources, Stored, IsFenced
  <2>3. CASE deletion[c].step # "DESTROY"
    BY <2>1, <2>3 DEF Deletes, IsFenced
  <2>4. QED BY <2>2, <2>3
<1>17. Builds'
  <2>1. ASSUME NEW y \in derivative', y.id \in ids
        PROVE  y.state # "LIVE"
    <3>1. y \notin New
      BY <1>2, <1>3, <1>4, <1>7, <2>1
    <3>2. y \in Marked(ids, "RETIRED")
      BY <1>5, <3>1
    <3>3. QED BY <1>1, <2>1, <3>2
  <2>2. \A a \in ids : \E e \in Records : IsChunk(a, e)
    OBVIOUS
  <2>3. QED BY <1>8, <2>1, <2>2 DEF Builds, IsChunk
<1>18. Summarizes'
  <2>1. ASSUME summary # Idle, NEW y \in derivative' PROVE y.id # Canonical(summary.id)
    <3>1. CASE y \in New
      BY <1>2, <1>3, <1>4, <3>1 DEF Canonical
    <3>2. CASE y \in Marked(ids, "RETIRED")
      BY <1>1, <2>1, <3>2 DEF EvIInv, UnderWay, Summarizes
    <3>3. QED BY <1>5, <3>1, <3>2
  <2>2. QED BY <2>1 DEF EvIInv, UnderWay, Summarizes, LiveRecord, IsRow, IsFenced, Stored
<1>19. Learns' /\ Projects'
  BY DEF EvIInv, Learns, Projects, IsRow, Tombstoned, Corrected
<1>20. QED BY <1>9, <1>10, <1>15, <1>16, <1>17, <1>18, <1>19 DEF EvIInv, UnderWay

LEMMA CommitRebuildKeeps == EvIInv /\ CommitRebuild => EvIInv'
<1> SUFFICES ASSUME EvIInv, CommitRebuild PROVE EvIInv'
  OBVIOUS
<1>1. rebuild.step = "OPEN" /\ rebuild \in Building
  BY DEF CommitRebuild, EvIInv, EvTypes, RebuildType, Reading, Building, Sweeping
<1>2. PICK ids \in SUBSET Names, L \in SUBSET Records, g \in Nat :
         ids = rebuild.retired /\ L = rebuild.locked /\ g = rebuild.gen
  BY <1>1 DEF Building
<1>3. /\ \A a \in ids : Aged(a) /\ \E e \in Records : IsChunk(a, e)
      /\ \A e \in L : LiveRecord(e) /\ Stored(<<e, g>>)
  BY <1>1, <1>2 DEF EvIInv, UnderWay, Builds
<1>4. /\ derivative' = Marked(ids, "RETIRED") \cup {Chunk(e, g) : e \in L}
      /\ rebuild' = [step |-> "SWEEP", gen |-> g, left |-> ids]
      /\ UNCHANGED <<record, candidate, projection, store, clock, restarts, capture, deletion, summary>>
  BY <1>2 DEF CommitRebuild, RetireIndex, Marked
<1>5. QED BY <1>1, <1>2, <1>3, <1>4, RetireKeeps

LEMMA DeleteIndexKeeps == EvIInv /\ DeleteIndex => EvIInv'
<1> SUFFICES ASSUME EvIInv, DeleteIndex PROVE EvIInv'
  OBVIOUS
<1>1. PICK ids \in SUBSET Names :
         /\ ids = {d.id : d \in Chunks}
         /\ \A a \in ids : Aged(a) /\ \E e \in Records : IsChunk(a, e)
  BY ChunkIds
<1>2. /\ rebuild.step = "IDLE"
      /\ derivative' = Marked(ids, "RETIRED")
      /\ rebuild' = [step |-> "SWEEP", gen |-> rebuild.gen, left |-> ids]
      /\ UNCHANGED <<record, candidate, projection, store, clock, restarts, capture, deletion, summary>>
  BY <1>1 DEF DeleteIndex, RetireIndex, Marked
<1>3. PICK g \in Nat, L \in SUBSET Records : g = rebuild.gen /\ L = {}
  BY <1>2 DEF EvIInv, EvTypes, RebuildType, Reading, Building, Sweeping
<1>4. {Chunk(e, g) : e \in L} = {}
  BY <1>3
<1>5. derivative' = Marked(ids, "RETIRED") \cup {Chunk(e, g) : e \in L}
  BY <1>2, <1>4
<1>6. QED BY <1>1, <1>2, <1>3, <1>5, RetireKeeps

-----------------------------------------------------------------------------
(* The invariant *)

LEMMA EvInitially == EvInit => EvIInv
<1> SUFFICES ASSUME EvInit PROVE EvIInv
  OBVIOUS
<1>0. /\ derivative = {} /\ candidate = {} /\ projection = {TaskRequest}
      /\ store = {Canonical(TaskRequest)} /\ clock = 1 /\ restarts = 0
      /\ capture = Idle /\ summary = Idle /\ deletion = [d \in Destroyers |-> Idle]
      /\ rebuild = [step |-> "IDLE", gen |-> 0]
  BY DEF EvInit, Destroyers
<1>1. /\ record \in [Records -> [state : {"NONE", "ROW", "LOST"}, of : SUBSET Records,
                                 request : BOOLEAN, at : Nat, fenced : Nat, gone : BOOLEAN]]
      /\ record[TaskRequest].state = "ROW" /\ record[TaskRequest].request = TRUE
      /\ \A e \in Records : /\ e # TaskRequest => record[e].state # "ROW"
                            /\ record[e].fenced = 0 /\ record[e].gone = FALSE /\ record[e].of = {}
  BY EvidenceAssumption DEF EvInit, NoRecord
<1>2. EvTypes
  BY <1>0, <1>1 DEF EvTypes, RecordTypes, CaptureType, DeletionType, RebuildType, SummaryType,
                    DerivativeType, Idle
<1>3. Kept
  BY <1>0, <1>1 DEF Kept, RowFits, Captured, IsRow, IsFenced, Tombstoned, Stored
<1>4. Made
  BY <1>0 DEF Made, Unique
<1>5. UnderWay
  BY <1>0 DEF UnderWay, Deletes, Builds, Summarizes, Idle
<1>6. Learns
  BY <1>0 DEF Learns
<1>7. Projects
  BY <1>0, <1>1, EvidenceAssumption DEF Projects, IsRow, Tombstoned, Corrected
<1>8. QED BY <1>2, <1>3, <1>4, <1>5, <1>6, <1>7 DEF EvIInv

LEMMA EvStepKeeps == EvIInv /\ [EvNext]_evvars => EvIInv'
<1> SUFFICES ASSUME EvIInv, [EvNext]_evvars PROVE EvIInv'
  OBVIOUS
<1>0. DOMAIN deletion = Destroyers /\ Deleters \subseteq Destroyers
  BY DEF EvIInv, EvTypes, DeletionType, Destroyers
<1>1. CASE \E e \in Records : Capture(e) \/ \E f \in Records : Correct(e, f)
  BY <1>1, CaptureKeeps
<1>2. CASE CommitCapture \/ AbortCapture
  BY <1>2, CommitCaptureKeeps, AbortCaptureKeeps
<1>3. CASE \E e \in Records : ResumeDeletion(e) \/ \E d \in Deleters : RequestDeletion(d, e)
  BY <1>0, <1>3, ResumeDeletionKeeps, RequestDeletionKeeps
<1>4. CASE \E d \in DOMAIN deletion :
              \/ FinalizeDeletion(d) \/ CommitDeletion(d) \/ AbortDeletion(d)
              \/ \E a \in Addresses : DestroyBytes(d, a)
  BY <1>0, <1>4, FinalizeDeletionKeeps, CommitDeletionKeeps, AbortDeletionKeeps, DestroyBytesKeeps
<1>5. CASE ReadProjections \/ OpenRebuild \/ CommitRebuild \/ FailRebuild \/ Sweep \/ DeleteIndex
  BY <1>5, ReadProjectionsKeeps, OpenRebuildKeeps, CommitRebuildKeeps, FailRebuildKeeps, SweepKeeps,
     DeleteIndexKeeps
<1>6. CASE \E e \in Records : IndexRecord(e)
  BY <1>6, IndexRecordKeeps
<1>7. CASE \E s \in Summaries, cites \in SUBSET Records, e \in Records : PutSummary(s, e, cites)
  BY <1>7, PutSummaryKeeps
<1>8. CASE CommitSummary \/ AbortSummary
  BY <1>8, CommitSummaryKeeps, AbortSummaryKeeps
<1>9. CASE \E c \in RuleIds, s \in Summaries : CreateCandidate(c, s)
  BY <1>9, CreateCandidateKeeps
<1>10. CASE \E x \in candidate, status \in {"APPROVED", "REJECTED"} : DecideCandidate(x, status)
  BY <1>10, DecideCandidateKeeps
<1>11. CASE Stop \/ Start
  BY <1>11, StopKeeps, StartKeeps
<1>12. CASE UNCHANGED evvars
  BY <1>12, NothingHappens
<1>13. QED
  BY <1>1, <1>2, <1>3, <1>4, <1>5, <1>6, <1>7, <1>8, <1>9, <1>10, <1>11, <1>12 DEF EvNext

\* Whatever is captured, corrected, deleted, indexed, summarised and decided at once, in
\* whatever order the bytes and the commits come, and wherever the control plane stops:
\* each writer of evidence.py, retrieval_index.py and candidate_learning.py finds the
\* store as it left it, and each row is as the invariant says.
THEOREM EvInvariance == EvSpec => []EvIInv
<1>1. EvInit => EvIInv
  BY EvInitially
<1>2. EvIInv /\ [EvNext]_evvars => EvIInv'
  BY EvStepKeeps
<1>3. QED BY <1>1, <1>2, PTL DEF EvSpec

LEMMA BytesAreThere == EvIInv => RowsHaveBytes
<1> SUFFICES ASSUME EvIInv PROVE RowsHaveBytes
  OBVIOUS
<1>1. \A e \in Records : LiveRecord(e) => Loads(e)
  BY DEF EvIInv, Kept, RowFits, LiveRecord, Loads
<1>2. ASSUME NEW x \in derivative
      PROVE  /\ WellShaped(x) /\ Derives(x) /\ x.source \in Records
             /\ x.kind \in {"CHUNK", "SUMMARY"} /\ x.cites \subseteq Records
  BY DEF EvIInv, Made, EvTypes, DerivativeType
<1>3. ~SearchFails
  <2>1. SUFFICES ASSUME NEW x \in Chunks, Loads(x.source) PROVE LoadsDerivative(x)
    BY DEF SearchFails
  <2>2. x \in derivative /\ x.kind = "CHUNK" /\ x.state = "LIVE" /\ LiveRecord(x.source)
    BY <2>1 DEF Chunks, Loads
  <2>3. Sources(x) = {x.source}
    BY <1>2, <2>2 DEF WellShaped, Sources
  <2>4. Stored(x.id)
    BY <1>2, <2>2, <2>3 DEF Derives, LiveRecord
  <2>5. QED BY <2>2, <2>4 DEF LoadsDerivative
<1>4. ASSUME NEW x \in derivative, x.kind = "SUMMARY", x.state = "LIVE", \A e \in x.cites : ~IsFenced(e)
      PROVE  LoadsDerivative(x)
  <2>1. x.source \in x.cites /\ Sources(x) = x.cites
    BY <1>2, <1>4 DEF WellShaped, Sources
  <2>2. Stored(x.id) /\ LiveRecord(x.source)
    BY <1>2, <1>4, <2>1 DEF WellShaped, Derives, LiveRecord
  <2>3. QED BY <1>4, <2>2 DEF LoadsDerivative
<1>5. \A e \in projection : IsRow(e) /\ ~Tombstoned(e) /\ ~Corrected(e)
  BY DEF EvIInv, Projects
<1>6. QED BY <1>1, <1>3, <1>4, <1>5 DEF RowsHaveBytes

\* What a row names can be read: load_evidence of a record without a deletion request,
\* search over the chunks of the current generation, a summary none of whose citations is
\* to be deleted, and the record task.raw_request names.
THEOREM RowsKeepBytes == EvSpec => []RowsHaveBytes
BY EvInvariance, BytesAreThere, PTL

LEMMA TombstonesHold == EvIInv => DeletedIsDestroyed
<1> SUFFICES ASSUME EvIInv, NEW e \in Records, Tombstoned(e)
    PROVE  /\ Canonical(e) \notin store
           /\ \A d \in derivative : d.source = e \/ e \in d.cites =>
                 /\ d.state # "LIVE"
                 /\ d.id \in store =>
                       /\ d.state = "RETIRED"
                       /\ restarts = 0 => rebuild.step = "SWEEP" /\ d.id \in rebuild.left
           /\ \A c \in candidate : e \in c.cites => c.status = "APPROVED"
  BY DEF DeletedIsDestroyed
<1>1. Canonical(e) \notin store
  BY DEF EvIInv, Kept, RowFits, Stored
<1>2. ASSUME NEW x \in derivative, x.source = e \/ e \in x.cites
      PROVE  /\ x.state # "LIVE"
             /\ x.id \in store =>
                   /\ x.state = "RETIRED"
                   /\ restarts = 0 => rebuild.step = "SWEEP" /\ x.id \in rebuild.left
  <2>1. e \in Sources(x) /\ Derives(x) /\ x.state \in {"LIVE", "RETIRED", "DESTROYED"}
    BY <1>2 DEF Sources, EvIInv, Made, EvTypes, DerivativeType
  <2>2. x.state # "LIVE"
    BY <2>1 DEF Derives
  <2>3. QED BY <2>1, <2>2 DEF Derives, Stored
<1>3. \A c \in candidate : e \in c.cites => c.status = "APPROVED"
  BY DEF EvIInv, Learns
<1>4. QED BY <1>1, <1>2, <1>3

\* After the tombstone of _finalize_deletion nothing of the record is left: neither its
\* bytes, nor a live derivative, nor a candidate still to be decided; the bytes of a
\* retired chunk only until the rebuild that retired it has swept them.
THEOREM DeletedStaysDestroyed == EvSpec => []DeletedIsDestroyed
BY EvInvariance, TombstonesHold, PTL
-----------------------------------------------------------------------------
(* Types *)

\* What has a time has one that was.
Timely ==
    /\ \A e \in Records : record[e].at <= clock /\ record[e].fenced <= clock
    /\ capture # Idle => capture.at <= clock
    /\ index \in Nat /\ index <= clock
    /\ rebuild.step = "OPEN" => rebuild.at <= clock

\* The clock ticks.
LEMMA LaterStill ==
    ASSUME EvIInv, Timely, UNCHANGED <<record, index>>, clock' = clock + 1,
           capture' = capture \/ capture'.at = clock + 1,
           rebuild' = rebuild \/ rebuild'.at = clock + 1
    PROVE  Timely'
<1>1. /\ clock \in Nat /\ index \in Nat /\ index <= clock + 1
      /\ capture # Idle => capture.at <= clock + 1
      /\ rebuild.step = "OPEN" => rebuild.at <= clock + 1
  BY DEF EvIInv, EvTypes, RecordTypes, CaptureType, RebuildType, Reading, Sweeping, Building, Timely
<1>2. \A e \in Records : record[e].at <= clock + 1 /\ record[e].fenced <= clock + 1
  BY DEF EvIInv, EvTypes, RecordTypes, Timely
<1>3. QED BY <1>1, <1>2 DEF Timely

LEMMA TimesStay == EvIInv /\ Timely /\ [EvNext]_evvars => Timely'
<1> SUFFICES ASSUME EvIInv, Timely, [EvNext]_evvars PROVE Timely'
  OBVIOUS
<1>0. /\ record \in [Records -> [state : {"NONE", "ROW", "LOST"}, of : SUBSET Records,
                                 request : BOOLEAN, at : Nat, fenced : Nat, gone : BOOLEAN]]
      /\ clock \in Nat /\ index \in Nat
      /\ capture # Idle => capture.id \in Records /\ capture.at \in Nat
      /\ rebuild.step = "OPEN" => rebuild \in Building
  BY DEF EvIInv, EvTypes, RecordTypes, CaptureType, RebuildType, Reading, Sweeping, Timely
<1>1. ASSUME NEW e \in Records, NEW of, PutRecord(e, of) PROVE Timely'
  <2>1. UNCHANGED <<record, index, rebuild>> /\ clock' = clock + 1 /\ capture'.at = clock + 1
    BY <1>1 DEF PutRecord, Tick, rows
  <2>2. QED BY <1>0, <2>1, LaterStill
<1>2. CASE CommitCapture
  <2>1. /\ UNCHANGED <<index, rebuild, clock>> /\ capture' = Idle
        /\ \A e \in Records : e # capture.id => record'[e] = record[e]
        /\ capture # Idle /\ record'[capture.id].at = capture.at /\ record'[capture.id].fenced = 0
    BY <1>0, <1>2 DEF CommitCapture, NoRecord
  <2>2. QED BY <1>0, <2>1 DEF Timely
<1>3. CASE AbortCapture \/ Stop
  <2>1. /\ UNCHANGED <<index, clock>> /\ capture' = Idle
        /\ rebuild' = rebuild \/ rebuild'.step = "IDLE"
        /\ \A e \in Records : record'[e].at = record[e].at /\ record'[e].fenced = record[e].fenced
    BY <1>0, <1>3 DEF AbortCapture, Stop, NotBuilding
  <2>2. QED BY <2>1 DEF Timely
<1>4. ASSUME NEW e \in Records, NEW d \in Deleters, RequestDeletion(d, e) PROVE Timely'
  <2>1. UNCHANGED <<index, capture, rebuild>>
    BY <1>4 DEF RequestDeletion
  <2>2. CASE UNCHANGED <<record, clock>>
    BY <2>1, <2>2 DEF Timely
  <2>3. CASE Tick /\ record' = [record EXCEPT ![e].fenced = clock + 1]
    <3>1. clock' = clock + 1 /\ \A f \in Records : record'[f].at = record[f].at
          /\ record'[f].fenced \in {record[f].fenced, clock + 1}
      BY <1>0, <2>3 DEF Tick
    <3>2. QED BY <1>0, <2>1, <3>1 DEF Timely, Building
  <2>4. QED BY <1>4, <2>2, <2>3 DEF RequestDeletion
<1>5. ASSUME NEW d, CommitDeletion(d) PROVE Timely'
  <2>1. /\ UNCHANGED <<index, clock, capture, rebuild>>
        /\ \A e \in Records : record'[e].at = record[e].at /\ record'[e].fenced = record[e].fenced
    BY <1>0, <1>5 DEF CommitDeletion
  <2>2. QED BY <2>1 DEF Timely
<1>6. CASE ReadProjections \/ FailRebuild \/ Sweep
  <2>1. /\ UNCHANGED <<record, index, clock, capture>>
        /\ rebuild'.step # "OPEN"
    BY <1>0, <1>6 DEF ReadProjections, FailRebuild, Sweep, rows, NotBuilding, EvIInv, EvTypes,
                      RebuildType,
                      Sweeping, Reading, Building
  <2>2. QED BY <2>1 DEF Timely
<1>7. CASE OpenRebuild
  <2>1. /\ UNCHANGED <<record, index, capture>> /\ clock' = clock + 1
        /\ rebuild'.step = "OPEN" /\ rebuild'.at = clock + 1
    BY <1>7 DEF OpenRebuild, Tick, rows
  <2>2. QED BY <1>0, <2>1, LaterStill
<1>8. ASSUME NEW e \in Records, IndexRecord(e) PROVE Timely'
  <2>1. UNCHANGED <<record, index, clock, capture>> /\ rebuild.step = "OPEN" /\ rebuild'.at = rebuild.at
    BY <1>0, <1>8 DEF IndexRecord, rows, Building
  <2>2. QED BY <2>1 DEF Timely
<1>9. CASE CommitRebuild \/ DeleteIndex
  <2>1. /\ UNCHANGED <<record, clock, capture>> /\ rebuild'.step = "SWEEP"
        /\ index' = 0 \/ (rebuild.step = "OPEN" /\ index' = rebuild.at)
    BY <1>9 DEF CommitRebuild, DeleteIndex
  <2>2. QED BY <1>0, <2>1 DEF Timely, Building
<1>10. CASE UNCHANGED <<record, index, capture, rebuild, clock>>
  BY <1>10 DEF Timely
<1>11. QED
  BY <1>1, <1>2, <1>3, <1>4, <1>5, <1>6, <1>7, <1>8, <1>9, <1>10
     DEF EvNext, Capture, Correct, ResumeDeletion, FinalizeDeletion, DestroyBytes, AbortDeletion,
         CommitSummary, AbortSummary, PutSummary, CreateCandidate, DecideCandidate, Start, evvars, rows

\* Nobody writes to an address that is not one of a row.
Addressed ==
    /\ store \subseteq Addresses /\ \A x \in derivative : x.id \in Addresses
    /\ rebuild.gen <= MaxBuilds /\ (rebuild.step = "READ" => rebuild.gen < MaxBuilds)

LEMMA CanonicalAddress ==
    /\ \A e \in Records : Canonical(e) \in Addresses /\ \A g \in 0 .. MaxBuilds : <<e, g>> \in Addresses
    /\ \A s \in Summaries : Canonical(s) \in Addresses
BY EvidenceAssumption DEF Canonical, Addresses

\* The ids of derivatives after a step that changes them.
LEMMA IdsStay ==
    ASSUME EvIInv, Addressed
    PROVE  /\ CommitRebuild => \A x \in derivative' : x.id \in Addresses
           /\ DeleteIndex => \A x \in derivative' : x.id \in Addresses
           /\ CommitSummary => \A x \in derivative' : x.id \in Addresses
           /\ \A d \in Destroyers : CommitDeletion(d) => \A x \in derivative' : x.id \in Addresses
<1>1. \A ids : \A x \in Marked(ids, "RETIRED") \cup Marked(ids, "DESTROYED") : x.id \in Addresses
  BY Marking DEF Addressed
<1>2. CommitRebuild => \A x \in derivative' : x.id \in Addresses
  <2> SUFFICES ASSUME CommitRebuild PROVE \A x \in derivative' : x.id \in Addresses
    OBVIOUS
  <2>1. derivative' = Marked(rebuild.retired, "RETIRED") \cup {Chunk(e, rebuild.gen) : e \in rebuild.locked}
    BY DEF CommitRebuild, RetireIndex, Marked
  <2>2. rebuild.locked \subseteq Records /\ rebuild.gen \in 0 .. MaxBuilds
    BY EvidenceAssumption DEF CommitRebuild, EvIInv, EvTypes, RebuildType, Reading, Sweeping,
                              Building, Addressed
  <2>3. \A e \in rebuild.locked : Chunk(e, rebuild.gen).id \in Addresses
    BY <2>2, CanonicalAddress DEF Chunk
  <2>4. QED BY <1>1, <2>1, <2>3
<1>3. DeleteIndex => \A x \in derivative' : x.id \in Addresses
  <2> SUFFICES ASSUME DeleteIndex PROVE \A x \in derivative' : x.id \in Addresses
    OBVIOUS
  <2>1. \E ids : derivative' = Marked(ids, "RETIRED")
    BY DEF DeleteIndex, RetireIndex, Marked
  <2>2. QED BY <1>1, <2>1
<1>4. CommitSummary => \A x \in derivative' : x.id \in Addresses
  <2> SUFFICES ASSUME CommitSummary PROVE \A x \in derivative' : x.id \in Addresses
    OBVIOUS
  <2>1. summary.id \in Summaries
    BY DEF CommitSummary, EvIInv, EvTypes, SummaryType
  <2>2. Summary(summary.id, summary.source, summary.cites).id \in Addresses
    BY <2>1, CanonicalAddress DEF Summary
  <2>3. QED BY <2>2 DEF CommitSummary, Addressed
<1>5. ASSUME NEW d \in Destroyers, CommitDeletion(d) PROVE \A x \in derivative' : x.id \in Addresses
  <2>1. derivative' = Marked(deletion[d].rows, "DESTROYED")
    BY <1>5 DEF CommitDeletion, Marked
  <2>2. QED BY <1>1, <2>1
<1>6. QED BY <1>2, <1>3, <1>4, <1>5

LEMMA AddressesStay == EvIInv /\ Addressed /\ [EvNext]_evvars => Addressed'
<1> SUFFICES ASSUME EvIInv, Addressed, [EvNext]_evvars PROVE Addressed'
  OBVIOUS
<1>0. /\ rebuild.gen \in Nat /\ DOMAIN deletion = Destroyers /\ Deleters \subseteq Destroyers
      /\ rebuild.step = "OPEN" => rebuild \in Building
      /\ rebuild.step = "SWEEP" => rebuild \in Sweeping
  BY DEF EvIInv, EvTypes, RebuildType, DeletionType, Reading, Building, Sweeping, Destroyers
\* Bytes are written,
<1>1. ASSUME NEW e \in Records, NEW of, PutRecord(e, of) PROVE Addressed'
  <2>1. UNCHANGED <<derivative, rebuild>> /\ store' = store \cup {Canonical(e)}
    BY <1>1 DEF PutRecord, Put, rows
  <2>2. QED BY <2>1, CanonicalAddress DEF Addressed
<1>2. ASSUME NEW s \in Summaries, NEW e, NEW cites, PutSummary(s, e, cites) PROVE Addressed'
  <2>1. UNCHANGED <<derivative, rebuild>> /\ store' = store \cup {Canonical(s)}
    BY <1>2 DEF PutSummary, Put, rows
  <2>2. QED BY <2>1, CanonicalAddress DEF Addressed
<1>3. ASSUME NEW e \in Records, IndexRecord(e) PROVE Addressed'
  <2>1. /\ UNCHANGED derivative /\ store' \subseteq store \cup {<<e, rebuild.gen>>}
        /\ rebuild'.gen = rebuild.gen /\ rebuild'.step = "OPEN"
    BY <1>0, <1>3 DEF IndexRecord, Put, rows, Building
  <2>2. <<e, rebuild.gen>> \in Addresses
    BY <1>0, CanonicalAddress, EvidenceAssumption DEF Addressed
  <2>3. QED BY <2>1, <2>2 DEF Addressed
\* or deleted;
<1>4. ASSUME NEW d, NEW a, DestroyBytes(d, a) PROVE Addressed'
  BY <1>4 DEF DestroyBytes, Delete, rows, Addressed
<1>5. CASE Sweep
  <2>1. /\ UNCHANGED derivative /\ store' \subseteq store
        /\ rebuild'.gen = rebuild.gen /\ rebuild'.step # "READ"
    BY <1>0, <1>5 DEF Sweep, Delete, rows, NotBuilding, Sweeping
  <2>2. QED BY <2>1 DEF Addressed
<1>6. CASE AbortSummary
  BY <1>6 DEF AbortSummary, Delete, rows, Addressed
\* the rows that name them change;
<1>7. CASE CommitRebuild \/ DeleteIndex
  <2>1. UNCHANGED store /\ rebuild'.gen = rebuild.gen /\ rebuild'.step = "SWEEP"
    BY <1>7 DEF CommitRebuild, DeleteIndex
  <2>2. QED BY <1>7, <2>1, IdsStay DEF Addressed
<1>8. CASE CommitSummary \/ \E d \in Destroyers : CommitDeletion(d)
  <2>1. UNCHANGED <<store, rebuild>>
    BY <1>8 DEF CommitSummary, CommitDeletion
  <2>2. QED BY <1>8, <2>1, IdsStay DEF Addressed
\* or a rebuild goes on.
<1>9. CASE ReadProjections \/ OpenRebuild \/ FailRebuild
  <2>1. /\ UNCHANGED <<store, derivative>>
        /\ \/ rebuild'.gen = rebuild.gen /\ rebuild'.step = "READ" /\ rebuild.gen < MaxBuilds
           \/ rebuild'.gen = rebuild.gen + 1 /\ rebuild'.step = "OPEN" /\ rebuild.gen < MaxBuilds
           \/ rebuild'.gen = rebuild.gen /\ rebuild'.step = "SWEEP"
    BY <1>9 DEF ReadProjections, OpenRebuild, FailRebuild, rows, Addressed
  <2>2. QED BY <1>0, <2>1, EvidenceAssumption DEF Addressed
<1>10. CASE Stop
  <2>1. UNCHANGED <<store, derivative>> /\ rebuild'.gen = rebuild.gen /\ rebuild'.step = "IDLE"
    BY <1>10 DEF Stop, NotBuilding
  <2>2. QED BY <2>1 DEF Addressed
<1>11. CASE UNCHANGED <<store, derivative, rebuild>>
  BY <1>11 DEF Addressed
<1>12. QED
  BY <1>0, <1>1, <1>2, <1>3, <1>4, <1>5, <1>6, <1>7, <1>8, <1>9, <1>10, <1>11
     DEF EvNext, Capture, Correct, CommitCapture, AbortCapture, ResumeDeletion, RequestDeletion,
         FinalizeDeletion, AbortDeletion, CreateCandidate, DecideCandidate, Start, evvars, rows

\* There are finitely many derivatives, and each has its id to itself.
Finite == IsFiniteSet(derivative) /\ (rebuild.step = "OPEN" => IsFiniteSet(rebuild.locked))

LEMMA FiniteImage ==
    ASSUME NEW S, NEW T, NEW f \in [S -> T], IsFiniteSet(S), \A t \in T : \E s \in S : f[s] = t
    PROVE  IsFiniteSet(T)
<1>1. f \in Surjection(S, T)
  BY DEF Surjection
<1>2. QED BY <1>1, FS_Surjection

LEMMA FiniteMarked == ASSUME Finite, NEW ids, NEW mark PROVE IsFiniteSet(Marked(ids, mark))
<1> DEFINE f == [x \in derivative |-> IF x.id \in ids THEN [x EXCEPT !.state = mark] ELSE x]
<1>1. f \in [derivative -> Marked(ids, mark)]
  BY DEF Marked
<1>2. \A y \in Marked(ids, mark) : \E x \in derivative : f[x] = y
  BY DEF Marked
<1> HIDE DEF f
<1>3. QED BY <1>1, <1>2, FiniteImage DEF Finite

LEMMA FiniteChunks ==
    ASSUME NEW S, NEW g, IsFiniteSet(S)
    PROVE  IsFiniteSet({Chunk(e, g) : e \in S})
<1> DEFINE T == {Chunk(e, g) : e \in S}
           f == [e \in S |-> Chunk(e, g)]
<1>1. f \in [S -> T]
  OBVIOUS
<1>2. \A t \in T : \E e \in S : f[e] = t
  OBVIOUS
<1> HIDE DEF f
<1>3. QED BY <1>1, <1>2, FiniteImage

LEMMA StaysFinite == EvIInv /\ Finite /\ [EvNext]_evvars => Finite'
<1> SUFFICES ASSUME EvIInv, Finite, [EvNext]_evvars PROVE Finite'
  OBVIOUS
<1>0. /\ DOMAIN deletion = Destroyers
      /\ rebuild.step = "OPEN" => rebuild \in Building
      /\ rebuild.step = "SWEEP" => rebuild \in Sweeping
  BY DEF EvIInv, EvTypes, RebuildType, DeletionType, Reading, Building, Sweeping
<1>1. CASE CommitRebuild
  <2>1. derivative' = Marked(rebuild.retired, "RETIRED") \cup {Chunk(e, rebuild.gen) : e \in rebuild.locked}
        /\ rebuild'.step = "SWEEP" /\ rebuild.step = "OPEN"
    BY <1>1 DEF CommitRebuild, RetireIndex, Marked
  <2>2. IsFiniteSet({Chunk(e, rebuild.gen) : e \in rebuild.locked})
    BY <2>1, FiniteChunks DEF Finite
  <2>3. IsFiniteSet(Marked(rebuild.retired, "RETIRED"))
    BY FiniteMarked
  <2>4. IsFiniteSet(derivative')
    BY <2>1, <2>2, <2>3, FS_Union
  <2>5. QED BY <2>1, <2>4 DEF Finite
<1>2. CASE DeleteIndex
  <2>1. PICK ids : derivative' = Marked(ids, "RETIRED")
    BY <1>2 DEF DeleteIndex, RetireIndex, Marked
  <2>2. IsFiniteSet(derivative')
    BY <2>1, FiniteMarked
  <2>3. rebuild'.step = "SWEEP"
    BY <1>2 DEF DeleteIndex
  <2>4. QED BY <2>2, <2>3 DEF Finite
<1>3. CASE CommitSummary
  <2>1. UNCHANGED rebuild
        /\ derivative' = derivative \cup {Summary(summary.id, summary.source, summary.cites)}
    BY <1>3 DEF CommitSummary
  <2>2. IsFiniteSet(derivative')
    BY <2>1, FS_AddElement DEF Finite
  <2>3. QED BY <2>1, <2>2 DEF Finite
<1>4. ASSUME NEW d, CommitDeletion(d) PROVE Finite'
  <2>1. UNCHANGED rebuild /\ derivative' = Marked(deletion[d].rows, "DESTROYED")
    BY <1>4 DEF CommitDeletion, Marked
  <2>2. IsFiniteSet(derivative')
    BY <2>1, FiniteMarked
  <2>3. QED BY <2>1, <2>2 DEF Finite
<1>5. ASSUME NEW e, IndexRecord(e) PROVE Finite'
  <2>1. /\ UNCHANGED derivative /\ rebuild.step = "OPEN"
        /\ rebuild'.locked \in {rebuild.locked, rebuild.locked \cup {e}}
    BY <1>0, <1>5 DEF IndexRecord, rows, Building
  <2>2. IsFiniteSet(rebuild.locked \cup {e})
    BY <2>1, FS_AddElement DEF Finite
  <2>3. QED BY <2>1, <2>2 DEF Finite
<1>6. CASE OpenRebuild
  <2>1. UNCHANGED derivative /\ rebuild'.locked = {}
    BY <1>6 DEF OpenRebuild, rows
  <2>2. QED BY <2>1, FS_EmptySet DEF Finite
<1>7. CASE ReadProjections \/ FailRebuild \/ Sweep \/ Stop
  <2>1. UNCHANGED derivative /\ rebuild'.step \in {"READ", "SWEEP", "IDLE"}
    BY <1>0, <1>7 DEF ReadProjections, FailRebuild, Sweep, Stop, rows, NotBuilding, Sweeping
  <2>2. QED BY <2>1 DEF Finite
<1>8. CASE UNCHANGED <<derivative, rebuild>>
  BY <1>8 DEF Finite
<1>9. QED
  BY <1>1, <1>2, <1>3, <1>4, <1>5, <1>6, <1>7, <1>8
     DEF EvNext, Capture, Correct, PutRecord, CommitCapture, AbortCapture, ResumeDeletion,
         RequestDeletion,
         FinalizeDeletion, DestroyBytes, AbortDeletion, PutSummary, AbortSummary, CreateCandidate,
         DecideCandidate, Start, evvars, rows

LEMMA IdsAreUnique ==
    ASSUME EvIInv, Finite
    PROVE  Cardinality({x.id : x \in derivative}) = Cardinality(derivative)
<1> DEFINE T == {x.id : x \in derivative}
           f == [x \in derivative |-> x.id]
<1>1. f \in [derivative -> T] /\ \A t \in T : \E x \in derivative : f[x] = t
  OBVIOUS
<1>2. \A x, y \in derivative : f[x] = f[y] => x = y
  BY DEF EvIInv, Made, Unique
<1>3. f \in Surjection(derivative, T) /\ f \in Injection(derivative, T)
  <2> HIDE DEF f, T
  <2>1. QED BY <1>1, <1>2 DEF Surjection, Injection, IsInjective
<1>4. IsFiniteSet(derivative)
  BY DEF Finite
<1> HIDE DEF f
<1>5. QED BY <1>3, <1>4, FS_Surjection

\* A candidate is decided once; the task's request names one record; the control plane
\* accepts traffic or is about to.
Stated ==
    /\ \A c \in candidate : c.status \in {"EVALUATED", "APPROVED", "REJECTED"}
    /\ projection = {} \/ \E e \in Records : projection = {e}
    /\ service \in {"UP", "STARTING"}

LEMMA StatedStays == EvIInv /\ Stated /\ [EvNext]_evvars => Stated'
<1> SUFFICES ASSUME EvIInv, Stated, [EvNext]_evvars PROVE Stated'
  OBVIOUS
<1>0. DOMAIN deletion = Destroyers
  BY DEF EvIInv, EvTypes, DeletionType
<1>1. CASE CommitCapture
  <2>1. capture.id \in Records
    BY <1>1 DEF EvIInv, EvTypes, CaptureType, CommitCapture
  <2>2. UNCHANGED <<candidate, service>> /\ projection' \in {projection, {capture.id}}
    BY <1>1 DEF CommitCapture
  <2>3. QED BY <2>1, <2>2 DEF Stated
<1>2. ASSUME NEW d, CommitDeletion(d) PROVE Stated'
  <2>1. candidate' \subseteq candidate /\ UNCHANGED service /\ \E e : projection' = projection \ {e}
    BY <1>2 DEF CommitDeletion
  <2>2. QED BY <2>1 DEF Stated
<1>3. ASSUME NEW c, NEW s, CreateCandidate(c, s) PROVE Stated'
  <2>1. /\ UNCHANGED <<projection, service>>
        /\ \E x : candidate' = candidate \cup {RuleCandidate(c, x.cites)}
    BY <1>3 DEF CreateCandidate
  <2>2. QED BY <2>1 DEF Stated, RuleCandidate
<1>4. ASSUME NEW x, NEW status \in {"APPROVED", "REJECTED"}, DecideCandidate(x, status) PROVE Stated'
  <2>1. /\ UNCHANGED <<projection, service>> /\ x \in candidate /\ x.status = "EVALUATED"
        /\ candidate' = (candidate \ {x}) \cup {[x EXCEPT !.status = status]}
    BY <1>4 DEF DecideCandidate
  <2>2. [x EXCEPT !.status = status].status \in {status, "EVALUATED"}
    BY <2>1
  <2>3. QED BY <2>1, <2>2 DEF Stated
<1>5. CASE Stop \/ Start
  BY <1>5 DEF Stop, Start, rows, Stated
<1>6. CASE UNCHANGED <<candidate, projection, service>>
  BY <1>6 DEF Stated
<1>7. QED
  BY <1>1, <1>2, <1>3, <1>4, <1>5, <1>6
     DEF EvNext, Capture, Correct, PutRecord, AbortCapture, ResumeDeletion, RequestDeletion,
         FinalizeDeletion, DestroyBytes, AbortDeletion, ReadProjections, OpenRebuild, CommitRebuild,
         FailRebuild, Sweep, DeleteIndex, IndexRecord, PutSummary, CommitSummary, AbortSummary,
         evvars, rows

\* The types of evidence: nothing is indexed, captured or fenced at a time that is yet to
\* come, no byte is stored but at the address of a row that is there or was to be, and no
\* two derivatives share an address.
THEOREM EvTypeCorrect == EvSpec => []EvTypeOK
<1>1. EvInit => Timely /\ Addressed /\ Finite /\ Stated
  <2> SUFFICES ASSUME EvInit PROVE Timely /\ Addressed /\ Finite /\ Stated
    OBVIOUS
  <2>1. Timely
    BY DEF EvInit, Timely, NoRecord
  <2>2. Addressed
    BY CanonicalAddress, EvidenceAssumption DEF EvInit, Addressed
  <2>3. Finite
    BY FS_EmptySet DEF EvInit, Finite
  <2>4. Stated
    BY EvidenceAssumption DEF EvInit, Stated
  <2>5. QED BY <2>1, <2>2, <2>3, <2>4
<1>2. EvIInv /\ Timely /\ [EvNext]_evvars => Timely'
  BY TimesStay
<1>3. EvIInv /\ Addressed /\ [EvNext]_evvars => Addressed'
  BY AddressesStay
<1>4. EvIInv /\ Finite /\ [EvNext]_evvars => Finite'
  BY StaysFinite
<1>5. EvIInv /\ Stated /\ [EvNext]_evvars => Stated'
  BY StatedStays
<1>6. EvIInv /\ Timely /\ Addressed /\ Finite /\ Stated => EvTypeOK
  <2> SUFFICES ASSUME EvIInv, Timely, Addressed, Finite, Stated PROVE EvTypeOK
    OBVIOUS
  <2>1. ASSUME NEW e \in Records
        PROVE  /\ record[e].state \in {"NONE", "ROW", "LOST"} /\ record[e].of \subseteq Records
               /\ record[e].at <= clock /\ record[e].fenced <= clock
               /\ Tombstoned(e) => IsFenced(e)
    BY DEF EvIInv, EvTypes, RecordTypes, Timely, Kept, RowFits
  <2>2. ASSUME NEW x \in derivative
        PROVE  /\ x.id \in Addresses /\ x.source \in Records /\ x.cites \subseteq Records
               /\ x.kind \in {"CHUNK", "SUMMARY"} /\ x.state \in {"LIVE", "RETIRED", "DESTROYED"}
    BY DEF EvIInv, EvTypes, DerivativeType, Addressed
  <2>3. projection \subseteq Records /\ Cardinality(projection) <= 1
    <3>1. CASE projection = {}
      <4>1. Cardinality(projection) = 0
        BY <3>1, FS_EmptySet
      <4>2. QED BY <3>1, <4>1
    <3>2. CASE \E e \in Records : projection = {e}
      <4>1. Cardinality(projection) = 1
        BY <3>2, FS_Singleton
      <4>2. QED BY <3>2, <4>1
    <3>3. QED BY <3>1, <3>2 DEF Stated
  <2>4. Cardinality({x.id : x \in derivative}) = Cardinality(derivative)
    BY IdsAreUnique
  <2>5. QED BY <2>1, <2>2, <2>3, <2>4 DEF EvTypeOK, Timely, Addressed, Stated
<1>7. QED BY <1>1, <1>2, <1>3, <1>4, <1>5, <1>6, EvInvariance, PTL DEF EvSpec
===============================================================================
