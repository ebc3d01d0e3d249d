------------------------ MODULE BackgroundJobsProofs ------------------------
(***************************************************************************)
(* Proofs about BackgroundJobs, for any jobs, tasks, workers, keys and     *)
(* number of attempts.                                                     *)
(*                                                                         *)
(* The inductive invariant has two layers.  Rows relates the jobs to the   *)
(* leases and to the workers' grants; every step touches the rows in one   *)
(* of five ways (RowSteps), so it is kept by five lemmas whatever the      *)
(* number of actions.  Work relates what workers and providers did to the  *)
(* effects and checkpoints; it uses Rows through one consequence: a        *)
(* worker that owns its job after a step owned it before, and nobody else  *)
(* does (OwnersStay, OneOwner).                                            *)
(* The refinement of JobPromise and the action properties follow at the    *)
(* end.                                                                    *)
(***************************************************************************)
EXTENDS BackgroundJobs, FiniteSetTheorems, SequenceTheorems, TLAPS

-----------------------------------------------------------------------------
(* The inductive invariant: rows *)

\* The rows of jobs and leases have their types.
RowTypes ==
    /\ job \in [Jobs -> [status : JobStatus, attempts : 0 .. MaxAttempts, lease : Tokens]]
    /\ leases \in Seq(Leases)

\* The current lease of a job is an unreleased one of its own, its newest.
Leased(j) ==
    /\ job[j].status = "RUNNING" <=> job[j].lease # 0
    /\ job[j].lease # 0 =>
          /\ leases[job[j].lease].job = j
          /\ leases[job[j].lease].released = None
          /\ \A n \in 1 .. Len(leases) : leases[n].job = j => n <= job[j].lease

\* A lease that was not released is current.
Owned(n) == leases[n].released = None => job[leases[n].job].lease = n

\* The attempts of a job are its leases, numbered in order.
Counted(j) ==
    /\ job[j].attempts = Cardinality(LeasesOf(j))
    /\ \A n, m \in LeasesOf(j) : n < m => leases[n].attempt < leases[m].attempt
    /\ \A n \in LeasesOf(j) : leases[n].attempt <= job[j].attempts
    /\ job[j].attempts # 0 => \E n \in LeasesOf(j) : leases[n].attempt = job[j].attempts

Rows ==
    /\ RowTypes
    /\ \A j \in Jobs : Leased(j) /\ Counted(j)
    /\ \A n \in 1 .. Len(leases) : Owned(n)

-----------------------------------------------------------------------------
(* Rows *)

\* Releasing leases keeps the sequence and everything but the reason.
LEMMA ReleaseFacts ==
    ASSUME leases \in Seq(Leases), NEW S, NEW reason \in ReleaseReasons
    PROVE  /\ Release(S, reason) \in Seq(Leases)
           /\ Len(Release(S, reason)) = Len(leases)
           /\ \A n \in 1 .. Len(leases) :
                 /\ Release(S, reason)[n].job = leases[n].job
                 /\ Release(S, reason)[n].attempt = leases[n].attempt
                 /\ Release(S, reason)[n].expired = leases[n].expired
                 /\ Release(S, reason)[n].released =
                       IF n \in S THEN reason ELSE leases[n].released
  <1> DEFINE Row(n) == IF n \in S THEN [leases[n] EXCEPT !.released = reason] ELSE leases[n]
  <1>1. ASSUME NEW n \in 1 .. Len(leases)
        PROVE  /\ Row(n) \in Leases
               /\ Row(n).job = leases[n].job
               /\ Row(n).attempt = leases[n].attempt
               /\ Row(n).expired = leases[n].expired
               /\ Row(n).released = IF n \in S THEN reason ELSE leases[n].released
    <2>1. leases[n] \in Leases
      OBVIOUS
    <2> QED
      BY <2>1 DEF Leases
  <1>2. Len(leases) \in Nat
    OBVIOUS
  <1>3. Release(S, reason) = [n \in 1 .. Len(leases) |-> Row(n)]
    BY DEF Release
  <1> HIDE DEF Row
  <1>4. Release(S, reason) \in Seq(Leases) /\ Len(Release(S, reason)) = Len(leases)
    BY <1>1, <1>2, <1>3
  <1>5. \A n \in 1 .. Len(leases) : Release(S, reason)[n] = Row(n)
    BY <1>3
  <1> QED
    BY <1>1, <1>4, <1>5

\* The maximum of a set with a greatest element.
LEMMA MaxFacts ==
    ASSUME NEW S \in SUBSET Nat, NEW n \in S, \A m \in S : m <= n
    PROVE  Max(S) = n
  <1>1. \E m \in S : \A x \in S : m >= x
    OBVIOUS
  <1>2. Max(S) \in S /\ \A x \in S : Max(S) >= x
    BY <1>1 DEF Max
  <1>3. Max(S) \in Nat /\ Max(S) <= n /\ Max(S) >= n
    BY <1>2
  <1> QED
    BY <1>3

\* The leases of a job are finitely many.
LEMMA LeasesOfFinite ==
    ASSUME leases \in Seq(Leases), NEW j
    PROVE  /\ LeasesOf(j) \subseteq 1 .. Len(leases)
           /\ IsFiniteSet(LeasesOf(j))
           /\ Cardinality(LeasesOf(j)) \in Nat
  <1>1. IsFiniteSet(1 .. Len(leases))
    BY FS_Interval
  <1>2. LeasesOf(j) \subseteq 1 .. Len(leases)
    BY DEF LeasesOf
  <1> QED
    BY <1>1, <1>2, FS_Subset, FS_CardinalityType

\* A running job was attempted, and its lease is a row of its own.
LEMMA RunningWasClaimed ==
    ASSUME Rows, NEW j \in Jobs, job[j].status = "RUNNING"
    PROVE  /\ job[j].lease \in 1 .. Len(leases)
           /\ job[j].lease \in LeasesOf(j)
           /\ leases[job[j].lease] \in Leases
           /\ job[j].attempts \in 1 .. MaxAttempts
  <1>1. Leased(j) /\ Counted(j)
    BY DEF Rows
  <1>2. job[j].lease \in Tokens /\ job[j].attempts \in 0 .. MaxAttempts
    BY DEF Rows, RowTypes
  <1>3. job[j].lease \in 1 .. Len(leases)
    BY <1>1, <1>2 DEF Leased, Tokens, Rows, RowTypes
  <1>4. job[j].lease \in LeasesOf(j)
    BY <1>1, <1>3 DEF Leased, LeasesOf
  <1>5. Cardinality(LeasesOf(j)) # 0
    BY <1>4, LeasesOfFinite, FS_EmptySet DEF Rows, RowTypes
  <1>6. leases[job[j].lease] \in Leases
    BY <1>3 DEF Rows, RowTypes
  <1> QED
    BY <1>1, <1>2, <1>3, <1>4, <1>5, <1>6, JobsAssumption DEF Counted

\* Counted asks nothing but the leases' jobs and numbers and the jobs' attempts.
LEMMA CountedKept ==
    ASSUME Rows,
           Len(leases') = Len(leases),
           \A n \in 1 .. Len(leases) : /\ leases'[n].job = leases[n].job
                                       /\ leases'[n].attempt = leases[n].attempt,
           \A j \in Jobs : job'[j].attempts = job[j].attempts
    PROVE  \A j \in Jobs : Counted(j)'
  <1> SUFFICES ASSUME NEW j \in Jobs PROVE Counted(j)'
    OBVIOUS
  <1>1. LeasesOf(j)' = LeasesOf(j)
    BY DEF LeasesOf
  <1>2. LeasesOf(j) \subseteq 1 .. Len(leases)
    BY DEF LeasesOf
  <1>3. Counted(j)
    BY DEF Rows
  <1> QED
    BY <1>1, <1>2, <1>3 DEF Counted

\* What a running job becomes when its lease is released for a reason, and whether the
\* lease had run out.
Departures ==
    { <<"QUEUED", "RETRY", FALSE>>, <<"QUEUED", "EXPIRED", TRUE>>,
      <<"SUCCEEDED", "SUCCEEDED", FALSE>>, <<"FAILED", "FAILED", FALSE>>,
      <<"FAILED", "EXPIRED", TRUE>>, <<"CANCELLED", "CANCELLED", FALSE>>,
      <<"CANCELLED", "CANCELLED", TRUE>> }

\* The jobs X leave the queue or their leases: how every attempt and every job ends.
Leave(X, status, reason) ==
    /\ \A i \in X :
          \/ job[i].status = "QUEUED" /\ status[i] = "CANCELLED"
          \/ /\ job[i].status = "RUNNING"
             /\ <<status[i], reason, leases[job[i].lease].expired>> \in Departures
    /\ leases' = Release({job[i].lease : i \in X} \ {0}, reason)
    /\ job' = [i \in Jobs |-> IF i \in X THEN Left(i, status[i]) ELSE job[i]]

\* The rows after some jobs left.
LEMMA LeaveFacts ==
    ASSUME Rows,
           NEW X \in SUBSET Jobs, NEW status \in [Jobs -> JobStatus \ {"RUNNING"}],
           NEW reason \in ReleaseReasons, Leave(X, status, reason)
    PROVE  /\ leases' \in Seq(Leases)
           /\ Len(leases') = Len(leases)
           /\ \A n \in 1 .. Len(leases) :
                 /\ leases'[n].job = leases[n].job
                 /\ leases'[n].attempt = leases[n].attempt
                 /\ leases'[n].expired = leases[n].expired
                 /\ leases'[n].released = IF n \in {job[i].lease : i \in X} \ {0}
                                          THEN reason ELSE leases[n].released
           /\ reason # None
           /\ job' = [i \in Jobs |-> job'[i]]
           /\ \A i \in Jobs :
                 /\ job'[i] \in [status : JobStatus, attempts : 0 .. MaxAttempts, lease : Tokens]
                 /\ job'[i].attempts = job[i].attempts
                 /\ job'[i].status = IF i \in X THEN status[i] ELSE job[i].status
                 /\ job'[i].lease = IF i \in X THEN 0 ELSE job[i].lease
                 /\ i \notin X => job'[i] = job[i]
  <1>0. leases \in Seq(Leases)
    BY DEF Rows, RowTypes
  <1>1. /\ leases' \in Seq(Leases)
        /\ Len(leases') = Len(leases)
        /\ \A n \in 1 .. Len(leases) :
              /\ leases'[n].job = leases[n].job
              /\ leases'[n].attempt = leases[n].attempt
              /\ leases'[n].expired = leases[n].expired
              /\ leases'[n].released = IF n \in {job[i].lease : i \in X} \ {0}
                                       THEN reason ELSE leases[n].released
    BY <1>0, ReleaseFacts DEF Leave
  <1>2. \A i \in Jobs :
           /\ job'[i] \in [status : JobStatus, attempts : 0 .. MaxAttempts, lease : Tokens]
           /\ job'[i].attempts = job[i].attempts
           /\ job'[i].status = IF i \in X THEN status[i] ELSE job[i].status
           /\ job'[i].lease = IF i \in X THEN 0 ELSE job[i].lease
           /\ i \notin X => job'[i] = job[i]
    <2> SUFFICES ASSUME NEW i \in Jobs
                 PROVE  /\ job'[i] \in [status : JobStatus, attempts : 0 .. MaxAttempts,
                                        lease : Tokens]
                        /\ job'[i].attempts = job[i].attempts
                        /\ job'[i].status = IF i \in X THEN status[i] ELSE job[i].status
                        /\ job'[i].lease = IF i \in X THEN 0 ELSE job[i].lease
                        /\ i \notin X => job'[i] = job[i]
      OBVIOUS
    <2>1. job[i] \in [status : JobStatus, attempts : 0 .. MaxAttempts, lease : Tokens]
      BY DEF Rows, RowTypes
    <2>2. status[i] \in JobStatus /\ 0 \in Tokens
      BY <1>0 DEF Tokens
    <2>3. job'[i] = IF i \in X THEN Left(i, status[i]) ELSE job[i]
      BY DEF Leave
    <2> QED
      BY <2>1, <2>2, <2>3 DEF Left
  <1>3. reason # None
    BY NullAssumption
  <1>4. job' = [i \in Jobs |-> job'[i]]
    BY DEF Leave
  <1> QED
    BY <1>1, <1>2, <1>3, <1>4

\* Jobs that leave keep the rows in order.
LEMMA LeaveKeepsRows ==
    ASSUME Rows,
           NEW X \in SUBSET Jobs, NEW status \in [Jobs -> JobStatus \ {"RUNNING"}],
           NEW reason \in ReleaseReasons, Leave(X, status, reason)
    PROVE  Rows'
  <1> DEFINE Gone == {job[i].lease : i \in X} \ {0}
  <1>1. /\ leases \in Seq(Leases) /\ leases' \in Seq(Leases)
        /\ Len(leases') = Len(leases)
        /\ \A n \in 1 .. Len(leases) :
              /\ leases'[n].job = leases[n].job
              /\ leases'[n].attempt = leases[n].attempt
              /\ leases'[n].released = IF n \in Gone THEN reason ELSE leases[n].released
        /\ reason # None
    BY LeaveFacts DEF Rows, RowTypes
  <1>2. \A i \in Jobs :
           /\ job'[i] \in [status : JobStatus, attempts : 0 .. MaxAttempts, lease : Tokens]
           /\ job'[i].attempts = job[i].attempts
           /\ job'[i].status = IF i \in X THEN status[i] ELSE job[i].status
           /\ job'[i].lease = IF i \in X THEN 0 ELSE job[i].lease
           /\ i \notin X => job'[i] = job[i]
    BY LeaveFacts
  <1>3. Tokens' = Tokens
    BY <1>1 DEF Tokens
  <1>4. RowTypes'
    <2>1. job' = [i \in Jobs |-> job'[i]]
      BY LeaveFacts
    <2> QED
      BY <2>1, <1>1, <1>2, <1>3 DEF RowTypes
  <1>5. \A j \in Jobs : Counted(j)'
    BY <1>1, <1>2, CountedKept
  <1>6. \A i \in Jobs : Leased(i) /\ job[i].lease \in 0 .. Len(leases)
    BY DEF Rows, RowTypes, Tokens
  <1>7. ASSUME NEW j \in Jobs PROVE Leased(j)'
    <2>1. CASE j \in X
      BY <2>1, <1>2 DEF Leased
    <2>2. CASE j \notin X
      <3>1. job'[j].lease = job[j].lease /\ job'[j].status = job[j].status
        BY <2>2, <1>2
      <3>2. CASE job[j].lease = 0
        BY <3>1, <3>2, <1>6 DEF Leased
      <3>3. CASE job[j].lease # 0
        <4>1. job[j].lease \in 1 .. Len(leases) /\ leases[job[j].lease].job = j
          BY <3>3, <1>6 DEF Leased
        <4>2. ASSUME NEW i \in X, job[i].lease = job[j].lease PROVE FALSE
          BY <4>1, <4>2, <2>2, <3>3, <1>6 DEF Leased
        <4>3. /\ leases'[job[j].lease].job = j
              /\ leases'[job[j].lease].released = None
          BY <4>1, <4>2, <3>3, <1>1, <1>6 DEF Leased
        <4>4. \A n \in 1 .. Len(leases') : leases'[n].job = j => n <= job[j].lease
          BY <3>3, <1>1, <1>6 DEF Leased
        <4> QED
          BY <4>3, <4>4, <3>1, <1>6 DEF Leased
      <3> QED
        BY <3>2, <3>3
    <2> QED
      BY <2>1, <2>2
  <1>8. ASSUME NEW n \in 1 .. Len(leases) PROVE Owned(n)'
    <2> SUFFICES ASSUME leases'[n].released = None
                 PROVE  job'[leases'[n].job].lease = n
      BY DEF Owned
    <2>1. n \notin Gone /\ leases[n].released = None
      BY <1>1
    <2>2. leases[n] \in Leases
      BY <1>1
    <2>3. job[leases[n].job].lease = n /\ leases[n].job \in Jobs
      BY <2>1, <2>2 DEF Rows, Owned, Leases
    <2>4. leases[n].job \notin X
      BY <2>1, <2>3
    <2> QED
      BY <2>3, <2>4, <1>1, <1>2
  <1> QED
    BY <1>1, <1>4, <1>5, <1>7, <1>8 DEF Rows

\* The number of the next lease is the next attempt.
LEMMA NextLeaseFacts ==
    ASSUME Rows, NEW j \in Jobs
    PROVE  /\ NextLease(j) \in Leases
           /\ NextLease(j).job = j
           /\ NextLease(j).released = None
           /\ NextLease(j).expired = FALSE
           /\ NextLease(j).attempt = job[j].attempts + 1
  <1> DEFINE S == {0} \cup {leases[n].attempt : n \in LeasesOf(j)}
  <1>1. Counted(j) /\ job[j].attempts \in Nat
    BY JobsAssumption DEF Rows, RowTypes
  <1>2. \A n \in LeasesOf(j) : leases[n] \in Leases
    BY DEF Rows, RowTypes, LeasesOf
  <1>3. \A n \in LeasesOf(j) : leases[n].attempt \in Nat
    BY <1>2 DEF Leases
  <1>4. S \in SUBSET Nat
    BY <1>3
  <1>5. job[j].attempts \in S
    BY <1>1 DEF Counted
  <1>6. \A m \in S : m <= job[j].attempts
    BY <1>1 DEF Counted
  <1>7. Max(S) = job[j].attempts
    BY <1>1, <1>4, <1>5, <1>6, MaxFacts
  <1>8. NextLease(j) = [job |-> j, attempt |-> job[j].attempts + 1,
                        expired |-> FALSE, released |-> None]
    BY <1>7 DEF NextLease
  <1> QED
    BY <1>1, <1>8 DEF Leases

\* What a claim does to the leases.
LEMMA ClaimedLeases ==
    ASSUME Rows, NEW w \in Workers, NEW X \in SUBSET Jobs, NEW j \in Jobs,
           ClaimNext(w, X, j)
    PROVE  /\ leases' \in Seq(Leases)
           /\ Len(leases') = Len(leases) + 1
           /\ \A n \in 1 .. Len(leases) :
                 /\ leases'[n].job = leases[n].job
                 /\ leases'[n].attempt = leases[n].attempt
                 /\ leases'[n].expired = leases[n].expired
                 /\ leases'[n].released =
                       IF n \in Superseded(j) THEN "SUPERSEDED"
                       ELSE IF n \in {job[x].lease : x \in X} THEN "EXPIRED"
                       ELSE leases[n].released
           /\ leases'[Len(leases) + 1] = NextLease(j)
  <1> DEFINE Row(m) == CASE m \in Superseded(j) -> [leases[m] EXCEPT !.released = "SUPERSEDED"]
                         [] m \in {job[x].lease : x \in X}
                               -> [leases[m] EXCEPT !.released = "EXPIRED"]
                         [] OTHER -> leases[m]
             released == [m \in 1 .. Len(leases) |-> Row(m)]
  <1>1. leases \in Seq(Leases) /\ Len(leases) \in Nat
    BY DEF Rows, RowTypes
  <1>2. ASSUME NEW n \in Superseded(j) PROVE n \notin {job[x].lease : x \in X}
    <2>1. \A i \in Jobs : Leased(i)
      BY DEF Rows
    <2>2. j \notin X
      BY DEF ClaimNext
    <2>3. job[j].status = "RUNNING" /\ n = job[j].lease
      BY <1>2 DEF Superseded
    <2>4. n # 0 /\ leases[n].job = j
      BY <2>1, <2>3 DEF Leased
    <2>5. ASSUME NEW x \in X, job[x].lease = n PROVE FALSE
      BY <2>1, <2>2, <2>4, <2>5 DEF Leased
    <2> QED
      BY <2>5
  <1>3. ASSUME NEW n \in 1 .. Len(leases)
        PROVE  /\ Row(n) \in Leases
               /\ Row(n).job = leases[n].job
               /\ Row(n).attempt = leases[n].attempt
               /\ Row(n).expired = leases[n].expired
               /\ Row(n).released =
                       IF n \in Superseded(j) THEN "SUPERSEDED"
                       ELSE IF n \in {job[x].lease : x \in X} THEN "EXPIRED"
                       ELSE leases[n].released
    <2>1. leases[n] \in Leases
      BY <1>1
    <2>2. PICK r \in ReleaseReasons \cup {None} :
              /\ Row(n) = [leases[n] EXCEPT !.released = r]
              /\ r = IF n \in Superseded(j) THEN "SUPERSEDED"
                     ELSE IF n \in {job[x].lease : x \in X} THEN "EXPIRED"
                     ELSE leases[n].released
      <3>1. CASE n \in Superseded(j)
        BY <3>1, <1>2 DEF ReleaseReasons
      <3>2. CASE n \notin Superseded(j) /\ n \in {job[x].lease : x \in X}
        BY <3>2 DEF ReleaseReasons
      <3>3. CASE n \notin Superseded(j) /\ n \notin {job[x].lease : x \in X}
        <4>1. Row(n) = leases[n]
          BY <3>3
        <4>2. leases[n] = [leases[n] EXCEPT !.released = leases[n].released]
              /\ leases[n].released \in ReleaseReasons \cup {None}
          BY <2>1 DEF Leases
        <4> QED
          BY <4>1, <4>2, <3>3
      <3> QED
        BY <3>1, <3>2, <3>3
    <2> HIDE DEF Row
    <2> QED
      BY <2>1, <2>2 DEF Leases
  <1>4. leases' = Append(released, NextLease(j))
    BY DEF ClaimNext
  <1> HIDE DEF Row
  <1>5. /\ released \in Seq(Leases) /\ Len(released) = Len(leases)
        /\ \A n \in 1 .. Len(leases) : released[n] = Row(n)
    BY <1>1, <1>3
  <1>6. NextLease(j) \in Leases
    BY NextLeaseFacts
  <1> HIDE DEF released
  <1>7. /\ leases' \in Seq(Leases)
        /\ Len(leases') = Len(leases) + 1
        /\ \A n \in 1 .. Len(leases) : leases'[n] = Row(n)
        /\ leases'[Len(leases) + 1] = NextLease(j)
    BY <1>1, <1>4, <1>5, <1>6
  <1> QED
    BY <1>3, <1>7

\* What a claim does to the jobs.
LEMMA ClaimedJobs ==
    ASSUME Rows, NEW w \in Workers, NEW X \in SUBSET Jobs, NEW j \in Jobs,
           ClaimNext(w, X, j)
    PROVE  /\ j \notin X
           /\ job' = [i \in Jobs |-> job'[i]]
           /\ \A i \in Jobs : job'[i] \in [status : JobStatus, attempts : 0 .. MaxAttempts,
                                          lease : 0 .. Len(leases) + 1]
           /\ \A i \in X : /\ job'[i].attempts = job[i].attempts
                           /\ job'[i].status = "FAILED"
                           /\ job'[i].lease = 0
           /\ job'[j].attempts = job[j].attempts + 1
           /\ job'[j].status = "RUNNING"
           /\ job'[j].lease = Len(leases) + 1
           /\ \A i \in Jobs : i \notin X /\ i # j => job'[i] = job[i]
  <1> DEFINE L == Len(leases)
  <1>1. L \in Nat
    BY DEF Rows, RowTypes
  <1>2. j \notin X /\ job[j].attempts + 1 \in 0 .. MaxAttempts
    BY JobsAssumption DEF ClaimNext, Exhausted, Rows, RowTypes
  <1>3. job' = [i \in Jobs |-> job'[i]]
    BY DEF ClaimNext
  <1>4. ASSUME NEW i \in Jobs
        PROVE  /\ job'[i] \in [status : JobStatus, attempts : 0 .. MaxAttempts,
                               lease : 0 .. L + 1]
               /\ job'[i].attempts = IF i = j THEN job[i].attempts + 1 ELSE job[i].attempts
               /\ job'[i].status = IF i \in X THEN "FAILED" ELSE IF i = j THEN "RUNNING"
                                   ELSE job[i].status
               /\ job'[i].lease = IF i \in X THEN 0 ELSE IF i = j THEN L + 1 ELSE job[i].lease
               /\ i \notin X /\ i # j => job'[i] = job[i]
    <2>1. job[i] \in [status : JobStatus, attempts : 0 .. MaxAttempts, lease : 0 .. L]
      BY DEF Rows, RowTypes, Tokens
    <2>2. CASE i \in X
      <3>1. job'[i] = [job[i] EXCEPT !.status = "FAILED", !.lease = 0]
        BY <2>2 DEF ClaimNext, Left
      <3>2. i # j /\ 0 \in 0 .. L + 1 /\ "FAILED" \in JobStatus
        BY <2>2, <1>1, <1>2 DEF JobStatus, FinalStatus
      <3> QED
        BY <3>1, <3>2, <2>1, <2>2
    <2>3. CASE i = j
      <3>1. job'[i] = [status |-> "RUNNING", attempts |-> job[j].attempts + 1, lease |-> L + 1]
        BY <2>3, <1>2 DEF ClaimNext
      <3> QED
        BY <3>1, <2>3, <1>1, <1>2 DEF JobStatus
    <2>4. CASE i \notin X /\ i # j
      <3>1. job'[i] = job[i]
        BY <2>4 DEF ClaimNext
      <3> QED
        BY <3>1, <2>1, <2>4, <1>1
    <2> QED
      BY <2>2, <2>3, <2>4
  <1> QED
    BY <1>2, <1>3, <1>4

\* A claim keeps the rows in order.
LEMMA ClaimKeepsRows ==
    ASSUME Rows, NEW w \in Workers, NEW X \in SUBSET Jobs, NEW j \in Jobs,
           ClaimNext(w, X, j)
    PROVE  Rows'
  <1> DEFINE L == Len(leases)
             Gone == {job[x].lease : x \in X}
  <1>1. /\ leases' \in Seq(Leases)
        /\ Len(leases') = L + 1
        /\ \A n \in 1 .. L :
              /\ leases'[n].job = leases[n].job
              /\ leases'[n].attempt = leases[n].attempt
              /\ leases'[n].expired = leases[n].expired
              /\ leases'[n].released = IF n \in Superseded(j) THEN "SUPERSEDED"
                                       ELSE IF n \in Gone THEN "EXPIRED"
                                       ELSE leases[n].released
        /\ leases'[L + 1] = NextLease(j)
    BY ClaimedLeases
  <1>2. /\ leases'[L + 1].job = j
        /\ leases'[L + 1].released = None
        /\ leases'[L + 1].attempt = job[j].attempts + 1
    BY <1>1, NextLeaseFacts
  <1>3. /\ L \in Nat /\ Tokens = 0 .. L /\ Tokens' = 0 .. L + 1
        /\ \A n \in 1 .. L : leases[n] \in Leases
    BY <1>1 DEF Rows, RowTypes, Tokens
  <1>4. j \notin X /\ job' = [i \in Jobs |-> job'[i]]
    BY ClaimedJobs
  <1>4a. \A i \in Jobs : job'[i] \in [status : JobStatus, attempts : 0 .. MaxAttempts,
                                    lease : 0 .. L + 1]
    BY ClaimedJobs
  <1>4b. /\ \A i \in X : /\ job'[i].attempts = job[i].attempts
                         /\ job'[i].status = "FAILED"
                         /\ job'[i].lease = 0
    BY ClaimedJobs
  <1>4c. /\ job'[j].attempts = job[j].attempts + 1
        /\ job'[j].status = "RUNNING"
        /\ job'[j].lease = L + 1
    BY ClaimedJobs
  <1>4d. \A i \in Jobs : i \notin X /\ i # j => job'[i] = job[i]
    BY DEF ClaimNext
  <1>5. RowTypes'
    BY <1>1, <1>3, <1>4, <1>4a, <1>4b, <1>4c, <1>4d DEF RowTypes
  <1>6. \A i \in Jobs : Leased(i) /\ Counted(i) /\ job[i].lease \in 0 .. L
    BY <1>3 DEF Rows, RowTypes
  <1>7. "SUPERSEDED" # None /\ "EXPIRED" # None
    BY NullAssumption DEF ReleaseReasons
  <1>8. ASSUME NEW i \in Jobs PROVE Leased(i)'
    <2>1. CASE i \in X
      BY <2>1, <1>4, <1>4a, <1>4b, <1>4c, <1>4d DEF Leased
    <2>2. CASE i = j
      <3>1. job'[i].status = "RUNNING" /\ job'[i].lease = L + 1
        BY <2>2, <1>4, <1>4a, <1>4b, <1>4c, <1>4d
      <3> QED
        BY <3>1, <2>2, <1>1, <1>2, <1>3 DEF Leased
    <2>3. CASE i \notin X /\ i # j
      <3>1. job'[i].status = job[i].status /\ job'[i].lease = job[i].lease
        BY <2>3, <1>4, <1>4a, <1>4b, <1>4c, <1>4d
      <3>2. CASE job[i].lease = 0
        BY <3>1, <3>2, <1>6 DEF Leased
      <3>3. CASE job[i].lease # 0
        <4>1. job[i].lease \in 1 .. L /\ leases[job[i].lease].job = i
          BY <3>3, <1>3, <1>6 DEF Leased
        <4>2. job[i].lease \notin Superseded(j)
          BY <4>1, <2>3, <3>3, <1>6 DEF Superseded, Leased
        <4>3. ASSUME NEW x \in X, job[x].lease = job[i].lease PROVE FALSE
          BY <4>1, <4>3, <2>3, <3>3, <1>6 DEF Leased
        <4>4. leases'[job[i].lease].job = i /\ leases'[job[i].lease].released = None
          BY <4>1, <4>2, <4>3, <3>3, <1>1, <1>6 DEF Leased
        <4>5. \A n \in 1 .. L + 1 : leases'[n].job = i => n <= job[i].lease
          BY <3>3, <2>3, <1>1, <1>2, <1>3, <1>6 DEF Leased
        <4> QED
          BY <4>4, <4>5, <3>1, <1>1, <1>6 DEF Leased
      <3> QED
        BY <3>2, <3>3
    <2> QED
      BY <2>1, <2>2, <2>3
  <1>9. ASSUME NEW n \in 1 .. L + 1 PROVE Owned(n)'
    <2>1. CASE n = L + 1
      BY <2>1, <1>2, <1>4, <1>4a, <1>4b, <1>4c, <1>4d DEF Owned
    <2>2. CASE n \in 1 .. L
      <3> SUFFICES ASSUME leases'[n].released = None
                   PROVE  job'[leases'[n].job].lease = n
        BY DEF Owned
      <3>1. n \notin Superseded(j) /\ n \notin Gone /\ leases[n].released = None
        BY <2>2, <1>1, <1>7
      <3>2. job[leases[n].job].lease = n /\ leases[n].job \in Jobs
        BY <2>2, <3>1, <1>3 DEF Rows, Owned, Leases
      <3>3. leases[n].job \notin X
        BY <3>1, <3>2
      <3>4. leases[n].job # j
        BY <3>1, <3>2, <2>2, <1>6 DEF Superseded, Leased
      <3> QED
        BY <3>2, <3>3, <3>4, <2>2, <1>1, <1>4, <1>4a, <1>4b, <1>4c, <1>4d
    <2> QED
      BY <2>1, <2>2, <1>3
  <1>10. ASSUME NEW i \in Jobs PROVE Counted(i)'
    <2>1. LeasesOf(i) \subseteq 1 .. L /\ IsFiniteSet(LeasesOf(i))
          /\ Cardinality(LeasesOf(i)) \in Nat
      BY LeasesOfFinite DEF Rows, RowTypes
    <2>2. Counted(i)
      BY <1>6
    <2>3. CASE i # j
      <3>1. LeasesOf(i)' = LeasesOf(i)
        BY <2>3, <1>1, <1>2, <1>3 DEF LeasesOf
      <3>2. job'[i].attempts = job[i].attempts
        BY <2>3, <1>4, <1>4a, <1>4b, <1>4c, <1>4d
      <3> QED
        BY <3>1, <3>2, <2>1, <2>2, <1>1 DEF Counted
    <2>4. CASE i = j
      <3>1. LeasesOf(j)' = LeasesOf(j) \cup {L + 1}
        BY <1>1, <1>2, <1>3 DEF LeasesOf
      <3>2. job'[j].attempts = job[j].attempts + 1 /\ job[j].attempts \in Nat
        BY <1>4, <1>4a, <1>4b, <1>4c, <1>4d, JobsAssumption DEF Rows, RowTypes
      <3>3. Cardinality(LeasesOf(j)') = Cardinality(LeasesOf(j)) + 1
        <4>1. IsFiniteSet(LeasesOf(j)) /\ L + 1 \notin LeasesOf(j)
          BY <2>1, <2>4, <1>3
        <4>2. Cardinality(LeasesOf(j) \cup {L + 1}) = Cardinality(LeasesOf(j)) + 1
          BY <4>1, FS_AddElement
        <4> QED
          BY <4>2, <3>1
      <3>4. \A n \in LeasesOf(j) : /\ n \in 1 .. L
                                   /\ leases'[n].attempt = leases[n].attempt
                                   /\ leases[n].attempt <= job[j].attempts
                                   /\ leases[n].attempt \in Nat
        BY <2>1, <2>2, <2>4, <1>1, <1>3 DEF Counted, Leases
      <3>5. \A n, m \in LeasesOf(j)' : n < m => leases'[n].attempt < leases'[m].attempt
        BY <3>1, <3>2, <3>4, <2>2, <2>4, <1>2, <1>3 DEF Counted
      <3>6. \A n \in LeasesOf(j)' : leases'[n].attempt <= job'[j].attempts
        BY <3>1, <3>2, <3>4, <1>2
      <3>7. \E n \in LeasesOf(j)' : leases'[n].attempt = job'[j].attempts
        BY <3>1, <3>2, <1>2
      <3>8. job'[j].attempts = Cardinality(LeasesOf(j)')
        BY <3>2, <3>3, <2>2, <2>4 DEF Counted
      <3> QED
        BY <3>5, <3>6, <3>7, <3>8, <2>4 DEF Counted
    <2> QED
      BY <2>3, <2>4
  <1> QED
    BY <1>1, <1>5, <1>8, <1>9, <1>10 DEF Rows

\* The clock changes nothing but the flag of one lease.
LEMMA ExpireFacts ==
    ASSUME Rows, NEW n \in 1 .. Len(leases), Expire(n)
    PROVE  /\ leases' \in Seq(Leases)
           /\ Len(leases') = Len(leases)
           /\ job' = job
           /\ \A m \in 1 .. Len(leases) :
                 /\ leases'[m].job = leases[m].job
                 /\ leases'[m].attempt = leases[m].attempt
                 /\ leases'[m].released = leases[m].released
                 /\ leases[m].expired => leases'[m].expired
  <1>1. leases \in Seq(Leases)
    BY DEF Rows, RowTypes
  <1>2. \A m \in 1 .. Len(leases) : leases[m] \in Leases
    BY <1>1
  <1>3. leases' = [leases EXCEPT ![n] = [leases[n] EXCEPT !.expired = TRUE]]
    BY DEF Expire
  <1>4. /\ [leases[n] EXCEPT !.expired = TRUE] \in Leases
        /\ [leases[n] EXCEPT !.expired = TRUE].job = leases[n].job
        /\ [leases[n] EXCEPT !.expired = TRUE].attempt = leases[n].attempt
        /\ [leases[n] EXCEPT !.expired = TRUE].released = leases[n].released
        /\ [leases[n] EXCEPT !.expired = TRUE].expired = TRUE
    BY <1>2 DEF Leases
  <1>5. /\ leases' \in Seq(Leases)
        /\ Len(leases') = Len(leases)
        /\ \A m \in 1 .. Len(leases) :
              leases'[m] = IF m = n THEN [leases[n] EXCEPT !.expired = TRUE] ELSE leases[m]
    BY <1>1, <1>3, <1>4
  <1> QED
    BY <1>4, <1>5 DEF Expire

LEMMA ExpireKeepsRows ==
    ASSUME Rows, NEW n \in 1 .. Len(leases), Expire(n)
    PROVE  Rows'
  <1>1. /\ leases' \in Seq(Leases)
        /\ Len(leases') = Len(leases)
        /\ job' = job
        /\ \A m \in 1 .. Len(leases) :
              /\ leases'[m].job = leases[m].job
              /\ leases'[m].attempt = leases[m].attempt
              /\ leases'[m].released = leases[m].released
              /\ leases[m].expired => leases'[m].expired
    BY ExpireFacts
  <1>2. RowTypes'
    BY <1>1 DEF Rows, RowTypes, Tokens
  <1>3. \A j \in Jobs : Counted(j)'
    BY <1>1, CountedKept
  <1>4. ASSUME NEW j \in Jobs PROVE Leased(j)'
    <2>1. Leased(j) /\ job[j].lease \in 0 .. Len(leases)
      BY DEF Rows, RowTypes, Tokens
    <2> QED
      BY <2>1, <1>1 DEF Leased
  <1>5. \A m \in 1 .. Len(leases) : Owned(m)'
    BY <1>1 DEF Rows, Owned
  <1> QED
    BY <1>1, <1>2, <1>3, <1>4, <1>5 DEF Rows

\* Scheduling adds a row to the queue.
LEMMA ScheduleFacts ==
    ASSUME Rows, NEW j \in Jobs, Schedule(j)
    PROVE  /\ leases' = leases
           /\ job' = [i \in Jobs |-> job'[i]]
           /\ job[j].status = "ABSENT" /\ job'[j].status = "QUEUED"
           /\ \A i \in Jobs :
                 /\ job'[i] \in [status : JobStatus, attempts : 0 .. MaxAttempts, lease : Tokens]
                 /\ job'[i].attempts = job[i].attempts
                 /\ job'[i].lease = job[i].lease
                 /\ i # j => job'[i] = job[i]
  <1>1. job \in [Jobs -> [status : JobStatus, attempts : 0 .. MaxAttempts, lease : Tokens]]
    BY DEF Rows, RowTypes
  <1>2. job' = [job EXCEPT ![j] = [job[j] EXCEPT !.status = "QUEUED"]]
    BY DEF Schedule
  <1>3. job' = [i \in Jobs |-> job'[i]]
    BY <1>1, <1>2
  <1>4. ASSUME NEW i \in Jobs
        PROVE  /\ job'[i] \in [status : JobStatus, attempts : 0 .. MaxAttempts, lease : Tokens]
               /\ job'[i].attempts = job[i].attempts
               /\ job'[i].lease = job[i].lease
               /\ i # j => job'[i] = job[i]
               /\ i = j => job'[i].status = "QUEUED"
    <2>1. job'[i] = IF i = j THEN [job[i] EXCEPT !.status = "QUEUED"] ELSE job[i]
      BY <1>1, <1>2
    <2>2. job[i] \in [status : JobStatus, attempts : 0 .. MaxAttempts, lease : Tokens]
      BY <1>1
    <2> QED
      BY <2>1, <2>2 DEF JobStatus
  <1> QED
    BY <1>3, <1>4 DEF Schedule

LEMMA ScheduleKeepsRows ==
    ASSUME Rows, NEW j \in Jobs, Schedule(j)
    PROVE  Rows'
  <1>1. /\ leases' = leases
        /\ job' = [i \in Jobs |-> job'[i]]
        /\ job[j].status = "ABSENT" /\ job'[j].status = "QUEUED"
        /\ \A i \in Jobs :
              /\ job'[i] \in [status : JobStatus, attempts : 0 .. MaxAttempts, lease : Tokens]
              /\ job'[i].attempts = job[i].attempts
              /\ job'[i].lease = job[i].lease
              /\ i # j => job'[i] = job[i]
    BY ScheduleFacts
  <1>2. RowTypes'
    BY <1>1 DEF Rows, RowTypes, Tokens
  <1>3. \A i \in Jobs : Counted(i)'
    BY <1>1, CountedKept
  <1>4. \A i \in Jobs : Leased(i)'
    BY <1>1 DEF Rows, Leased
  <1>5. \A m \in 1 .. Len(leases) : Owned(m)'
    <2>1. \A m \in 1 .. Len(leases) : leases[m] \in Leases
      BY DEF Rows, RowTypes
    <2> QED
      BY <1>1, <2>1 DEF Rows, Owned, Leases
  <1> QED
    BY <1>1, <1>2, <1>3, <1>4, <1>5 DEF Rows

-----------------------------------------------------------------------------
(* What a step does to the rows *)

Working == {"handling", "calling", "looking", "observed"}

Busy(w) == worker[w].stage \in Working

\* A busy worker was granted a lease of the job it works on; it holds no other answer
\* than its provider's.
Granted(w) ==
    Busy(w) =>
        /\ worker[w].job \in Jobs
        /\ worker[w].token \in 1 .. Len(leases)
        /\ leases[worker[w].token].job = worker[w].job
        /\ worker[w].stage # "handling" => worker[w].key \in Keys
        /\ worker[w].stage = "observed" => worker[w].result \in Outcomes

\* Some jobs leave, for a status in S.
Leaving(S) ==
    \E X \in SUBSET Jobs, status \in [Jobs -> S], reason \in ReleaseReasons :
        Leave(X, status, reason)

Unsuccessful == {"QUEUED", "FAILED", "CANCELLED"}

\* One job ends its attempt under the current lease of a worker.
LEMMA OneLeaves ==
    ASSUME Rows, NEW w \in Workers, Granted(w), Busy(w), Current(w),
           NEW S, NEW s \in S, NEW reason \in ReleaseReasons,
           <<s, reason, FALSE>> \in Departures,
           leases' = Release({worker[w].token}, reason),
           job' = [job EXCEPT ![worker[w].job] = Left(worker[w].job, s)]
    PROVE  Leaving(S)
  <1> DEFINE j == worker[w].job
             status == [i \in Jobs |-> s]
  <1>1. j \in Jobs /\ worker[w].token = job[j].lease /\ worker[w].token # 0
    BY DEF Granted, Current
  <1>2. job[j].status = "RUNNING" /\ leases[job[j].lease].expired = FALSE
    <2>1. leases[worker[w].token] \in Leases
      BY DEF Granted, Rows, RowTypes
    <2> QED
      BY <1>1, <2>1 DEF Current, Leases
  <1>3. {job[i].lease : i \in {j}} \ {0} = {worker[w].token}
    BY <1>1
  <1>4. job' = [i \in Jobs |-> IF i \in {j} THEN Left(i, status[i]) ELSE job[i]]
    <2>1. job = [i \in Jobs |-> job[i]]
      BY DEF Rows, RowTypes
    <2> QED
      BY <1>1, <2>1
  <1>5. Leave({j}, status, reason)
    BY <1>1, <1>2, <1>3, <1>4 DEF Leave
  <1>6. status \in [Jobs -> S] /\ {j} \in SUBSET Jobs
    BY <1>1
  <1> HIDE DEF status
  <1> QED
    BY <1>5, <1>6 DEF Leaving

\* Jobs whose leases ran out leave them, each as its attempts allow.
LEMMA ExpiredLeave ==
    ASSUME Rows, NEW X \in SUBSET {j \in Jobs : Expired(j)},
           NEW status \in [Jobs -> {"QUEUED", "FAILED"}],
           leases' = Release({job[i].lease : i \in X}, "EXPIRED"),
           job' = [i \in Jobs |-> IF i \in X THEN Left(i, status[i]) ELSE job[i]]
    PROVE  Leaving(Unsuccessful)
  <1>1. \A i \in X : /\ job[i].status = "RUNNING" /\ job[i].lease # 0
                     /\ leases[job[i].lease].expired = TRUE
    <2> SUFFICES ASSUME NEW i \in X
                 PROVE  /\ job[i].status = "RUNNING" /\ job[i].lease # 0
                        /\ leases[job[i].lease].expired = TRUE
      OBVIOUS
    <2>1. job[i].status = "RUNNING" /\ leases[job[i].lease].expired
      BY DEF Expired
    <2>2. job[i].lease \in 1 .. Len(leases) /\ leases[job[i].lease] \in Leases
      BY <2>1, RunningWasClaimed
    <2> QED
      BY <2>1, <2>2 DEF Leases
  <1>2. {job[i].lease : i \in X} \ {0} = {job[i].lease : i \in X}
    BY <1>1
  <1>3. status \in [Jobs -> Unsuccessful]
    BY DEF Unsuccessful
  <1>4. \A i \in X : <<status[i], "EXPIRED", leases[job[i].lease].expired>> \in Departures
    BY <1>1 DEF Departures
  <1>5. Leave(X, status, "EXPIRED")
    BY <1>1, <1>2, <1>4 DEF Leave
  <1>6. X \in SUBSET Jobs /\ "EXPIRED" \in ReleaseReasons
    BY DEF ReleaseReasons
  <1> QED
    BY <1>3, <1>5, <1>6 DEF Leaving

\* Startup recovery releases what ran out.
LEMMA RecoveryLeaves ==
    ASSUME Rows, RecoverExpired
    PROVE  Leaving(Unsuccessful)
  <1> DEFINE X == {j \in Jobs : Expired(j)}
             status == [i \in Jobs |-> IF Exhausted(i) THEN "FAILED" ELSE "QUEUED"]
  <1>1. status \in [Jobs -> {"QUEUED", "FAILED"}]
    OBVIOUS
  <1>2. leases' = Release({job[i].lease : i \in X}, "EXPIRED")
    BY DEF RecoverExpired
  <1>3. job' = [i \in Jobs |-> IF i \in X THEN Left(i, status[i]) ELSE job[i]]
    BY DEF RecoverExpired
  <1> HIDE DEF status
  <1> QED
    BY <1>1, <1>2, <1>3, ExpiredLeave

\* A poll that finds only exhausted jobs fails them.
LEMMA ExhaustedLeave ==
    ASSUME Rows, NEW w \in Workers, ClaimNothing(w)
    PROVE  Leaving(Unsuccessful)
  <1> DEFINE X == {x \in Jobs : Claimable(x) /\ job[x].status = "RUNNING" /\ Exhausted(x)}
             status == [i \in Jobs |-> "FAILED"]
  <1>1. X \in SUBSET {j \in Jobs : Expired(j)}
    BY DEF Claimable
  <1>2. status \in [Jobs -> {"QUEUED", "FAILED"}]
    OBVIOUS
  <1>3. leases' = Release({job[i].lease : i \in X}, "EXPIRED")
    BY DEF ClaimNothing
  <1>4. job' = [i \in Jobs |-> IF i \in X THEN Left(i, status[i]) ELSE job[i]]
    BY DEF ClaimNothing
  <1> HIDE DEF X, status
  <1> QED
    BY <1>1, <1>2, <1>3, <1>4, ExpiredLeave

\* A fence takes every open job of its task.
LEMMA FenceLeaves ==
    ASSUME Rows, NEW t \in Tasks, Fence(t)
    PROVE  Leaving(Unsuccessful)
  <1> DEFINE X == {j \in JobsOf(t) : job[j].status \in {"QUEUED", "RUNNING"}}
             status == [i \in Jobs |-> "CANCELLED"]
  <1>1. X \in SUBSET Jobs /\ "CANCELLED" \in ReleaseReasons
    BY DEF ReleaseReasons, JobsOf
  <1>2. \A i \in X : job[i].status = "RUNNING" =>
           <<status[i], "CANCELLED", leases[job[i].lease].expired>> \in Departures
    <2> SUFFICES ASSUME NEW i \in X, job[i].status = "RUNNING"
        PROVE <<status[i], "CANCELLED", leases[job[i].lease].expired>> \in Departures
      OBVIOUS
    <2>1. leases[job[i].lease] \in Leases
      BY <1>1, RunningWasClaimed
    <2>2. leases[job[i].lease].expired \in BOOLEAN
      BY <2>1 DEF Leases
    <2> QED
      BY <1>1, <2>2 DEF Departures
  <1>3. status \in [Jobs -> Unsuccessful]
    BY DEF Unsuccessful
  <1>4. Leave(X, status, "CANCELLED")
    BY <1>1, <1>2 DEF Leave, Fence
  <1> HIDE DEF X, status
  <1> QED
    BY <1>1, <1>3, <1>4 DEF Leaving

\* The database refuses every pause: a running job was attempted, and a lease is released
\* for a retry only with the attempt counted.
LEMMA PauseIsRefused ==
    ASSUME Rows, NEW w \in Workers, Granted(w), PauseAttempt(w)
    PROVE  UNCHANGED <<job, leases>> /\ worker' = [worker EXCEPT ![w] = Down]
  <1> DEFINE j == worker[w].job
             paused == [Left(j, "QUEUED") EXCEPT !.attempts = IF @ = 0 THEN 0 ELSE @ - 1]
  <1>1. j \in Jobs /\ job[j].status = "RUNNING"
    BY DEF PauseAttempt, Current, Granted, Busy, Working
  <1>2. job[j].attempts \in 1 .. MaxAttempts
    BY <1>1, RunningWasClaimed
  <1>3. job[j] \in [status : JobStatus, attempts : 0 .. MaxAttempts, lease : Tokens]
    BY <1>1 DEF Rows, RowTypes
  <1>4. paused.status = "QUEUED" /\ paused.attempts = job[j].attempts - 1
    BY <1>2, <1>3, JobsAssumption DEF Left
  <1>5. ~JobUpdateAccepted(job[j], paused, Release({worker[w].token}, "RETRY"))
    <2>1. paused.attempts # job[j].attempts /\ paused.status # "RUNNING"
      BY <1>2, <1>4, JobsAssumption
    <2>2. job[j].status # "QUEUED"
      BY <1>1
    <2> HIDE DEF paused, j
    <2> QED
      BY <2>1, <2>2, Zenon DEF JobUpdateAccepted
  <1> QED
    BY <1>5 DEF PauseAttempt

\* The five ways in which a step can touch the rows; only a completion succeeds.
RowStep ==
    \/ UNCHANGED <<job, leases>>
    \/ \E j \in Jobs : Schedule(j)
    \/ Leaving(Unsuccessful)
    \/ \E n \in 1 .. Len(leases) : Expire(n)
    \/ \E w \in Workers, X \in SUBSET Jobs, j \in Jobs : ClaimNext(w, X, j)

Completion ==
    /\ Leaving({"SUCCEEDED"})
    /\ \E w \in Workers, final \in BOOLEAN : Complete(w, final)

LEMMA RowSteps ==
    ASSUME Rows, \A w \in Workers : Granted(w), [Next]_vars
    PROVE  RowStep \/ Completion
  <1> USE DEF RowStep
  <1>1. CASE UNCHANGED vars
    BY <1>1 DEF vars
  <1>2. CASE \E j \in Jobs : Schedule(j)
    BY <1>2
  <1>3. CASE \E n \in 1 .. Len(leases) : Expire(n)
    BY <1>3
  <1>4. CASE ApiRestart
    BY <1>4, RecoveryLeaves DEF ApiRestart
  <1>5. ASSUME NEW t \in Tasks, TaskStep(t) PROVE RowStep
    BY <1>5, FenceLeaves DEF TaskStep, Hold, Resume, SteerScope, Cancel, End, FenceEnded
  <1>6. ASSUME NEW w \in Workers, Claim(w) PROVE RowStep
    BY <1>6, ExhaustedLeave DEF Claim
  <1>7. ASSUME NEW w \in Workers, Crash(w) \/ Restart(w) PROVE RowStep
    BY <1>7, RecoveryLeaves DEF Crash, Restart, db
  <1>8. ASSUME NEW w \in Workers, NEW final \in BOOLEAN, Complete(w, final)
        PROVE  Completion
    <2>1. Granted(w) /\ Busy(w) /\ Current(w)
      BY <1>8 DEF Complete, Busy, Working
    <2>2. /\ leases' = Release({worker[w].token}, "SUCCEEDED")
          /\ job' = [job EXCEPT ![worker[w].job] = Left(worker[w].job, "SUCCEEDED")]
      BY <1>8 DEF Complete
    <2>3. "SUCCEEDED" \in ReleaseReasons /\ <<"SUCCEEDED", "SUCCEEDED", FALSE>> \in Departures
      BY DEF ReleaseReasons, Departures
    <2>4. Leaving({"SUCCEEDED"})
      BY <2>1, <2>2, <2>3, OneLeaves
    <2> QED
      BY <1>8, <2>4 DEF Completion
  <1>9. ASSUME NEW w \in Workers, NEW failure \in Failures, Raise(w, failure)
        PROVE  RowStep
    <2>1. Granted(w) /\ Busy(w) /\ Current(w)
      BY <1>9 DEF Raise, Busy, Working
    <2>2. PICK s \in {"QUEUED", "FAILED"} :
             /\ leases' = Release({worker[w].token}, IF s = "QUEUED" THEN "RETRY" ELSE "FAILED")
             /\ job' = [job EXCEPT ![worker[w].job] = Left(worker[w].job, s)]
      BY <1>9 DEF Raise
    <2>3. /\ s \in Unsuccessful
          /\ <<"QUEUED", "RETRY", FALSE>> \in Departures /\ "RETRY" \in ReleaseReasons
          /\ <<"FAILED", "FAILED", FALSE>> \in Departures /\ "FAILED" \in ReleaseReasons
      BY DEF Unsuccessful, ReleaseReasons, Departures
    <2>4. CASE s = "QUEUED"
      BY <2>1, <2>2, <2>3, <2>4, OneLeaves
    <2>5. CASE s = "FAILED"
      BY <2>1, <2>2, <2>3, <2>5, OneLeaves
    <2> QED
      BY <2>4, <2>5
  <1>10. ASSUME NEW w \in Workers, Handle(w)
         PROVE  RowStep \/ Completion
    <2>1. CASE \E final \in BOOLEAN : Complete(w, final)
      BY <2>1, <1>8
    <2>2. CASE \E failure \in Failures : Raise(w, failure)
      BY <2>2, <1>9
    <2>3. CASE PauseAttempt(w)
      BY <2>3, PauseIsRefused
    <2>4. CASE Checkpoint(w) \/ Register(w) \/ Reconcile(w) \/ Record(w) \/ Ignore(w) \/ Lose(w)
      BY <2>4 DEF Checkpoint, Register, Reconcile, Record, Ignore, Lose
    <2>5. CASE \/ \E k \in Keys : Prepare(w, k)
               \/ \E outcome \in Outcomes, answered \in BOOLEAN : Execute(w, outcome, answered)
      BY <2>5 DEF Prepare, Execute
    <2> QED
      BY <1>10, <2>1, <2>2, <2>3, <2>4, <2>5 DEF Handle
  <1> QED
    BY <1>1, <1>2, <1>3, <1>4, <1>5, <1>6, <1>7, <1>10 DEF Next

\* What every step does to the rows: leases are added, released and run out, never taken
\* back, and a job that ended stays as it is.
RowsGrow ==
    /\ Rows'
    /\ Len(leases) <= Len(leases')
    /\ \A n \in 1 .. Len(leases) :
          /\ leases'[n].job = leases[n].job
          /\ leases'[n].released = None => leases[n].released = None
          /\ leases[n].expired => leases'[n].expired
    /\ \A j \in Jobs : job[j].status \in FinalStatus => job'[j] = job[j]

LEMMA LeavingGrows ==
    ASSUME Rows, NEW S \in SUBSET (JobStatus \ {"RUNNING"}), Leaving(S)
    PROVE  /\ RowsGrow
           /\ Len(leases') = Len(leases)
           /\ \A j \in Jobs : job'[j] = job[j] \/ job'[j].status \in S
  <1>1. PICK X \in SUBSET Jobs, status \in [Jobs -> S], reason \in ReleaseReasons :
           Leave(X, status, reason)
    BY DEF Leaving
  <1>2. status \in [Jobs -> JobStatus \ {"RUNNING"}]
    OBVIOUS
  <1>3. /\ leases' \in Seq(Leases)
        /\ Len(leases') = Len(leases)
        /\ \A n \in 1 .. Len(leases) :
              /\ leases'[n].job = leases[n].job
              /\ leases'[n].attempt = leases[n].attempt
              /\ leases'[n].expired = leases[n].expired
              /\ leases'[n].released = IF n \in {job[i].lease : i \in X} \ {0}
                                       THEN reason ELSE leases[n].released
        /\ reason # None
    BY <1>1, <1>2, LeaveFacts
  <1>4. \A i \in Jobs :
           /\ job'[i] \in [status : JobStatus, attempts : 0 .. MaxAttempts, lease : Tokens]
           /\ job'[i].attempts = job[i].attempts
           /\ job'[i].status = IF i \in X THEN status[i] ELSE job[i].status
           /\ job'[i].lease = IF i \in X THEN 0 ELSE job[i].lease
           /\ i \notin X => job'[i] = job[i]
    BY <1>1, <1>2, LeaveFacts
  <1>5. Rows'
    BY <1>1, <1>2, LeaveKeepsRows
  <1>6. \A i \in X : job[i].status \notin FinalStatus
    BY <1>1 DEF Leave, FinalStatus
  <1>7. Len(leases) <= Len(leases')
    BY <1>3 DEF Rows, RowTypes
  <1> QED
    BY <1>3, <1>4, <1>5, <1>6, <1>7 DEF RowsGrow

LEMMA ClaimGrows ==
    ASSUME Rows, NEW w \in Workers, NEW X \in SUBSET Jobs, NEW j \in Jobs,
           ClaimNext(w, X, j)
    PROVE  RowsGrow
  <1>1. Rows'
    BY ClaimKeepsRows
  <1>2. Len(leases) \in Nat
    BY DEF Rows, RowTypes
  <1>3. /\ leases' \in Seq(Leases)
        /\ Len(leases') = Len(leases) + 1
        /\ \A n \in 1 .. Len(leases) :
              /\ leases'[n].job = leases[n].job
              /\ leases'[n].attempt = leases[n].attempt
              /\ leases'[n].expired = leases[n].expired
              /\ leases'[n].released = IF n \in Superseded(j) THEN "SUPERSEDED"
                                       ELSE IF n \in {job[x].lease : x \in X} THEN "EXPIRED"
                                       ELSE leases[n].released
        /\ leases'[Len(leases) + 1] = NextLease(j)
    BY ClaimedLeases
  <1>4. "SUPERSEDED" # None /\ "EXPIRED" # None
    BY NullAssumption DEF ReleaseReasons
  <1>5. \A n \in 1 .. Len(leases) :
           /\ leases'[n].job = leases[n].job
           /\ leases'[n].released = None => leases[n].released = None
           /\ leases[n].expired => leases'[n].expired
    BY <1>3, <1>4
  <1>6. ASSUME NEW i \in Jobs, job[i].status \in FinalStatus PROVE job'[i] = job[i]
    <2>1. i \notin X /\ i # j
      BY <1>6 DEF ClaimNext, Claimable, Expired, FinalStatus
    <2> QED
      BY <2>1 DEF ClaimNext
  <1>7. Len(leases) <= Len(leases')
    BY <1>2, <1>3
  <1> QED
    BY <1>1, <1>5, <1>6, <1>7 DEF RowsGrow

LEMMA StepsGrow ==
    ASSUME Rows, \A w \in Workers : Granted(w), [Next]_vars
    PROVE  RowsGrow
  <1>1. Len(leases) \in Nat
    BY DEF Rows, RowTypes
  <1>2. CASE UNCHANGED <<job, leases>>
    <2>1. job' = job /\ leases' = leases
      BY <1>2
    <2>2. RowTypes'
      BY <2>1 DEF Rows, RowTypes, Tokens
    <2>3. ASSUME NEW j \in Jobs PROVE Leased(j)' /\ Counted(j)'
      <3>1. Leased(j) /\ Counted(j)
        BY DEF Rows
      <3>2. Leased(j)'
        BY <2>1, <3>1 DEF Leased
      <3>3. LeasesOf(j)' = LeasesOf(j)
        BY <2>1 DEF LeasesOf
      <3>4. Counted(j)'
        BY <2>1, <3>1, <3>3 DEF Counted
      <3> QED
        BY <3>2, <3>4
    <2>4. ASSUME NEW n \in 1 .. Len(leases) PROVE Owned(n)'
      BY <2>1 DEF Rows, Owned
    <2>5. Rows'
      BY <2>1, <2>2, <2>3, <2>4 DEF Rows
    <2> QED
      BY <1>1, <2>1, <2>5 DEF RowsGrow
  <1>3. ASSUME NEW j \in Jobs, Schedule(j) PROVE RowsGrow
    <2>1. Rows'
      BY <1>3, ScheduleKeepsRows
    <2>2. leases' = leases
      BY <1>3 DEF Schedule
    <2>3. \A i \in Jobs : job[i].status \in FinalStatus => job'[i] = job[i]
      <3>1. \A i \in Jobs : i # j => job'[i] = job[i]
        BY <1>3 DEF Schedule, Rows, RowTypes
      <3> QED
        BY <1>3, <3>1 DEF Schedule, FinalStatus
    <2> QED
      BY <1>1, <2>1, <2>2, <2>3 DEF RowsGrow
  <1>4. CASE Leaving(Unsuccessful)
    <2>1. Unsuccessful \in SUBSET (JobStatus \ {"RUNNING"})
      BY DEF Unsuccessful, JobStatus, FinalStatus
    <2> QED
      BY <1>4, <2>1, LeavingGrows
  <1>5. ASSUME NEW n \in 1 .. Len(leases), Expire(n) PROVE RowsGrow
    <2>1. Rows'
      BY <1>5, ExpireKeepsRows
    <2>2. /\ leases' \in Seq(Leases)
          /\ Len(leases') = Len(leases)
          /\ job' = job
          /\ \A m \in 1 .. Len(leases) :
                /\ leases'[m].job = leases[m].job
                /\ leases'[m].attempt = leases[m].attempt
                /\ leases'[m].released = leases[m].released
                /\ leases[m].expired => leases'[m].expired
      BY <1>5, ExpireFacts
    <2> QED
      BY <1>1, <2>1, <2>2 DEF RowsGrow
  <1>6. CASE \E w \in Workers, X \in SUBSET Jobs, j \in Jobs : ClaimNext(w, X, j)
    BY <1>6, ClaimGrows
  <1>7. CASE Completion
    <2>1. {"SUCCEEDED"} \in SUBSET (JobStatus \ {"RUNNING"})
      BY DEF JobStatus, FinalStatus
    <2> QED
      BY <1>7, <2>1, LeavingGrows DEF Completion
  <1> QED
    BY <1>2, <1>3, <1>4, <1>5, <1>6, <1>7, RowSteps DEF RowStep

-----------------------------------------------------------------------------
(* What a step does to the workers *)

\* A worker's position in run_once, with tokens from T.
Grants(T) ==
    [stage : Stages, job : Jobs \cup {None}, token : T, version : Nat,
     key : Keys \cup {None}, result : Outcomes \cup {None}]

EffectRows(T) == [status : {"ABSENT", "PENDING"} \cup Outcomes, started : T, completed : T]

Performed == [outcome : Outcomes \cup {None}, calls : Nat]

\* Everything but the rows of jobs and leases has its type, with tokens from T.
WorkTypes(T) ==
    /\ mode \in [Tasks -> Modes]
    /\ checkpoints \in [Jobs -> Seq(T)]
    /\ effects \in [Jobs -> [Keys -> EffectRows(T)]]
    /\ provider \in [Jobs -> [Keys -> Performed]]
    /\ ignored \in [Jobs -> [Keys -> T]]
    /\ worker \in [Workers -> Grants(T)]

\* More tokens do no harm.
LEMMA Widen ==
    ASSUME NEW T, NEW U, T \subseteq U, WorkTypes(T)
    PROVE  WorkTypes(U)
  <1>1. Grants(T) \subseteq Grants(U) /\ EffectRows(T) \subseteq EffectRows(U)
    BY DEF Grants, EffectRows
  <1>2. \A s \in Seq(T) : s \in Seq(U)
    <2> SUFFICES ASSUME NEW s \in Seq(T) PROVE s \in Seq(U)
      OBVIOUS
    <2>1. s \in [1 .. Len(s) -> T] /\ Len(s) \in Nat
      OBVIOUS
    <2>2. s \in [1 .. Len(s) -> U]
      BY <2>1
    <2> QED
      BY <2>1, <2>2
  <1>3. checkpoints \in [Jobs -> Seq(U)]
    BY <1>2 DEF WorkTypes
  <1>4. effects \in [Jobs -> [Keys -> EffectRows(U)]]
    BY <1>1 DEF WorkTypes
  <1>5. ignored \in [Jobs -> [Keys -> U]]
    BY DEF WorkTypes
  <1>6. worker \in [Workers -> Grants(U)]
    BY <1>1 DEF WorkTypes
  <1> QED
    BY <1>3, <1>4, <1>5, <1>6 DEF WorkTypes

\* The worker stops working on a job, whatever it was doing.
Stops(w) == worker' = [worker EXCEPT ![w] = Idle] \/ worker' = [worker EXCEPT ![w] = Down]

\* It goes on under the same grant.
GoesOn(w) ==
    /\ Busy(w)
    /\ \A v \in Workers : v # w => worker'[v] = worker[v]
    /\ worker'[w].stage \in Working
    /\ worker'[w].job = worker[w].job
    /\ worker'[w].token = worker[w].token
    /\ worker'[w].stage # "handling" => worker'[w].key \in Keys
    /\ worker'[w].stage = "observed" => worker'[w].result \in Outcomes

\* A worker that goes on does so by a grant g.
LEMMA GoesOnBy ==
    ASSUME NEW T, worker \in [Workers -> Grants(T)], NEW w \in Workers, Busy(w),
           NEW g \in Grants(T),
           g.stage \in Working, g.job = worker[w].job, g.token = worker[w].token,
           g.stage # "handling" => g.key \in Keys,
           g.stage = "observed" => g.result \in Outcomes,
           worker' = [worker EXCEPT ![w] = g]
    PROVE  GoesOn(w) /\ worker' \in [Workers -> Grants(T)] /\ worker'[w] = g
  <1>1. worker'[w] = g /\ \A v \in Workers : v # w => worker'[v] = worker[v]
    OBVIOUS
  <1> QED
    BY <1>1 DEF GoesOn

\* The actions under which a worker goes on, with the types they keep.
LEMMA HandlingGoesOn ==
    ASSUME NEW T, WorkTypes(T), NEW w \in Workers, Granted(w), worker[w].token \in T, 0 \in T,
           \/ Checkpoint(w)
           \/ \E k \in Keys : Prepare(w, k)
           \/ \E outcome \in Outcomes, answered \in BOOLEAN : Execute(w, outcome, answered)
           \/ Reconcile(w)
           \/ Record(w)
    PROVE  GoesOn(w) /\ WorkTypes(T)'
  <1> DEFINE j == worker[w].job
             k == worker[w].key
  <1>1. worker[w] \in Grants(T) /\ worker \in [Workers -> Grants(T)]
    BY DEF WorkTypes
  <1>2. CASE Checkpoint(w)
    <2>1. PICK g : g = [worker[w] EXCEPT !.version = worker[w].version + 1]
      OBVIOUS
    <2>2. /\ g \in Grants(T) /\ g.stage = worker[w].stage
          /\ g.job = worker[w].job /\ g.token = worker[w].token
      BY <1>1, <2>1 DEF Grants
    <2>3. worker[w].stage = "handling" /\ worker' = [worker EXCEPT ![w] = g]
      BY <1>2, <2>1 DEF Checkpoint
    <2>4. GoesOn(w) /\ worker' \in [Workers -> Grants(T)]
      BY <1>1, <2>2, <2>3, GoesOnBy DEF Busy, Working
    <2>5. j \in Jobs /\ checkpoints[j] \in Seq(T)
      BY <2>3 DEF Granted, Busy, Working, WorkTypes
    <2>6. Append(checkpoints[j], worker[w].token) \in Seq(T)
      BY <2>5
    <2>7. checkpoints' = [checkpoints EXCEPT ![j] = Append(checkpoints[j], worker[w].token)]
          /\ UNCHANGED <<mode, effects, provider, ignored>>
      BY <1>2 DEF Checkpoint
    <2>8. checkpoints' \in [Jobs -> Seq(T)]
      BY <2>5, <2>6, <2>7 DEF WorkTypes
    <2> QED
      BY <2>4, <2>7, <2>8 DEF WorkTypes
  <1>3. ASSUME NEW x \in Keys, Prepare(w, x) PROVE GoesOn(w) /\ WorkTypes(T)'
    <2>1. PICK s \in {"calling", "looking", "handling"} :
             worker' = [worker EXCEPT ![w] = [worker[w] EXCEPT !.stage = s, !.key = x]]
      BY <1>3 DEF Prepare, NextStage
    <2>2. PICK g : g = [worker[w] EXCEPT !.stage = s, !.key = x]
      OBVIOUS
    <2>3. /\ g \in Grants(T) /\ g.stage = s /\ g.key = x
          /\ g.job = worker[w].job /\ g.token = worker[w].token
      BY <1>1, <2>2 DEF Grants, Stages
    <2>4. worker[w].stage = "handling"
      BY <1>3 DEF Prepare
    <2>5. GoesOn(w) /\ worker' \in [Workers -> Grants(T)]
      <3>1. worker' = [worker EXCEPT ![w] = g] /\ Busy(w)
        BY <2>1, <2>2, <2>4 DEF Busy, Working
      <3>2. /\ g.stage \in Working
            /\ g.stage # "handling" => g.key \in Keys
            /\ g.stage = "observed" => g.result \in Outcomes
        BY <2>3 DEF Working
      <3> QED
        BY <1>1, <2>3, <3>1, <3>2, GoesOnBy
    <2>6. j \in Jobs /\ effects[j] \in [Keys -> EffectRows(T)]
      BY <2>4 DEF Granted, Busy, Working, WorkTypes
    <2>7. [status |-> "PENDING", completed |-> 0, started |-> worker[w].token] \in EffectRows(T)
      BY DEF EffectRows
    <2>8. effects' \in [Jobs -> [Keys -> EffectRows(T)]]
      <3>1. PICK e : e = [status |-> "PENDING", completed |-> 0, started |-> worker[w].token]
        OBVIOUS
      <3>2. \/ effects' = [effects EXCEPT ![j] = [effects[j] EXCEPT ![x] = e]]
            \/ effects' = effects
        BY <1>3, <3>1 DEF Prepare
      <3>3. [effects[j] EXCEPT ![x] = e] \in [Keys -> EffectRows(T)]
        BY <2>6, <2>7, <3>1
      <3> QED
        BY <2>6, <3>2, <3>3 DEF WorkTypes
    <2>9. UNCHANGED <<mode, checkpoints, provider, ignored>>
      BY <1>3 DEF Prepare
    <2> QED
      BY <2>5, <2>8, <2>9 DEF WorkTypes
  <1>4. ASSUME NEW r \in Outcomes, NEW answered \in BOOLEAN, Execute(w, r, answered)
        PROVE  GoesOn(w) /\ WorkTypes(T)'
    <2>1. PICK s \in {"observed", "handling"}, a \in Outcomes \cup {None} :
             /\ s = "observed" => a \in Outcomes
             /\ worker' = [worker EXCEPT ![w] = [worker[w] EXCEPT !.stage = s, !.result = a]]
      BY <1>4 DEF Execute
    <2>2. PICK g : g = [worker[w] EXCEPT !.stage = s, !.result = a]
      OBVIOUS
    <2>3. /\ g \in Grants(T) /\ g.stage = s /\ g.key = k /\ g.result = a
          /\ g.job = worker[w].job /\ g.token = worker[w].token
      <3>1. worker[w] \in Grants(T)
        BY <1>1
      <3>2. s \in Stages
        BY DEF Stages
      <3> QED
        BY <2>2, <3>1, <3>2 DEF Grants
    <2>4. worker[w].stage = "calling"
      BY <1>4 DEF Execute
    <2>5. j \in Jobs /\ k \in Keys
      BY <2>4 DEF Granted, Busy, Working
    <2>5a. worker' = [worker EXCEPT ![w] = g] /\ Busy(w) /\ g.stage \in Working
      BY <2>1, <2>2, <2>3, <2>4 DEF Busy, Working
    <2>5b. /\ g.stage # "handling" => g.key \in Keys
           /\ g.stage = "observed" => g.result \in Outcomes
      BY <2>1, <2>3, <2>5
    <2>6. GoesOn(w) /\ worker' \in [Workers -> Grants(T)]
      BY <1>1, <2>3, <2>5a, <2>5b, GoesOnBy
    <2>7. provider[j] \in [Keys -> Performed] /\ provider[j][k] \in Performed
      BY <2>5 DEF WorkTypes
    <2>8. PICK p : p = [outcome |-> r, calls |-> provider[j][k].calls + 1]
      OBVIOUS
    <2>9. p \in Performed
      BY <2>7, <2>8 DEF Performed
    <2>10. provider' = [provider EXCEPT ![j] = [provider[j] EXCEPT ![k] = p]]
           /\ UNCHANGED <<mode, checkpoints, effects, ignored>>
      BY <1>4, <2>8 DEF Execute
    <2>11. provider' \in [Jobs -> [Keys -> Performed]]
      BY <2>5, <2>7, <2>9, <2>10 DEF WorkTypes
    <2> QED
      BY <2>6, <2>10, <2>11 DEF WorkTypes
  <1>5. CASE Reconcile(w)
    <2>1. worker[w].stage = "looking"
      BY <1>5 DEF Reconcile
    <2>2. j \in Jobs /\ k \in Keys /\ provider[j][k] \in Performed
      BY <2>1 DEF Granted, Busy, Working, WorkTypes
    <2>3. PICK a \in Outcomes :
             worker' = [worker EXCEPT ![w] = [worker[w] EXCEPT !.stage = "observed", !.result = a]]
      BY <1>5, <2>2 DEF Reconcile, Performed
    <2>4. PICK g : g = [worker[w] EXCEPT !.stage = "observed", !.result = a]
      OBVIOUS
    <2>5. /\ g \in Grants(T) /\ g.stage = "observed" /\ g.key = k /\ g.result = a
          /\ g.job = worker[w].job /\ g.token = worker[w].token
      <3>1. worker[w] \in Grants(T)
        BY <1>1
      <3>2. "observed" \in Stages
        BY DEF Stages
      <3> QED
        BY <2>4, <3>1, <3>2 DEF Grants
    <2>5a. worker' = [worker EXCEPT ![w] = g] /\ Busy(w) /\ g.stage \in Working
      BY <2>1, <2>3, <2>4, <2>5 DEF Busy, Working
    <2>5b. /\ g.stage # "handling" => g.key \in Keys
           /\ g.stage = "observed" => g.result \in Outcomes
      BY <2>2, <2>5
    <2>6. GoesOn(w) /\ worker' \in [Workers -> Grants(T)]
      BY <1>1, <2>5, <2>5a, <2>5b, GoesOnBy
    <2>7. UNCHANGED <<mode, checkpoints, effects, provider, ignored>>
      BY <1>5 DEF Reconcile
    <2> QED
      BY <2>6, <2>7 DEF WorkTypes
  <1>6. CASE Record(w)
    <2>1. worker[w].stage = "observed"
      BY <1>6 DEF Record
    <2>2. j \in Jobs /\ k \in Keys /\ worker[w].result \in Outcomes
      BY <2>1 DEF Granted, Busy, Working
    <2>3. /\ effects[j] \in [Keys -> EffectRows(T)] /\ effects[j][k] \in EffectRows(T)
          /\ checkpoints[j] \in Seq(T)
      BY <2>2 DEF WorkTypes
    <2>4. PICK g : g = [worker[w] EXCEPT !.stage = "handling",
                               !.version = worker[w].version + 1, !.result = None]
      OBVIOUS
    <2>5. worker' = [worker EXCEPT ![w] = g]
      BY <1>6, <2>4 DEF Record
    <2>6. /\ g \in Grants(T) /\ g.stage = "handling"
          /\ g.job = worker[w].job /\ g.token = worker[w].token
      <3>1. worker[w].version + 1 \in Nat /\ None \in Outcomes \cup {None} /\ "handling" \in Stages
        BY <1>1 DEF Grants, Stages
      <3> QED
        BY <1>1, <2>4, <3>1 DEF Grants
    <2>7. GoesOn(w) /\ worker' \in [Workers -> Grants(T)]
      BY <1>1, <2>1, <2>5, <2>6, GoesOnBy DEF Busy, Working
    <2>8. Append(checkpoints[j], worker[w].token) \in Seq(T)
      BY <2>3
    <2>9. checkpoints' = [checkpoints EXCEPT ![j] = Append(checkpoints[j], worker[w].token)]
          /\ UNCHANGED <<mode, provider, ignored>>
      BY <1>6 DEF Record
    <2>10. checkpoints' \in [Jobs -> Seq(T)]
      BY <2>2, <2>8, <2>9 DEF WorkTypes
    <2>11. effects' \in [Jobs -> [Keys -> EffectRows(T)]]
      <3>1. PICK e : e = [effects[j][k] EXCEPT !.status = worker[w].result,
                                               !.completed = worker[w].token]
        OBVIOUS
      <3>2. e \in EffectRows(T)
        BY <2>2, <2>3, <3>1 DEF EffectRows
      <3>3. \/ effects' = [effects EXCEPT ![j] = [effects[j] EXCEPT ![k] = e]]
            \/ effects' = effects
        BY <1>6, <2>2, <2>3, <3>1 DEF Record, WorkTypes
      <3>4. [effects[j] EXCEPT ![k] = e] \in [Keys -> EffectRows(T)]
        BY <2>3, <3>2
      <3> QED
        BY <2>2, <3>3, <3>4 DEF WorkTypes
    <2> QED
      BY <2>7, <2>9, <2>10, <2>11 DEF WorkTypes
  <1> QED
    BY <1>2, <1>3, <1>4, <1>5, <1>6

LEMMA IdleIsAGrant ==
    ASSUME NEW T, 0 \in T
    PROVE  Idle \in Grants(T) /\ Down \in Grants(T) /\ Idle.stage = "idle" /\ Down.stage = "down"
  BY DEF Idle, Down, Grants, Stages

LEMMA ClaimTypes ==
    ASSUME Rows, NEW T, WorkTypes(T), 0 \in T, Len(leases') \in T,
           NEW w \in Workers, NEW X \in SUBSET Jobs, NEW j \in Jobs, ClaimNext(w, X, j)
    PROVE  /\ WorkTypes(T)'
           /\ \A v \in Workers : v # w => worker'[v] = worker[v]
           /\ worker'[w].stage = "handling" /\ worker'[w].job = j
           /\ worker'[w].token = Len(leases) + 1 /\ worker'[w].version = Version(j)
  <1>0. Len(leases) + 1 \in T
    BY ClaimedLeases
  <1>1. PICK g : g = [Idle EXCEPT !.stage = "handling", !.job = j,
                                  !.token = Len(leases) + 1, !.version = Version(j)]
    OBVIOUS
  <1>2. worker' = [worker EXCEPT ![w] = g] /\ UNCHANGED <<mode, checkpoints, effects, provider, ignored>>
    BY <1>1 DEF ClaimNext
  <1>3. Version(j) \in Nat
    BY DEF WorkTypes, Version
  <1>4. /\ g \in Grants(T) /\ g.stage = "handling" /\ g.job = j
        /\ g.token = Len(leases) + 1 /\ g.version = Version(j)
    BY <1>0, <1>1, <1>3 DEF Idle, Grants, Stages
  <1>5. /\ worker' \in [Workers -> Grants(T)] /\ worker'[w] = g
        /\ \A v \in Workers : v # w => worker'[v] = worker[v]
    BY <1>2, <1>4 DEF WorkTypes
  <1> QED
    BY <1>2, <1>4, <1>5 DEF WorkTypes

\* The steps that end a worker's run, or happen without one.
LEMMA StoppingTypes ==
    ASSUME NEW T, WorkTypes(T), NEW w \in Workers, Granted(w), Rows, 0 \in T,
           \/ Ignore(w) \/ Lose(w) \/ Crash(w) \/ Restart(w) \/ PauseAttempt(w)
           \/ \E final \in BOOLEAN : Complete(w, final)
           \/ \E failure \in Failures : Raise(w, failure)
    PROVE  WorkTypes(T)' /\ Stops(w)
  <1> DEFINE j == worker[w].job
             k == worker[w].key
  <1>1. worker[w] \in Grants(T)
    BY DEF WorkTypes
  <1>2. Stops(w)
    BY PauseIsRefused DEF Stops, Ignore, Lose, Crash, Restart, PauseAttempt, Complete, Raise
  <1>3. worker' \in [Workers -> Grants(T)]
    BY <1>2, IdleIsAGrant DEF Stops, WorkTypes
  <1>4. CASE Ignore(w)
    <2>1. j \in Jobs /\ k \in Keys
      BY <1>4 DEF Ignore, Granted, Busy, Working
    <2>2. ignored[j] \in [Keys -> T] /\ worker[w].token \in T
      BY <2>1, <1>1 DEF WorkTypes, Grants
    <2>3. \/ ignored' = [ignored EXCEPT ![j] = [ignored[j] EXCEPT ![k] = worker[w].token]]
          \/ ignored' = ignored
      BY <1>4 DEF Ignore
    <2>4. ignored' \in [Jobs -> [Keys -> T]]
      <3>1. [ignored[j] EXCEPT ![k] = worker[w].token] \in [Keys -> T]
        BY <2>2
      <3> QED
        BY <2>1, <2>3, <3>1 DEF WorkTypes
    <2>5. UNCHANGED <<mode, checkpoints, effects, provider>>
      BY <1>4 DEF Ignore
    <2> QED
      BY <1>2, <1>3, <2>4, <2>5 DEF WorkTypes
  <1>5. CASE \/ Lose(w) \/ Crash(w) \/ Restart(w) \/ PauseAttempt(w)
             \/ \E failure \in Failures : Raise(w, failure)
    <2>1. UNCHANGED <<mode, checkpoints, effects, provider, ignored>>
      BY <1>5 DEF Lose, Crash, Restart, PauseAttempt, Raise, db
    <2> QED
      BY <1>2, <1>3, <2>1 DEF WorkTypes
  <1>6. ASSUME NEW final \in BOOLEAN, Complete(w, final) PROVE WorkTypes(T)' /\ Stops(w)
    <2>1. j \in Jobs
      BY <1>6 DEF Complete, Granted, Busy, Working
    <2>2. checkpoints[j] \in Seq(T) /\ worker[w].token \in T
      BY <2>1, <1>1 DEF WorkTypes, Grants
    <2>3. Append(checkpoints[j], worker[w].token) \in Seq(T)
      BY <2>2
    <2>4. \/ checkpoints' = [checkpoints EXCEPT ![j] = Append(checkpoints[j], worker[w].token)]
          \/ checkpoints' = checkpoints
      BY <1>6 DEF Complete
    <2>5. checkpoints' \in [Jobs -> Seq(T)]
      BY <2>1, <2>3, <2>4 DEF WorkTypes
    <2>6. UNCHANGED <<mode, effects, provider, ignored>>
      BY <1>6 DEF Complete
    <2> QED
      BY <1>2, <1>3, <2>5, <2>6 DEF WorkTypes
  <1> QED
    BY <1>4, <1>5, <1>6

LEMMA TaskTypes ==
    ASSUME NEW T, WorkTypes(T), NEW t \in Tasks, TaskStep(t)
    PROVE  WorkTypes(T)' /\ UNCHANGED <<checkpoints, effects, provider, worker>>
  <1>1. UNCHANGED <<checkpoints, effects, provider, ignored, worker>>
    BY DEF TaskStep, Hold, Resume, SteerScope, Cancel, End, FenceEnded
  <1>2. \E m \in Modes : mode' = [mode EXCEPT ![t] = m] \/ mode' = mode
    BY DEF TaskStep, Hold, Resume, SteerScope, Cancel, End, FenceEnded, Modes, Open
  <1>3. mode' \in [Tasks -> Modes]
    BY <1>2 DEF WorkTypes
  <1> QED
    BY <1>1, <1>3 DEF WorkTypes

Claims(w) == \E X \in SUBSET Jobs, j \in Jobs : ClaimNext(w, X, j)

\* Every step keeps the types, and moves at most one worker in one of three ways.
LEMMA WorkerSteps ==
    ASSUME Rows, \A w \in Workers : Granted(w), NEW T, WorkTypes(T), 0 \in T,
           Len(leases') \in T, [Next]_vars
    PROVE  /\ WorkTypes(T)'
           /\ UNCHANGED worker \/ \E w \in Workers : Stops(w) \/ GoesOn(w) \/ Claims(w)
  <1>1. CASE UNCHANGED vars
    BY <1>1 DEF vars, WorkTypes
  <1>2. ASSUME \/ \E j \in Jobs : Schedule(j)
               \/ \E n \in 1 .. Len(leases) : Expire(n)
               \/ ApiRestart
               \/ \E w \in Workers : ClaimNothing(w) \/ Register(w)
        PROVE  WorkTypes(T)' /\ UNCHANGED worker
    BY <1>2 DEF WorkTypes, Schedule, Expire, ApiRestart, ClaimNothing, Register
  <1>3. CASE \E t \in Tasks : TaskStep(t)
    BY <1>3, TaskTypes
  <1>5. ASSUME NEW w \in Workers,
               \/ Ignore(w) \/ Lose(w) \/ Crash(w) \/ Restart(w) \/ PauseAttempt(w)
               \/ \E final \in BOOLEAN : Complete(w, final)
               \/ \E failure \in Failures : Raise(w, failure)
        PROVE  WorkTypes(T)' /\ Stops(w)
    BY <1>5, StoppingTypes
  <1>6. ASSUME NEW w \in Workers,
               \/ Checkpoint(w)
               \/ \E k \in Keys : Prepare(w, k)
               \/ \E outcome \in Outcomes, answered \in BOOLEAN : Execute(w, outcome, answered)
               \/ Reconcile(w)
               \/ Record(w)
        PROVE  WorkTypes(T)' /\ GoesOn(w)
    <2>1. worker[w].token \in T
      BY DEF WorkTypes, Grants
    <2> QED
      BY <1>6, <2>1, HandlingGoesOn
  <1>7. ASSUME NEW w \in Workers, Claim(w) \/ Handle(w) \/ Crash(w) \/ Restart(w)
        PROVE  WorkTypes(T)' /\ (UNCHANGED worker \/ Stops(w) \/ GoesOn(w) \/ Claims(w))
    <2>1. CASE Claim(w)
      <3>1. ASSUME NEW X \in SUBSET Jobs, NEW j \in Jobs, ClaimNext(w, X, j)
            PROVE  WorkTypes(T)' /\ Claims(w)
        <4>1. WorkTypes(T)'
          BY <3>1, ClaimTypes
        <4> QED
          BY <3>1, <4>1 DEF Claims
      <3>2. CASE ClaimNothing(w)
        BY <3>2, <1>2
      <3> QED
        BY <2>1, <3>1, <3>2 DEF Claim
    <2>2. CASE Handle(w)
      BY <2>2, <1>2, <1>5, <1>6 DEF Handle
    <2>3. CASE Crash(w) \/ Restart(w)
      BY <2>3, <1>5
    <2> QED
      BY <1>7, <2>1, <2>2, <2>3
  <1> QED
    BY <1>1, <1>2, <1>3, <1>7 DEF Next

-----------------------------------------------------------------------------
(* The first layer of the invariant *)

\* No two workers hold the same grant.
OneGrant(v, w) == Busy(v) /\ Busy(w) /\ worker[v].token = worker[w].token => v = w

Held ==
    /\ Rows
    /\ WorkTypes(Tokens)
    /\ \A w \in Workers : Granted(w)
    /\ \A v, w \in Workers : OneGrant(v, w)

\* A step under Held: everything the second layer and the theorems need to know of it.
LEMMA HeldSteps ==
    ASSUME Held, [Next]_vars
    PROVE  /\ RowsGrow
           /\ WorkTypes(Tokens)'
           /\ UNCHANGED worker \/ \E w \in Workers : Stops(w) \/ GoesOn(w) \/ Claims(w)
  <1>1. RowsGrow
    BY StepsGrow DEF Held
  <1>2. Len(leases) \in Nat /\ Len(leases') \in Nat /\ Len(leases) <= Len(leases')
    BY <1>1 DEF RowsGrow, Held, Rows, RowTypes
  <1>3. PICK T : T = 0 .. Len(leases')
    OBVIOUS
  <1>4. WorkTypes(T)
    BY <1>2, <1>3, Widen DEF Held, Tokens
  <1>5. 0 \in T /\ Len(leases') \in T
    BY <1>2, <1>3
  <1>6. WorkTypes(T)'
    BY <1>4, <1>5, WorkerSteps DEF Held
  <1>7. WorkTypes(Tokens)'
    BY <1>3, <1>6 DEF Tokens
  <1>8. UNCHANGED worker \/ \E w \in Workers : Stops(w) \/ GoesOn(w) \/ Claims(w)
    BY <1>4, <1>5, WorkerSteps DEF Held
  <1> QED
    BY <1>1, <1>7, <1>8

\* A worker that stopped is idle or down, the others go on.
LEMMA StopsFacts ==
    ASSUME NEW T, worker \in [Workers -> Grants(T)], NEW w \in Workers, Stops(w)
    PROVE  ~Busy(w)' /\ \A v \in Workers : v # w => worker'[v] = worker[v]
  <1>1. worker'[w] \in {Idle, Down} /\ \A v \in Workers : v # w => worker'[v] = worker[v]
    BY DEF Stops
  <1> QED
    BY <1>1 DEF Busy, Working, Idle, Down

\* Held is inductive.
LEMMA HeldKept ==
    ASSUME Held, [Next]_vars
    PROVE  Held'
  <1>1. RowsGrow /\ Rows' /\ WorkTypes(Tokens)'
    BY HeldSteps DEF RowsGrow
  <1>2. UNCHANGED worker \/ \E w \in Workers : Stops(w) \/ GoesOn(w) \/ Claims(w)
    BY HeldSteps
  <1>3. Len(leases) \in Nat /\ Len(leases') \in Nat
    BY <1>1 DEF Held, Rows, RowTypes
  <1>4. worker \in [Workers -> Grants(Tokens)]
    BY DEF Held, WorkTypes
  \* A worker that did nothing keeps its grant.
  <1>5. ASSUME NEW v \in Workers, worker'[v] = worker[v] PROVE Granted(v)'
    <2>1. Granted(v)
      BY DEF Held
    <2> QED
      BY <1>1, <1>3, <1>5, <2>1 DEF Granted, Busy, RowsGrow
  <1>6. ASSUME UNCHANGED worker PROVE Held'
    <2>1. \A v \in Workers : Granted(v)'
      BY <1>5, <1>6
    <2>2. \A u, v \in Workers : OneGrant(u, v)'
      BY <1>6 DEF Held, OneGrant, Busy
    <2> QED
      BY <1>1, <2>1, <2>2 DEF Held
  <1>7. ASSUME NEW w \in Workers, Stops(w) PROVE Held'
    <2>1. ~Busy(w)' /\ \A v \in Workers : v # w => worker'[v] = worker[v]
      BY <1>4, <1>7, StopsFacts
    <2>2. \A v \in Workers : Granted(v)'
      BY <1>5, <2>1 DEF Granted
    <2>3. \A u, v \in Workers : OneGrant(u, v)'
      BY <2>1 DEF Held, OneGrant, Busy
    <2> QED
      BY <1>1, <2>2, <2>3 DEF Held
  <1>8. ASSUME NEW w \in Workers, GoesOn(w) PROVE Held'
    <2>1. Granted(w)
      BY DEF Held
    <2>2. Granted(w)'
      BY <1>1, <1>3, <1>8, <2>1 DEF GoesOn, Granted, Busy, RowsGrow
    <2>3. \A v \in Workers : Granted(v)'
      BY <1>5, <1>8, <2>2 DEF GoesOn
    <2>4. \A u, v \in Workers : OneGrant(u, v)'
      BY <1>8 DEF Held, OneGrant, GoesOn, Busy
    <2> QED
      BY <1>1, <2>3, <2>4 DEF Held
  <1>9. ASSUME NEW w \in Workers, NEW X \in SUBSET Jobs, NEW j \in Jobs, ClaimNext(w, X, j)
        PROVE  Held'
    <2>1. /\ leases' \in Seq(Leases)
          /\ Len(leases') = Len(leases) + 1
          /\ leases'[Len(leases) + 1].job = j
      BY <1>9, ClaimedLeases, NextLeaseFacts DEF Held
    <2>2. PICK T : T = 0 .. Len(leases')
      OBVIOUS
    <2>3. WorkTypes(T) /\ 0 \in T /\ Len(leases') \in T
      BY <1>3, <2>1, <2>2, Widen DEF Held, Tokens
    <2>4. /\ \A v \in Workers : v # w => worker'[v] = worker[v]
          /\ worker'[w].stage = "handling" /\ worker'[w].job = j
          /\ worker'[w].token = Len(leases) + 1
      BY <1>9, <2>3, ClaimTypes DEF Held
    <2>5. Granted(w)'
      BY <1>3, <2>1, <2>4 DEF Granted
    <2>6. \A v \in Workers : Granted(v)'
      BY <1>5, <2>4, <2>5
    <2>7. ASSUME NEW v \in Workers, v # w, Busy(v)' PROVE worker'[v].token # worker'[w].token
      <3>1. Busy(v) /\ worker'[v] = worker[v]
        BY <2>4, <2>7 DEF Busy
      <3>2. worker[v].token \in 1 .. Len(leases)
        BY <3>1 DEF Held, Granted
      <3> QED
        BY <1>3, <2>4, <3>1, <3>2
    <2>8. ASSUME NEW u \in Workers, NEW v \in Workers PROVE OneGrant(u, v)'
      <3>1. CASE u # w /\ v # w
        BY <3>1, <2>4 DEF Held, OneGrant, Busy
      <3>2. CASE u = w \/ v = w
        BY <3>2, <2>7 DEF OneGrant
      <3> QED
        BY <3>1, <3>2
    <2> QED
      BY <1>1, <2>6, <2>8 DEF Held
  <1> QED
    BY <1>2, <1>6, <1>7, <1>8, <1>9 DEF Claims

\* A worker that owns its job after a step owned it before.
LEMMA OwnersStay ==
    ASSUME Held, Held', RowsGrow, NEW w \in Workers, Busy(w),
           worker'[w].job = worker[w].job, worker'[w].token = worker[w].token, Current(w)'
    PROVE  Current(w)
  <1> DEFINE j == worker[w].job
             n == worker[w].token
  <1>1. j \in Jobs /\ n \in 1 .. Len(leases) /\ leases[n].job = j
    BY DEF Held, Granted
  <1>2. leases'[n].released = None /\ ~leases'[n].expired
    BY DEF Current
  <1>3. leases[n].released = None /\ ~leases[n].expired
    BY <1>1, <1>2 DEF RowsGrow
  <1>4. job[j].lease = n
    BY <1>1, <1>3 DEF Held, Rows, Owned
  <1>5. job[j].status = "RUNNING"
    BY <1>1, <1>4 DEF Held, Rows, Leased
  <1> QED
    BY <1>3, <1>4, <1>5 DEF Current

\* A job has one owner.
LEMMA OneOwner ==
    ASSUME Held, NEW v \in Workers, NEW w \in Workers, Busy(v), Busy(w),
           Current(v), Current(w), worker[v].job = worker[w].job
    PROVE  v = w
  BY DEF Held, OneGrant, Current

\* A job succeeds by its owner's completion, and only when all its effects are resolved.
LEMMA NewSuccess ==
    ASSUME Held, [Next]_vars, NEW j \in Jobs,
           job'[j].status = "SUCCEEDED", job[j].status # "SUCCEEDED"
    PROVE  Pending(j) = {} /\ UNCHANGED <<effects, provider>>
  <1>1. ASSUME RowStep PROVE FALSE
    <2>1. CASE UNCHANGED <<job, leases>>
      BY <2>1
    <2>2. ASSUME NEW i \in Jobs, Schedule(i) PROVE FALSE
      BY <2>2, ScheduleFacts DEF Held
    <2>3. CASE Leaving(Unsuccessful)
      <3>1. Unsuccessful \in SUBSET (JobStatus \ {"RUNNING"})
        BY DEF Unsuccessful, JobStatus, FinalStatus
      <3>2. job'[j] = job[j] \/ job'[j].status \in Unsuccessful
        BY <2>3, <3>1, LeavingGrows DEF Held
      <3> QED
        BY <3>2 DEF Unsuccessful
    <2>4. ASSUME NEW n \in 1 .. Len(leases), Expire(n) PROVE FALSE
      BY <2>4 DEF Expire
    <2>5. ASSUME NEW w \in Workers, NEW X \in SUBSET Jobs, NEW i \in Jobs, ClaimNext(w, X, i)
          PROVE  FALSE
      <3>1. /\ \A x \in X : job'[x].status = "FAILED"
            /\ job'[i].status = "RUNNING"
        BY <2>5, ClaimedJobs DEF Held
      <3>2. j \notin X /\ j # i
        BY <3>1
      <3> QED
        BY <2>5, <3>2 DEF ClaimNext
    <2> QED
      BY <1>1, <2>1, <2>2, <2>3, <2>4, <2>5 DEF RowStep
  <1>2. PICK w \in Workers, final \in BOOLEAN : Complete(w, final)
    BY <1>1, RowSteps DEF Held, Completion
  <1>3. j = worker[w].job
    BY <1>2 DEF Complete, Held, Rows, RowTypes
  <1> QED
    BY <1>2, <1>3 DEF Complete, Settled

-----------------------------------------------------------------------------
(* The second layer: effects, providers and what workers know of them *)

\* What the rows say of an effect and what its provider did.
Known(j, k) ==
    /\ provider[j][k].calls \in {0, 1}
    /\ provider[j][k].calls = 0 <=> provider[j][k].outcome = None
    /\ effects[j][k].status = "ABSENT" => provider[j][k].calls = 0
    /\ effects[j][k].status \in Outcomes => provider[j][k].outcome = effects[j][k].status
    /\ job[j].status = "SUCCEEDED" => effects[j][k].status # "PENDING"

\* What a worker busy with an effect relies on, whether it owns the job or not.
Engaged(w) ==
    LET j == worker[w].job
        k == worker[w].key
    IN  /\ worker[w].stage = "calling" =>
              effects[j][k].status = "PENDING" /\ provider[j][k].calls = 0
        /\ worker[w].stage = "looking" => effects[j][k].status # "ABSENT"
        /\ worker[w].stage = "observed" =>
              worker[w].result = provider[j][k].outcome /\ effects[j][k].status # "ABSENT"

\* No two workers are about to call for the same effect.
OneCaller(v, w) ==
    /\ worker[v].stage = "calling" /\ worker[w].stage = "calling"
    /\ worker[v].job = worker[w].job /\ worker[v].key = worker[w].key
    => v = w

\* The owner of a job knows its progress.
Owner(w) ==
    Busy(w) /\ Current(w) =>
        /\ worker[w].version = Version(worker[w].job)
        /\ worker[w].stage # "handling" => Pending(worker[w].job) = {worker[w].key}

Work ==
    /\ \A j \in Jobs, k \in Keys : Known(j, k)
    /\ \A w \in Workers : Engaged(w) /\ Owner(w)
    /\ \A v, w \in Workers : OneCaller(v, w)

IInv == Held /\ Work

\* A worker that did nothing still knows its job's progress if nobody made any.
LEMMA BystanderOwner ==
    ASSUME Held, Held', RowsGrow, NEW v \in Workers, worker'[v] = worker[v], Owner(v),
           Busy(v) /\ Current(v) =>
              UNCHANGED <<checkpoints[worker[v].job], effects[worker[v].job]>>
    PROVE  Owner(v)'
  <1> SUFFICES ASSUME Busy(v)', Current(v)' PROVE Owner(v)'
    BY DEF Owner
  <1>1. Busy(v)
    BY DEF Busy
  <1>2. Current(v)
    BY <1>1, OwnersStay
  <1>3. checkpoints'[worker[v].job] = checkpoints[worker[v].job]
        /\ effects'[worker[v].job] = effects[worker[v].job]
    BY <1>1, <1>2
  <1> QED
    BY <1>1, <1>2, <1>3 DEF Owner, Version, Pending

\* What is known of effects outlives every step that leaves them and their providers alone.
LEMMA KnownKept ==
    ASSUME IInv, [Next]_vars, UNCHANGED <<effects, provider>>
    PROVE  \A j \in Jobs, k \in Keys : Known(j, k)'
  <1> SUFFICES ASSUME NEW j \in Jobs, NEW k \in Keys PROVE Known(j, k)'
    OBVIOUS
  <1>1. Known(j, k)
    BY DEF IInv, Work
  <1>2. job'[j].status = "SUCCEEDED" => effects[j][k].status # "PENDING"
    BY <1>1, NewSuccess DEF IInv, Known, Pending
  <1> QED
    BY <1>1, <1>2 DEF Known

\* Progress is made by owners alone, so it surprises no other owner.
LEMMA OthersOwn ==
    ASSUME Held, Held', RowsGrow, \A v \in Workers : Owner(v), NEW w \in Workers,
           \A v \in Workers : v # w => worker'[v] = worker[v],
           \/ UNCHANGED <<checkpoints, effects>>
           \/ /\ Busy(w) /\ Current(w)
              /\ \A i \in Jobs : i # worker[w].job => UNCHANGED <<checkpoints[i], effects[i]>>
    PROVE  \A v \in Workers : v # w => Owner(v)'
  <1> SUFFICES ASSUME NEW v \in Workers, v # w PROVE Owner(v)'
    OBVIOUS
  <1>1. ASSUME Busy(v), Current(v)
        PROVE  UNCHANGED <<checkpoints[worker[v].job], effects[worker[v].job]>>
    <2>1. CASE UNCHANGED <<checkpoints, effects>>
      BY <2>1
    <2>2. CASE /\ Busy(w) /\ Current(w)
               /\ \A i \in Jobs : i # worker[w].job => UNCHANGED <<checkpoints[i], effects[i]>>
      <3>1. worker[v].job # worker[w].job
        BY <1>1, <2>2, OneOwner
      <3>2. worker[v].job \in Jobs
        BY <1>1 DEF Held, Granted
      <3> QED
        BY <2>2, <3>1, <3>2
    <2> QED
      BY <2>1, <2>2
  <1>2. worker'[v] = worker[v] /\ Owner(v)
    OBVIOUS
  <1> QED
    BY <1>1, <1>2, BystanderOwner

\* Steps without a worker.
LEMMA QuietWork ==
    ASSUME IInv, Held', RowsGrow, [Next]_vars,
           UNCHANGED <<checkpoints, effects, provider, worker>>
    PROVE  Work'
  <1>1. \A j \in Jobs, k \in Keys : Known(j, k)'
    BY KnownKept
  <1>2. \A w \in Workers : Engaged(w)'
    BY DEF IInv, Work, Engaged
  <1>3. \A w \in Workers : Owner(w)'
    BY BystanderOwner DEF IInv, Work
  <1>4. \A v, w \in Workers : OneCaller(v, w)'
    BY DEF IInv, Work, OneCaller
  <1> QED
    BY <1>1, <1>2, <1>3, <1>4 DEF Work

\* Steps after which a worker is idle or down; a completion may add a checkpoint.
LEMMA StopWork ==
    ASSUME IInv, Held', RowsGrow, [Next]_vars, UNCHANGED <<effects, provider>>,
           NEW w \in Workers, Stops(w),
           \/ UNCHANGED checkpoints
           \/ /\ Busy(w) /\ Current(w)
              /\ \A i \in Jobs : i # worker[w].job => UNCHANGED checkpoints[i]
    PROVE  Work'
  <1>1. \A j \in Jobs, k \in Keys : Known(j, k)'
    BY KnownKept
  <1>2. ~Busy(w)' /\ \A v \in Workers : v # w => worker'[v] = worker[v]
    BY StopsFacts DEF IInv, Held, WorkTypes
  <1>3. \A v \in Workers : Engaged(v)'
    BY <1>2 DEF IInv, Work, Engaged, Busy, Working
  <1>4. \A v \in Workers : v # w => Owner(v)'
    BY <1>2, OthersOwn DEF IInv, Work
  <1>5. Owner(w)'
    BY <1>2 DEF Owner
  <1>6. \A u, v \in Workers : OneCaller(u, v)'
    BY <1>2 DEF IInv, Work, OneCaller, Busy, Working
  <1> QED
    BY <1>1, <1>3, <1>4, <1>5, <1>6 DEF Work

\* A claim starts from the progress it finds.
LEMMA ClaimWork ==
    ASSUME IInv, Held', RowsGrow, [Next]_vars,
           NEW w \in Workers, NEW X \in SUBSET Jobs, NEW j \in Jobs, ClaimNext(w, X, j)
    PROVE  Work'
  <1>1. UNCHANGED <<checkpoints, effects, provider>>
    BY DEF ClaimNext
  <1>2. /\ \A v \in Workers : v # w => worker'[v] = worker[v]
        /\ worker'[w].stage = "handling" /\ worker'[w].job = j
        /\ worker'[w].version = Version(j)
    <2>1. PICK T : T = 0 .. Len(leases')
      OBVIOUS
    <2>2. Len(leases) \in Nat /\ Len(leases') \in Nat /\ Len(leases) <= Len(leases')
      BY DEF RowsGrow, IInv, Held, Rows, RowTypes
    <2>3. WorkTypes(T) /\ 0 \in T /\ Len(leases') \in T
      BY <2>1, <2>2, Widen DEF IInv, Held, Tokens
    <2> QED
      BY <2>3, ClaimTypes DEF IInv, Held
  <1>3. \A i \in Jobs, k \in Keys : Known(i, k)'
    BY <1>1, KnownKept
  <1>4. \A v \in Workers : Engaged(v)'
    BY <1>1, <1>2 DEF IInv, Work, Engaged
  <1>5. \A v \in Workers : v # w => Owner(v)'
    BY <1>1, <1>2, OthersOwn DEF IInv, Work
  <1>6. Owner(w)'
    BY <1>1, <1>2 DEF Owner, Version
  <1>7. \A u, v \in Workers : OneCaller(u, v)'
    BY <1>2 DEF IInv, Work, OneCaller
  <1> QED
    BY <1>3, <1>4, <1>5, <1>6, <1>7 DEF Work

\* An appended checkpoint moves the version of its job by one.
LEMMA AppendFacts ==
    ASSUME Held, NEW j \in Jobs, NEW t,
           checkpoints' = [checkpoints EXCEPT ![j] = Append(checkpoints[j], t)]
    PROVE  Len(checkpoints'[j]) = Version(j) + 1
  <1>1. checkpoints[j] \in Seq(Tokens) /\ checkpoints'[j] = Append(checkpoints[j], t)
    BY DEF Held, WorkTypes
  <1>2. Len(Append(checkpoints[j], t)) = Len(checkpoints[j]) + 1
    BY <1>1
  <1> QED
    BY <1>1, <1>2 DEF Version

LEMMA CheckpointWork ==
    ASSUME IInv, Held', RowsGrow, [Next]_vars, NEW w \in Workers, Checkpoint(w)
    PROVE  Work'
  <1> DEFINE j == worker[w].job
  <1>1. worker[w].stage = "handling" /\ Current(w) /\ UNCHANGED <<effects, provider>>
        /\ checkpoints' = [checkpoints EXCEPT ![j] = Append(checkpoints[j], worker[w].token)]
        /\ worker[w].version = Version(j)
    BY DEF Checkpoint
  <1>2. /\ \A v \in Workers : v # w => worker'[v] = worker[v]
        /\ worker'[w].stage = "handling" /\ worker'[w].job = j
        /\ worker'[w].version = worker[w].version + 1
    BY DEF Checkpoint, IInv, Held, WorkTypes, Grants
  <1>3. j \in Jobs /\ Busy(w)
    BY <1>1 DEF IInv, Held, Granted, Busy, Working
  <1>4. Len(checkpoints'[j]) = Version(j) + 1
    BY <1>1, <1>3, AppendFacts DEF IInv
  <1>4a. \A i \in Jobs : i # j => checkpoints'[i] = checkpoints[i]
    BY <1>1, <1>3 DEF IInv, Held, WorkTypes
  <1>5. \A i \in Jobs, k \in Keys : Known(i, k)'
    BY <1>1, KnownKept
  <1>6. \A v \in Workers : Engaged(v)'
    BY <1>1, <1>2 DEF IInv, Work, Engaged
  <1>7. \A v \in Workers : v # w => Owner(v)'
    BY <1>1, <1>2, <1>3, <1>4a, OthersOwn DEF IInv, Work
  <1>8. Owner(w)'
    BY <1>1, <1>2, <1>4 DEF Owner, Version
  <1>9. \A u, v \in Workers : OneCaller(u, v)'
    BY <1>1, <1>2 DEF IInv, Work, OneCaller
  <1> QED
    BY <1>5, <1>6, <1>7, <1>8, <1>9 DEF Work

\* Preparing an effect: the owner alone does it, and calls only for one it found absent.
LEMMA PrepareWork ==
    ASSUME IInv, Held', RowsGrow, [Next]_vars, NEW w \in Workers, NEW x \in Keys, Prepare(w, x)
    PROVE  Work'
  <1> DEFINE j == worker[w].job
  <1>1. /\ worker[w].stage = "handling" /\ Current(w) /\ MayPrepare(j, x)
        /\ UNCHANGED <<job, checkpoints, provider>>
    BY DEF Prepare
  <1>2. /\ \A v \in Workers : v # w => worker'[v] = worker[v]
        /\ worker'[w].stage = NextStage(effects[j][x].status)
        /\ worker'[w].job = j /\ worker'[w].key = x
        /\ worker'[w].version = worker[w].version
    BY DEF Prepare, IInv, Held, WorkTypes, Grants
  <1>3. j \in Jobs /\ Busy(w) /\ job[j].status = "RUNNING" /\ worker[w].version = Version(j)
    BY <1>1 DEF IInv, Held, Work, Owner, Granted, Busy, Working, Current
  <1>4. \A i \in Jobs, k \in Keys :
           effects[i][k].status \in {"ABSENT", "PENDING", "SUCCEEDED", "FAILED"}
    BY DEF IInv, Held, WorkTypes, EffectRows, Outcomes
  <1>5. /\ \A i \in Jobs, k \in Keys : i # j \/ k # x => effects'[i][k] = effects[i][k]
        /\ \A i \in Jobs : i # j => effects'[i] = effects[i]
        /\ effects'[j][x].status = IF effects[j][x].status = "ABSENT" THEN "PENDING"
                                   ELSE effects[j][x].status
    BY <1>3 DEF Prepare, IInv, Held, WorkTypes
  <1>6. ASSUME NEW i \in Jobs, NEW k \in Keys PROVE Known(i, k)'
    <2>1. Known(i, k)
      BY DEF IInv, Work
    <2>2. CASE i = j /\ k = x
      BY <2>1, <2>2, <1>1, <1>3, <1>5 DEF Known, Outcomes
    <2>3. CASE i # j \/ k # x
      BY <2>1, <2>3, <1>1, <1>5 DEF Known
    <2> QED
      BY <2>2, <2>3
  <1>7. ASSUME NEW v \in Workers, v # w PROVE Engaged(v)'
    <2>1. Engaged(v) /\ worker'[v] = worker[v]
      BY <1>2, <1>7 DEF IInv, Work
    <2>2. Busy(v) => worker[v].job \in Jobs
      BY DEF IInv, Held, Granted
    <2>3. Busy(v) /\ worker[v].stage # "handling" => worker[v].key \in Keys
      BY DEF IInv, Held, Granted
    <2>4. CASE Busy(v) /\ worker[v].stage # "handling"
      <3>1. effects'[worker[v].job][worker[v].key].status = "PENDING"
            \/ effects'[worker[v].job][worker[v].key].status =
                  effects[worker[v].job][worker[v].key].status
        BY <2>2, <2>3, <2>4, <1>5
      <3> QED
        BY <2>1, <3>1, <1>1 DEF Engaged
    <2>5. CASE ~Busy(v) \/ worker[v].stage = "handling"
      BY <2>1, <2>5 DEF Engaged, Busy, Working
    <2> QED
      BY <2>4, <2>5
  <1>8. Engaged(w)'
    <2>1. CASE effects[j][x].status = "ABSENT"
      <3>1. provider[j][x].calls = 0
        BY <2>1, <1>3 DEF IInv, Work, Known
      <3> QED
        BY <2>1, <3>1, <1>1, <1>2, <1>5 DEF Engaged, NextStage
    <2>2. CASE effects[j][x].status = "PENDING"
      BY <2>2, <1>2, <1>5 DEF Engaged, NextStage
    <2>3. CASE effects[j][x].status \notin {"ABSENT", "PENDING"}
      BY <2>3, <1>2 DEF Engaged, NextStage
    <2> QED
      BY <2>1, <2>2, <2>3
  <1>9. \A v \in Workers : v # w => Owner(v)'
    BY <1>1, <1>2, <1>3, <1>5, OthersOwn DEF IInv, Work
  <1>10. Owner(w)'
    <2> SUFFICES worker'[w].stage # "handling" =>
                    {k \in Keys : effects'[j][k].status = "PENDING"} = {x}
      BY <1>1, <1>2, <1>3 DEF Owner, Version, Pending
    <2> SUFFICES ASSUME worker'[w].stage # "handling"
                 PROVE  {k \in Keys : effects'[j][k].status = "PENDING"} = {x}
      OBVIOUS
    <2>1. effects[j][x].status \in {"ABSENT", "PENDING"}
      BY <1>2 DEF NextStage
    <2>2. effects'[j][x].status = "PENDING"
      BY <2>1, <1>5
    <2>3. \A k \in Keys : effects[j][k].status = "PENDING" => k = x
      BY <1>1 DEF MayPrepare, Pending
    <2>4. \A k \in Keys : effects'[j][k].status = "PENDING" => k = x
      BY <2>3, <1>3, <1>5
    <2> QED
      BY <2>2, <2>4
  <1>11. ASSUME NEW v \in Workers, v # w, worker'[w].stage = "calling",
                worker[v].stage = "calling", worker[v].job = j, worker[v].key = x
         PROVE  FALSE
    <2>1. effects[j][x].status = "ABSENT"
      BY <1>2, <1>11 DEF NextStage
    <2>2. effects[j][x].status = "PENDING"
      BY <1>11 DEF IInv, Work, Engaged
    <2> QED
      BY <2>1, <2>2
  <1>12. \A u, v \in Workers : OneCaller(u, v)'
    BY <1>2, <1>11 DEF IInv, Work, OneCaller
  <1> QED
    BY <1>6, <1>7, <1>8, <1>9, <1>10, <1>12 DEF Work

\* A provider is called once: nobody else is about to, and nobody holds an answer.
LEMMA ExecuteWork ==
    ASSUME IInv, Held', RowsGrow, [Next]_vars,
           NEW w \in Workers, NEW r \in Outcomes, NEW answered \in BOOLEAN,
           Execute(w, r, answered)
    PROVE  Work'
  <1> DEFINE j == worker[w].job
             k == worker[w].key
  <1>1. worker[w].stage = "calling" /\ UNCHANGED <<job, leases, checkpoints, effects>>
    BY DEF Execute
  <1>2. /\ \A v \in Workers : v # w => worker'[v] = worker[v]
        /\ worker'[w].stage = IF answered THEN "observed" ELSE "handling"
        /\ answered => worker'[w].result = r
        /\ worker'[w].job = j /\ worker'[w].key = k /\ worker'[w].token = worker[w].token
        /\ worker'[w].version = worker[w].version
    BY DEF Execute, IInv, Held, WorkTypes, Grants
  <1>3. j \in Jobs /\ k \in Keys /\ Busy(w)
    BY <1>1 DEF IInv, Held, Granted, Busy, Working
  <1>4. effects[j][k].status = "PENDING" /\ provider[j][k].calls = 0
    BY <1>1 DEF IInv, Work, Engaged
  <1>5. provider[j][k].outcome = None /\ job[j].status # "SUCCEEDED" /\ r # None
    BY <1>3, <1>4, NullAssumption DEF IInv, Work, Known
  <1>6. /\ provider'[j][k].outcome = r /\ provider'[j][k].calls = 1
        /\ \A i \in Jobs, x \in Keys : i # j \/ x # k => provider'[i][x] = provider[i][x]
    <2>1. PICK p : p = [outcome |-> r, calls |-> provider[j][k].calls + 1]
      OBVIOUS
    <2>2. provider' = [provider EXCEPT ![j] = [provider[j] EXCEPT ![k] = p]]
      BY <2>1 DEF Execute
    <2>3. p.outcome = r /\ p.calls = 1
      BY <2>1, <1>4
    <2>4. /\ provider'[j][k] = p
          /\ \A i \in Jobs, x \in Keys : i # j \/ x # k => provider'[i][x] = provider[i][x]
      BY <2>2, <1>3 DEF IInv, Held, WorkTypes
    <2> QED
      BY <2>3, <2>4
  <1>7. ASSUME NEW i \in Jobs, NEW x \in Keys PROVE Known(i, x)'
    <2>1. Known(i, x)
      BY DEF IInv, Work
    <2>2. CASE i = j /\ x = k
      BY <2>2, <1>1, <1>4, <1>5, <1>6 DEF Known, Outcomes
    <2>3. CASE i # j \/ x # k
      BY <2>1, <2>3, <1>1, <1>6 DEF Known
    <2> QED
      BY <2>2, <2>3
  <1>8. ASSUME NEW v \in Workers, v # w PROVE Engaged(v)'
    <2>1. Engaged(v) /\ worker'[v] = worker[v] /\ OneCaller(v, w)
      BY <1>2, <1>8 DEF IInv, Work
    <2>2. Busy(v) => worker[v].job \in Jobs
      BY DEF IInv, Held, Granted
    <2>3. Busy(v) /\ worker[v].stage # "handling" => worker[v].key \in Keys
      BY DEF IInv, Held, Granted
    <2>4. worker[v].stage = "observed" => worker[v].result \in Outcomes
      BY DEF IInv, Held, Granted, Busy, Working
    <2>5. CASE Busy(v) /\ worker[v].stage # "handling"
               /\ worker[v].job = j /\ worker[v].key = k
      <3>1. worker[v].stage # "calling"
        BY <2>1, <2>5, <1>1, <1>8 DEF OneCaller
      <3>2. worker[v].stage # "observed"
        BY <2>1, <2>4, <2>5, <1>5, NullAssumption DEF Engaged
      <3> QED
        BY <2>1, <3>1, <3>2, <1>1 DEF Engaged
    <2>6. CASE Busy(v) /\ worker[v].stage # "handling"
               /\ (worker[v].job # j \/ worker[v].key # k)
      <3>1. provider'[worker[v].job][worker[v].key] = provider[worker[v].job][worker[v].key]
        BY <2>2, <2>3, <2>6, <1>6
      <3> QED
        BY <2>1, <3>1, <1>1 DEF Engaged
    <2>7. CASE ~Busy(v) \/ worker[v].stage = "handling"
      BY <2>1, <2>7 DEF Engaged, Busy, Working
    <2> QED
      BY <2>5, <2>6, <2>7
  <1>9. Engaged(w)'
    BY <1>1, <1>2, <1>4, <1>6 DEF Engaged
  <1>10. \A v \in Workers : v # w => Owner(v)'
    BY <1>1, <1>2, OthersOwn DEF IInv, Work
  <1>11. Owner(w)'
    <2> SUFFICES ASSUME Current(w)' PROVE Owner(w)'
      BY DEF Owner
    <2>1. Current(w)
      BY <1>2, <1>3, OwnersStay DEF IInv
    <2>2. worker[w].version = Version(j) /\ Pending(j) = {k}
      BY <2>1, <1>1, <1>3 DEF IInv, Work, Owner
    <2> QED
      BY <2>2, <1>1, <1>2 DEF Owner, Version, Pending
  <1>12. \A u, v \in Workers : OneCaller(u, v)'
    BY <1>2 DEF IInv, Work, OneCaller
  <1> QED
    BY <1>7, <1>8, <1>9, <1>10, <1>11, <1>12 DEF Work

\* Asking about an earlier call yields the provider's outcome.
LEMMA ReconcileWork ==
    ASSUME IInv, Held', RowsGrow, [Next]_vars, NEW w \in Workers, Reconcile(w)
    PROVE  Work'
  <1> DEFINE j == worker[w].job
             k == worker[w].key
  <1>1. worker[w].stage = "looking" /\ UNCHANGED <<job, leases, checkpoints, effects, provider>>
    BY DEF Reconcile
  <1>2. /\ \A v \in Workers : v # w => worker'[v] = worker[v]
        /\ worker'[w].stage = "observed" /\ worker'[w].result = provider[j][k].outcome
        /\ worker'[w].job = j /\ worker'[w].key = k /\ worker'[w].token = worker[w].token
        /\ worker'[w].version = worker[w].version
    <2>1. worker \in [Workers -> Grants(Tokens)] /\ worker[w] \in Grants(Tokens)
      BY DEF IInv, Held, WorkTypes
    <2>2. PICK g : g = [worker[w] EXCEPT !.stage = "observed", !.result = provider[j][k].outcome]
      OBVIOUS
    <2>3. worker' = [worker EXCEPT ![w] = g]
      BY <2>1, <2>2 DEF Reconcile
    <2> QED
      BY <2>1, <2>2, <2>3 DEF Grants
  <1>3. Busy(w) /\ effects[j][k].status # "ABSENT"
    BY <1>1 DEF IInv, Work, Engaged, Busy, Working
  <1>4. \A i \in Jobs, x \in Keys : Known(i, x)'
    BY <1>1, KnownKept
  <1>5. \A v \in Workers : Engaged(v)'
    <2>1. ASSUME NEW v \in Workers, v # w PROVE Engaged(v)'
      <3>1. Engaged(v) /\ worker'[v] = worker[v]
        BY <1>2, <2>1 DEF IInv, Work
      <3> QED
        BY <3>1, <1>1 DEF Engaged
    <2>2. Engaged(w)'
      BY <1>1, <1>2, <1>3 DEF Engaged
    <2> QED
      BY <2>1, <2>2
  <1>6. \A v \in Workers : v # w => Owner(v)'
    BY <1>1, <1>2, OthersOwn DEF IInv, Work
  <1>7. Owner(w)'
    <2> SUFFICES ASSUME Current(w)' PROVE Owner(w)'
      BY DEF Owner
    <2>1. Current(w)
      BY <1>2, <1>3, OwnersStay DEF IInv
    <2>2. worker[w].version = Version(j) /\ Pending(j) = {k}
      BY <2>1, <1>1, <1>3 DEF IInv, Work, Owner
    <2> QED
      BY <2>2, <1>1, <1>2 DEF Owner, Version, Pending
  <1>8. \A u, v \in Workers : OneCaller(u, v)'
    BY <1>2 DEF IInv, Work, OneCaller
  <1> QED
    BY <1>4, <1>5, <1>6, <1>7, <1>8 DEF Work

\* A recorded result is the provider's; whoever is about to call works on another effect.
LEMMA RecordWork ==
    ASSUME IInv, Held', RowsGrow, [Next]_vars, NEW w \in Workers, Record(w)
    PROVE  Work'
  <1> DEFINE j == worker[w].job
             k == worker[w].key
             result == worker[w].result
  <1>1. /\ worker[w].stage = "observed" /\ Current(w) /\ UNCHANGED <<job, leases, provider>>
        /\ checkpoints' = [checkpoints EXCEPT ![j] = Append(checkpoints[j], worker[w].token)]
    BY DEF Record, Recordable
  <1>2. /\ \A v \in Workers : v # w => worker'[v] = worker[v]
        /\ worker'[w].stage = "handling" /\ worker'[w].job = j
        /\ worker'[w].version = worker[w].version + 1
    BY DEF Record, IInv, Held, WorkTypes, Grants
  <1>3. /\ j \in Jobs /\ k \in Keys /\ Busy(w) /\ result \in Outcomes
        /\ result = provider[j][k].outcome /\ job[j].status = "RUNNING"
        /\ worker[w].version = Version(j)
    BY <1>1 DEF IInv, Held, Work, Engaged, Owner, Granted, Busy, Working, Current
  <1>4. Len(checkpoints'[j]) = Version(j) + 1
    BY <1>1, <1>3, AppendFacts DEF IInv
  <1>5. \A i \in Jobs : i # j => checkpoints'[i] = checkpoints[i]
    BY <1>1, <1>3 DEF IInv, Held, WorkTypes
  <1>6. /\ \A i \in Jobs, x \in Keys : i # j \/ x # k => effects'[i][x] = effects[i][x]
        /\ \A i \in Jobs : i # j => effects'[i] = effects[i]
        /\ effects[j][k].status \in {"PENDING", result}
        /\ effects'[j][k].status = result
    <2>1. PICK e : e = [effects[j][k] EXCEPT !.status = result, !.completed = worker[w].token]
      OBVIOUS
    <2>2. e.status = result
      BY <2>1, <1>3 DEF IInv, Held, WorkTypes, EffectRows
    <2>3. effects[j][k].status \in {"PENDING", result}
      BY DEF Record
    <2>4. \/ effects' = [effects EXCEPT ![j] = [effects[j] EXCEPT ![k] = e]]
          \/ effects' = effects /\ effects[j][k].status = result
      <3>1. effects \in [Jobs -> [Keys -> EffectRows(Tokens)]]
        BY DEF IInv, Held, WorkTypes
      <3> QED
        BY <2>1, <2>3, <1>3, <3>1 DEF Record
    <2>5. /\ \A i \in Jobs, x \in Keys : i # j \/ x # k => effects'[i][x] = effects[i][x]
          /\ \A i \in Jobs : i # j => effects'[i] = effects[i]
          /\ effects'[j][k].status = result
      BY <2>2, <2>4, <1>3 DEF IInv, Held, WorkTypes
    <2> QED
      BY <2>3, <2>5
  <1>7. ASSUME NEW i \in Jobs, NEW x \in Keys PROVE Known(i, x)'
    <2>1. Known(i, x)
      BY DEF IInv, Work
    <2>2. CASE i = j /\ x = k
      BY <2>1, <2>2, <1>1, <1>3, <1>6 DEF Known, Outcomes
    <2>3. CASE i # j \/ x # k
      BY <2>1, <2>3, <1>1, <1>6 DEF Known
    <2> QED
      BY <2>2, <2>3
  <1>8. ASSUME NEW v \in Workers, v # w PROVE Engaged(v)'
    <2>1. Engaged(v) /\ worker'[v] = worker[v]
      BY <1>2, <1>8 DEF IInv, Work
    <2>2. Busy(v) => worker[v].job \in Jobs
      BY DEF IInv, Held, Granted
    <2>3. Busy(v) /\ worker[v].stage # "handling" => worker[v].key \in Keys
      BY DEF IInv, Held, Granted
    <2>4. CASE Busy(v) /\ worker[v].stage # "handling"
               /\ worker[v].job = j /\ worker[v].key = k
      <3>1. provider[j][k].calls # 0
        BY <1>3, NullAssumption DEF IInv, Work, Known
      <3>2. worker[v].stage # "calling"
        BY <2>1, <2>4, <3>1 DEF Engaged
      <3> QED
        BY <2>1, <2>4, <3>2, <1>1, <1>3, <1>6 DEF Engaged, Outcomes
    <2>5. CASE Busy(v) /\ worker[v].stage # "handling"
               /\ (worker[v].job # j \/ worker[v].key # k)
      <3>1. effects'[worker[v].job][worker[v].key] = effects[worker[v].job][worker[v].key]
        BY <2>2, <2>3, <2>5, <1>6
      <3> QED
        BY <2>1, <3>1, <1>1 DEF Engaged
    <2>6. CASE ~Busy(v) \/ worker[v].stage = "handling"
      BY <2>1, <2>6 DEF Engaged, Busy, Working
    <2> QED
      BY <2>4, <2>5, <2>6
  <1>9. Engaged(w)'
    BY <1>2 DEF Engaged
  <1>10. \A v \in Workers : v # w => Owner(v)'
    BY <1>1, <1>2, <1>3, <1>5, <1>6, OthersOwn DEF IInv, Work
  <1>11. Owner(w)'
    BY <1>2, <1>3, <1>4 DEF Owner, Version
  <1>12. \A u, v \in Workers : OneCaller(u, v)'
    BY <1>2 DEF IInv, Work, OneCaller
  <1> QED
    BY <1>7, <1>8, <1>9, <1>10, <1>11, <1>12 DEF Work

\* Work is inductive relative to Held.
LEMMA WorkKept ==
    ASSUME IInv, Held', RowsGrow, [Next]_vars
    PROVE  Work'
  <1>1. CASE \/ UNCHANGED vars
             \/ \E j \in Jobs : Schedule(j)
             \/ \E n \in 1 .. Len(leases) : Expire(n)
             \/ ApiRestart
             \/ \E w \in Workers : Register(w)
    <2>1. UNCHANGED <<checkpoints, effects, provider, worker>>
      BY <1>1 DEF vars, Schedule, Expire, ApiRestart, Register
    <2> QED
      BY <2>1, QuietWork
  <1>2. CASE \E t \in Tasks : TaskStep(t)
    <2>1. UNCHANGED <<checkpoints, effects, provider, worker>>
      BY <1>2, TaskTypes DEF IInv, Held
    <2> QED
      BY <2>1, QuietWork
  <1>3. ASSUME NEW w \in Workers, Claim(w) PROVE Work'
    <2>1. CASE ClaimNothing(w)
      BY <2>1, QuietWork DEF ClaimNothing
    <2>2. CASE \E X \in SUBSET Jobs, j \in Jobs : ClaimNext(w, X, j)
      BY <2>2, ClaimWork
    <2> QED
      BY <1>3, <2>1, <2>2 DEF Claim
  <1>4. ASSUME NEW w \in Workers,
               \/ Ignore(w) \/ Lose(w) \/ Crash(w) \/ Restart(w) \/ PauseAttempt(w)
               \/ \E failure \in Failures : Raise(w, failure)
        PROVE  Work'
    <2>1. Stops(w)
      BY <1>4, PauseIsRefused DEF IInv, Held, Stops, Ignore, Lose, Crash, Restart, PauseAttempt,
                                  Raise
    <2>2. UNCHANGED <<checkpoints, effects, provider>>
      BY <1>4 DEF Ignore, Lose, Crash, Restart, PauseAttempt, Raise, db
    <2> QED
      BY <2>1, <2>2, StopWork
  <1>5. ASSUME NEW w \in Workers, NEW final \in BOOLEAN, Complete(w, final) PROVE Work'
    <2>1. Stops(w) /\ UNCHANGED <<effects, provider>> /\ Busy(w) /\ Current(w)
      BY <1>5 DEF Stops, Complete, Busy, Working
    <2>2. \A i \in Jobs : i # worker[w].job => UNCHANGED checkpoints[i]
      BY <1>5 DEF Complete, IInv, Held, WorkTypes
    <2> QED
      BY <2>1, <2>2, StopWork
  <1>6. ASSUME NEW w \in Workers, Handle(w) PROVE Work'
    BY <1>1, <1>4, <1>5, <1>6, CheckpointWork, PrepareWork, ExecuteWork, ReconcileWork, RecordWork
       DEF Handle
  <1> QED
    BY <1>1, <1>2, <1>3, <1>4, <1>6 DEF Next

LEMMA InitIInv == Init => IInv
  <1> SUFFICES ASSUME Init PROVE IInv
    OBVIOUS
  <1> USE DEF Init
  <1>1. Len(leases) = 0 /\ Tokens = {0} /\ \A j : LeasesOf(j) = {}
    BY DEF Tokens, LeasesOf
  <1>2. Cardinality({}) = 0
    BY FS_EmptySet
  <1>3. RowTypes
    BY <1>1, JobsAssumption DEF RowTypes, JobStatus
  <1>4. \A j \in Jobs : Leased(j) /\ Counted(j)
    BY <1>1, <1>2 DEF Leased, Counted
  <1>5. Rows
    BY <1>1, <1>3, <1>4 DEF Rows
  <1>6. \A w \in Workers : worker[w] = Idle
    OBVIOUS
  <1>7. \A w \in Workers : worker[w].stage = "idle" /\ ~Busy(w)
    BY <1>6 DEF Idle, Busy, Working
  <1>8. WorkTypes(Tokens)
    <2>1. worker \in [Workers -> Grants(Tokens)]
      BY <1>1, IdleIsAGrant
    <2>2. checkpoints \in [Jobs -> Seq(Tokens)] /\ mode \in [Tasks -> Modes]
          /\ ignored \in [Jobs -> [Keys -> Tokens]]
      BY <1>1 DEF Modes
    <2>3. effects \in [Jobs -> [Keys -> EffectRows(Tokens)]]
          /\ provider \in [Jobs -> [Keys -> Performed]]
      BY <1>1 DEF EffectRows, Performed
    <2> QED
      BY <2>1, <2>2, <2>3 DEF WorkTypes
  <1>9. Held
    BY <1>5, <1>7, <1>8 DEF Held, Granted, OneGrant
  <1>10. \A j \in Jobs, k \in Keys : Known(j, k)
    BY DEF Known, Outcomes
  <1>11. Work
    BY <1>7, <1>10 DEF Work, Engaged, Owner, OneCaller
  <1> QED
    BY <1>9, <1>11 DEF IInv

\* IInv is inductive.
THEOREM Invariance == Spec => []IInv
  <1>1. Init => IInv
    BY InitIInv
  <1>2. IInv /\ [Next]_vars => IInv'
    BY HeldKept, HeldSteps, WorkKept DEF IInv
  <1> QED
    BY <1>1, <1>2, PTL DEF Spec

-----------------------------------------------------------------------------
(* The properties *)

BarrierTypes == target \in [Jobs -> TargetStatus] /\ outage \subseteq Jobs

\* What bars a task keeps its type; only a worker that holds a job leaves an outage of it.
LEMMA BarrierSteps ==
    ASSUME IInv, BarrierTypes, [Next]_vars
    PROVE  BarrierTypes'
  <1> USE DEF BarrierTypes
  <1>1. ASSUME UNCHANGED barriers PROVE BarrierTypes'
    BY <1>1 DEF barriers
  <1>2. CASE \/ UNCHANGED vars
             \/ \E j \in Jobs : Schedule(j)
             \/ \E n \in 1 .. Len(leases) : Expire(n)
    BY <1>1, <1>2 DEF vars, Schedule, Expire
  <1>3. CASE ApiRestart \/ \E w \in Workers : Restart(w)
    BY <1>3 DEF ApiRestart, Restart, Observe
  <1>4. ASSUME NEW t \in Tasks, TaskStep(t) PROVE BarrierTypes'
    <2>1. ASSUME NEW P, CancelTargets(t, P) PROVE target' \in [Jobs -> TargetStatus]
      BY <2>1 DEF CancelTargets, TargetStatus
    <2>2. CASE SteerScope(t) \/ Cancel(t) \/ FenceEnded(t)
      BY <2>1, <2>2 DEF SteerScope, Cancel, FenceEnded
    <2>3. CASE Hold(t) \/ Resume(t) \/ \E m \in Modes : End(t, m)
      BY <1>1, <2>3 DEF Hold, Resume, End
    <2> QED
      BY <1>4, <2>2, <2>3 DEF TaskStep
  <1>5. ASSUME NEW w \in Workers, Claim(w) \/ Crash(w) PROVE BarrierTypes'
    BY <1>1, <1>5 DEF Claim, ClaimNext, ClaimNothing, Crash, db
  <1>6. ASSUME NEW w \in Workers, Handle(w) PROVE BarrierTypes'
    <2>1. CASE Register(w)
      BY <2>1 DEF Register, TargetStatus
    <2>2. ASSUME NEW failure \in Failures, Raise(w, failure) PROVE BarrierTypes'
      <3>1. worker[w].job \in Jobs
        BY <2>2 DEF Raise, IInv, Held, Granted, Busy, Working
      <3> QED
        BY <2>2, <3>1 DEF Raise
    <2>3. CASE \/ Checkpoint(w) \/ Reconcile(w) \/ Record(w) \/ Ignore(w) \/ Lose(w)
               \/ PauseAttempt(w)
               \/ \E k \in Keys : Prepare(w, k)
               \/ \E outcome \in Outcomes, answered \in BOOLEAN : Execute(w, outcome, answered)
               \/ \E final \in BOOLEAN : Complete(w, final)
      BY <1>1, <2>3 DEF Checkpoint, Reconcile, Record, Ignore, Lose, PauseAttempt, Prepare,
                        Execute, Complete
    <2> QED
      BY <1>6, <2>1, <2>2, <2>3 DEF Handle
  <1> QED
    BY <1>2, <1>3, <1>4, <1>5, <1>6 DEF Next

\* Every variable keeps its type (the rows of background_jobs.py and its workers' grants).
THEOREM TypeCorrect == Spec => []TypeOK
  <1>1. IInv /\ BarrierTypes => TypeOK
    BY DEF IInv, Held, Rows, RowTypes, WorkTypes, Grants, EffectRows, Performed, BarrierTypes,
           TypeOK
  <1>2. Init => BarrierTypes
    BY DEF Init, BarrierTypes, TargetStatus
  <1>3. IInv /\ BarrierTypes /\ [Next]_vars => BarrierTypes'
    BY BarrierSteps
  <1> QED
    BY <1>1, <1>2, <1>3, Invariance, PTL DEF Spec

\* A running job has exactly one unreleased lease, its newest, and any other job none:
\* claim_next, the releases, recovery and the fences never leave two grants in force.
THEOREM ExclusiveLeases == Spec => []LeaseIsExclusive
  <1>1. IInv => LeaseIsExclusive
    <2> SUFFICES ASSUME IInv, NEW j \in Jobs
                 PROVE  {n \in LeasesOf(j) : leases[n].released = None} =
                           IF job[j].status = "RUNNING"
                           THEN {n \in {job[j].lease} : \A m \in LeasesOf(j) : m <= n} ELSE {}
      BY DEF LeaseIsExclusive
    <2>1. Leased(j) /\ Rows
      BY DEF IInv, Held, Rows
    <2>2. ASSUME NEW n \in LeasesOf(j), leases[n].released = None PROVE n = job[j].lease /\ n # 0
      BY <2>1, <2>2 DEF Rows, Owned, LeasesOf
    <2>3. CASE job[j].status = "RUNNING"
      <3>1. job[j].lease \in LeasesOf(j)
        BY <2>1, <2>3, RunningWasClaimed
      <3>2. leases[job[j].lease].released = None
            /\ \A m \in LeasesOf(j) : m <= job[j].lease
        BY <2>1, <2>3 DEF Leased, LeasesOf
      <3> QED
        BY <2>2, <2>3, <3>1, <3>2
    <2>4. CASE job[j].status # "RUNNING"
      BY <2>1, <2>2, <2>4 DEF Leased
    <2> QED
      BY <2>3, <2>4
  <1> QED
    BY <1>1, Invariance, PTL

\* The attempts of a job are its leases, numbered in the order they were granted.
THEOREM AttemptsCounted == Spec => []AttemptsAreLeases
  <1>1. IInv => AttemptsAreLeases
    BY DEF IInv, Held, Rows, Counted, AttemptsAreLeases
  <1> QED
    BY <1>1, Invariance, PTL

\* The worker that owns a job knows its version, its one unresolved effect, and what the
\* provider did: no checkpoint and no result of an owner is refused.
THEOREM OwnersKnow == Spec => []OwnerIsCurrent
  <1>1. IInv => OwnerIsCurrent
    BY DEF IInv, Work, Owner, Engaged, Busy, Working, OwnerIsCurrent
  <1> QED
    BY <1>1, Invariance, PTL

-----------------------------------------------------------------------------
(* The action properties *)

\* Progress is made under a lease: a job that is not running keeps its checkpoints and
\* effects.
LEMMA ProgressNeedsLease ==
    ASSUME Held, [Next]_vars, NEW j \in Jobs, job[j].status # "RUNNING"
    PROVE  checkpoints'[j] = checkpoints[j] /\ effects'[j] = effects[j]
  <1> DEFINE Kept == checkpoints'[j] = checkpoints[j] /\ effects'[j] = effects[j]
  <1>1. CASE \/ UNCHANGED vars
             \/ \E i \in Jobs : Schedule(i)
             \/ \E n \in 1 .. Len(leases) : Expire(n)
             \/ ApiRestart
    BY <1>1 DEF vars, Schedule, Expire, ApiRestart
  <1>2. CASE \E t \in Tasks : TaskStep(t)
    BY <1>2, TaskTypes DEF Held
  <1>3. ASSUME NEW w \in Workers,
               \/ Claim(w) \/ Ignore(w) \/ Lose(w) \/ Crash(w) \/ Restart(w)
               \/ PauseAttempt(w) \/ Reconcile(w) \/ Register(w)
               \/ \E failure \in Failures : Raise(w, failure)
               \/ \E outcome \in Outcomes, answered \in BOOLEAN : Execute(w, outcome, answered)
        PROVE  Kept
    BY <1>3 DEF Claim, ClaimNext, ClaimNothing, Ignore, Lose, Crash, Restart, PauseAttempt,
                Reconcile, Raise, Execute, Register, db
  <1>4. ASSUME NEW w \in Workers, Current(w)
        PROVE  worker[w].job # j
    BY <1>4 DEF Current
  <1>5. ASSUME NEW w \in Workers,
               Checkpoint(w) \/ \E final \in BOOLEAN : Complete(w, final)
        PROVE  Kept
    <2>1. worker[w].job # j
      BY <1>4, <1>5 DEF Checkpoint, Complete
    <2> QED
      BY <1>5, <2>1 DEF Checkpoint, Complete, Held, WorkTypes
  <1>6. ASSUME NEW w \in Workers, Record(w) \/ \E k \in Keys : Prepare(w, k)
        PROVE  Kept
    <2>1. worker[w].job # j
      BY <1>4, <1>6 DEF Record, Recordable, Prepare
    <2>2. effects \in [Jobs -> [Keys -> EffectRows(Tokens)]] /\ checkpoints \in [Jobs -> Seq(Tokens)]
      BY DEF Held, WorkTypes
    <2> QED
      BY <1>6, <2>1, <2>2 DEF Record, Prepare
  <1>7. ASSUME NEW w \in Workers, Handle(w) PROVE Kept
    BY <1>3, <1>5, <1>6, <1>7 DEF Handle
  <1> QED
    BY <1>1, <1>2, <1>3, <1>7 DEF Next

\* A job that ended is left alone by every step, also by workers that still hold an old
\* grant of it.
THEOREM Frozen == Spec => FinishedJobIsFrozen
  <1>1. ASSUME IInv, [Next]_vars
        PROVE  [\A j \in Jobs : job[j].status \in FinalStatus =>
                   UNCHANGED <<job[j], checkpoints[j], effects[j]>>]_vars
    <2> SUFFICES ASSUME NEW j \in Jobs, job[j].status \in FinalStatus
                 PROVE  UNCHANGED <<job[j], checkpoints[j], effects[j]>>
      OBVIOUS
    <2>1. RowsGrow
      BY <1>1, HeldSteps DEF IInv
    <2>2. job'[j] = job[j]
      BY <2>1 DEF RowsGrow
    <2>3. job[j].status # "RUNNING"
      BY DEF FinalStatus
    <2>4. checkpoints'[j] = checkpoints[j] /\ effects'[j] = effects[j]
      BY <1>1, <2>3, ProgressNeedsLease DEF IInv
    <2> QED
      BY <2>2, <2>4
  <1> QED
    BY <1>1, Invariance, PTL DEF Spec, FinishedJobIsFrozen

\* What the triggers say of one step.
UpdatesAccepted ==
    \A j \in Jobs : job[j].status # "ABSENT" /\ job'[j] # job[j] =>
        JobUpdateAccepted(job[j], job'[j], leases')

InsertAccepted ==
    Len(leases') > Len(leases) =>
        LET l == leases'[Len(leases')]
        IN  LeaseInsertAccepted(job[l.job], l, leases)

\* A job may leave the queue or its lease in the ways Departures lists.
LEMMA LeavingAccepted ==
    ASSUME Rows, NEW S \in SUBSET (JobStatus \ {"RUNNING"}), Leaving(S)
    PROVE  UpdatesAccepted /\ InsertAccepted
  <1>1. PICK X \in SUBSET Jobs, status \in [Jobs -> S], reason \in ReleaseReasons :
           Leave(X, status, reason)
    BY DEF Leaving
  <1>2. status \in [Jobs -> JobStatus \ {"RUNNING"}]
    OBVIOUS
  <1>3. /\ Len(leases') = Len(leases)
        /\ \A n \in 1 .. Len(leases) :
              /\ leases'[n].expired = leases[n].expired
              /\ leases'[n].released = IF n \in {job[i].lease : i \in X} \ {0}
                                       THEN reason ELSE leases[n].released
    BY <1>1, <1>2, LeaveFacts
  <1>4. \A i \in Jobs :
           /\ job'[i].attempts = job[i].attempts
           /\ job'[i].status = IF i \in X THEN status[i] ELSE job[i].status
           /\ job'[i].lease = IF i \in X THEN 0 ELSE job[i].lease
           /\ i \notin X => job'[i] = job[i]
    BY <1>1, <1>2, LeaveFacts
  <1>5. ASSUME NEW j \in Jobs, job'[j] # job[j]
        PROVE  JobUpdateAccepted(job[j], job'[j], leases')
    <2>1. /\ j \in X /\ job'[j].status = status[j] /\ job'[j].lease = 0
          /\ job'[j].attempts = job[j].attempts /\ job'[j].status # "RUNNING"
      BY <1>2, <1>4, <1>5
    <2>2. job[j].attempts <= MaxAttempts
      BY JobsAssumption DEF Rows, RowTypes
    <2>3. CASE job[j].status = "QUEUED" /\ status[j] = "CANCELLED"
      BY <2>1, <2>2, <2>3 DEF JobUpdateAccepted
    <2>4. CASE /\ job[j].status = "RUNNING"
               /\ <<status[j], reason, leases[job[j].lease].expired>> \in Departures
      <3>1. job[j].lease \in 1 .. Len(leases) /\ job[j].lease \in {job[i].lease : i \in X} \ {0}
        BY <2>1, <2>4, RunningWasClaimed
      <3>2. /\ leases'[job[j].lease].released = reason
            /\ leases'[job[j].lease].expired = leases[job[j].lease].expired
        BY <3>1, <1>3
      <3>3. <<job'[j].status, leases'[job[j].lease].released, leases'[job[j].lease].expired>>
               \in Departures
        BY <2>1, <2>4, <3>2
      <3> QED
        BY <2>1, <2>2, <2>4, <3>3 DEF JobUpdateAccepted, Departures
    <2> QED
      BY <1>1, <2>1, <2>3, <2>4 DEF Leave
  <1> QED
    BY <1>3, <1>5 DEF UpdatesAccepted, InsertAccepted, Rows, RowTypes

\* A claim may lease a queued job with attempts left or one whose lease ran out, and may
\* fail one whose last lease ran out.
LEMMA ClaimAccepted ==
    ASSUME Rows, NEW w \in Workers, NEW X \in SUBSET Jobs, NEW j \in Jobs,
           ClaimNext(w, X, j)
    PROVE  UpdatesAccepted /\ InsertAccepted
  <1>1. /\ \A x \in X : job[x].status = "RUNNING" /\ leases[job[x].lease].expired
        /\ ~Exhausted(j)
        /\ \/ job[j].status = "QUEUED"
           \/ job[j].status = "RUNNING" /\ leases[job[j].lease].expired
    <2>1. ASSUME NEW x \in X PROVE Claimable(x) /\ job[x].status = "RUNNING"
      BY DEF ClaimNext
    <2>2. Claimable(j) /\ ~Exhausted(j)
      BY DEF ClaimNext
    <2> QED
      BY <2>1, <2>2 DEF Claimable, Expired
  <1>2. leases \in Seq(Leases) /\ Len(leases) \in Nat
    BY DEF Rows, RowTypes
  <1>3. job[j].attempts \in 0 .. MaxAttempts /\ job[j].attempts < MaxAttempts
    BY <1>1, JobsAssumption DEF Rows, RowTypes, Exhausted
  <1>4. /\ leases' \in Seq(Leases)
        /\ Len(leases') = Len(leases) + 1
        /\ \A n \in 1 .. Len(leases) :
              /\ leases'[n].job = leases[n].job
              /\ leases'[n].attempt = leases[n].attempt
              /\ leases'[n].expired = leases[n].expired
              /\ leases'[n].released =
                    IF n \in Superseded(j) THEN "SUPERSEDED"
                    ELSE IF n \in {job[x].lease : x \in X} THEN "EXPIRED"
                    ELSE leases[n].released
        /\ leases'[Len(leases) + 1] = NextLease(j)
    BY ClaimedLeases
  <1>5. /\ NextLease(j).job = j /\ NextLease(j).released = None
        /\ NextLease(j).attempt = job[j].attempts + 1
    BY NextLeaseFacts
  <1>6a. j \notin X
    BY ClaimedJobs
  <1>6b. \A i \in X : /\ job'[i].attempts = job[i].attempts
                      /\ job'[i].status = "FAILED"
                      /\ job'[i].lease = 0
    BY ClaimedJobs
  <1>6. /\ job'[j].attempts = job[j].attempts + 1
        /\ job'[j].status = "RUNNING"
        /\ job'[j].lease = Len(leases) + 1
    BY ClaimedJobs
  <1>7. InsertAccepted
    BY <1>1, <1>2, <1>3, <1>4, <1>5 DEF InsertAccepted, LeaseInsertAccepted
  <1>8. JobUpdateAccepted(job[j], job'[j], leases')
    <2>1. /\ job'[j].attempts <= MaxAttempts /\ job'[j].lease # 0
          /\ leases'[job'[j].lease].released = None
      BY <1>2, <1>3, <1>4, <1>5, <1>6, JobsAssumption
    <2>2. CASE job[j].status = "QUEUED"
      BY <2>1, <2>2, <1>6 DEF JobUpdateAccepted
    <2>3. CASE job[j].status = "RUNNING"
      <3>1. job[j].lease \in 1 .. Len(leases)
        BY <2>3, RunningWasClaimed
      <3>2. leases'[job[j].lease].expired /\ job'[j].lease > job[j].lease
        BY <3>1, <1>1, <1>2, <1>4, <1>6, <2>3
      <3> QED
        BY <2>1, <2>3, <3>2, <1>6 DEF JobUpdateAccepted
    <2> QED
      BY <1>1, <2>2, <2>3
  <1>9. ASSUME NEW i \in X PROVE JobUpdateAccepted(job[i], job'[i], leases')
    <2>1. job[i].status = "RUNNING" /\ i # j /\ i \in Jobs
      BY <1>1, <1>6a
    <2>2. /\ job[i].lease \in 1 .. Len(leases) /\ leases[job[i].lease].job = i
          /\ job[i].attempts <= MaxAttempts
      <3>1. job[i].lease \in 1 .. Len(leases) /\ job[i].lease \in LeasesOf(i)
        BY <2>1, RunningWasClaimed
      <3>2. job[i].attempts \in 0 .. MaxAttempts
        BY <2>1 DEF Rows, RowTypes
      <3> QED
        BY <3>1, <3>2, JobsAssumption DEF LeasesOf
    <2>3. job[i].lease \notin Superseded(j)
      <3> SUFFICES ASSUME job[j].status = "RUNNING", job[j].lease = job[i].lease PROVE FALSE
        BY DEF Superseded
      <3>1. job[j].lease \in LeasesOf(j)
        BY RunningWasClaimed
      <3> QED
        BY <3>1, <2>1, <2>2 DEF LeasesOf
    <2>4. leases'[job[i].lease].released = "EXPIRED" /\ leases'[job[i].lease].expired = TRUE
      <3>1. job[i].lease \in {job[x].lease : x \in X}
        OBVIOUS
      <3>2. leases'[job[i].lease].released = "EXPIRED"
        BY <3>1, <2>2, <2>3, <1>4
      <3>3. leases[job[i].lease] \in Leases /\ leases[job[i].lease].expired
        BY <1>1, <1>2, <2>2
      <3>4. leases[job[i].lease].expired = TRUE
        BY <3>3 DEF Leases
      <3> QED
        BY <3>2, <3>4, <2>2, <1>4
    <2> QED
      BY <2>1, <2>2, <2>4, <1>6b DEF JobUpdateAccepted
  <1>10. ASSUME NEW i \in Jobs, job'[i] # job[i] PROVE i \in X \/ i = j
    BY <1>10 DEF ClaimNext
  <1> QED
    BY <1>7, <1>8, <1>9, <1>10 DEF UpdatesAccepted

\* Whatever a step writes to a job or adds as a lease, the triggers of migrations 0006
\* and 0008 accept.
THEOREM WritesPassTriggers == Spec => WritesAreAccepted
  <1>1. ASSUME Held, [Next]_vars PROVE UpdatesAccepted /\ InsertAccepted
    <2>0. Rows /\ (\A w \in Workers : Granted(w)) /\ Len(leases) \in Nat
      BY <1>1 DEF Held, Rows, RowTypes
    <2>1. CASE UNCHANGED <<job, leases>>
      BY <2>0, <2>1 DEF UpdatesAccepted, InsertAccepted
    <2>2. ASSUME NEW j \in Jobs, Schedule(j) PROVE UpdatesAccepted /\ InsertAccepted
      <3>1. /\ leases' = leases /\ job[j].status = "ABSENT"
            /\ \A i \in Jobs : i # j => job'[i] = job[i]
        BY <2>0, <2>2, ScheduleFacts
      <3> QED
        BY <2>0, <3>1 DEF UpdatesAccepted, InsertAccepted
    <2>3. CASE Leaving(Unsuccessful)
      <3>1. Unsuccessful \in SUBSET (JobStatus \ {"RUNNING"})
        BY DEF Unsuccessful, JobStatus, FinalStatus
      <3> QED
        BY <2>0, <2>3, <3>1, LeavingAccepted
    <2>4. CASE Leaving({"SUCCEEDED"})
      <3>1. {"SUCCEEDED"} \in SUBSET (JobStatus \ {"RUNNING"})
        BY DEF JobStatus, FinalStatus
      <3> QED
        BY <2>0, <2>4, <3>1, LeavingAccepted
    <2>5. ASSUME NEW n \in 1 .. Len(leases), Expire(n)
          PROVE  UpdatesAccepted /\ InsertAccepted
      <3>1. job' = job /\ Len(leases') = Len(leases)
        BY <2>0, <2>5, ExpireFacts
      <3> QED
        BY <2>0, <3>1 DEF UpdatesAccepted, InsertAccepted
    <2>6. ASSUME NEW w \in Workers, NEW X \in SUBSET Jobs, NEW j \in Jobs, ClaimNext(w, X, j)
          PROVE  UpdatesAccepted /\ InsertAccepted
      BY <2>0, <2>6, ClaimAccepted
    <2> QED
      BY <1>1, <2>0, <2>1, <2>2, <2>3, <2>4, <2>5, <2>6, RowSteps DEF RowStep, Completion
  <1>2. IInv /\ [Next]_vars =>
          [/\ \A j \in Jobs : job[j].status # "ABSENT" /\ job'[j] # job[j] =>
                 JobUpdateAccepted(job[j], job'[j], leases')
           /\ Len(leases') > Len(leases) =>
                 LET l == leases'[Len(leases')]
                 IN  LeaseInsertAccepted(job[l.job], l, leases)]_vars
    BY <1>1 DEF IInv, UpdatesAccepted, InsertAccepted
  <1> QED
    BY <1>2, Invariance, PTL DEF Spec, WritesAreAccepted

-----------------------------------------------------------------------------
(* The refinement of JobPromise *)

\* What the promise sees of a job and of an effect.
Ending(j) == IF job[j].status \in FinalStatus THEN job[j].status ELSE "open"

Result(j, k) == IF effects[j][k].status \in Outcomes THEN effects[j][k].status ELSE None

OutcomeMap == [j \in Jobs |-> Ending(j)]
RecordedMap == [j \in Jobs |-> [k \in Keys |-> Result(j, k)]]

\* Nothing but these three steps touches effects or providers.
LEMMA EffectsChange ==
    ASSUME Held, [Next]_vars
    PROVE  \/ UNCHANGED <<effects, provider>>
           \/ \E w \in Workers : Record(w)
           \/ \E w \in Workers, k \in Keys : Prepare(w, k)
           \/ \E w \in Workers, outcome \in Outcomes, answered \in BOOLEAN :
                 Execute(w, outcome, answered)
  <1> DEFINE Same == UNCHANGED <<effects, provider>>
  <1>1. CASE \/ UNCHANGED vars
             \/ \E i \in Jobs : Schedule(i)
             \/ \E n \in 1 .. Len(leases) : Expire(n)
             \/ ApiRestart
    BY <1>1 DEF vars, Schedule, Expire, ApiRestart
  <1>2. CASE \E t \in Tasks : TaskStep(t)
    BY <1>2, TaskTypes DEF Held
  <1>3. ASSUME NEW w \in Workers,
               \/ Claim(w) \/ Ignore(w) \/ Lose(w) \/ Crash(w) \/ Restart(w)
               \/ PauseAttempt(w) \/ Reconcile(w) \/ Checkpoint(w) \/ Register(w)
               \/ \E failure \in Failures : Raise(w, failure)
               \/ \E final \in BOOLEAN : Complete(w, final)
        PROVE  Same
    BY <1>3 DEF Claim, ClaimNext, ClaimNothing, Ignore, Lose, Crash, Restart, PauseAttempt,
                Reconcile, Raise, Checkpoint, Complete, Register, db
  <1> QED
    BY <1>1, <1>2, <1>3 DEF Next, Handle

\* A call of a provider is the promise's Perform.
LEMMA ExecutePerforms ==
    ASSUME IInv, NEW w \in Workers, NEW outcome \in Outcomes, NEW answered \in BOOLEAN,
           Execute(w, outcome, answered)
    PROVE  \E j \in Jobs, k \in Keys, r \in Promise!Results : Promise!Perform(j, k, r)
  <1> DEFINE j == worker[w].job
             k == worker[w].key
  <1>1. worker[w].stage = "calling" /\ UNCHANGED <<job, effects>>
        /\ provider' = [provider EXCEPT ![j][k] = [outcome |-> outcome, calls |-> @.calls + 1]]
    BY DEF Execute
  <1>2. j \in Jobs /\ k \in Keys
    BY <1>1 DEF IInv, Held, Granted, Busy, Working
  <1>3. effects[j][k].status = "PENDING" /\ provider[j][k].calls = 0
    BY <1>1 DEF IInv, Work, Engaged
  <1>4. job[j].status # "SUCCEEDED"
    BY <1>2, <1>3 DEF IInv, Work, Known
  <1>5. OutcomeMap[j] # "SUCCEEDED" /\ UNCHANGED <<OutcomeMap, RecordedMap>>
    BY <1>1, <1>2, <1>4 DEF OutcomeMap, RecordedMap, Ending, Result
  <1>6. provider' = [provider EXCEPT ![j][k] = [outcome |-> outcome, calls |-> 1]]
    <2>1. provider \in [Jobs -> [Keys -> Performed]]
      BY DEF IInv, Held, WorkTypes
    <2> QED
      BY <1>1, <1>2, <1>3, <2>1
  <1>7. Promise!Perform(j, k, outcome)
    BY <1>3, <1>5, <1>6 DEF Promise!Perform, OutcomeMap, RecordedMap, Ending, Result
  <1>8. outcome \in Promise!Results
    BY DEF Promise!Results, Outcomes
  <1> QED
    BY <1>2, <1>7, <1>8

\* Recording a result is the promise's Record, unless it was recorded before.
LEMMA RecordRecords ==
    ASSUME IInv, NEW w \in Workers, Record(w)
    PROVE  \/ \E j \in Jobs, k \in Keys : Promise!Record(j, k)
           \/ UNCHANGED <<job, effects, provider>>
  <1>0. PICK j, k, result :
           j = worker[w].job /\ k = worker[w].key /\ result = worker[w].result
    OBVIOUS
  <1>1. worker[w].stage = "observed" /\ Current(w) /\ UNCHANGED <<job, provider>>
        /\ effects[j][k].status \in {"PENDING", result}
    BY <1>0 DEF Record, Recordable
  <1>2. /\ j \in Jobs /\ k \in Keys /\ result \in Outcomes
        /\ result = provider[j][k].outcome /\ job[j].status = "RUNNING"
    BY <1>0, <1>1 DEF IInv, Held, Work, Engaged, Granted, Busy, Working, Current
  <1>3. effects \in [Jobs -> [Keys -> EffectRows(Tokens)]]
    BY DEF IInv, Held, WorkTypes
  <1>4. CASE effects[j][k].status # "PENDING"
    BY <1>0, <1>1, <1>4 DEF Record
  <1>5. CASE effects[j][k].status = "PENDING"
    <2>1. PICK e : e = [effects[j][k] EXCEPT !.status = result, !.completed = worker[w].token]
      OBVIOUS
    <2>2. e.status = result
      BY <2>1, <1>2, <1>3 DEF EffectRows
    <2>3. effects' = [effects EXCEPT ![j] = [effects[j] EXCEPT ![k] = e]]
      BY <2>1, <1>0, <1>2, <1>3, <1>5 DEF Record
    <2>4. /\ \A i \in Jobs, x \in Keys : i # j \/ x # k => effects'[i][x] = effects[i][x]
          /\ effects'[j][k].status = result
      BY <2>2, <2>3, <1>2, <1>3
    <2>5. Result(j, k)' = result
      BY <2>4, <1>2 DEF Result
    <2>6. ASSUME NEW i \in Jobs, NEW x \in Keys, i # j \/ x # k
          PROVE  Result(i, x)' = Result(i, x)
      BY <2>4, <2>6 DEF Result
    <2>7. RecordedMap' = [RecordedMap EXCEPT ![j][k] = result]
      BY <2>5, <2>6, <1>2 DEF RecordedMap
    <2>8. RecordedMap[j][k] = None /\ OutcomeMap[j] = "open" /\ OutcomeMap' = OutcomeMap
      BY <1>1, <1>2, <1>5 DEF RecordedMap, OutcomeMap, Result, Ending, Outcomes, FinalStatus
    <2>9. provider[j][k].calls = 1
      BY <1>2, NullAssumption DEF IInv, Work, Known
    <2>10. Promise!Record(j, k)
      BY <2>7, <2>8, <2>9, <1>1, <1>2 DEF Promise!Record, OutcomeMap, RecordedMap, Ending, Result
    <2> QED
      BY <2>10, <1>2
  <1> QED
    BY <1>4, <1>5

\* Every other step is the promise's End, which may end no job.
LEMMA OthersEnd ==
    ASSUME IInv, [Next]_vars, UNCHANGED <<provider, RecordedMap>>,
           \/ UNCHANGED <<effects, provider>>
           \/ UNCHANGED job
    PROVE  \E endings \in [Jobs -> Promise!Endings \cup {"open"}] : Promise!End(endings)
  <1>0. PICK endings : endings = OutcomeMap'
    OBVIOUS
  <1>1. endings \in [Jobs -> Promise!Endings \cup {"open"}]
    BY <1>0 DEF OutcomeMap, Ending, Promise!Endings, FinalStatus
  <1>2. ASSUME NEW j \in Jobs, endings[j] # OutcomeMap[j]
        PROVE  /\ OutcomeMap[j] = "open" /\ endings[j] \in Promise!Endings
               /\ endings[j] = "SUCCEEDED" =>
                     \A k \in Keys : RecordedMap[j][k] = provider[j][k].outcome
    <2>1. job[j].status \in FinalStatus => job'[j] = job[j]
      BY HeldSteps DEF IInv, RowsGrow
    <2>2. endings[j] = Ending(j)' /\ OutcomeMap[j] = Ending(j)
      BY <1>0 DEF OutcomeMap
    <2>3. job[j].status \notin FinalStatus /\ job'[j].status \in FinalStatus
      BY <2>1, <2>2, <1>2 DEF Ending
    <2>4. OutcomeMap[j] = "open" /\ endings[j] = job'[j].status
      BY <2>2, <2>3 DEF Ending
    <2>5. ASSUME endings[j] = "SUCCEEDED", NEW k \in Keys
          PROVE  RecordedMap[j][k] = provider[j][k].outcome
      <3>1. Pending(j) = {}
        BY <2>3, <2>4, <2>5, NewSuccess DEF IInv, FinalStatus
      <3>2. effects[j][k].status \in {"ABSENT"} \cup Outcomes
        BY <3>1 DEF IInv, Held, WorkTypes, EffectRows, Pending
      <3>3. Known(j, k) /\ RecordedMap[j][k] = Result(j, k)
        BY DEF IInv, Work, RecordedMap
      <3> QED
        BY <3>2, <3>3 DEF Known, Result, Outcomes
    <2> QED
      BY <2>3, <2>4, <2>5 DEF Promise!Endings, FinalStatus
  <1>3. Promise!End(endings)
    BY <1>0, <1>2 DEF Promise!End, OutcomeMap, RecordedMap, Ending, Result
  <1> QED
    BY <1>1, <1>3

\* Preparing an effect records nothing.
LEMMA PrepareRecordsNothing ==
    ASSUME IInv, NEW w \in Workers, NEW x \in Keys, Prepare(w, x)
    PROVE  UNCHANGED <<job, provider, RecordedMap>>
  <1> DEFINE j == worker[w].job
  <1>1. worker[w].stage = "handling" /\ UNCHANGED <<job, provider>>
    BY DEF Prepare
  <1>2. j \in Jobs
    BY <1>1 DEF IInv, Held, Granted, Busy, Working
  <1>3. ASSUME NEW i \in Jobs, NEW k \in Keys PROVE Result(i, k)' = Result(i, k)
    <2>1. /\ i # j \/ k # x => effects'[i][k] = effects[i][k]
          /\ effects'[j][x].status = IF effects[j][x].status = "ABSENT" THEN "PENDING"
                                     ELSE effects[j][x].status
      BY <1>2 DEF Prepare, IInv, Held, WorkTypes
    <2> QED
      BY <2>1 DEF Result, Outcomes
  <1> QED
    BY <1>1, <1>3 DEF RecordedMap

\* Whatever workers, leases and crashes it goes through, a job keeps its promise: an
\* effect is performed at most once, a recorded result is its provider's, and a job that
\* succeeded has recorded all it did.
THEOREM PromiseIsKept == Spec => PromiseKept
  <1>1. Init => Promise!Init
    BY DEF Init, Promise!Init, FinalStatus, Outcomes
  <1>2. ASSUME IInv, [Next]_vars PROVE [Promise!Next]_(Promise!promise)
    <2>1. ASSUME NEW w \in Workers, NEW outcome \in Outcomes, NEW answered \in BOOLEAN,
                 Execute(w, outcome, answered)
          PROVE  Promise!Next
      BY <1>2, <2>1, ExecutePerforms DEF Promise!Next
    <2>2. ASSUME NEW w \in Workers, Record(w) PROVE [Promise!Next]_(Promise!promise)
      <3>1. CASE UNCHANGED <<job, effects, provider>>
        BY <3>1 DEF Promise!promise
      <3> QED
        BY <1>2, <2>2, <3>1, RecordRecords DEF Promise!Next
    <2>3. ASSUME NEW w \in Workers, NEW k \in Keys, Prepare(w, k) PROVE Promise!Next
      BY <1>2, <2>3, PrepareRecordsNothing, OthersEnd DEF Promise!Next
    <2>4. CASE UNCHANGED <<effects, provider>>
      <3>1. UNCHANGED RecordedMap
        BY <2>4 DEF RecordedMap, Result
      <3> QED
        BY <1>2, <2>4, <3>1, OthersEnd DEF Promise!Next
    <2>5. Held
      BY <1>2 DEF IInv
    <2> QED
      BY <1>2, <2>1, <2>2, <2>3, <2>4, <2>5, EffectsChange
  <1> QED
    BY <1>1, <1>2, Invariance, PTL DEF Spec, PromiseKept, Promise!Spec

=============================================================================
