---------------------------- MODULE DeliveryProofs ----------------------------
(* Proofs about a candidate on its way to the owner, for any runs, contracts,      *)
(* budgets, comments, rules and deliveries: its validation and the repairs of what *)
(* failed (Validation), and the draft pull request it becomes, up to the hand-off  *)
(* (PullRequests). The two share no state; each has its invariant.                 *)
(*                                                                                 *)
(* Validation. No service compares the attempt of a result with that of a verdict: *)
(* the code compares candidates. What makes this enough is that an attempt keeps   *)
(* its candidate once it has one, no two attempts have the same, and a repair      *)
(* begins none before its candidate is new.                                        *)
(*                                                                                 *)
(* Pull requests. Readiness is taken back by a wake-up that assesses the facts     *)
(* twice. What makes this enough is that while a task is ready only events change  *)
(* the facts, and each event brings a wake-up that has read nothing yet.           *)
EXTENDS Validation, PullRequests, FiniteSetTheorems, WellFoundedInduction, TLAPS


Steps == Working \cup {"DONE", "REFUSED", "INCOMPLETE", "EXHAUSTED"}
MendSteps == {"BEGIN", "HERMES", "COMMIT", "RECORD", "REVALIDATE", "RERUN", "DONE", "REFUSED",
              "FAILED"}
Whys == [ops : SUBSET Operations, asserts : SUBSET (Assertions \X Statuses)]

\* How many runs there may be, and which of some requests is the newest.
Places   == {Cardinality(S) + 1 : S \in SUBSET Runs}
Newest   == {CHOOSE q \in free : \A p \in free : p <= q : free \in SUBSET Nat}
Requests == {0} \cup Newest

Works == [step : Steps, leases : Nat, of : Nat, attempt : Nat, body : Handed, current : BOOLEAN,
          approval : Requests, reason : {"NONE", "EQUIVALENT", "EXHAUSTED"}]
RunRows == [outcome : Outcomes, attempt : Nat, place : Places]
Asks  == [run : Runs, reason : {"NONE", "EQUIVALENT", "EXHAUSTED"}, why : Whys,
          answer : {"PENDING", "RETRY", "ABANDON", "CANCEL"}]
Mends == [run : Runs, why : Whys, step : MendSteps, approval : Requests, made : Nat,
          recorded : BOOLEAN, attempt : Nat]

WorkType  == work \in [Runs -> {NoWork} \cup Works]
RunType   == run \in [Runs -> {NoRun} \cup RunRows]
AskedType == asked \in Seq(Asks)
MendType  == mends \in Seq(Mends)

ValTypes ==
    /\ attempts \in Seq(Nat) /\ made \in Nat
    /\ WorkType /\ RunType /\ AskedType /\ MendType

\* Every attempt has a candidate of its own, but for the first before anything is handed
\* in for it, when nothing can have been repaired.
Attempted ==
    /\ made > 0 /\ Len(attempts) > 0
    /\ \A a \in 1 .. Len(attempts) : attempts[a] <= made
    /\ \A a, b \in 1 .. Len(attempts) : attempts[a] = attempts[b] => a = b
    /\ \A a \in 1 .. Len(attempts) : attempts[a] = 0 => Len(attempts) = 1 /\ mends = << >>

\* What is handed in for an attempt is of its candidate.
Placed(r) ==
    work[r].step # "NONE" =>
        /\ work[r].attempt \in 1 .. Len(attempts) /\ work[r].of \in 1 .. made
        /\ attempts[work[r].attempt] = work[r].of

\* A repair has its candidate to itself, and no attempt has it before the repair's.
Mended(j) ==
    /\ mends[j].made <= made
    /\ mends[j].step \in {"RECORD", "REVALIDATE", "RERUN"} => mends[j].made # 0
    /\ mends[j].made # 0 /\ mends[j].attempt = 0 =>
          \A a \in 1 .. Len(attempts) : attempts[a] # mends[j].made
Unshared(i, j) == i # j /\ mends[i].made = mends[j].made => mends[i].made = 0

\* A verdict is of the attempt the results were handed in for.
Judged(r) ==
    /\ run[r].outcome # "NONE" => work[r].step # "NONE"
    /\ run[r].outcome \in {"PASSED", "FAILED"} => run[r].attempt = work[r].attempt

AllPlaced == \A r \in Runs : Placed(r)
AllMended == /\ \A j \in 1 .. Len(mends) : Mended(j)
             /\ \A i, j \in 1 .. Len(mends) : Unshared(i, j)
AllJudged == \A r \in Runs : Judged(r)

ValIInv == ValTypes /\ Attempted /\ AllPlaced /\ AllMended /\ AllJudged

-----------------------------------------------------------------------------
(* Values *)

LEMMA NoRequest == 0 \in Requests /\ NoWork.step = "NONE" /\ NoRun.outcome = "NONE"
BY DEF Requests, NoWork, NoRun

LEMMA FingerprintType ==
    ASSUME ValTypes, NEW r \in Runs, work[r] \in Works
    PROVE  Fingerprint(r) \in Whys
<1>1. work[r].body \in Handed
  BY DEF Works
<1>2. \A a \in Assertions : work[r].body.asserts[a] \in Statuses
  BY <1>1, HandedAssumption DEF Bodies, AssertionResults
<1>3. {o \in Operations : ~work[r].body.ops[o]} \in SUBSET Operations
  OBVIOUS
<1>4. {<<a, work[r].body.asserts[a]>> : a \in {b \in Assertions : work[r].body.asserts[b] # "PASSED"}}
        \in SUBSET (Assertions \X Statuses)
  BY <1>2
<1>5. QED BY <1>3, <1>4 DEF Fingerprint, Failures, Whys

LEMMA HumanRetryType ==
    ASSUME ValTypes, NEW r \in Runs
    PROVE  HumanRetry(r) \in Requests
<1> DEFINE free == {q \in 1 .. Len(asked) :
                       /\ RetryIsCurrent(q, Fingerprint(r))
                       /\ \A j \in 1 .. Len(mends) : mends[j].approval # q}
           newest == CHOOSE q \in free : \A p \in free : p <= q
<1>1. Len(asked) \in Nat
  BY DEF ValTypes, AskedType
<1>2. free \in SUBSET Nat
  BY <1>1
<1>3. newest \in Newest
  BY <1>2 DEF Newest
<1>4. HumanRetry(r) = IF free = {} THEN 0 ELSE newest
  BY DEF HumanRetry
<1>5. QED BY <1>3, <1>4 DEF Requests

\* The work of a run that goes on.
LEMMA AtWork ==
    ASSUME ValIInv, NEW r \in Runs, work[r].step # "NONE"
    PROVE  /\ work[r] \in Works /\ Placed(r)
           /\ work[r].attempt \in 1 .. Len(attempts) /\ work[r].of \in 1 .. made
           /\ attempts[work[r].attempt] = work[r].of
BY NoRequest DEF ValIInv, ValTypes, WorkType, AllPlaced, Placed

\* The legacy attempt is bound once: what is collected later is of its candidate.
LEMMA BoundOnce ==
    ASSUME ValIInv, NEW r \in Runs, work[r].step # "NONE",
           Collectible(work[r].attempt, work[r].of), BindLegacy(work[r].of)
    PROVE  attempts' = attempts
<1>1. work[r].attempt = Len(attempts) /\ attempts[Len(attempts)] = work[r].of
  BY AtWork DEF Collectible, OfLatestAttempt, LatestAttempt
<1>2. attempts' = [attempts EXCEPT ![Len(attempts)] = attempts[Len(attempts)]]
  BY <1>1 DEF BindLegacy, LatestAttempt
<1>3. QED BY <1>2 DEF ValIInv, ValTypes

-----------------------------------------------------------------------------
(* What a step leaves alone *)

\* Where no row changes that the invariant is about.
LEMMA NothingChanges ==
    ASSUME ValIInv, UNCHANGED <<attempts, made, work, run, mends>>, AskedType'
    PROVE  ValIInv'
<1>1. ValTypes' /\ Attempted'
  BY DEF ValIInv, ValTypes, WorkType, RunType, MendType, Attempted
<1>2. AllPlaced' /\ AllJudged'
  BY DEF ValIInv, AllPlaced, AllJudged, Placed, Judged
<1>3. AllMended'
  BY DEF ValIInv, AllMended, Mended, Unshared
<1>4. QED BY <1>1, <1>2, <1>3 DEF ValIInv

\* The job of a collection goes on, and its run may get a row or a verdict.
LEMMA WorkGoesOn ==
    ASSUME ValIInv, UNCHANGED <<attempts, made, mends>>, UNCHANGED asked \/ AskedType',
           NEW r \in Runs, work[r].step # "NONE",
           NEW w \in Works, work' = [work EXCEPT ![r] = w],
           w.of = work[r].of, w.attempt = work[r].attempt,
           NEW v \in {NoRun} \cup RunRows, run' = [run EXCEPT ![r] = v],
           v.outcome \in {"PASSED", "FAILED"} => v.attempt = work[r].attempt
    PROVE  ValIInv'
<1>1. ValTypes' /\ Attempted'
  BY DEF ValIInv, ValTypes, WorkType, RunType, AskedType, MendType, Attempted
<1>2. /\ work'[r] = w /\ \A s \in Runs \ {r} : work'[s] = work[s]
      /\ run'[r] = v /\ \A s \in Runs \ {r} : run'[s] = run[s]
  BY DEF ValIInv, ValTypes, WorkType, RunType
<1>3. w.step # "NONE"
  BY DEF Works, Steps, Working
<1>4. AllPlaced'
  BY <1>2, AtWork DEF ValIInv, AllPlaced, Placed
<1>5. AllJudged'
  BY <1>2, <1>3 DEF ValIInv, AllJudged, Judged
<1>6. AllMended'
  BY DEF ValIInv, AllMended, Mended, Unshared
<1>7. QED BY <1>1, <1>4, <1>5, <1>6 DEF ValIInv

\* Only its step changes, or it is leased again.
LEMMA WorkGoesTo ==
    ASSUME ValIInv, UNCHANGED <<attempts, made, run, mends>>, UNCHANGED asked \/ AskedType',
           NEW r \in Runs, work[r].step # "NONE", NEW step \in Steps, GoTo(r, step)
    PROVE  ValIInv'
<1> DEFINE w == [work[r] EXCEPT !.step = step]
<1>1. w \in Works /\ w.of = work[r].of /\ w.attempt = work[r].attempt
  BY AtWork DEF Works
<1>2. work' = [work EXCEPT ![r] = w]
  BY DEF GoTo
<1>3. run[r] \in {NoRun} \cup RunRows /\ run' = [run EXCEPT ![r] = run[r]]
  BY DEF ValIInv, ValTypes, RunType
<1>4. run[r].outcome \in {"PASSED", "FAILED"} => run[r].attempt = work[r].attempt
  BY DEF ValIInv, AllJudged, Judged
<1> HIDE DEF w
<1>5. QED BY <1>1, <1>2, <1>3, <1>4, WorkGoesOn

LEMMA WorkIsLeasedAgain ==
    ASSUME ValIInv, UNCHANGED <<attempts, made, run, asked, mends>>,
           NEW r \in Runs, work[r].step # "NONE", LeaseAgain(r)
    PROVE  ValIInv'
<1>1. CASE work[r].leases < MaxLeases
  <2> DEFINE u == [work[r] EXCEPT !.step = "PRECHECK"]
             w == [u EXCEPT !.leases = work[r].leases + 1]
  <2>0. work[r] \in Works /\ "PRECHECK" \in Steps
    BY AtWork DEF Steps, Working
  <2>1. u \in Works /\ work[r].leases + 1 \in Nat
    BY <2>0 DEF Works
  <2>2. w \in Works /\ w.of = work[r].of /\ w.attempt = work[r].attempt
    BY <2>0, <2>1 DEF Works
  <2>3. work' = [work EXCEPT ![r] = w]
    BY <1>1, <2>0 DEF LeaseAgain, Works
  <2>4. run[r] \in {NoRun} \cup RunRows /\ run' = [run EXCEPT ![r] = run[r]]
    BY DEF ValIInv, ValTypes, RunType
  <2>5. run[r].outcome \in {"PASSED", "FAILED"} => run[r].attempt = work[r].attempt
    BY DEF ValIInv, AllJudged, Judged
  <2> HIDE DEF u, w
  <2>6. QED BY <2>2, <2>3, <2>4, <2>5, WorkGoesOn
<1>2. CASE ~(work[r].leases < MaxLeases)
  <2>1. GoTo(r, "EXHAUSTED") /\ "EXHAUSTED" \in Steps
    BY <1>2 DEF LeaseAgain, Steps
  <2>2. QED BY <2>1, WorkGoesTo
<1>3. QED BY <1>1, <1>2

\* A repair goes on without a candidate, an attempt or a request of its own.
LEMMA MendGoesTo ==
    ASSUME ValIInv, UNCHANGED <<attempts, made, work, run, asked>>,
           NEW j \in 1 .. Len(mends), NEW m \in Mends,
           mends' = [mends EXCEPT ![j] = m],
           m.made = mends[j].made, m.attempt = mends[j].attempt,
           m.step \in {"RECORD", "REVALIDATE", "RERUN"} => m.made # 0
    PROVE  ValIInv'
<1>1. /\ mends \in Seq(Mends) /\ Len(mends') = Len(mends) /\ MendType'
      /\ \A i \in 1 .. Len(mends) : mends'[i] = IF i = j THEN m ELSE mends[i]
  BY DEF ValIInv, ValTypes, MendType
<1>2. ValTypes'
  BY <1>1 DEF ValIInv, ValTypes, WorkType, RunType, AskedType
<1>3. Attempted'
  BY <1>1 DEF ValIInv, Attempted
<1>4. AllPlaced' /\ AllJudged'
  BY DEF ValIInv, AllPlaced, AllJudged, Placed, Judged
<1>5. AllMended'
  <2>1. ASSUME NEW i \in 1 .. Len(mends) PROVE Mended(i)'
    BY <1>1 DEF ValIInv, AllMended, Mended
  <2>2. ASSUME NEW i \in 1 .. Len(mends), NEW k \in 1 .. Len(mends) PROVE Unshared(i, k)'
    BY <1>1 DEF ValIInv, AllMended, Unshared
  <2>3. QED BY <1>1, <2>1, <2>2 DEF AllMended
<1>6. QED BY <1>2, <1>3, <1>4, <1>5 DEF ValIInv

-----------------------------------------------------------------------------
(* A collection *)

LEMMA HandInKeeps ==
    ASSUME ValIInv, NEW r \in Runs, NEW c \in Candidates, NEW body \in Handed, c <= made,
           HandIn(r, c, body)
    PROVE  ValIInv'
<1> DEFINE w == NewWork(c, body)
           n == Len(attempts)
<1>1. /\ work[r].step = "NONE" /\ Collectible(n, c) /\ BindLegacy(c)
      /\ work' = [work EXCEPT ![r] = w]
      /\ UNCHANGED <<made, run, asked, mends>>
  BY NoRequest DEF HandIn, LatestAttempt
<1>2. /\ attempts \in Seq(Nat) /\ n \in Nat \ {0} /\ c \in Nat \ {0} /\ made \in Nat
      /\ attempts[n] \in {0, c}
  BY <1>1, ValidationAssumption
  DEF ValIInv, ValTypes, Attempted, Collectible, OfLatestAttempt, LatestAttempt, Candidate, Candidates
<1>3. /\ attempts' \in Seq(Nat) /\ Len(attempts') = n
      /\ \A a \in 1 .. n : attempts'[a] = IF a = n THEN c ELSE attempts[a]
  BY <1>1, <1>2 DEF BindLegacy, LatestAttempt
<1>4. /\ w \in Works /\ w.step = "PRECHECK" /\ w.attempt = n /\ w.of = c
  BY <1>2, NoRequest DEF NewWork, Works, Steps, Working, LatestAttempt
<1> HIDE DEF w
<1>5. ValTypes'
  BY <1>1, <1>3, <1>4 DEF ValIInv, ValTypes, WorkType, RunType, AskedType, MendType
<1>6. attempts[n] = 0 => n = 1 /\ mends = << >> /\ \A s \in Runs : work[s].step = "NONE"
  <2>1. SUFFICES ASSUME attempts[n] = 0
                 PROVE  n = 1 /\ mends = << >> /\ \A s \in Runs : work[s].step = "NONE"
    OBVIOUS
  <2>2. n = 1 /\ mends = << >>
    BY <1>2, <2>1 DEF ValIInv, Attempted
  <2>3. ASSUME NEW s \in Runs, work[s].step # "NONE" PROVE FALSE
    BY <2>1, <2>2, <2>3, <1>2, AtWork
  <2>4. QED BY <2>2, <2>3
<1>7. attempts[n] # 0 => attempts' = attempts
  BY <1>1, <1>2 DEF BindLegacy, LatestAttempt
<1>8. Attempted' /\ AllMended'
  <2>1. CASE attempts[n] = 0
    BY <1>1, <1>2, <1>3, <1>6, <2>1 DEF ValIInv, Attempted, AllMended
  <2>2. CASE attempts[n] # 0
    BY <1>1, <1>7, <2>2 DEF ValIInv, Attempted, AllMended, Mended, Unshared
  <2>3. QED BY <2>1, <2>2
<1>9. \A s \in Runs : work'[s] = IF s = r THEN w ELSE work[s]
  BY <1>1 DEF ValIInv, ValTypes, WorkType
<1>10. AllPlaced'
  <2>1. Placed(r)'
    BY <1>1, <1>2, <1>3, <1>4, <1>9 DEF Placed
  <2>2. ASSUME NEW s \in Runs \ {r} PROVE Placed(s)'
    BY <1>1, <1>6, <1>7, <1>9 DEF ValIInv, AllPlaced, Placed
  <2>3. QED BY <2>1, <2>2 DEF AllPlaced
<1>11. AllJudged'
  BY <1>1, <1>4, <1>9 DEF ValIInv, AllJudged, Judged
<1>12. QED BY <1>5, <1>8, <1>10, <1>11 DEF ValIInv

LEMMA PrecheckedKeeps ==
    ASSUME ValIInv, UNCHANGED <<made, run, asked, mends>>,
           NEW r \in Runs, work[r].step # "NONE", NEW next \in Steps, Prechecked(r, next)
    PROVE  ValIInv'
<1>1. CASE Collectible(work[r].attempt, work[r].of)
  <2>1. BindLegacy(work[r].of) /\ GoTo(r, next)
    BY <1>1 DEF Prechecked
  <2>2. attempts' = attempts
    BY <1>1, <2>1, BoundOnce
  <2>3. QED BY <2>1, <2>2, WorkGoesTo
<1>2. CASE ~Collectible(work[r].attempt, work[r].of)
  <2>1. attempts' = attempts /\ (LeaseAgain(r) \/ GoTo(r, "REFUSED")) /\ "REFUSED" \in Steps
    BY <1>2 DEF Prechecked, Steps
  <2>2. QED BY <2>1, WorkGoesTo, WorkIsLeasedAgain
<1>3. QED BY <1>1, <1>2

LEMMA ReplayKeeps ==
    ASSUME ValIInv, UNCHANGED <<attempts, made, run, asked, mends>>,
           NEW r \in Runs, work[r].step # "NONE", ReplayRun(r)
    PROVE  ValIInv'
<1>1. \E step \in Steps : GoTo(r, step)
  BY DEF ReplayRun, Steps, Working
<1>2. QED BY <1>1, WorkGoesTo

LEMMA PersistKeeps == ASSUME ValIInv, NEW r \in Runs, Persist(r) PROVE ValIInv'
<1>1. work[r].step # "NONE" /\ UNCHANGED <<made, asked, mends>>
  BY DEF Persist
<1>2. CASE IsRun(r)
  BY <1>1, <1>2, ReplayKeeps DEF Persist
<1>3. CASE ~IsRun(r) /\ Collectible(work[r].attempt, work[r].of) /\ ListsRequired(work[r].body)
  <2> DEFINE w == [work[r] EXCEPT !.step = "DECIDE"]
             v == [outcome |-> "PENDING", attempt |-> 0,
                   place |-> Cardinality({s \in Runs : IsRun(s)}) + 1]
  <2>1. BindLegacy(work[r].of) /\ StoreRun(r) /\ GoTo(r, "DECIDE")
    BY <1>3 DEF Persist
  <2>2. attempts' = attempts
    BY <1>1, <1>3, <2>1, BoundOnce
  <2>3. work[r] \in Works /\ "DECIDE" \in Steps
    BY <1>1, AtWork DEF Steps, Working
  <2>4. w \in Works /\ w.of = work[r].of /\ w.attempt = work[r].attempt
    BY <2>3 DEF Works
  <2>5. v.place \in Places
    BY DEF Places
  <2>6. v \in RunRows /\ v.outcome = "PENDING"
    BY <2>5 DEF RunRows, Outcomes
  <2>7. work' = [work EXCEPT ![r] = w] /\ run' = [run EXCEPT ![r] = v]
    BY <2>1 DEF GoTo, StoreRun
  <2> HIDE DEF w, v
  <2>8. QED BY <1>1, <2>2, <2>4, <2>6, <2>7, WorkGoesOn
<1>4. CASE ~IsRun(r) /\ ~(Collectible(work[r].attempt, work[r].of) /\ ListsRequired(work[r].body))
  <2>1. UNCHANGED <<attempts, run>> /\ (LeaseAgain(r) \/ GoTo(r, "REFUSED")) /\ "REFUSED" \in Steps
    BY <1>4 DEF Persist, Steps
  <2>2. QED BY <1>1, <2>1, WorkGoesTo, WorkIsLeasedAgain
<1>5. QED BY <1>2, <1>3, <1>4

\* What is decided now, and passes or fails, is of the latest attempt: no other attempt
\* has the candidate of the run.
LEMMA DecidedNow ==
    ASSUME ValIInv, NEW r \in Runs, work[r].step # "NONE", Assess(r) \in {"PASSED", "FAILED"}
    PROVE  work[r].attempt = LatestAttempt
<1>1. work[r].of = attempts[Len(attempts)]
  BY DEF Assess, RunIsCurrent, Candidate, LatestAttempt
<1>2. Len(attempts) \in 1 .. Len(attempts)
  BY DEF ValIInv, ValTypes, Attempted
<1>3. QED BY <1>1, <1>2, AtWork DEF ValIInv, Attempted, LatestAttempt

LEMMA AssessType == ASSUME NEW r \in Runs PROVE Assess(r) \in Outcomes
BY DEF Assess, AssessCompleteRun, Outcomes

LEMMA DecideRunKeeps == ASSUME ValIInv, NEW r \in Runs, DecideRun(r) PROVE ValIInv'
<1>1. work[r].step # "NONE" /\ UNCHANGED <<attempts, made, asked, mends>>
  BY DEF DecideRun
<1>2. CASE run[r].outcome = "PENDING" /\ stage = "ESCALATED" /\ resume = "VALIDATING"
  BY <1>1, <1>2, WorkIsLeasedAgain DEF DecideRun
<1>3. CASE ~(run[r].outcome = "PENDING" /\ stage = "ESCALATED" /\ resume = "VALIDATING")
  <2> DEFINE v == Decision(r)
             next == IF v.outcome = "FAILED" THEN "SCHEDULE" ELSE "DONE"
             holds == IsCurrent(r, v.attempt)
             w == [work[r] EXCEPT !.step = next, !.current = holds]
  <2>1. run' = [run EXCEPT ![r] = v] /\ work' = [work EXCEPT ![r].step = next, ![r].current = holds]
    BY <1>3 DEF DecideRun
  <2>2. work[r] \in Works /\ next \in Steps /\ run[r] \in {NoRun} \cup RunRows
    BY <1>1, AtWork DEF Steps, Working, ValIInv, ValTypes, RunType
  <2>3. holds \in BOOLEAN
    BY DEF IsCurrent
  <2>4. /\ v \in {NoRun} \cup RunRows
        /\ v.outcome \in {"PASSED", "FAILED"} => v.attempt = work[r].attempt
    <3>1. CASE run[r].outcome # "PENDING"
      BY <2>2, <3>1 DEF Decision, ValIInv, AllJudged, Judged
    <3>2. CASE run[r].outcome = "PENDING"
      <4>1. /\ v = [run[r] EXCEPT !.outcome = Assess(r), !.attempt = LatestAttempt]
            /\ run[r] \in RunRows
        BY <2>2, <3>2, NoRequest DEF Decision
      <4>2. LatestAttempt \in Nat
        BY DEF ValIInv, ValTypes, LatestAttempt
      <4>3. v \in RunRows /\ v.outcome = Assess(r) /\ v.attempt = LatestAttempt
        BY <4>1, <4>2, AssessType DEF RunRows
      <4>4. QED BY <1>1, <4>3, DecidedNow
    <3>3. QED BY <3>1, <3>2
  <2> HIDE DEF v, next, holds
  <2>5. w \in Works /\ w.of = work[r].of /\ w.attempt = work[r].attempt
    BY <2>2, <2>3 DEF Works
  <2>6. work' = [work EXCEPT ![r] = w]
    BY <2>1
  <2> HIDE DEF w
  <2>7. QED BY <1>1, <2>1, <2>4, <2>5, <2>6, WorkGoesOn
<1>4. QED BY <1>2, <1>3

LEMMA ScheduleMendKeeps == ASSUME ValIInv, NEW r \in Runs, ScheduleMend(r) PROVE ValIInv'
<1> DEFINE retry == HumanRetry(r)
           reason == IF EquivalentJobs(r) # {} THEN "EQUIVALENT" ELSE "EXHAUSTED"
           step == IF MendOf(r) # {} \/ ~work[r].current \/ ~Repairable(r) THEN "DONE"
                   ELSE IF MustAsk(r) /\ retry = 0 THEN "ASK" ELSE "ENQUEUE"
           w == [work[r] EXCEPT !.approval = retry, !.reason = reason, !.step = step]
<1>1. /\ work[r].step # "NONE" /\ UNCHANGED <<attempts, made, run, asked, mends>>
      /\ work' = [work EXCEPT ![r].approval = retry, ![r].reason = reason, ![r].step = step]
  BY DEF ScheduleMend
<1>2. work[r] \in Works /\ step \in Steps /\ reason \in {"NONE", "EQUIVALENT", "EXHAUSTED"}
  BY <1>1, AtWork DEF Steps, Working
<1>3. retry \in Requests
  BY HumanRetryType DEF ValIInv
<1> HIDE DEF retry, reason, step
<1>4. w \in Works /\ w.of = work[r].of /\ w.attempt = work[r].attempt
  BY <1>2, <1>3 DEF Works
<1>5. work' = [work EXCEPT ![r] = w]
  BY <1>1
<1>6. run[r] \in {NoRun} \cup RunRows /\ run' = [run EXCEPT ![r] = run[r]]
  BY <1>1 DEF ValIInv, ValTypes, RunType
<1>7. run[r].outcome \in {"PASSED", "FAILED"} => run[r].attempt = work[r].attempt
  BY DEF ValIInv, AllJudged, Judged
<1> HIDE DEF w
<1>8. QED BY <1>1, <1>4, <1>5, <1>6, <1>7, WorkGoesOn

LEMMA AskRetryKeeps == ASSUME ValIInv, NEW r \in Runs, AskRetry(r) PROVE ValIInv'
<1>1. work[r].step # "NONE" /\ UNCHANGED <<attempts, made, run, mends>> /\ GoTo(r, "DONE")
  BY DEF AskRetry, LeaveCheckpoint
<1>2. "DONE" \in Steps /\ work[r] \in Works
  BY <1>1, AtWork DEF Steps
<1>3. UNCHANGED asked \/ AskedType'
  <2> DEFINE a == [run |-> r, reason |-> work[r].reason, why |-> Fingerprint(r), answer |-> "PENDING"]
  <2>1. Fingerprint(r) \in Whys
    BY <1>2, FingerprintType DEF ValIInv
  <2>2. a \in Asks
    BY <1>2, <2>1 DEF Asks, Works
  <2>3. asked' = asked \/ asked' = Append(asked, a)
    BY DEF AskRetry
  <2> HIDE DEF a
  <2>4. QED BY <2>2, <2>3 DEF ValIInv, ValTypes, AskedType
<1>4. QED BY <1>1, <1>2, <1>3, WorkGoesTo

\* Once a run has failed its attempt is bound, so nothing is repaired before.
LEMMA EnqueueMendKeeps == ASSUME ValIInv, NEW r \in Runs, EnqueueMend(r) PROVE ValIInv'
<1> DEFINE m == [run |-> r, why |-> Fingerprint(r), step |-> "BEGIN", approval |-> work[r].approval,
                 made |-> 0, recorded |-> FALSE, attempt |-> 0]
<1>1. /\ work[r].step # "NONE" /\ GoTo(r, "DONE") /\ "DONE" \in Steps
      /\ UNCHANGED <<attempts, made, run, asked>>
  BY DEF EnqueueMend, LeaveCheckpoint, Steps
<1>2. CASE mends' = mends
  BY <1>1, <1>2, WorkGoesTo
<1>3. CASE mends' = Append(mends, m) /\ MayEnqueue(r)
  <2>1. work[r] \in Works
    BY <1>1, AtWork
  <2>2. m \in Mends
    <3>1. Fingerprint(r) \in Whys
      BY <2>1, FingerprintType DEF ValIInv
    <3>2. QED BY <2>1, <3>1 DEF Mends, Works, MendSteps
  <2>3. m.made = 0 /\ m.step = "BEGIN"
    OBVIOUS
  <2> HIDE DEF m
  <2>4. /\ mends \in Seq(Mends) /\ MendType' /\ Len(mends') = Len(mends) + 1
        /\ \A j \in 1 .. Len(mends) : mends'[j] = mends[j]
        /\ mends'[Len(mends) + 1] = m
    BY <1>3, <2>2 DEF ValIInv, ValTypes, MendType
  <2>5. WorkType' /\ \A s \in Runs : /\ work'[s].of = work[s].of /\ work'[s].attempt = work[s].attempt
                                     /\ (work'[s].step = "NONE") = (work[s].step = "NONE")
    <3> DEFINE w == [work[r] EXCEPT !.step = "DONE"]
    <3>1. /\ w \in Works /\ w.of = work[r].of /\ w.attempt = work[r].attempt /\ w.step = "DONE"
          /\ work' = [work EXCEPT ![r] = w]
      BY <1>1, <2>1 DEF Works, GoTo
    <3> HIDE DEF w
    <3>2. QED BY <1>1, <3>1 DEF ValIInv, ValTypes, WorkType
  <2>6. ValTypes'
    BY <1>1, <2>4, <2>5 DEF ValIInv, ValTypes, RunType, AskedType
  <2>7. \A a \in 1 .. Len(attempts) : attempts[a] # 0
    <3>1. attempts[Len(attempts)] # 0 /\ Len(attempts) \in Nat
      BY <1>1, <1>3, AtWork DEF MayEnqueue, RunIsCurrent, Candidate, LatestAttempt, ValIInv, ValTypes
    <3>2. QED BY <3>1 DEF ValIInv, Attempted
  <2>8. Attempted'
    BY <1>1, <2>7 DEF ValIInv, Attempted
  <2>9. AllPlaced' /\ AllJudged'
    BY <1>1, <2>5 DEF ValIInv, AllPlaced, AllJudged, Placed, Judged
  <2>10. AllMended'
    <3>1. ASSUME NEW j \in 1 .. Len(mends) + 1 PROVE Mended(j)'
      <4>1. CASE j \in 1 .. Len(mends)
        BY <1>1, <2>4, <4>1 DEF ValIInv, AllMended, Mended
      <4>2. CASE j = Len(mends) + 1
        <5>1. mends'[j].made = 0 /\ mends'[j].step = "BEGIN"
          BY <2>3, <2>4, <4>2
        <5>2. 0 <= made'
          BY <1>1 DEF ValIInv, ValTypes
        <5>3. QED BY <5>1, <5>2 DEF Mended
      <4>3. Len(mends) \in Nat
        BY <2>4
      <4>4. QED BY <4>1, <4>2, <4>3
    <3>2. ASSUME NEW i \in 1 .. Len(mends) + 1, NEW j \in 1 .. Len(mends) + 1 PROVE Unshared(i, j)'
      BY <2>3, <2>4 DEF ValIInv, AllMended, Unshared
    <3>3. QED BY <2>4, <3>1, <3>2 DEF AllMended
  <2>11. QED BY <2>6, <2>8, <2>9, <2>10 DEF ValIInv
<1>4. QED BY <1>2, <1>3 DEF EnqueueMend

LEMMA CollectorKeeps == ASSUME ValIInv, NEW r \in Runs, CollectorStep(r) PROVE ValIInv'
<1>1. CASE Precheck(r)
  <2>1. /\ work[r].step # "NONE" /\ Prechecked(r, "COLLECT") /\ "COLLECT" \in Steps
        /\ UNCHANGED <<made, run, asked, mends>>
    BY <1>1 DEF Precheck, Steps, Working
  <2>2. QED BY <2>1, PrecheckedKeeps
<1>2. CASE StartCollect(r)
  <2>1. /\ work[r].step # "NONE" /\ "VERIFY" \in Steps /\ UNCHANGED <<made, run, asked, mends>>
        /\ (ReplayRun(r) /\ UNCHANGED attempts) \/ Prechecked(r, "VERIFY")
    BY <1>2 DEF StartCollect, Steps, Working
  <2>2. QED BY <2>1, PrecheckedKeeps, ReplayKeeps
<1>3. CASE VerifyArtifacts(r)
  <2>1. /\ work[r].step # "NONE" /\ UNCHANGED <<attempts, made, run, asked, mends>>
        /\ LeaseAgain(r) \/ \E step \in Steps : GoTo(r, step)
    BY <1>3 DEF VerifyArtifacts, Steps, Working
  <2>2. QED BY <2>1, WorkGoesTo, WorkIsLeasedAgain
<1>4. CASE CollectorStops(r)
  <2>1. /\ work[r].step # "NONE" /\ UNCHANGED <<attempts, made, run, asked, mends>> /\ LeaseAgain(r)
    BY <1>4 DEF CollectorStops, Working
  <2>2. QED BY <2>1, WorkIsLeasedAgain
<1>5. QED BY <1>1, <1>2, <1>3, <1>4, PersistKeeps, DecideRunKeeps, ScheduleMendKeeps, AskRetryKeeps,
             EnqueueMendKeeps DEF CollectorStep

-----------------------------------------------------------------------------
(* A repair *)

LEMMA MendToKeeps ==
    ASSUME ValIInv, UNCHANGED <<attempts, made, work, run, asked>>,
           NEW j \in 1 .. Len(mends), NEW step \in MendSteps, MendTo(j, step),
           step \in {"RECORD", "REVALIDATE", "RERUN"} => mends[j].made # 0
    PROVE  ValIInv'
<1> DEFINE m == [mends[j] EXCEPT !.step = step]
<1>1. mends[j] \in Mends
  BY DEF ValIInv, ValTypes, MendType
<1>2. m \in Mends /\ m.made = mends[j].made /\ m.attempt = mends[j].attempt /\ m.step = step
  BY <1>1 DEF Mends
<1>3. mends' = [mends EXCEPT ![j] = m]
  BY DEF MendTo
<1> HIDE DEF m
<1>4. QED BY <1>2, <1>3, MendGoesTo

\* The host's commit for a repair is a candidate nobody else has.
LEMMA CommitCandidateKeeps ==
    ASSUME ValIInv, NEW j \in 1 .. Len(mends), CommitCandidate(j)
    PROVE  ValIInv'
<1>1. UNCHANGED <<attempts, work, run, asked>>
  BY DEF CommitCandidate
<1>2. CASE UNCHANGED made /\ \E step \in {"RECORD", "FAILED"} :
              MendTo(j, step) /\ (step = "RECORD" => mends[j].made # 0)
  BY <1>1, <1>2, MendToKeeps DEF MendSteps
<1>3. CASE /\ mends[j].made = 0 /\ made' = made + 1
           /\ mends' = [mends EXCEPT ![j].step = "RECORD", ![j].made = made + 1]
  <2> DEFINE n == made + 1
             m == [mends[j] EXCEPT !.step = "RECORD", !.made = n]
  <2>0. mends[j] \in Mends /\ n \in Nat /\ made \in Nat
    BY DEF ValIInv, ValTypes, MendType
  <2>1. mends[j] \in Mends /\ n \in Nat /\ made \in Nat /\ mends' = [mends EXCEPT ![j] = m]
    BY <1>3, <2>0 DEF Mends
  <2>2. m \in Mends /\ m.made = n
    BY <2>1 DEF Mends, MendSteps
  <2> HIDE DEF m
  <2>3. /\ Len(mends') = Len(mends) /\ MendType' /\ Len(mends) \in Nat
        /\ \A i \in 1 .. Len(mends) : mends'[i] = IF i = j THEN m ELSE mends[i]
    BY <2>1, <2>2 DEF ValIInv, ValTypes, MendType
  <2>4. ValTypes'
    BY <1>1, <1>3, <2>1, <2>3 DEF ValIInv, ValTypes, WorkType, RunType, AskedType
  <2>5. attempts \in Seq(Nat) /\ \A a \in 1 .. Len(attempts) : attempts[a] \in Nat /\ attempts[a] <= made
    BY DEF ValIInv, ValTypes, Attempted
  <2>6. Attempted'
    BY <1>1, <1>3, <2>1, <2>3, <2>5 DEF ValIInv, Attempted
  <2>7. AllPlaced'
    BY <1>1, <1>3, <2>1 DEF ValIInv, AllPlaced, Placed
  <2>8. AllJudged'
    BY <1>1 DEF ValIInv, AllJudged, Judged
  <2>9. ASSUME NEW i \in 1 .. Len(mends) PROVE mends[i].made \in Nat /\ mends[i].made <= made
    <3>1. mends[i] \in Mends /\ Mended(i)
      BY DEF ValIInv, ValTypes, MendType, AllMended
    <3>2. QED BY <3>1 DEF Mends, Mended
  <2>10. AllMended'
    <3>1. ASSUME NEW i \in 1 .. Len(mends) PROVE Mended(i)'
      <4>1. CASE i = j
        BY <1>1, <1>3, <2>1, <2>2, <2>3, <2>5, <4>1 DEF Mended
      <4>2. CASE i # j
        BY <1>1, <1>3, <2>1, <2>3, <2>9, <4>2 DEF ValIInv, AllMended, Mended
      <4>3. QED BY <4>1, <4>2
    <3>2. ASSUME NEW i \in 1 .. Len(mends), NEW k \in 1 .. Len(mends) PROVE Unshared(i, k)'
      BY <2>1, <2>2, <2>3, <2>9 DEF ValIInv, AllMended, Unshared
    <3>3. QED BY <2>3, <3>1, <3>2 DEF AllMended
  <2>11. QED BY <2>4, <2>6, <2>7, <2>8, <2>10 DEF ValIInv
<1>4. QED BY <1>2, <1>3 DEF CommitCandidate

\* The attempt of a repair is of its own candidate.
LEMMA RevalidateKeeps ==
    ASSUME ValIInv, NEW j \in 1 .. Len(mends), RevalidateMend(j)
    PROVE  ValIInv'
<1>1. UNCHANGED <<made, work, run, asked>> /\ mends[j].step = "REVALIDATE"
  BY DEF RevalidateMend
<1>2. mends[j] \in Mends /\ mends[j].made # 0 /\ mends[j].made <= made
  BY <1>1 DEF ValIInv, ValTypes, MendType, AllMended, Mended
<1>3. CASE UNCHANGED attempts /\ (MendTo(j, "RERUN") \/ MendTo(j, "REFUSED"))
  BY <1>1, <1>2, <1>3, MendToKeeps DEF MendSteps
<1>4. CASE /\ mends[j].attempt = 0 /\ attempts' = Append(attempts, mends[j].made)
           /\ mends' = [mends EXCEPT ![j].step = "RERUN", ![j].attempt = Len(attempts) + 1]
  <2> DEFINE n == Len(attempts) + 1
             m == [mends[j] EXCEPT !.step = "RERUN", !.attempt = n]
  <2>1. /\ attempts \in Seq(Nat) /\ n \in Nat \ {0} /\ mends[j].made \in Nat
        /\ mends' = [mends EXCEPT ![j] = m]
    BY <1>2, <1>4 DEF ValIInv, ValTypes, Mends
  <2>2. m \in Mends /\ m.made = mends[j].made /\ m.attempt = n
    BY <1>2, <2>1 DEF Mends, MendSteps
  <2> HIDE DEF m
  <2>3. /\ Len(mends') = Len(mends) /\ MendType' /\ Len(mends) \in Nat \ {0} /\ mends' # << >>
        /\ \A i \in 1 .. Len(mends) : mends'[i] = IF i = j THEN m ELSE mends[i]
    BY <2>1, <2>2 DEF ValIInv, ValTypes, MendType
  <2>4. /\ attempts' \in Seq(Nat) /\ Len(attempts') = n
        /\ \A a \in 1 .. Len(attempts) : attempts'[a] = attempts[a]
        /\ attempts'[n] = mends[j].made
    BY <1>4, <2>1
  <2>5. ValTypes'
    BY <1>1, <2>3, <2>4 DEF ValIInv, ValTypes, WorkType, RunType, AskedType
  <2>6. \A a \in 1 .. Len(attempts) : attempts[a] # 0 /\ attempts[a] # mends[j].made
    BY <1>2, <1>4, <2>3 DEF ValIInv, Attempted, AllMended, Mended
  <2>7. Attempted'
    <3>1. \A a \in 1 .. Len(attempts) : attempts[a] \in Nat /\ attempts[a] <= made
      BY <2>1 DEF ValIInv, Attempted
    <3>2. \A a, b \in 1 .. Len(attempts) : attempts[a] = attempts[b] => a = b
      BY DEF ValIInv, Attempted
    <3>3. \A a \in 1 .. n : a = n \/ a \in 1 .. Len(attempts)
      BY <2>1
    <3>4. \A a \in 1 .. n : attempts'[a] <= made' /\ attempts'[a] # 0
      BY <1>1, <1>2, <2>4, <2>6, <3>1, <3>3
    <3>5. \A a, b \in 1 .. n : attempts'[a] = attempts'[b] => a = b
      BY <2>4, <2>6, <3>2, <3>3
    <3>6. made' > 0
      BY <1>1 DEF ValIInv, Attempted
    <3>7. QED BY <2>1, <2>4, <3>4, <3>5, <3>6 DEF Attempted
  <2>8. AllPlaced'
    <3> SUFFICES ASSUME NEW s \in Runs PROVE Placed(s)'
      BY DEF AllPlaced
    <3>1. Placed(s) /\ work' = work /\ made' = made
      BY <1>1 DEF ValIInv, AllPlaced
    <3>2. \A a \in 1 .. Len(attempts) : a \in 1 .. Len(attempts')
      BY <2>1, <2>4
    <3>3. QED BY <2>4, <3>1, <3>2 DEF Placed
  <2>9. AllJudged'
    BY <1>1 DEF ValIInv, AllJudged, Judged
  <2>10. AllMended'
    <3>1. ASSUME NEW i \in 1 .. Len(mends) PROVE Mended(i)'
      <4>1. CASE i = j
        BY <1>1, <1>2, <2>1, <2>2, <2>3, <4>1 DEF Mended
      <4>2. CASE i # j
        <5>1. Mended(i) /\ (mends[i].made # 0 => mends[i].made # mends[j].made)
          BY <4>2 DEF ValIInv, AllMended, Unshared
        <5>2. \A a \in 1 .. n : a = n \/ a \in 1 .. Len(attempts)
          BY <2>1
        <5>3. mends'[i] = mends[i]
          BY <2>3, <4>2
        <5>4. QED BY <1>1, <2>4, <5>1, <5>2, <5>3 DEF Mended
      <4>3. QED BY <4>1, <4>2
    <3>2. ASSUME NEW i \in 1 .. Len(mends), NEW k \in 1 .. Len(mends) PROVE Unshared(i, k)'
      BY <2>2, <2>3 DEF ValIInv, AllMended, Unshared
    <3>3. QED BY <2>3, <3>1, <3>2 DEF AllMended
  <2>11. QED BY <2>5, <2>7, <2>8, <2>9, <2>10 DEF ValIInv
<1>5. QED BY <1>3, <1>4 DEF RevalidateMend

LEMMA RecordCandidateKeeps == ASSUME ValIInv, NEW j \in 1 .. Len(mends), RecordCandidate(j) PROVE ValIInv'
<1>1. UNCHANGED <<attempts, made, work, run, asked>> /\ mends[j].step = "RECORD"
  BY DEF RecordCandidate
<1>2. CASE MendTo(j, "FAILED")
  BY <1>1, <1>2, MendToKeeps DEF MendSteps
<1>3. CASE mends' = [mends EXCEPT ![j].step = "REVALIDATE", ![j].recorded = TRUE]
  <2> DEFINE m == [mends[j] EXCEPT !.step = "REVALIDATE", !.recorded = TRUE]
  <2>1. mends[j] \in Mends /\ mends[j].made # 0
    BY <1>1 DEF ValIInv, ValTypes, MendType, AllMended, Mended
  <2>2. m \in Mends /\ m.made = mends[j].made /\ m.attempt = mends[j].attempt
    BY <2>1 DEF Mends, MendSteps
  <2>3. mends' = [mends EXCEPT ![j] = m]
    BY <1>3
  <2> HIDE DEF m
  <2>4. QED BY <1>1, <2>1, <2>2, <2>3, MendGoesTo
<1>4. QED BY <1>2, <1>3 DEF RecordCandidate

LEMMA MenderKeeps == ASSUME ValIInv, NEW j \in 1 .. Len(mends), MenderStep(j) PROVE ValIInv'
<1>1. CASE BeginMend(j) \/ RunHermes(j) \/ RequestRerun(j) \/ MenderStops(j)
  <2>1. /\ UNCHANGED <<attempts, made, work, run, asked>>
        /\ \E step \in MendSteps \ {"RECORD", "REVALIDATE", "RERUN"} : MendTo(j, step)
    BY <1>1 DEF BeginMend, RunHermes, RequestRerun, MenderStops, MendSteps
  <2>2. QED BY <2>1, MendToKeeps
<1>2. QED BY <1>1, CommitCandidateKeeps, RecordCandidateKeeps, RevalidateKeeps DEF MenderStep

LEMMA AnswerRetryKeeps ==
    ASSUME ValIInv, NEW q \in 1 .. Len(asked), NEW answer \in {"RETRY", "ABANDON", "CANCEL"},
           AnswerRetry(q, answer)
    PROVE  ValIInv'
<1> DEFINE a == [asked[q] EXCEPT !.answer = answer]
<1>1. /\ UNCHANGED <<attempts, made, work, run, mends>>
      /\ asked' = [asked EXCEPT ![q] = a] /\ asked \in Seq(Asks)
  BY DEF AnswerRetry, ValIInv, ValTypes, AskedType
<1>2. asked[q] \in Asks
  BY <1>1
<1>3. a \in Asks
  BY <1>2 DEF Asks
<1> HIDE DEF a
<1>4. AskedType'
  BY <1>1, <1>3 DEF AskedType
<1>5. QED BY <1>1, <1>4, NothingChanges

-----------------------------------------------------------------------------
(* The theorems *)

LEMMA ValInitially == ValInit => ValIInv
<1> SUFFICES ASSUME ValInit PROVE ValIInv
  OBVIOUS
<1>1. /\ attempts \in Seq(Nat) /\ Len(attempts) = 1 /\ attempts[1] \in {0, 1} /\ made = 1
      /\ asked = << >> /\ mends = << >>
      /\ \A r \in Runs : work[r].step = "NONE" /\ run[r].outcome = "NONE"
  BY NoRequest DEF ValInit
<1>2. ValTypes
  BY <1>1 DEF ValInit, ValTypes, WorkType, RunType, AskedType, MendType
<1>3. Attempted /\ AllPlaced /\ AllMended /\ AllJudged
  BY <1>1 DEF Attempted, AllPlaced, Placed, AllMended, AllJudged, Judged
<1>4. QED BY <1>2, <1>3 DEF ValIInv

LEMMA NextKeeps == ValIInv /\ [ValNext]_valvars => ValIInv'
<1> SUFFICES ASSUME ValIInv, [ValNext]_valvars PROVE ValIInv'
  OBVIOUS
<1>1. CASE PauseValidation \/ ResumeValidation \/ PublishCandidate \/ UNCHANGED valvars
           \/ \E r \in Runs : SpoilEvidence(r)
  <2>1. UNCHANGED <<attempts, made, work, run, asked, mends>>
    BY <1>1 DEF PauseValidation, ResumeValidation, PublishCandidate, SpoilEvidence, valvars
  <2>2. AskedType'
    BY <2>1 DEF ValIInv, ValTypes, AskedType
  <2>3. QED BY <2>1, <2>2, NothingChanges
<1>2. CASE \E r \in Runs : CollectorStep(r)
  BY <1>2, CollectorKeeps
<1>3. CASE \E r \in Runs, c \in Candidates, body \in Handed : c <= made /\ HandIn(r, c, body)
  BY <1>3, HandInKeeps
<1>4. CASE \E j \in 1 .. Len(mends) : MenderStep(j)
  BY <1>4, MenderKeeps
<1>5. CASE \E q \in 1 .. Len(asked), a \in {"RETRY", "ABANDON", "CANCEL"} : AnswerRetry(q, a)
  BY <1>5, AnswerRetryKeeps
<1>6. QED BY <1>1, <1>2, <1>3, <1>4, <1>5 DEF ValNext

\* The invariant: attempts have candidates of their own, whatever is handed in, repaired,
\* escalated, lost and started over.
THEOREM ValInvariance == ValSpec => []ValIInv
<1>1. ValInit => ValIInv
  BY ValInitially
<1>2. ValIInv /\ [ValNext]_valvars => ValIInv'
  BY NextKeeps
<1>3. QED BY <1>1, <1>2, PTL DEF ValSpec

\* A verdict that passes or fails rests on results of the attempt it was decided in and
\* of its candidate, although _run_is_current compares no more than candidates.
THEOREM VerdictsStayWithTheirAttempt == ValSpec => []VerdictsAreNotCarriedOver
<1>1. ValIInv => VerdictsAreNotCarriedOver
  <2> SUFFICES ASSUME ValIInv, NEW r \in Runs, run[r].outcome \in {"PASSED", "FAILED"}
               PROVE  /\ work[r].attempt = run[r].attempt
                      /\ work[r].of = attempts[run[r].attempt]
    BY DEF VerdictsAreNotCarriedOver
  <2>1. work[r].step # "NONE" /\ run[r].attempt = work[r].attempt
    BY DEF ValIInv, AllJudged, Judged
  <2>2. QED BY <2>1, AtWork
<1>2. QED BY <1>1, ValInvariance, PTL

-----------------------------------------------------------------------------
(* Repairs *)

Begun == {j \in 1 .. Len(mends) : Began(j)}
Alone == {j \in Begun : mends[j].approval = 0}

\* The candidate whose failure a repair is for.
Of(j) == work[mends[j].run].of

\* The task is VALIDATING, or will be again when somebody answers.
Open == stage = "VALIDATING" \/ (stage = "ESCALATED" /\ resume = "VALIDATING")

\* A repair is for a run that was decided, and for what it found.
Founded(j) ==
    /\ work[mends[j].run].step # "NONE" /\ Fingerprint(mends[j].run) = mends[j].why
    /\ mends[j].step = "BEGIN" => mends[j].made = 0

\* While the task validates a candidate nobody repairs it.
Unrepaired(j) == Began(j) /\ Open => Of(j) # Candidate

\* A request that several repairs name was answered for one candidate, and what is about
\* to name it is for that candidate, or too late.
OneCandidate(i, j) == mends[i].approval = mends[j].approval => mends[i].approval = 0 \/ Of(i) = Of(j)
Naming(r) ==
    work[r].step = "ENQUEUE" /\ work[r].approval # 0 /\ work[r].of = Candidate =>
        \A j \in 1 .. Len(mends) : mends[j].approval = work[r].approval => Of(j) = work[r].of

\* Two repairs begin for two candidates; what nobody asked for was not repaired before.
OncePerCandidate(i, j) == i # j /\ Began(i) /\ Began(j) => Of(i) # Of(j)
NewFailure(i, j) == i < j /\ mends[j].approval = 0 => mends[i].why # mends[j].why

Repairs ==
    /\ \A j \in 1 .. Len(mends) : Founded(j) /\ Unrepaired(j)
    /\ \A i, j \in 1 .. Len(mends) : OneCandidate(i, j) /\ OncePerCandidate(i, j) /\ NewFailure(i, j)
    /\ \A r \in Runs : Naming(r)

\* The budget counts what has begun.
Counted == spent = Cardinality(Begun) /\ Cardinality(Alone) <= RepairBudget

RInv == Repairs /\ Counted

-----------------------------------------------------------------------------
(* What a step does to the repairs *)

LEMMA MendTypes ==
    ASSUME ValIInv, NEW j \in 1 .. Len(mends)
    PROVE  /\ mends[j] \in Mends /\ mends[j].run \in Runs /\ mends[j].step \in MendSteps
           /\ mends[j].approval \in Requests /\ mends[j].made \in Nat
<1>1. mends[j] \in Mends
  BY DEF ValIInv, ValTypes, MendType
<1>2. QED BY <1>1 DEF Mends

\* The work of runs that repairs are for stays what it was; of a run that is about to
\* enqueue a repair, the request it names is new or was named before.
LEMMA RepairsStay ==
    ASSUME ValIInv, RInv, UNCHANGED <<spent, mends>>, UNCHANGED attempts \/ mends = << >>,
           Open' => Open,
           \A r \in Runs : work[r].step # "NONE" =>
               work'[r].step # "NONE" /\ work'[r].of = work[r].of /\ work'[r].body = work[r].body,
           \A r \in Runs : work'[r].step = "ENQUEUE" =>
               \/ /\ work[r].step = "ENQUEUE" /\ work'[r].approval = work[r].approval
               \/ \A j \in 1 .. Len(mends) : mends[j].approval # 0 => mends[j].approval # work'[r].approval
    PROVE  RInv'
<1>1. \A j \in 1 .. Len(mends) : Founded(j) /\ mends[j].run \in Runs
  BY MendTypes DEF RInv, Repairs
<1>2. \A j \in 1 .. Len(mends) : Began(j)' = Began(j) /\ Of(j)' = Of(j)
  BY <1>1 DEF Founded, Began, Of
<1>3. Len(mends) \in Nat
  BY DEF ValIInv, ValTypes, MendType
<1>4. mends # << >> => Candidate' = Candidate
  BY DEF Candidate, LatestAttempt
<1>5. \A j \in 1 .. Len(mends) : mends # << >>
  BY <1>3 DEF ValIInv, ValTypes, MendType
<1>6. ASSUME NEW j \in 1 .. Len(mends) PROVE Founded(j)' /\ Unrepaired(j)'
  <2>0. work'[mends[j].run].body = work[mends[j].run].body /\ mends' = mends
    BY <1>1 DEF Founded
  <2>1. Fingerprint(mends[j].run)' = Fingerprint(mends[j].run)
    BY <2>0 DEF Fingerprint, Failures
  <2>2. Founded(j)'
    BY <1>1, <2>1 DEF Founded
  <2>3. Unrepaired(j) /\ Candidate' = Candidate
    BY <1>4, <1>5 DEF RInv, Repairs
  <2>4. Unrepaired(j)'
    BY <1>2, <2>3 DEF Unrepaired
  <2>5. QED BY <2>2, <2>4
<1>7. ASSUME NEW i \in 1 .. Len(mends), NEW j \in 1 .. Len(mends)
      PROVE  OneCandidate(i, j)' /\ OncePerCandidate(i, j)' /\ NewFailure(i, j)'
  BY <1>2 DEF RInv, Repairs, OneCandidate, OncePerCandidate, NewFailure
<1>8. ASSUME NEW r \in Runs PROVE Naming(r)'
  <2>1. CASE work[r].step = "ENQUEUE" /\ work'[r].approval = work[r].approval
    BY <1>2, <1>4, <1>5, <2>1 DEF RInv, Repairs, Naming
  <2>2. CASE work'[r].step # "ENQUEUE"
    BY <2>2 DEF Naming
  <2>3. CASE \A j \in 1 .. Len(mends) : mends[j].approval # 0 => mends[j].approval # work'[r].approval
    BY <2>3 DEF Naming
  <2>4. QED BY <2>1, <2>2, <2>3
<1>9. Repairs'
  BY <1>6, <1>7, <1>8 DEF Repairs
<1>10. Counted'
  BY <1>2 DEF RInv, Counted, Begun, Alone
<1>11. QED BY <1>9, <1>10 DEF RInv

\* No repair begins or is enqueued.
LEMMA RepairsGoOn ==
    ASSUME ValIInv, RInv, MendType', UNCHANGED <<spent, attempts, work>>, Open' => Open,
           Len(mends') = Len(mends),
           \A j \in 1 .. Len(mends) :
              /\ mends'[j].run = mends[j].run /\ mends'[j].why = mends[j].why
              /\ mends'[j].approval = mends[j].approval
              /\ Began(j)' = Began(j)
              /\ mends'[j].step = "BEGIN" => mends'[j].made = 0
    PROVE  RInv'
<1>1. \A j \in 1 .. Len(mends) : Of(j)' = Of(j)
  BY DEF Of
<1>2. Candidate' = Candidate
  BY DEF Candidate, LatestAttempt
<1>3. ASSUME NEW j \in 1 .. Len(mends) PROVE Founded(j)' /\ Unrepaired(j)'
  <2>1. Fingerprint(mends[j].run)' = Fingerprint(mends[j].run)
    BY DEF Fingerprint, Failures
  <2>2. Founded(j)'
    BY <2>1 DEF RInv, Repairs, Founded
  <2>3. Unrepaired(j)'
    BY <1>1, <1>2 DEF RInv, Repairs, Unrepaired
  <2>4. QED BY <2>2, <2>3
<1>4. ASSUME NEW i \in 1 .. Len(mends), NEW j \in 1 .. Len(mends)
      PROVE  OneCandidate(i, j)' /\ OncePerCandidate(i, j)' /\ NewFailure(i, j)'
  BY <1>1 DEF RInv, Repairs, OneCandidate, OncePerCandidate, NewFailure
<1>5. ASSUME NEW r \in Runs PROVE Naming(r)'
  BY <1>1, <1>2 DEF RInv, Repairs, Naming
<1>6. Repairs'
  BY <1>3, <1>4, <1>5 DEF Repairs
<1>7. Begun' = Begun /\ Alone' = Alone
  BY DEF Begun, Alone
<1>8. QED BY <1>6, <1>7 DEF RInv, Counted

\* The greatest of a bounded set of numbers, which CHOOSE finds.
LEMMA LargestOf ==
    ASSUME NEW S \in SUBSET Nat, S # {}, NEW n \in Nat, \A q \in S : q <= n
    PROVE  \E q \in S : \A p \in S : p <= q
<1> DEFINE R == OpToRel(<, Nat)
           gap == {n - q : q \in S}
<1>1. gap # {} /\ gap \subseteq Nat
  <2>1. ASSUME NEW h \in gap PROVE h \in Nat
    <3>1. PICK q \in S : h = n - q
      OBVIOUS
    <3>2. QED BY <3>1
  <2>2. PICK q \in S : TRUE
    OBVIOUS
  <2>3. n - q \in gap
    OBVIOUS
  <2>4. QED BY <2>1, <2>3
<1>2. PICK g \in gap : \A h \in gap : <<h, g>> \notin R
  <2>1. IsWellFoundedOn(R, Nat)
    BY NatLessThanWellFounded
  <2> HIDE DEF R, gap
  <2>2. QED BY <1>1, <2>1, WFMin
<1>3. \A h \in gap : ~(h < g)
  BY <1>1, <1>2 DEF OpToRel
<1>4. PICK q \in S : g = n - q
  OBVIOUS
<1>5. \A p \in S : ~(n - p < n - q)
  BY <1>3, <1>4
<1>6. QED BY <1>5

\* The work on r goes on, but not to enqueue a repair.
Continues(r) ==
    /\ \A s \in Runs \ {r} : work'[s] = work[s]
    /\ work'[r].step \notin {"NONE", "ENQUEUE"}
    /\ work'[r].of = work[r].of /\ work'[r].body = work[r].body

LEMMA GoToContinues ==
    ASSUME ValIInv, NEW r \in Runs, work[r].step # "NONE", NEW step \in Steps \ {"ENQUEUE"}, GoTo(r, step)
    PROVE  Continues(r)
<1> DEFINE w == [work[r] EXCEPT !.step = step]
<1>1. work[r] \in Works /\ step # "NONE"
  BY AtWork DEF Steps, Working
<1>2. w.step = step /\ w.of = work[r].of /\ w.body = work[r].body
  BY <1>1 DEF Works
<1>3. work' = [work EXCEPT ![r] = w]
  BY DEF GoTo
<1> HIDE DEF w
<1>4. QED BY <1>1, <1>2, <1>3 DEF Continues, ValIInv, ValTypes, WorkType

LEMMA LeaseContinues ==
    ASSUME ValIInv, NEW r \in Runs, work[r].step # "NONE", LeaseAgain(r)
    PROVE  Continues(r)
<1>1. CASE work[r].leases < MaxLeases
  <2> DEFINE n == work[r].leases + 1
             w == [work[r] EXCEPT !.step = "PRECHECK", !.leases = n]
  <2>1. work[r] \in Works
    BY AtWork
  <2>2. work' = [work EXCEPT ![r] = w]
    BY <1>1, <2>1 DEF LeaseAgain, Works
  <2> HIDE DEF n
  <2>3. w.step = "PRECHECK" /\ w.of = work[r].of /\ w.body = work[r].body
    BY <2>1 DEF Works
  <2> HIDE DEF w
  <2>4. QED BY <2>2, <2>3 DEF Continues, ValIInv, ValTypes, WorkType
<1>2. CASE ~(work[r].leases < MaxLeases)
  <2>1. GoTo(r, "EXHAUSTED") /\ "EXHAUSTED" \in Steps \ {"ENQUEUE"}
    BY <1>2 DEF LeaseAgain, Steps
  <2>2. QED BY <2>1, GoToContinues
<1>3. QED BY <1>1, <1>2

LEMMA WorkContinues ==
    ASSUME ValIInv, RInv, NEW r \in Runs, work[r].step # "NONE", Continues(r),
           UNCHANGED <<spent, mends, attempts>>, Open' => Open
    PROVE  RInv'
BY RepairsStay DEF Continues

LEMMA PrecheckedRepairs ==
    ASSUME ValIInv, RInv, NEW r \in Runs, work[r].step # "NONE",
           NEW next \in Steps \ {"ENQUEUE"}, Prechecked(r, next), UNCHANGED <<stage, resume, spent, mends>>
    PROVE  RInv'
<1>1. Open' = Open
  BY DEF Open
<1>2. UNCHANGED attempts
  BY BoundOnce DEF Prechecked
<1>3. Continues(r)
  <2>1. LeaseAgain(r) \/ \E step \in Steps \ {"ENQUEUE"} : GoTo(r, step)
    BY DEF Prechecked, Steps
  <2>2. QED BY <2>1, LeaseContinues, GoToContinues
<1>4. QED BY <1>1, <1>2, <1>3, WorkContinues

LEMMA ScheduleRepairs == ASSUME ValIInv, RInv, NEW r \in Runs, ScheduleMend(r) PROVE RInv'
<1> DEFINE retry == HumanRetry(r)
           reason == IF EquivalentJobs(r) # {} THEN "EQUIVALENT" ELSE "EXHAUSTED"
           step == IF MendOf(r) # {} \/ ~work[r].current \/ ~Repairable(r) THEN "DONE"
                   ELSE IF MustAsk(r) /\ retry = 0 THEN "ASK" ELSE "ENQUEUE"
           w == [work[r] EXCEPT !.approval = retry, !.reason = reason, !.step = step]
<1>1. /\ work[r].step = "SCHEDULE" /\ UNCHANGED <<stage, resume, spent, attempts, mends>>
      /\ work' = [work EXCEPT ![r].approval = retry, ![r].reason = reason, ![r].step = step]
  BY DEF ScheduleMend
<1>2. retry = 0 \/ \A j \in 1 .. Len(mends) : mends[j].approval # retry
  <2> DEFINE free == {q \in 1 .. Len(asked) :
                         /\ RetryIsCurrent(q, Fingerprint(r))
                         /\ \A j \in 1 .. Len(mends) : mends[j].approval # q}
             newest == CHOOSE q \in free : \A p \in free : p <= q
  <2>1. CASE free = {}
    BY <2>1 DEF HumanRetry
  <2>2. CASE free # {}
    <3>1. retry = newest
      BY <2>2 DEF HumanRetry
    <3>2. free \in SUBSET Nat /\ \A q \in free : q <= Len(asked) /\ Len(asked) \in Nat
      BY DEF ValIInv, ValTypes, AskedType
    <3>3. \E q \in free : \A p \in free : p <= q
      BY <2>2, <3>2, LargestOf
    <3>4. newest \in free
      BY <3>3
    <3>5. QED BY <3>1, <3>4
  <2>3. QED BY <2>1, <2>2
<1>3. work[r] \in Works /\ step # "NONE"
  BY <1>1, AtWork
<1> HIDE DEF retry, reason, step
<1>4. w.approval = retry /\ w.step = step /\ w.of = work[r].of /\ w.body = work[r].body
  BY <1>3 DEF Works
<1>5. work' = [work EXCEPT ![r] = w]
  BY <1>1
<1> HIDE DEF w
<1>6. \A s \in Runs : work'[s] = IF s = r THEN w ELSE work[s]
  BY <1>5 DEF ValIInv, ValTypes, WorkType
<1>7. Open' = Open
  BY <1>1 DEF Open
<1>8. \A s \in Runs : work[s].step # "NONE" =>
          work'[s].step # "NONE" /\ work'[s].of = work[s].of /\ work'[s].body = work[s].body
  BY <1>3, <1>4, <1>6
<1>9. \A s \in Runs : work'[s].step = "ENQUEUE" =>
          \/ /\ work[s].step = "ENQUEUE" /\ work'[s].approval = work[s].approval
          \/ \A j \in 1 .. Len(mends) : mends[j].approval # 0 => mends[j].approval # work'[s].approval
  BY <1>2, <1>4, <1>6
<1>10. QED BY <1>1, <1>7, <1>8, <1>9, RepairsStay

\* What is enqueued for a run nobody asked about is a new failure; what names a request is
\* for the candidate of whatever names it already.
LEMMA EnqueueRepairs == ASSUME ValIInv, ValIInv', RInv, NEW r \in Runs, EnqueueMend(r) PROVE RInv'
<1> DEFINE m == [run |-> r, why |-> Fingerprint(r), step |-> "BEGIN", approval |-> work[r].approval,
                 made |-> 0, recorded |-> FALSE, attempt |-> 0]
<1>1. /\ work[r].step = "ENQUEUE" /\ GoTo(r, "DONE") /\ "DONE" \in Steps \ {"ENQUEUE"}
      /\ UNCHANGED <<stage, resume, spent, attempts>>
  BY DEF EnqueueMend, LeaveCheckpoint, Steps, Working
<1>2. Continues(r) /\ Open' = Open /\ work[r].step # "NONE"
  BY <1>1, GoToContinues DEF Open
<1>3. CASE mends' = mends
  BY <1>1, <1>2, <1>3, WorkContinues
<1>4. CASE mends' = Append(mends, m) /\ MayEnqueue(r)
  <2>1. /\ m.run = r /\ m.why = Fingerprint(r) /\ m.step = "BEGIN" /\ m.made = 0
        /\ m.approval = work[r].approval
    OBVIOUS
  <2> HIDE DEF m
  <2>0. Len(mends) + 1 \in Nat
    BY DEF ValIInv, ValTypes, MendType
  <2> PICK n \in Nat : n = Len(mends) + 1
    BY <2>0
  <2>2. /\ Len(mends) \in Nat /\ Len(mends') = n
        /\ \A j \in 1 .. Len(mends) : mends'[j] = mends[j]
        /\ mends'[n] = m
        /\ \A j \in 1 .. n : j = n \/ j \in 1 .. Len(mends)
        /\ n \notin 1 .. Len(mends)
    BY <1>4 DEF ValIInv, ValTypes, MendType
  <2>3. work[r].of = Candidate /\ Candidate' = Candidate
    BY <1>1, <1>4 DEF MayEnqueue, RunIsCurrent, Candidate, LatestAttempt
  <2>4. \A s \in Runs : /\ work[s].step # "NONE" => work'[s].step # "NONE"
                        /\ work'[s].of = work[s].of /\ work'[s].body = work[s].body
                        /\ work'[s].step = "ENQUEUE" => s # r /\ work'[s] = work[s]
    BY <1>2 DEF Continues
  <2>5. /\ \A j \in 1 .. Len(mends) : Began(j)' = Began(j) /\ Of(j)' = Of(j)
        /\ ~Began(n)' /\ Of(n)' = Candidate
    <3>1. ASSUME NEW j \in 1 .. Len(mends) PROVE Began(j)' = Began(j) /\ Of(j)' = Of(j)
      BY <2>2, <2>4, MendTypes DEF Began, Of
    <3>2. ~Began(n)' /\ Of(n)' = Candidate
      BY <2>1, <2>2, <2>3, <2>4 DEF Began, Of
    <3>3. QED BY <3>1, <3>2
  <2>6. ASSUME NEW s \in Runs PROVE Fingerprint(s)' = Fingerprint(s)
    <3>1. work'[s].of = work[s].of /\ work'[s].body = work[s].body
      BY <2>4
    <3>2. QED BY <3>1 DEF Fingerprint, Failures
  <2>7. ASSUME NEW j \in 1 .. Len(mends) PROVE Founded(j)' /\ Unrepaired(j)'
    <3>1. Founded(j) /\ Unrepaired(j) /\ mends[j].run \in Runs /\ mends'[j] = mends[j]
      BY <2>2, MendTypes DEF RInv, Repairs
    <3>2. Founded(j)'
      BY <2>4, <2>6, <3>1 DEF Founded
    <3>3. Unrepaired(j)'
      BY <1>2, <2>3, <2>5, <3>1 DEF Unrepaired
    <3>4. QED BY <3>2, <3>3
  <2>8. Founded(n)' /\ Unrepaired(n)'
    BY <1>2, <2>1, <2>2, <2>4, <2>5, <2>6 DEF Founded, Unrepaired
  <2>9. ASSUME NEW i \in 1 .. Len(mends), NEW j \in 1 .. Len(mends)
        PROVE  OneCandidate(i, j)' /\ OncePerCandidate(i, j)' /\ NewFailure(i, j)'
    BY <2>2, <2>5 DEF RInv, Repairs, OneCandidate, OncePerCandidate, NewFailure
  <2>10. \A j \in 1 .. Len(mends) : mends[j].approval = work[r].approval =>
            mends[j].approval = 0 \/ Of(j) = Candidate
    BY <1>1, <2>3 DEF RInv, Repairs, Naming
  <2>11. ASSUME NEW j \in 1 .. n
         PROVE  OneCandidate(j, n)' /\ OneCandidate(n, j)'
    BY <2>1, <2>2, <2>5, <2>10 DEF OneCandidate
  <2>12. ASSUME NEW j \in 1 .. n
         PROVE  OncePerCandidate(j, n)' /\ OncePerCandidate(n, j)'
    BY <2>5 DEF OncePerCandidate
  <2>13. ASSUME NEW j \in 1 .. n
         PROVE  NewFailure(j, n)' /\ NewFailure(n, j)'
    <3>1. work[r].approval = 0 => \A i \in 1 .. Len(mends) : mends[i].why # Fingerprint(r)
      BY <1>4 DEF MayEnqueue, RetryIsCurrent
    <3>2. NewFailure(j, n)'
      BY <2>1, <2>2, <3>1 DEF NewFailure
    <3>3. NewFailure(n, j)'
      BY <2>2 DEF NewFailure
    <3>4. QED BY <3>2, <3>3
  <2>14. ASSUME NEW s \in Runs PROVE Naming(s)'
    <3>1. SUFFICES ASSUME work'[s].step = "ENQUEUE", work'[s].approval # 0, work'[s].of = Candidate,
                          NEW j \in 1 .. n, mends'[j].approval = work'[s].approval
                   PROVE  Of(j)' = work'[s].of
      BY <2>2, <2>3 DEF Naming
    <3>2. work'[s] = work[s]
      BY <2>4, <3>1
    <3>3. CASE j = n
      BY <2>5, <3>1, <3>3
    <3>4. CASE j \in 1 .. Len(mends)
      BY <2>2, <2>5, <3>1, <3>2, <3>4 DEF RInv, Repairs, Naming
    <3>5. QED BY <2>2, <3>3, <3>4
  <2>15. Repairs'
    BY <2>2, <2>7, <2>8, <2>9, <2>11, <2>12, <2>13, <2>14 DEF Repairs
  <2>16. Begun' = Begun /\ Alone' = Alone
    BY <2>2, <2>5 DEF Begun, Alone
  <2>17. QED BY <1>1, <2>15, <2>16 DEF RInv, Counted
<1>5. QED BY <1>3, <1>4 DEF EnqueueMend

\* While the task validates a candidate none of its repairs has begun, so this is the first.
LEMMA BeginRepairs == ASSUME ValIInv, ValIInv', RInv, NEW j \in 1 .. Len(mends), BeginMend(j) PROVE RInv'
<1>1. UNCHANGED <<resume, attempts, work>> /\ mends[j].step = "BEGIN" /\ mends[j].made = 0
  BY DEF BeginMend, RInv, Repairs, Founded
<1>2. CASE UNCHANGED <<stage, spent>> /\ MendTo(j, "REFUSED")
  <2>1. /\ MendType' /\ Len(mends') = Len(mends)
        /\ \A i \in 1 .. Len(mends) :
              mends'[i] = IF i = j THEN [mends[j] EXCEPT !.step = "REFUSED"] ELSE mends[i]
    BY <1>2 DEF MendTo, ValIInv, ValTypes, MendType
  <2>2. ASSUME NEW i \in 1 .. Len(mends)
        PROVE  /\ mends'[i].run = mends[i].run /\ mends'[i].why = mends[i].why
               /\ mends'[i].approval = mends[i].approval /\ Began(i)' = Began(i)
               /\ mends'[i].step = "BEGIN" => mends'[i].made = 0
    <3>1. CASE i = j
      <4>1. mends[j] \in Mends
        BY MendTypes
      <4>2. /\ mends'[j].run = mends[j].run /\ mends'[j].why = mends[j].why
            /\ mends'[j].approval = mends[j].approval /\ mends'[j].made = mends[j].made
            /\ mends'[j].step = "REFUSED"
        BY <2>1, <4>1 DEF Mends
      <4>3. QED BY <1>1, <3>1, <4>2 DEF Began
    <3>2. CASE i # j
      BY <2>1, <3>2 DEF Began, RInv, Repairs, Founded
    <3>3. QED BY <3>1, <3>2
  <2>3. Open' = Open
    BY <1>1, <1>2 DEF Open
  <2>4. QED BY <1>1, <1>2, <2>1, <2>2, <2>3, RepairsGoOn
<1>3. CASE /\ stage = "VALIDATING" /\ RepairAuthorized(j)
           /\ stage' = "REPAIRING" /\ spent' = spent + 1 /\ MendTo(j, "HERMES")
  <2>1. /\ Len(mends') = Len(mends)
        /\ \A i \in 1 .. Len(mends) :
              mends'[i] = IF i = j THEN [mends[j] EXCEPT !.step = "HERMES"] ELSE mends[i]
    BY <1>3 DEF MendTo, ValIInv, ValTypes, MendType
  <2>2. /\ mends'[j].run = mends[j].run /\ mends'[j].why = mends[j].why
        /\ mends'[j].approval = mends[j].approval /\ mends'[j].step = "HERMES"
    BY <2>1, MendTypes DEF Mends
  <2>3. \A i \in 1 .. Len(mends) : Of(i)' = Of(i)
    BY <1>1, <2>1, <2>2 DEF Of
  <2>4. /\ Began(j)' /\ ~Began(j)
        /\ \A i \in 1 .. Len(mends) : i # j => Began(i)' = Began(i)
    BY <1>1, <2>1, <2>2 DEF Began
  <2>5. Of(j) = Candidate /\ Open /\ ~Open' /\ Candidate' = Candidate
    BY <1>1, <1>3 DEF RepairAuthorized, RunIsCurrent, Of, Open, Candidate, LatestAttempt
  <2>6. \A r \in Runs : Fingerprint(r)' = Fingerprint(r)
    BY <1>1 DEF Fingerprint, Failures
  <2>7. ASSUME NEW i \in 1 .. Len(mends) PROVE Founded(i)' /\ Unrepaired(i)'
    <3>1. CASE i = j
      BY <1>1, <2>1, <2>2, <2>5, <2>6, <3>1, MendTypes DEF RInv, Repairs, Founded, Unrepaired
    <3>2. CASE i # j
      BY <1>1, <2>1, <2>5, <2>6, <3>2, MendTypes DEF RInv, Repairs, Founded, Unrepaired
    <3>3. QED BY <3>1, <3>2
  <2>8. \A i \in 1 .. Len(mends) : mends'[i].approval = mends[i].approval /\ mends'[i].why = mends[i].why
    BY <2>1, <2>2
  <2>9. ASSUME NEW i \in 1 .. Len(mends), NEW k \in 1 .. Len(mends)
        PROVE  OneCandidate(i, k)' /\ OncePerCandidate(i, k)' /\ NewFailure(i, k)'
    <3>1. OneCandidate(i, k)' /\ NewFailure(i, k)'
      BY <2>3, <2>8 DEF RInv, Repairs, OneCandidate, NewFailure
    <3>2. OncePerCandidate(i, k)'
      <4>1. \A l \in 1 .. Len(mends) : Began(l) => Of(l) # Of(j)
        BY <2>5 DEF RInv, Repairs, Unrepaired
      <4>2. QED BY <2>3, <2>4, <4>1 DEF RInv, Repairs, OncePerCandidate
    <3>3. QED BY <3>1, <3>2
  <2>10. ASSUME NEW r \in Runs PROVE Naming(r)'
    BY <1>1, <2>1, <2>3, <2>5, <2>8 DEF RInv, Repairs, Naming
  <2>11. Repairs'
    BY <2>1, <2>7, <2>9, <2>10 DEF Repairs
  <2>12. Counted'
    <3>1. Begun' = Begun \cup {j} /\ j \notin Begun
      BY <2>1, <2>4 DEF Begun
    <3>2. IsFiniteSet(Begun) /\ Alone \in SUBSET Begun
      <4>1. IsFiniteSet(1 .. Len(mends))
        BY FS_Interval DEF ValIInv, ValTypes, MendType
      <4>2. Begun \in SUBSET (1 .. Len(mends)) /\ Alone \in SUBSET Begun
        BY DEF Begun, Alone
      <4>3. QED BY <4>1, <4>2, FS_Subset
    <3>3. IsFiniteSet(Alone) /\ Cardinality(Alone) <= Cardinality(Begun)
      BY <3>2, FS_Subset
    <3>4. Cardinality(Begun) \in Nat /\ Cardinality(Alone) \in Nat
      BY <3>2, <3>3, FS_CardinalityType
    <3>5. spent' = Cardinality(Begun')
      BY <1>3, <3>1, <3>2, FS_AddElement DEF RInv, Counted
    <3>6. CASE mends[j].approval = 0
      <4>1. Alone' = Alone \cup {j} /\ j \notin Alone
        BY <2>8, <3>1, <3>6 DEF Alone, Begun
      <4>2. spent < RepairBudget
        BY <1>3, <3>6 DEF RepairAuthorized, RetryIsCurrent
      <4>3. Cardinality(Alone') = Cardinality(Alone) + 1
        BY <3>3, <4>1, FS_AddElement
      <4>4. Cardinality(Alone') <= RepairBudget
        BY <3>3, <3>4, <4>2, <4>3, ValidationAssumption DEF RInv, Counted
      <4>5. QED BY <3>5, <4>4 DEF Counted
    <3>7. CASE mends[j].approval # 0
      <4>1. Alone' = Alone
        BY <2>8, <3>1, <3>7 DEF Alone, Begun
      <4>2. QED BY <3>5, <4>1 DEF RInv, Counted
    <3>8. QED BY <3>6, <3>7
  <2>13. QED BY <2>11, <2>12 DEF RInv
<1>4. QED BY <1>2, <1>3 DEF BeginMend

\* Its new candidate is one that no run was handed in for.
LEMMA RevalidateRepairs ==
    ASSUME ValIInv, ValIInv', RInv, NEW j \in 1 .. Len(mends), RevalidateMend(j), mends[j].attempt = 0,
           stage = "REPAIRING"
    PROVE  RInv'
<1> DEFINE n == Len(attempts) + 1
           m == [mends[j] EXCEPT !.step = "RERUN", !.attempt = n]
<1>1. /\ UNCHANGED <<spent, work>> /\ mends[j].step = "REVALIDATE" /\ mends[j].made # 0
      /\ attempts' = Append(attempts, mends[j].made)
      /\ mends' = [mends EXCEPT ![j].step = "RERUN", ![j].attempt = n]
  BY DEF RevalidateMend, ValIInv, AllMended, Mended
<1>2. attempts \in Seq(Nat) /\ n \in Nat /\ mends[j] \in Mends
  BY MendTypes DEF ValIInv, ValTypes
<1>3. Candidate' = mends[j].made
  BY <1>1, <1>2, MendTypes DEF Candidate, LatestAttempt
<1> HIDE DEF n
<1>4. /\ Len(mends') = Len(mends)
      /\ \A i \in 1 .. Len(mends) : mends'[i] = IF i = j THEN m ELSE mends[i]
  <2>1. mends' = [mends EXCEPT ![j] = m] /\ mends \in Seq(Mends)
    BY <1>1, <1>2 DEF ValIInv, ValTypes, MendType
  <2> HIDE DEF m
  <2>2. QED BY <2>1
<1>5. /\ mends'[j].run = mends[j].run /\ mends'[j].why = mends[j].why
      /\ mends'[j].approval = mends[j].approval /\ mends'[j].step = "RERUN"
  BY <1>2, <1>4 DEF Mends
<1>6. \A i \in 1 .. Len(mends) :
        /\ mends'[i].run = mends[i].run /\ mends'[i].why = mends[i].why
        /\ mends'[i].approval = mends[i].approval
        /\ Of(i)' = Of(i) /\ Began(i)' = Began(i)
        /\ mends'[i].step = "BEGIN" => mends'[i] = mends[i]
  BY <1>1, <1>4, <1>5 DEF Of, Began
<1>7. \A r \in Runs : work[r].step # "NONE" => work[r].of # mends[j].made
  BY <1>1, AtWork DEF ValIInv, AllMended, Mended
<1>8. ASSUME NEW i \in 1 .. Len(mends) PROVE Founded(i)' /\ Unrepaired(i)'
  <2>1. \A r \in Runs : Fingerprint(r)' = Fingerprint(r)
    BY <1>1 DEF Fingerprint, Failures
  <2>2. Founded(i)' /\ Founded(i)
    BY <1>1, <1>6, <2>1, MendTypes DEF RInv, Repairs, Founded
  <2>3. Of(i) # Candidate'
    BY <1>3, <1>7, <2>2, MendTypes DEF Founded, Of
  <2>4. QED BY <1>6, <2>2, <2>3 DEF Unrepaired
<1>9. ASSUME NEW i \in 1 .. Len(mends), NEW k \in 1 .. Len(mends)
      PROVE  OneCandidate(i, k)' /\ OncePerCandidate(i, k)' /\ NewFailure(i, k)'
  BY <1>6 DEF RInv, Repairs, OneCandidate, OncePerCandidate, NewFailure
<1>10. ASSUME NEW r \in Runs PROVE Naming(r)'
  BY <1>1, <1>3, <1>7 DEF Naming
<1>11. Repairs'
  BY <1>4, <1>8, <1>9, <1>10 DEF Repairs
<1>12. Begun' = Begun /\ Alone' = Alone
  BY <1>4, <1>6 DEF Begun, Alone
<1>13. QED BY <1>1, <1>11, <1>12 DEF RInv, Counted

LEMMA MendChanged ==
    ASSUME ValIInv, ValIInv', RInv, UNCHANGED <<spent, attempts, work>>, Open' => Open,
           NEW j \in 1 .. Len(mends), NEW m, mends' = [mends EXCEPT ![j] = m],
           mends[j].step \notin {"BEGIN", "REFUSED"}, m.step # "BEGIN",
           m.step = "REFUSED" => m.made # 0,
           m.run = mends[j].run, m.why = mends[j].why, m.approval = mends[j].approval
    PROVE  RInv'
<1>1. MendType' /\ Len(mends') = Len(mends)
  BY DEF ValIInv, ValTypes, MendType
<1>2. \A i \in 1 .. Len(mends) : mends'[i] = IF i = j THEN m ELSE mends[i]
  BY DEF ValIInv, ValTypes, MendType
<1>3. ASSUME NEW i \in 1 .. Len(mends)
      PROVE  /\ mends'[i].run = mends[i].run /\ mends'[i].why = mends[i].why
             /\ mends'[i].approval = mends[i].approval /\ Began(i)' = Began(i)
             /\ mends'[i].step = "BEGIN" => mends'[i].made = 0
  <2>1. CASE i = j
    BY <1>2, <2>1 DEF Began
  <2>2. CASE i # j
    BY <1>2, <2>2 DEF Began, RInv, Repairs, Founded
  <2>3. QED BY <2>1, <2>2
<1>4. QED BY <1>1, <1>3, RepairsGoOn

LEMMA MendToRepairs ==
    ASSUME ValIInv, ValIInv', RInv, NEW j \in 1 .. Len(mends), NEW step \in MendSteps, MendTo(j, step),
           UNCHANGED <<spent, attempts, work>>, Open' => Open, mends[j].step \notin {"BEGIN", "REFUSED"},
           step # "BEGIN", step = "REFUSED" => mends[j].made # 0
    PROVE  RInv'
<1> DEFINE m == [mends[j] EXCEPT !.step = step]
<1>1. /\ m.run = mends[j].run /\ m.why = mends[j].why /\ m.approval = mends[j].approval
      /\ m.made = mends[j].made /\ m.step = step
  BY MendTypes DEF Mends
<1>2. mends' = [mends EXCEPT ![j] = m]
  BY DEF MendTo
<1> HIDE DEF m
<1>3. QED BY <1>1, <1>2, MendChanged

LEMMA MenderRepairs == ASSUME ValIInv, ValIInv', RInv, NEW j \in 1 .. Len(mends), MenderStep(j) PROVE RInv'
<1>1. CASE BeginMend(j)
  BY <1>1, BeginRepairs
<1>2. CASE RunHermes(j) \/ RequestRerun(j) \/ MenderStops(j)
  <2>1. /\ UNCHANGED <<resume, spent, attempts, work>> /\ mends[j].step \notin {"BEGIN", "REFUSED"}
        /\ \E step \in {"HERMES", "COMMIT", "DONE", "FAILED"} : MendTo(j, step)
        /\ UNCHANGED stage \/ FailTask
    BY <1>2 DEF RunHermes, RequestRerun, MenderStops
  <2>2. Open' => Open
    BY <2>1 DEF Open, FailTask
  <2>3. QED BY <2>1, <2>2, MendToRepairs DEF MendSteps
<1>3. CASE CommitCandidate(j)
  <2>1. /\ UNCHANGED <<resume, spent, attempts, work>> /\ mends[j].step = "COMMIT"
        /\ UNCHANGED stage \/ FailTask
    BY <1>3 DEF CommitCandidate
  <2>2. Open' => Open
    BY <2>1 DEF Open, FailTask
  <2>3. CASE MendTo(j, "RECORD") \/ MendTo(j, "FAILED")
    BY <2>1, <2>2, <2>3, MendToRepairs DEF MendSteps
  <2>4. CASE mends' = [mends EXCEPT ![j].step = "RECORD", ![j].made = made + 1]
    <3> DEFINE n == made + 1
               m == [mends[j] EXCEPT !.step = "RECORD", !.made = n]
    <3>1. mends' = [mends EXCEPT ![j] = m]
      BY <2>4, MendTypes DEF Mends
    <3> HIDE DEF n
    <3>2. /\ m.run = mends[j].run /\ m.why = mends[j].why /\ m.approval = mends[j].approval
          /\ m.step = "RECORD"
      BY MendTypes DEF Mends
    <3> HIDE DEF m
    <3>3. QED BY <2>1, <2>2, <3>1, <3>2, MendChanged
  <2>5. QED BY <1>3, <2>3, <2>4 DEF CommitCandidate
<1>4. CASE RecordCandidate(j)
  <2>1. /\ UNCHANGED <<resume, spent, attempts, work>> /\ mends[j].step = "RECORD"
        /\ UNCHANGED stage \/ FailTask
    BY <1>4 DEF RecordCandidate
  <2>2. Open' => Open
    BY <2>1 DEF Open, FailTask
  <2>3. CASE MendTo(j, "FAILED")
    BY <2>1, <2>2, <2>3, MendToRepairs DEF MendSteps
  <2>4. CASE mends' = [mends EXCEPT ![j].step = "REVALIDATE", ![j].recorded = TRUE]
    <3> DEFINE m == [mends[j] EXCEPT !.step = "REVALIDATE", !.recorded = TRUE]
    <3>1. mends' = [mends EXCEPT ![j] = m]
      BY <2>4, MendTypes DEF Mends
    <3>2. /\ m.run = mends[j].run /\ m.why = mends[j].why /\ m.approval = mends[j].approval
          /\ m.step = "REVALIDATE"
      BY MendTypes DEF Mends
    <3> HIDE DEF m
    <3>3. QED BY <2>1, <2>2, <3>1, <3>2, MendChanged
  <2>5. QED BY <1>4, <2>3, <2>4 DEF RecordCandidate
<1>5. CASE RevalidateMend(j)
  <2>1. CASE mends[j].attempt = 0 /\ stage = "REPAIRING"
    BY <1>5, <2>1, RevalidateRepairs
  <2>2. CASE ~(mends[j].attempt = 0 /\ stage = "REPAIRING")
    <3>1. /\ UNCHANGED <<resume, spent, attempts, work, stage>> /\ mends[j].step = "REVALIDATE"
          /\ MendTo(j, "RERUN") \/ MendTo(j, "REFUSED")
      BY <1>5, <2>2 DEF RevalidateMend
    <3>2. mends[j].made # 0
      BY <3>1 DEF ValIInv, AllMended, Mended
    <3>3. Open' = Open
      BY <3>1 DEF Open
    <3>4. QED BY <3>1, <3>2, <3>3, MendToRepairs DEF MendSteps
  <2>3. QED BY <2>1, <2>2
<1>6. QED BY <1>1, <1>2, <1>3, <1>4, <1>5 DEF MenderStep

LEMMA CollectorRepairs == ASSUME ValIInv, ValIInv', RInv, NEW r \in Runs, CollectorStep(r) PROVE RInv'
<1>1. CASE Precheck(r)
  <2>1. /\ work[r].step # "NONE" /\ Prechecked(r, "COLLECT") /\ "COLLECT" \in Steps \ {"ENQUEUE"}
        /\ UNCHANGED <<stage, resume, spent, mends>>
    BY <1>1 DEF Precheck, Steps, Working
  <2>2. QED BY <2>1, PrecheckedRepairs
<1>2. CASE StartCollect(r) /\ ~IsRun(r)
  <2>1. /\ work[r].step # "NONE" /\ Prechecked(r, "VERIFY") /\ "VERIFY" \in Steps \ {"ENQUEUE"}
        /\ UNCHANGED <<stage, resume, spent, mends>>
    BY <1>2 DEF StartCollect, Steps, Working
  <2>2. QED BY <2>1, PrecheckedRepairs
<1>3. CASE (StartCollect(r) /\ IsRun(r)) \/ VerifyArtifacts(r) \/ Persist(r) \/ CollectorStops(r)
  <2>1. /\ work[r].step # "NONE" /\ UNCHANGED <<stage, resume, spent, mends>>
        /\ LeaseAgain(r) \/ \E step \in Steps \ {"ENQUEUE"} : GoTo(r, step)
    BY <1>3 DEF StartCollect, ReplayRun, VerifyArtifacts, Persist, CollectorStops, Steps, Working
  <2>2. UNCHANGED attempts
    <3>1. UNCHANGED attempts \/ (Collectible(work[r].attempt, work[r].of) /\ BindLegacy(work[r].of))
      BY <1>3 DEF StartCollect, VerifyArtifacts, Persist, CollectorStops
    <3>2. QED BY <2>1, <3>1, BoundOnce
  <2>3. Continues(r)
    BY <2>1, LeaseContinues, GoToContinues
  <2>4. Open' = Open
    BY <2>1 DEF Open
  <2>5. QED BY <2>1, <2>2, <2>3, <2>4, WorkContinues
<1>4. CASE DecideRun(r)
  <2>1. work[r].step # "NONE" /\ UNCHANGED <<stage, resume, spent, mends, attempts>>
    BY <1>4 DEF DecideRun
  <2>2. Continues(r)
    <3>1. CASE LeaseAgain(r)
      BY <2>1, <3>1, LeaseContinues
    <3>2. CASE ~LeaseAgain(r)
      <4> DEFINE next == IF Decision(r).outcome = "FAILED" THEN "SCHEDULE" ELSE "DONE"
                 holds == IsCurrent(r, Decision(r).attempt)
                 w == [work[r] EXCEPT !.step = next, !.current = holds]
      <4>1. work' = [work EXCEPT ![r].step = next, ![r].current = holds]
        BY <1>4, <3>2 DEF DecideRun
      <4>2. work[r] \in Works /\ next \notin {"NONE", "ENQUEUE"}
        BY <2>1, AtWork
      <4> HIDE DEF next, holds
      <4>3. w.step = next /\ w.of = work[r].of /\ w.body = work[r].body
        BY <4>2 DEF Works
      <4>4. work' = [work EXCEPT ![r] = w]
        BY <4>1
      <4> HIDE DEF w
      <4>5. QED BY <4>2, <4>3, <4>4 DEF Continues, ValIInv, ValTypes, WorkType
    <3>3. QED BY <3>1, <3>2
  <2>3. Open' = Open
    BY <2>1 DEF Open
  <2>4. QED BY <2>1, <2>2, <2>3, WorkContinues
<1>5. CASE ScheduleMend(r)
  BY <1>5, ScheduleRepairs
<1>6. CASE AskRetry(r)
  <2>1. /\ work[r].step # "NONE" /\ UNCHANGED <<spent, mends, attempts>> /\ GoTo(r, "DONE")
        /\ "DONE" \in Steps \ {"ENQUEUE"}
        /\ UNCHANGED <<stage, resume>> \/ stage = "VALIDATING"
    BY <1>6 DEF AskRetry, LeaveCheckpoint, Steps, Working
  <2>2. Continues(r)
    BY <2>1, GoToContinues
  <2>3. Open' => Open
    BY <2>1 DEF Open
  <2>4. QED BY <2>1, <2>2, <2>3, WorkContinues
<1>7. CASE EnqueueMend(r)
  BY <1>7, EnqueueRepairs
<1>8. QED BY <1>1, <1>2, <1>3, <1>4, <1>5, <1>6, <1>7 DEF CollectorStep

\* Nothing can have been repaired when the legacy attempt is bound.
LEMMA HandInRepairs ==
    ASSUME ValIInv, RInv, NEW r \in Runs, NEW c \in Candidates, NEW body \in Handed, HandIn(r, c, body)
    PROVE  RInv'
<1> DEFINE n == Len(attempts)
<1>1. /\ work[r].step = "NONE" /\ Collectible(n, c) /\ BindLegacy(c)
      /\ work' = [work EXCEPT ![r] = NewWork(c, body)]
      /\ UNCHANGED <<stage, resume, spent, mends>>
  BY NoRequest DEF HandIn, LatestAttempt
<1>2. UNCHANGED attempts \/ mends = << >>
  <2>1. attempts \in Seq(Nat) /\ n \in 1 .. n /\ attempts[n] \in {0, c}
    BY <1>1 DEF ValIInv, ValTypes, Attempted, Collectible, OfLatestAttempt, LatestAttempt, Candidate
  <2>2. attempts[n] = c => attempts' = attempts
    BY <1>1, <2>1 DEF BindLegacy, LatestAttempt
  <2>3. attempts[n] = 0 => mends = << >>
    BY <2>1 DEF ValIInv, Attempted
  <2>4. QED BY <2>1, <2>2, <2>3
<1>3. Open' = Open
  BY <1>1 DEF Open
<1>4. NewWork(c, body).step = "PRECHECK"
  BY DEF NewWork
<1>5. \A s \in Runs : work'[s] = IF s = r THEN NewWork(c, body) ELSE work[s]
  BY <1>1 DEF ValIInv, ValTypes, WorkType
<1>6. QED BY <1>1, <1>2, <1>3, <1>4, <1>5, RepairsStay

LEMMA RepairsKept == ValIInv /\ RInv /\ [ValNext]_valvars => RInv'
<1> SUFFICES ASSUME ValIInv, RInv, [ValNext]_valvars PROVE RInv'
  OBVIOUS
<1>0. ValIInv'
  BY NextKeeps
<1>1. CASE PauseValidation \/ ResumeValidation \/ PublishCandidate \/ UNCHANGED valvars
           \/ (\E r \in Runs : SpoilEvidence(r))
           \/ (\E q \in 1 .. Len(asked), a \in {"RETRY", "ABANDON", "CANCEL"} : AnswerRetry(q, a))
  <2>1. UNCHANGED <<attempts, work, spent, mends>>
    BY <1>1 DEF PauseValidation, ResumeValidation, PublishCandidate, SpoilEvidence, AnswerRetry, valvars
  <2>2. Open' => Open
    BY <1>1 DEF PauseValidation, ResumeValidation, PublishCandidate, SpoilEvidence, AnswerRetry,
                valvars,
                Open
  <2>3. QED BY <2>1, <2>2, RepairsStay
<1>2. CASE \E r \in Runs : CollectorStep(r)
  BY <1>0, <1>2, CollectorRepairs
<1>3. CASE \E r \in Runs, c \in Candidates, body \in Handed : c <= made /\ HandIn(r, c, body)
  BY <1>3, HandInRepairs
<1>4. CASE \E j \in 1 .. Len(mends) : MenderStep(j)
  BY <1>0, <1>4, MenderRepairs
<1>5. QED BY <1>1, <1>2, <1>3, <1>4 DEF ValNext

\* The invariant of the repairs.
LEMMA RepairsAlwaysKept == ValSpec => []RInv
<1>1. ValInit => RInv
  <2> SUFFICES ASSUME ValInit PROVE RInv
    OBVIOUS
  <2>1. mends = << >> /\ spent = 0 /\ \A r \in Runs : work[r].step = "NONE"
    BY NoRequest DEF ValInit
  <2>2. Begun = {} /\ Alone = {}
    BY <2>1 DEF Begun, Alone
  <2>3. Cardinality(Begun) = 0 /\ Cardinality(Alone) = 0
    BY <2>2, FS_EmptySet
  <2>4. QED BY <2>1, <2>3, ValidationAssumption DEF RInv, Repairs, Naming, Counted
<1>2. ValIInv /\ RInv /\ [ValNext]_valvars => RInv'
  BY RepairsKept
<1>3. QED BY <1>1, <1>2, ValInvariance, PTL DEF ValSpec

\* Repairs begin within the budget, for a failure nobody repaired and a candidate nobody
\* repairs, or for a request each, however the jobs of several runs interleave.
THEOREM RepairsStayEarned == ValSpec => []RepairsAreEarned
<1>1. ValIInv /\ RInv => RepairsAreEarned
  <2> SUFFICES ASSUME ValIInv, RInv PROVE RepairsAreEarned
    OBVIOUS
  <2>1. Cardinality(Alone) <= RepairBudget
    BY DEF RInv, Counted
  <2>2. ASSUME NEW i \in Begun, NEW j \in Begun, i # j
        PROVE  /\ work[mends[i].run].of # work[mends[j].run].of
               /\ mends[i].approval # mends[j].approval \/ mends[i].approval = 0
               /\ {i, j} \subseteq Alone => Failures(mends[i].run) # Failures(mends[j].run)
    <3>1. i \in 1 .. Len(mends) /\ j \in 1 .. Len(mends) /\ Began(i) /\ Began(j)
      BY DEF Begun
    <3>2. Of(i) # Of(j)
      BY <2>2, <3>1 DEF RInv, Repairs, OncePerCandidate
    <3>3. mends[i].approval # mends[j].approval \/ mends[i].approval = 0
      BY <3>1, <3>2 DEF RInv, Repairs, OneCandidate
    <3>4. ASSUME {i, j} \subseteq Alone PROVE Failures(mends[i].run) # Failures(mends[j].run)
      <4>1. mends[i].why # mends[j].why
        BY <2>2, <3>1, <3>4 DEF RInv, Repairs, NewFailure, Alone
      <4>2. QED BY <3>1, <4>1 DEF RInv, Repairs, Founded, Fingerprint
    <3>5. QED BY <3>2, <3>3, <3>4 DEF Of
  <2>3. QED BY <2>1, <2>2 DEF RepairsAreEarned, Begun, Alone
<1>2. QED BY <1>1, ValInvariance, RepairsAlwaysKept, PTL

-----------------------------------------------------------------------------
(* Types *)

\* The states of a task while its candidates are validated; an escalation returns to one
\* of two of them.
Staged ==
    /\ stage \in {"VALIDATING", "REPAIRING", "ESCALATED", "PR_ACTIVE", "FAILED", "CANCELLED"}
    /\ resume \in {"VALIDATING", "REPAIRING"}

LEMMA StagedStays == Staged /\ [ValNext]_valvars => Staged'
<1> SUFFICES ASSUME Staged, [ValNext]_valvars PROVE Staged'
  OBVIOUS
<1>1. CASE \E r \in Runs : CollectorStep(r) \/ SpoilEvidence(r)
  BY <1>1 DEF Staged, CollectorStep, Precheck, StartCollect, VerifyArtifacts, Persist, DecideRun,
              ScheduleMend, AskRetry, EnqueueMend, CollectorStops, SpoilEvidence
<1>2. CASE \E r \in Runs, c \in Candidates, body \in Handed : c <= made /\ HandIn(r, c, body)
  BY <1>2 DEF Staged, HandIn
<1>3. CASE \E j \in 1 .. Len(mends) : MenderStep(j)
  BY <1>3 DEF Staged, MenderStep, BeginMend, RunHermes, CommitCandidate, RecordCandidate,
              RevalidateMend, RequestRerun, MenderStops, FailTask
<1>4. CASE \E q \in 1 .. Len(asked), a \in {"RETRY", "ABANDON", "CANCEL"} : AnswerRetry(q, a)
  BY <1>4 DEF Staged, AnswerRetry
<1>5. CASE PauseValidation \/ ResumeValidation \/ PublishCandidate \/ UNCHANGED valvars
  BY <1>5 DEF Staged, PauseValidation, ResumeValidation, PublishCandidate, valvars
<1>6. QED BY <1>1, <1>2, <1>3, <1>4, <1>5 DEF ValNext

\* Only a repair's commit makes a candidate.
Bounded == made \in Candidates

LEMMA CandidatesStay == Bounded /\ [ValNext]_valvars => Bounded'
<1> SUFFICES ASSUME Bounded, [ValNext]_valvars, made' # made PROVE Bounded'
  BY DEF Bounded
<1>1. PICK j \in 1 .. Len(mends) : MenderStep(j)
  BY DEF ValNext, valvars, CollectorStep, Precheck, StartCollect, VerifyArtifacts, Persist, DecideRun,
         ScheduleMend, AskRetry, EnqueueMend, CollectorStops, SpoilEvidence, HandIn, AnswerRetry,
         PauseValidation, ResumeValidation, PublishCandidate
<1>2. CommitCandidate(j)
  BY <1>1 DEF MenderStep, BeginMend, RunHermes, RecordCandidate, RevalidateMend, RequestRerun,
              MenderStops
<1>3. made < MaxCandidates /\ made' = made + 1
  BY <1>2 DEF CommitCandidate
<1>4. QED BY <1>3, ValidationAssumption DEF Bounded, Candidates

LEMMA SequenceOf ==
    ASSUME NEW S, NEW T, NEW s \in Seq(S), \A i \in 1 .. Len(s) : s[i] \in T
    PROVE  s \in Seq(T)
OBVIOUS

\* The types of what is validated; the budget is spent by the repairs that began, no more
\* and no fewer.
THEOREM ValTypeCorrect == ValSpec => []ValTypeOK
<1>1. ValInit => Staged /\ Bounded
  BY ValidationAssumption DEF ValInit, Staged, Bounded, Candidates
<1>2. Staged /\ [ValNext]_valvars => Staged'
  BY StagedStays
<1>3. Bounded /\ [ValNext]_valvars => Bounded'
  BY CandidatesStay
<1>4. ValIInv /\ RInv /\ Staged /\ Bounded => ValTypeOK
  <2> SUFFICES ASSUME ValIInv, RInv, Staged, Bounded PROVE ValTypeOK
    OBVIOUS
  <2>1. attempts \in Seq(0 .. MaxCandidates)
    <3>1. attempts \in Seq(Nat) /\ made \in Nat /\ \A a \in 1 .. Len(attempts) : attempts[a] <= made
      BY DEF ValIInv, ValTypes, Attempted
    <3>2. \A a \in 1 .. Len(attempts) : attempts[a] \in 0 .. MaxCandidates
      BY <3>1, ValidationAssumption DEF Bounded, Candidates
    <3>3. QED BY <3>1, <3>2, SequenceOf
  <2>2. \A r \in Runs : run[r].outcome \in Outcomes \cup {"NONE"}
    BY NoRequest DEF ValIInv, ValTypes, RunType, RunRows
  <2>3. \A r \in Runs : work[r] = NoWork \/ work[r].body \in Bodies
    BY HandedAssumption DEF ValIInv, ValTypes, WorkType, Works
  <2>4. spent = Cardinality({j \in 1 .. Len(mends) : Began(j)})
    BY DEF RInv, Counted, Begun
  <2>5. {stage, resume} \subseteq {"VALIDATING", "REPAIRING", "ESCALATED", "PR_ACTIVE",
                                  "FAILED", "CANCELLED"}
    BY DEF Staged
  <2>6. QED BY <2>1, <2>2, <2>3, <2>4, <2>5 DEF ValTypeOK, Bounded
<1>5. QED BY <1>1, <1>2, <1>3, <1>4, ValInvariance, RepairsAlwaysKept, PTL DEF ValSpec

-----------------------------------------------------------------------------
(* The promise of a task, while it is validated *)

\* How a step moves the task.
StageMoves ==
    \/ <<stage, stage'>> \in {<<"VALIDATING", "REPAIRING">>, <<"REPAIRING", "VALIDATING">>,
                              <<"VALIDATING", "PR_ACTIVE">>}
    \/ stage \in {"VALIDATING", "REPAIRING", "ESCALATED"} /\ stage' \in {"FAILED", "CANCELLED"}
    \/ stage \in {"VALIDATING", "REPAIRING"} /\ stage' = "ESCALATED" /\ resume' = stage
    \/ stage = "ESCALATED" /\ stage' = resume

LEMMA StepsMove ==
    ASSUME Staged, [ValNext]_valvars
    PROVE  StageMoves \/ (stage' = stage /\ (stage = "ESCALATED" => resume' = resume))
<1>1. CASE \E r \in Runs : CollectorStep(r) \/ SpoilEvidence(r)
  <2>1. PICK r \in Runs : CollectorStep(r) \/ SpoilEvidence(r)
    BY <1>1
  <2>2. CASE AskRetry(r) \/ EnqueueMend(r) \/ CollectorStops(r)
    BY <2>2 DEF StageMoves, AskRetry, EnqueueMend, CollectorStops
  <2>3. CASE \/ Precheck(r) \/ StartCollect(r) \/ VerifyArtifacts(r) \/ Persist(r) \/ DecideRun(r)
             \/ ScheduleMend(r) \/ SpoilEvidence(r)
    BY <2>3 DEF StageMoves, Precheck, StartCollect, VerifyArtifacts, Persist, DecideRun, ScheduleMend,
                SpoilEvidence
  <2>4. QED BY <2>1, <2>2, <2>3 DEF CollectorStep
<1>2. CASE \E r \in Runs, c \in Candidates, body \in Handed : c <= made /\ HandIn(r, c, body)
  BY <1>2 DEF HandIn
<1>3. CASE \E j \in 1 .. Len(mends) : MenderStep(j)
  BY <1>3 DEF StageMoves, MenderStep, BeginMend, RunHermes, CommitCandidate, RecordCandidate,
              RevalidateMend, RequestRerun, MenderStops, FailTask
<1>4. CASE \E q \in 1 .. Len(asked), a \in {"RETRY", "ABANDON", "CANCEL"} : AnswerRetry(q, a)
  BY <1>4 DEF StageMoves, AnswerRetry
<1>5. CASE PauseValidation \/ ResumeValidation \/ PublishCandidate \/ UNCHANGED valvars
  BY <1>5 DEF StageMoves, PauseValidation, ResumeValidation, PublishCandidate, valvars
<1>6. QED BY <1>1, <1>2, <1>3, <1>4, <1>5 DEF ValNext

\* A task that is validated keeps to the edges of the life cycle: collectors, menders,
\* pauses and answers end nothing that ended, and resume what was interrupted
\* (repair_loop.py, validation_decisioning.py).
THEOREM StagesKeepPromise == ValSpec => ValidationKeepsPromise
<1> DEFINE S == [t \in {"task"} |-> stage]
           R == [t \in {"task"} |-> IF stage = "ESCALATED" THEN resume ELSE "NULL"]
<1>1. ValInit => Staged /\ Stages!Init
  BY DEF ValInit, Staged, Stages!Init
<1>2. Staged /\ [ValNext]_valvars => [Stages!Next]_(Stages!promise)
  <2> SUFFICES ASSUME Staged, [ValNext]_valvars
               PROVE  Stages!Next \/ UNCHANGED <<S, R>>
    BY DEF Stages!promise
  <2>1. S["task"] = stage /\ R["task"] = IF stage = "ESCALATED" THEN resume ELSE "NULL"
    OBVIOUS
  <2>2. ASSUME NEW s, NEW r, stage' = s, r = IF s = "ESCALATED" THEN resume' ELSE "NULL"
        PROVE  Stages!Becomes("task", s, r)
    BY <2>2 DEF Stages!Becomes
  <2>3. CASE stage' = stage /\ (stage = "ESCALATED" => resume' = resume)
    BY <2>3
  <2>4. CASE <<stage, stage'>> \in {<<"VALIDATING", "REPAIRING">>, <<"REPAIRING", "VALIDATING">>,
                                   <<"VALIDATING", "PR_ACTIVE">>}
    <3>1. Stages!Becomes("task", stage', "NULL") /\ stage' \in Stages!Underway
      BY <2>2, <2>4 DEF Stages!Underway
    <3>2. Stages!Proceed("task", stage')
      BY <2>1, <2>4, <3>1 DEF Stages!Proceed, Stages!Steps
    <3>3. QED BY <3>1, <3>2 DEF Stages!Next
  <2>5. CASE stage \in {"VALIDATING", "REPAIRING", "ESCALATED"} /\ stage' \in {"FAILED", "CANCELLED"}
    <3>1. Stages!Stop("task", stage')
      BY <2>1, <2>2, <2>5 DEF Stages!Stop, Stages!Underway
    <3>2. QED BY <2>5, <3>1 DEF Stages!Next
  <2>6. CASE stage \in {"VALIDATING", "REPAIRING"} /\ stage' = "ESCALATED" /\ resume' = stage
    <3>1. Stages!Escalate("task")
      BY <2>1, <2>2, <2>6 DEF Stages!Escalate, Stages!Underway
    <3>2. QED BY <3>1 DEF Stages!Next
  <2>7. CASE stage = "ESCALATED" /\ stage' = resume
    <3>1. Stages!Becomes("task", resume, "NULL")
      BY <2>2, <2>7 DEF Staged
    <3>2. Stages!Resume("task")
      BY <2>1, <2>7, <3>1 DEF Stages!Resume
    <3>3. QED BY <3>2 DEF Stages!Next
  <2>8. QED BY <2>3, <2>4, <2>5, <2>6, <2>7, StepsMove DEF StageMoves
<1>3. Staged /\ [ValNext]_valvars => Staged'
  BY StagedStays
<1>4. QED BY <1>1, <1>2, <1>3, PTL DEF ValSpec, ValidationKeepsPromise, Stages!Spec

-----------------------------------------------------------------------------
(* The pull request: its invariant *)

JobSteps == {"QUEUED", "RECONCILE", "RECONCILE_FIRST", "READ", "READ_FIRST", "SCHEDULE", "DONE",
             "FAILED"}
RepairSteps == {"QUEUED", "STARTED", "COMMITTED", "REVALIDATING", "FAILED"}

\* A sequence of records, whatever their fields hold.
Entries(s) == {s[i] : i \in 1 .. Len(s)}

LogShaped == log \in Seq(Entries(log))
JobsShaped ==
    /\ jobs \in Seq(Entries(jobs))
    /\ \A j \in 1 .. Len(jobs) :
          /\ jobs[j] = [event |-> jobs[j].event, step |-> jobs[j].step, seen |-> jobs[j].seen]
          /\ jobs[j].event \in 0 .. Len(log) /\ jobs[j].step \in JobSteps
RepairsShaped ==
    /\ repairs \in Seq(Entries(repairs))
    /\ \A i \in 1 .. Len(repairs) :
          /\ repairs[i] = [event |-> repairs[i].event, by |-> repairs[i].by,
                           policy |-> repairs[i].policy, status |-> repairs[i].status]
          /\ repairs[i].event \in 1 .. Len(log) /\ repairs[i].status \in RepairSteps
Shaped == LogShaped /\ JobsShaped /\ RepairsShaped

\* Only a task that is being validated is published, at the head it is validated at.
Published ==
    opening # None => phase = "VALIDATING" /\ opening = [head |-> local, step |-> opening.step]

\* An open question holds the task.
QuestionsAsked ==
    /\ \A a \in approvals : a.status = "PENDING" => phase = "ESCALATED"
    /\ \A a, b \in approvals : a.status = "PENDING" /\ b.status = "PENDING" => a = b
    /\ \A a \in approvals :
          /\ a = [event |-> a.event, policy |-> a.policy, status |-> a.status]
          /\ a.event \in 1 .. Len(log)

\* One repair works on the task at a time, and until it is published the task is not active.
Repairing(i) == repairs[i].status \in {"STARTED", "COMMITTED"}
OneAtATime ==
    /\ \A i \in 1 .. Len(repairs) : Repairing(i) => phase = "REPAIRING"
    /\ \A i, k \in 1 .. Len(repairs) : Repairing(i) /\ Repairing(k) => i = k
Exact == phase \in {"PR_ACTIVE", "READY_FOR_HUMAN_MERGE", "ESCALATED", "HANDED_OFF"} => opened = local

Settled == phase \in {"READY_FOR_HUMAN_MERGE", "HANDED_OFF"} =>
              \A i \in 1 .. Len(repairs) : repairs[i].status = "FAILED"

\* Somebody will read the facts, or has read them as they are.
Watches(j) ==
    \/ jobs[j].step \in {"QUEUED", "RECONCILE", "RECONCILE_FIRST", "READ_FIRST"}
    \/ jobs[j].step = "READ" /\ StillSeen(jobs[j].seen)
Watched == phase = "READY_FOR_HUMAN_MERGE" /\ ~IsReady(Assessment) => \E j \in 1 .. Len(jobs) : Watches(j)

HandedOver == phase = "HANDED_OFF" => IsReady(Assessment)

Matched(by, e) == by \in {"ONE_OFF_APPROVAL"} \/ RuleMatches(by, CommentOf(e))
JobsAllowed ==
    \A j \in 1 .. Len(jobs) : jobs[j].step = "SCHEDULE" =>
        /\ jobs[j].event # 0
        /\ jobs[j].seen.facts # None => Matched(jobs[j].seen.facts, jobs[j].event)
RepairsAllowed == \A i \in 1 .. Len(repairs) : Matched(repairs[i].by, repairs[i].event)
Allowed == JobsAllowed /\ RepairsAllowed

\* Repairs make the commits.
Committed ==
    /\ local \in 1 .. MaxCommits /\ retries \in Nat
    /\ IF phase = "REPAIRING" THEN retries <= local ELSE retries < local
    /\ \A i \in 1 .. Len(repairs) : repairs[i].status = "COMMITTED" => retries < local

PrInv ==
    /\ Shaped /\ Published /\ QuestionsAsked /\ OneAtATime /\ Exact /\ Settled
    /\ Watched /\ HandedOver /\ Allowed /\ Committed
-----------------------------------------------------------------------------
(* Sequences of records *)

LEMMA EntriesHold == ASSUME NEW S, NEW s \in Seq(S) PROVE s \in Seq(Entries(s))
BY DEF Entries

LEMMA AppendKeepsEntries ==
    ASSUME NEW s, s \in Seq(Entries(s)), NEW w
    PROVE  /\ Append(s, w) \in Seq(Entries(Append(s, w)))
           /\ Len(Append(s, w)) = Len(s) + 1 /\ Len(s) \in Nat
           /\ \A i \in 1 .. Len(s) : Append(s, w)[i] = s[i]
           /\ Append(s, w)[Len(s) + 1] = w
<1>1. PICK S : S = Entries(s) \cup {w}
  OBVIOUS
<1>2. s \in Seq(S) /\ w \in S
  <2>1. \A i \in 1 .. Len(s) : s[i] \in S
    BY <1>1 DEF Entries
  <2>2. QED BY <1>1, <2>1
<1>3. PICK t : t = Append(s, w)
  OBVIOUS
<1>4. /\ t \in Seq(S) /\ Len(t) = Len(s) + 1 /\ Len(s) \in Nat
      /\ \A i \in 1 .. Len(s) : t[i] = s[i]
      /\ t[Len(s) + 1] = w
  BY <1>2, <1>3
<1>5. t \in Seq(Entries(t))
  BY <1>4, EntriesHold
<1>6. QED BY <1>3, <1>4, <1>5

LEMMA ExceptKeepsEntries ==
    ASSUME NEW s, s \in Seq(Entries(s)), NEW j \in 1 .. Len(s), NEW w
    PROVE  /\ [s EXCEPT ![j] = w] \in Seq(Entries([s EXCEPT ![j] = w]))
           /\ Len([s EXCEPT ![j] = w]) = Len(s)
<1>1. PICK S : S = Entries(s) \cup {w}
  OBVIOUS
<1>2. s \in Seq(S) /\ w \in S
  <2>1. \A i \in 1 .. Len(s) : s[i] \in S
    BY <1>1 DEF Entries
  <2>2. QED BY <1>1, <2>1
<1>3. PICK t : t = [s EXCEPT ![j] = w]
  OBVIOUS
<1>4. t \in Seq(S) /\ Len(t) = Len(s)
  BY <1>2, <1>3
<1>5. QED BY <1>3, <1>4, EntriesHold

-----------------------------------------------------------------------------
(* What the facts depend on *)

LEMMA FactsStay ==
    ASSUME UNCHANGED <<opened, log, assessed, approvals, repairs>>
    PROVE  Assessment' = Assessment
<1>1. HeadChange' = HeadChange /\ LatestBinding' = LatestBinding
  BY DEF HeadChange, LatestBinding
<1>2. EffectiveHead' = EffectiveHead
  BY <1>1 DEF EffectiveHead
<1>3. Projection' = Projection
  BY <1>1, <1>2 DEF Projection
<1>4. OpenComments' = OpenComments
  BY <1>1, <1>2 DEF OpenComments
<1>5. GitHubFacts' = GitHubFacts
  BY <1>1, <1>2, <1>3, <1>4 DEF GitHubFacts, StateAfter
<1>6. DraftFacts' = DraftFacts
  BY DEF DraftFacts, ProofHolds, Fenced
<1>7. QED BY <1>5, <1>6 DEF Assessment, RepairsSettled

-----------------------------------------------------------------------------
(* What a step leaves alone *)

Unpublished ==
    /\ Shaped /\ QuestionsAsked /\ OneAtATime /\ Exact /\ Settled
    /\ Watched /\ HandedOver /\ Allowed /\ Committed

LEMMA QuietStep ==
    ASSUME PrInv, UNCHANGED <<phase, retries, local, opened, log, jobs, assessed, approvals, repairs>>
    PROVE  Unpublished'
<1>1. Assessment' = Assessment
  BY FactsStay
<1>2. Shaped' /\ QuestionsAsked' /\ OneAtATime' /\ Exact' /\ Settled' /\ Committed'
  <2>1. Shaped'
    BY DEF PrInv, Shaped, LogShaped, JobsShaped, RepairsShaped, Entries
  <2>2. QuestionsAsked' /\ OneAtATime' /\ Exact' /\ Settled' /\ Committed'
    BY DEF PrInv, QuestionsAsked, OneAtATime, Repairing, Exact, Settled, Committed
  <2>3. QED BY <2>1, <2>2
<1>3. Allowed'
  BY DEF PrInv, Allowed, JobsAllowed, RepairsAllowed, Matched, RuleMatches, CommentOf
<1>4. Watched'
  BY <1>1 DEF PrInv, Watched, Watches, StillSeen, IsReady
<1>5. HandedOver'
  BY <1>1 DEF PrInv, HandedOver, IsReady
<1>6. QED BY <1>2, <1>3, <1>4, <1>5 DEF Unpublished

\* The steps at GitHub and of its deliveries, of the policy, and of a verdict.
LEMMA QuietStepsKeep ==
    ASSUME PrInv,
           \/ Decide \/ Push \/ EnsureDraft \/ CaptureProof \/ OpenFails \/ ActivatePolicy
           \/ \E d \in 1 .. Len(sent) : Receive(d)
           \/ \E h \in Foreign : OtherPush(h)
           \/ \E at \in {Now, Now + 1} :
                 \/ ToggleDraft(at)
                 \/ \E of \in Resources \ {"pr"} : \E s \in States(of) : Update(of, s, at)
           \/ UNCHANGED prvars
    PROVE  PrInv'
<1>1. UNCHANGED <<phase, retries, local, opened, log, jobs, assessed, approvals, repairs>>
  BY DEF Decide, Push, EnsureDraft, CaptureProof, OpenFails, ActivatePolicy, Receive, OtherPush,
         ToggleDraft, Update, task, review, prvars
<1>2. Published'
  <2>1. CASE Push
    BY <1>1, <2>1 DEF Push, Published, MayOpen, MayPublish
  <2>2. CASE EnsureDraft \/ CaptureProof
    <3>1. opening # None /\ \E s \in {"OBSERVED", "PROVEN"} : opening' = [opening EXCEPT !.step = s]
      BY <2>2 DEF EnsureDraft, CaptureProof
    <3>2. phase = "VALIDATING" /\ opening = [head |-> local, step |-> opening.step]
      BY <3>1 DEF PrInv, Published
    <3>3. QED BY <1>1, <3>1, <3>2 DEF Published
  <2>3. CASE opening' = opening \/ opening' = None
    BY <1>1, <2>3 DEF PrInv, Published
  <2>4. QED
    BY <2>1, <2>2, <2>3 DEF Decide, OpenFails, ActivatePolicy, Receive, OtherPush, ToggleDraft,
                            Update, prvars
<1>3. QED BY <1>1, <1>2, QuietStep DEF PrInv, Unpublished

-----------------------------------------------------------------------------
(* The wake-ups *)

\* Set, as the record it leaves.
LEMMA SetJob ==
    ASSUME JobsShaped, NEW j \in 1 .. Len(jobs), NEW step \in JobSteps, NEW seen,
           Set(j, step, seen), log' = log
    PROVE  /\ JobsShaped' /\ Len(jobs') = Len(jobs)
           /\ jobs'[j] = [event |-> jobs[j].event, step |-> step, seen |-> seen]
           /\ \A k \in 1 .. Len(jobs) : k # j => jobs'[k] = jobs[k]
<1> DEFINE w == [event |-> jobs[j].event, step |-> step, seen |-> seen]
<1>1. jobs' = [jobs EXCEPT ![j] = w]
  BY DEF Set
<1>2. w.event = jobs[j].event /\ w.step = step /\ w.seen = seen
  OBVIOUS
<1>3. jobs[j].event \in 0 .. Len(log)
  BY DEF JobsShaped
<1>4. w = [event |-> w.event, step |-> w.step, seen |-> w.seen]
  OBVIOUS
<1> HIDE DEF w
<1>5. /\ jobs' \in Seq(Entries(jobs')) /\ Len(jobs') = Len(jobs)
      /\ \A k \in 1 .. Len(jobs) : jobs'[k] = IF k = j THEN w ELSE jobs[k]
  <2>1. PICK S : S = Entries(jobs) \cup {w}
    OBVIOUS
  <2>2. jobs \in Seq(S) /\ w \in S
    <3>1. \A k \in 1 .. Len(jobs) : jobs[k] \in S
      BY <2>1 DEF Entries
    <3>2. QED BY <2>1, <3>1 DEF JobsShaped
  <2>3. /\ jobs' \in Seq(S) /\ Len(jobs') = Len(jobs)
        /\ \A k \in 1 .. Len(jobs) : jobs'[k] = IF k = j THEN w ELSE jobs[k]
    BY <1>1, <2>2
  <2>4. QED BY <2>3, EntriesHold
<1>6. JobsShaped'
  BY <1>2, <1>3, <1>4, <1>5 DEF JobsShaped
<1>7. QED BY <1>5, <1>6 DEF w

\* A wake-up goes on, and while the task is ready the last that watches it does not leave.
LEMMA JobGoesOn ==
    ASSUME PrInv, NEW j \in 1 .. Len(jobs), NEW step \in JobSteps, NEW seen, Set(j, step, seen),
           UNCHANGED <<task, opening, opened, log, assessed, approvals, repairs>>,
           step = "SCHEDULE" =>
               /\ jobs[j].event # 0
               /\ seen.facts # None => Matched(seen.facts, jobs[j].event),
           phase = "READY_FOR_HUMAN_MERGE" /\ ~IsReady(Assessment) =>
               \/ ~Watches(j)
               \/ step \in {"QUEUED", "RECONCILE", "RECONCILE_FIRST", "READ_FIRST"}
               \/ step = "READ" /\ StillSeen(seen)
    PROVE  PrInv'
<1>1. /\ Shaped' /\ Len(jobs') = Len(jobs)
      /\ jobs'[j] = [event |-> jobs[j].event, step |-> step, seen |-> seen]
      /\ \A k \in 1 .. Len(jobs) : k # j => jobs'[k] = jobs[k]
  <2>1. JobsShaped /\ LogShaped /\ RepairsShaped
    BY DEF PrInv, Shaped
  <2>2. /\ JobsShaped' /\ Len(jobs') = Len(jobs)
        /\ jobs'[j] = [event |-> jobs[j].event, step |-> step, seen |-> seen]
        /\ \A k \in 1 .. Len(jobs) : k # j => jobs'[k] = jobs[k]
    BY <2>1, SetJob
  <2>3. LogShaped' /\ RepairsShaped'
    BY <2>1 DEF LogShaped, RepairsShaped, Entries
  <2>4. QED BY <2>2, <2>3 DEF Shaped
<1>2. Assessment' = Assessment
  BY FactsStay
<1>3. Published' /\ QuestionsAsked' /\ OneAtATime' /\ Exact' /\ Settled' /\ Committed'
  BY DEF PrInv, Published, QuestionsAsked, OneAtATime, Repairing, Exact, Settled, Committed, task
<1>4. HandedOver'
  BY <1>2 DEF PrInv, HandedOver, IsReady, task
<1>5. Allowed'
  BY <1>1 DEF PrInv, Allowed, JobsAllowed, RepairsAllowed, Matched, RuleMatches, CommentOf
<1>6. Watched'
  <2> SUFFICES ASSUME phase = "READY_FOR_HUMAN_MERGE", ~IsReady(Assessment)
               PROVE  \E k \in 1 .. Len(jobs) : Watches(k)'
    BY <1>1, <1>2 DEF Watched, IsReady, task
  <2>1. PICK k \in 1 .. Len(jobs) : Watches(k)
    BY DEF PrInv, Watched
  <2>2. CASE k # j
    <3>1. Watches(k)'
      BY <1>1, <1>2, <2>1, <2>2 DEF Watches, StillSeen, task
    <3>2. QED BY <3>1
  <2>3. CASE k = j
    <3>1. Watches(j)'
      BY <1>1, <1>2, <2>1, <2>3 DEF Watches, StillSeen, task
    <3>2. QED BY <3>1
  <2>4. QED BY <2>2, <2>3
<1>7. QED BY <1>1, <1>3, <1>4, <1>5, <1>6 DEF PrInv

LEMMA WakeWorkflowKeeps ==
    ASSUME PrInv, NEW j \in 1 .. Len(jobs), WakeWorkflow(j) \/ InvalidateFirst(j)
    PROVE  PrInv'
<1>1. \E step \in {"RECONCILE", "RECONCILE_FIRST"} : Set(j, step, None)
  BY DEF WakeWorkflow, InvalidateFirst
<1>2. UNCHANGED <<task, opening, opened, log, assessed, approvals, repairs>>
  BY DEF WakeWorkflow, InvalidateFirst, review
<1>3. QED BY <1>1, <1>2, JobGoesOn DEF JobSteps

LEMMA ReadFactsKeeps ==
    ASSUME PrInv, NEW j \in 1 .. Len(jobs), ReadFacts(j)
    PROVE  PrInv'
<1>1. UNCHANGED <<task, opening, opened, log, assessed, approvals, repairs>>
  BY DEF ReadFacts, review
<1>2. PICK seen : seen = [phase |-> phase, facts |-> Assessment]
  OBVIOUS
<1>3. StillSeen(seen)
  BY <1>2 DEF StillSeen
<1>4. \/ \E step \in {"READ", "READ_FIRST"} : Set(j, step, seen)
      \/ phase # "READY_FOR_HUMAN_MERGE" /\ \E step \in {"DONE", "QUEUED"} : Set(j, step, None)
  BY <1>2 DEF ReadFacts
<1>5. QED BY <1>1, <1>3, <1>4, JobGoesOn DEF JobSteps

LEMMA AssessCommentKeeps ==
    ASSUME PrInv, NEW j \in 1 .. Len(jobs), AssessComment(j)
    PROVE  PrInv'
<1>1. UNCHANGED <<task, opening, opened, log, assessed, approvals, repairs>>
  BY DEF AssessComment, review
<1>2. PICK seen : seen = [phase |-> version, facts |-> Authority(jobs[j].event)]
  OBVIOUS
<1>3. Set(j, "SCHEDULE", seen) /\ phase = "PR_ACTIVE" /\ jobs[j].event # 0
  BY <1>2 DEF AssessComment, IsComment, InContext
<1>4. seen.facts # None => Matched(seen.facts, jobs[j].event)
  <2> DEFINE e == jobs[j].event
             matches == {rule \in Rules[version] : RuleMatches(rule, CommentOf(e))}
  <2>1. seen.facts = Authority(e)
    BY <1>2
  <2>2. CASE OneOff(e, version)
    BY <2>1, <2>2 DEF Authority, Matched
  <2>3. CASE ~OneOff(e, version) /\ ~Unsafe(CommentOf(e)) /\ Cardinality(matches) = 1
    <3>1. Authority(e) = CHOOSE rule \in matches : TRUE
      BY <2>3 DEF Authority
    <3>2. (CHOOSE rule \in matches : TRUE) \in matches
      <4> HIDE DEF matches
      <4>1. matches # {}
        <5>1. Cardinality({}) = 0
          BY FS_EmptySet
        <5>2. matches = {} => Cardinality(matches) = 0
          BY <5>1
        <5>3. QED BY <2>3, <5>2
      <4>2. QED BY <4>1
    <3>3. QED BY <2>1, <3>1, <3>2 DEF Matched
  <2>4. QED
    BY <2>1, <2>2, <2>3 DEF Authority
<1>5. QED BY <1>1, <1>3, <1>4, JobGoesOn DEF JobSteps

\* A schedule that is refused in a task that is ready was not what watched it.
LEMMA ScheduleRefusedKeeps ==
    ASSUME PrInv, NEW j \in 1 .. Len(jobs), NEW last \in BOOLEAN, ScheduleRefused(j, last)
    PROVE  PrInv'
<1>1. UNCHANGED <<task, opening, opened, log, assessed, approvals, repairs>>
  BY DEF ScheduleRefused, review
<1>2. \E step \in {"FAILED", "QUEUED"} : Set(j, step, None)
  BY DEF ScheduleRefused
<1>3. phase = "READY_FOR_HUMAN_MERGE" => ~Watches(j)
  BY DEF ScheduleRefused, Watches
<1>4. QED BY <1>1, <1>2, <1>3, JobGoesOn DEF JobSteps

-----------------------------------------------------------------------------
(* Readiness *)

LEMMA SetKeepsShape ==
    ASSUME PrInv, NEW j \in 1 .. Len(jobs), NEW step \in JobSteps \ {"SCHEDULE"}, NEW seen,
           Set(j, step, seen), log' = log
    PROVE  LogShaped' /\ JobsShaped' /\ JobsAllowed'
<1>1. JobsShaped /\ LogShaped /\ JobsAllowed
  BY DEF PrInv, Shaped, Allowed
<1>2. /\ JobsShaped' /\ Len(jobs') = Len(jobs)
      /\ jobs'[j] = [event |-> jobs[j].event, step |-> step, seen |-> seen]
      /\ \A k \in 1 .. Len(jobs) : k # j => jobs'[k] = jobs[k]
  BY <1>1, SetJob
<1>3. LogShaped'
  BY <1>1 DEF LogShaped, Entries
<1>4. JobsAllowed'
  BY <1>1, <1>2 DEF JobsAllowed, Matched, RuleMatches, CommentOf
<1>5. QED BY <1>2, <1>3, <1>4

\* An active task is called ready, or handed off, when it is; it may always be taken back.
LEMMA TurnKeeps ==
    ASSUME PrInv, Shaped', Allowed',
           phase \in {"PR_ACTIVE", "READY_FOR_HUMAN_MERGE"},
           phase' \in {"PR_ACTIVE", "READY_FOR_HUMAN_MERGE", "HANDED_OFF"},
           phase' # "PR_ACTIVE" => IsReady(Assessment),
           UNCHANGED <<retries, local, opening, opened, log, assessed, approvals, repairs>>
    PROVE  PrInv'
<1>1. Assessment' = Assessment
  BY FactsStay
<1>2. Published' /\ QuestionsAsked' /\ OneAtATime' /\ Exact' /\ Committed'
  BY DEF PrInv, Published, QuestionsAsked, OneAtATime, Repairing, Exact, Committed
<1>3. Watched' /\ HandedOver'
  BY <1>1 DEF Watched, HandedOver, IsReady
<1>4. Settled'
  BY DEF Settled, IsReady, Assessment, RepairsSettled
<1>5. QED BY <1>2, <1>3, <1>4 DEF PrInv

LEMMA ReconcileKeeps ==
    ASSUME PrInv, NEW j \in 1 .. Len(jobs), Reconcile(j)
    PROVE  PrInv'
<1>1. UNCHANGED <<retries, local, verdict, opening, opened, log, assessed, approvals, repairs>>
  BY DEF Reconcile, review
<1>2. PICK step \in {"DONE", "QUEUED"} :
          Set(j, step, None) /\ (step = "QUEUED" \/ jobs[j].step = "READ")
  BY DEF Reconcile
<1>3. \/ /\ phase' = phase
         /\ \/ ~StillSeen(jobs[j].seen)
            \/ phase = "READY_FOR_HUMAN_MERGE" => IsReady(Assessment)
      \/ /\ phase = "PR_ACTIVE" /\ phase' = "READY_FOR_HUMAN_MERGE" /\ IsReady(Assessment)
      \/ /\ phase = "READY_FOR_HUMAN_MERGE" /\ phase' = "PR_ACTIVE"
  <2>1. StillSeen(jobs[j].seen) => jobs[j].seen.facts = Assessment
    BY DEF StillSeen
  <2>2. \/ ~StillSeen(jobs[j].seen) /\ phase' = phase
        \/ /\ StillSeen(jobs[j].seen) /\ phase = "PR_ACTIVE" /\ IsReady(jobs[j].seen.facts)
           /\ phase' = "READY_FOR_HUMAN_MERGE"
        \/ /\ phase = "READY_FOR_HUMAN_MERGE" /\ phase' = "PR_ACTIVE"
        \/ /\ phase = "READY_FOR_HUMAN_MERGE" => IsReady(jobs[j].seen.facts)
           /\ StillSeen(jobs[j].seen) /\ phase' = phase
    BY DEF Reconcile
  <2>3. QED BY <2>1, <2>2
<1>4. CASE phase' = phase
  <2>1. phase = "READY_FOR_HUMAN_MERGE" /\ ~IsReady(Assessment) => ~StillSeen(jobs[j].seen)
    BY <1>3, <1>4
  <2>2. phase = "READY_FOR_HUMAN_MERGE" /\ ~IsReady(Assessment) => step = "QUEUED" \/ ~Watches(j)
    BY <1>2, <2>1 DEF Watches
  <2>3. step \in JobSteps /\ step # "SCHEDULE"
    BY DEF JobSteps
  <2>4. UNCHANGED <<task, opening, opened, log, assessed, approvals, repairs>>
    BY <1>1, <1>4 DEF task
  <2>5. QED BY <1>2, <2>2, <2>3, <2>4, JobGoesOn
<1>5. CASE phase' # phase
  <2>1. LogShaped' /\ JobsShaped' /\ JobsAllowed'
    BY <1>1, <1>2, SetKeepsShape DEF JobSteps
  <2>2. RepairsShaped' /\ RepairsAllowed'
    BY <1>1 DEF PrInv, Shaped, Allowed, RepairsShaped, RepairsAllowed, Entries, Matched, RuleMatches,
                CommentOf
  <2>3. Shaped' /\ Allowed'
    BY <2>1, <2>2 DEF Shaped, Allowed
  <2>4. /\ phase \in {"PR_ACTIVE", "READY_FOR_HUMAN_MERGE"}
        /\ phase' \in {"PR_ACTIVE", "READY_FOR_HUMAN_MERGE"}
        /\ phase' # "PR_ACTIVE" => IsReady(Assessment)
    BY <1>3, <1>5
  <2>5. QED BY <1>1, <2>3, <2>4, TurnKeeps
<1>6. QED BY <1>4, <1>5

LEMMA AcknowledgeHandoffKeeps ==
    ASSUME PrInv, NEW h \in Heads, AcknowledgeHandoff(h)
    PROVE  PrInv'
<1>1. /\ phase = "READY_FOR_HUMAN_MERGE" /\ phase' = "HANDED_OFF" /\ IsReady(Assessment)
      /\ UNCHANGED <<retries, local, opening, opened, log, jobs, assessed, approvals, repairs>>
  BY DEF AcknowledgeHandoff, review
<1>2. Shaped' /\ Allowed'
  BY <1>1 DEF PrInv, Shaped, LogShaped, JobsShaped, RepairsShaped, Entries, Allowed, JobsAllowed,
              RepairsAllowed, Matched, RuleMatches, CommentOf
<1>3. QED BY <1>1, <1>2, TurnKeeps

-----------------------------------------------------------------------------
(* Comments and their repairs *)

\* Readiness asks nothing of a task that is not ready.
LEMMA NotReady ==
    ASSUME phase' \notin {"READY_FOR_HUMAN_MERGE", "HANDED_OFF"}
    PROVE  Settled' /\ Watched' /\ HandedOver'
BY DEF Settled, Watched, HandedOver

\* A repair is appended, with what allows it.
LEMMA AppendRepair ==
    ASSUME RepairsShaped, RepairsAllowed, OneAtATime, Committed, NEW e \in 1 .. Len(log), NEW by, NEW p,
           Matched(by, e),
           repairs' = Append(repairs, [event |-> e, by |-> by, policy |-> p, status |-> "QUEUED"]),
           UNCHANGED <<phase, retries, local, log>>
    PROVE  RepairsShaped' /\ RepairsAllowed' /\ OneAtATime' /\ Committed'
<1> DEFINE w == [event |-> e, by |-> by, policy |-> p, status |-> "QUEUED"]
<1>1. w.event = e /\ w.by = by /\ w.policy = p /\ w.status = "QUEUED"
  OBVIOUS
<1>2. w = [event |-> w.event, by |-> w.by, policy |-> w.policy, status |-> w.status]
  OBVIOUS
<1>3. repairs' = Append(repairs, w)
  OBVIOUS
<1> HIDE DEF w
<1>4. /\ repairs' \in Seq(Entries(repairs')) /\ Len(repairs') = Len(repairs) + 1
      /\ Len(repairs) \in Nat
      /\ \A i \in 1 .. Len(repairs) : repairs'[i] = repairs[i]
      /\ repairs'[Len(repairs) + 1] = w
  <2>1. repairs \in Seq(Entries(repairs))
    BY DEF RepairsShaped
  <2>2. QED BY <1>3, <2>1, AppendKeepsEntries
<1>5. RepairsShaped'
  BY <1>1, <1>2, <1>4 DEF RepairsShaped, RepairSteps
<1>6. RepairsAllowed'
  BY <1>1, <1>4 DEF RepairsAllowed, Matched, RuleMatches, CommentOf
<1>7. OneAtATime' /\ Committed'
  BY <1>1, <1>4 DEF OneAtATime, Repairing, Committed
<1>8. QED BY <1>5, <1>6, <1>7

LEMMA ScheduleRepairKeeps ==
    ASSUME PrInv, NEW j \in 1 .. Len(jobs), ScheduleRepair(j)
    PROVE  PrInv'
<1> DEFINE e == jobs[j].event
           p == jobs[j].seen.phase
           by == jobs[j].seen.facts
<1>1. /\ jobs[j].step = "SCHEDULE" /\ phase = "PR_ACTIVE" /\ Set(j, "RECONCILE", None)
      /\ UNCHANGED <<retries, local, opening, opened, log>>
      /\ \/ Dismiss(e)
         \/ RequestApproval(e, p)
         \/ by # None /\ Enqueue(e, by, p)
  BY DEF ScheduleRepair
<1>2. LogShaped' /\ JobsShaped' /\ JobsAllowed'
  BY <1>1, SetKeepsShape DEF JobSteps
<1>3. e \in 1 .. Len(log) /\ (by # None => Matched(by, e))
  <2>1. Len(log) \in Nat
    BY DEF PrInv, Shaped, LogShaped
  <2>2. e \in 0 .. Len(log)
    BY DEF PrInv, Shaped, JobsShaped
  <2>3. e # 0 /\ (by # None => Matched(by, e))
    BY <1>1 DEF PrInv, Allowed, JobsAllowed
  <2> HIDE DEF e, by
  <2>4. QED BY <2>1, <2>2, <2>3
<1>4. Published'
  BY <1>1 DEF PrInv, Published
<1> HIDE DEF e, p, by
<1>5. CASE UNCHANGED <<phase, approvals, repairs>>
  <2>1. RepairsShaped' /\ RepairsAllowed' /\ QuestionsAsked' /\ OneAtATime' /\ Exact' /\ Committed'
    BY <1>1, <1>5 DEF PrInv, Shaped, Allowed, RepairsShaped, RepairsAllowed, Entries, Matched,
                      RuleMatches, CommentOf, QuestionsAsked, OneAtATime, Repairing, Exact, Committed
  <2>2. QED BY <1>1, <1>2, <1>4, <1>5, <2>1, NotReady DEF PrInv, Shaped, Allowed
<1>6. CASE approvals' = approvals \cup {Pending(e, p)} /\ phase' = "ESCALATED" /\ repairs' = repairs
  <2>1. RepairsShaped' /\ RepairsAllowed' /\ OneAtATime' /\ Exact' /\ Committed'
    BY <1>1, <1>6 DEF PrInv, Shaped, Allowed, RepairsShaped, RepairsAllowed, Entries, Matched,
                      RuleMatches, CommentOf, OneAtATime, Repairing, Exact, Committed
  <2>2. QuestionsAsked'
    <3>1. \A a \in approvals : a.status # "PENDING"
      BY <1>1 DEF PrInv, QuestionsAsked
    <3>2. PICK b : b = Pending(e, p)
      OBVIOUS
    <3>3. b.event = e /\ b.status = "PENDING"
          /\ b = [event |-> b.event, policy |-> b.policy, status |-> b.status]
      BY <3>2 DEF Pending
    <3>4. QED BY <1>1, <1>3, <1>6, <3>1, <3>2, <3>3 DEF PrInv, QuestionsAsked
  <2>3. QED BY <1>2, <1>4, <1>6, <2>1, <2>2, NotReady DEF PrInv, Shaped, Allowed
<1>7. CASE /\ UNCHANGED <<phase, assessed, approvals>> /\ by # None
           /\ repairs' = Append(repairs, [event |-> e, by |-> by, policy |-> p, status |-> "QUEUED"])
  <2>1. RepairsShaped' /\ RepairsAllowed' /\ OneAtATime' /\ Committed'
    BY <1>1, <1>3, <1>7, AppendRepair DEF PrInv, Shaped, Allowed
  <2>2. QuestionsAsked' /\ Exact'
    BY <1>1, <1>7 DEF PrInv, QuestionsAsked, Exact
  <2>3. QED BY <1>1, <1>2, <1>4, <1>7, <2>1, <2>2, NotReady DEF PrInv, Shaped, Allowed
<1>8. QED BY <1>1, <1>5, <1>6, <1>7 DEF Dismiss, RequestApproval, Enqueue

LEMMA AnswerKeeps ==
    ASSUME PrInv, NEW a \in approvals, NEW allow \in BOOLEAN, Answer(a, allow)
    PROVE  PrInv'
<1> DEFINE b == [a EXCEPT !.status = IF allow THEN "APPROVED" ELSE "REJECTED"]
<1>1. /\ phase = "ESCALATED" /\ a.status = "PENDING" /\ phase' \in {"PR_ACTIVE", "FAILED"}
      /\ approvals' = (approvals \ {a}) \cup {b}
      /\ UNCHANGED <<retries, local, opening, opened, log, jobs, repairs>>
  BY DEF Answer
<1>2. Shaped' /\ Published' /\ OneAtATime' /\ Exact' /\ Committed'
  BY <1>1 DEF PrInv, Shaped, LogShaped, JobsShaped, RepairsShaped, Entries, Published, OneAtATime,
              Repairing,
              Exact, Committed
<1>3. Allowed'
  BY <1>1 DEF PrInv, Allowed, JobsAllowed, RepairsAllowed, Matched, RuleMatches, CommentOf
<1>4. QuestionsAsked'
  <2>1. a = [event |-> a.event, policy |-> a.policy, status |-> a.status] /\ a.event \in 1 .. Len(log)
    BY DEF PrInv, QuestionsAsked
  <2>2. \E given \in {"APPROVED", "REJECTED"} :
            b = [event |-> a.event, policy |-> a.policy, status |-> given]
    BY <2>1
  <2> HIDE DEF b
  <2>3. /\ b = [event |-> b.event, policy |-> b.policy, status |-> b.status]
        /\ b.event \in 1 .. Len(log) /\ b.status # "PENDING"
    BY <2>1, <2>2
  <2>4. \A c \in approvals : c # a => c.status # "PENDING"
    BY <1>1 DEF PrInv, QuestionsAsked
  <2>5. QED BY <1>1, <2>3, <2>4 DEF PrInv, QuestionsAsked
<1>5. Settled' /\ Watched' /\ HandedOver'
  BY <1>1, NotReady
<1>6. QED BY <1>2, <1>3, <1>4, <1>5 DEF PrInv

LEMMA ResumeApprovedKeeps ==
    ASSUME PrInv, NEW a \in approvals, ResumeApproved(a)
    PROVE  PrInv'
<1>1. /\ phase = "PR_ACTIVE"
      /\ repairs' = Append(repairs, [event |-> a.event, by |-> "ONE_OFF_APPROVAL",
                                     policy |-> version, status |-> "QUEUED"])
      /\ UNCHANGED <<phase, retries, local, opening, opened, log, jobs, assessed, approvals>>
  BY DEF ResumeApproved, InContext, task
<1>2. a.event \in 1 .. Len(log) /\ Matched("ONE_OFF_APPROVAL", a.event)
  BY DEF PrInv, QuestionsAsked, Matched
<1>3. RepairsShaped' /\ RepairsAllowed' /\ OneAtATime' /\ Committed'
  BY <1>1, <1>2, AppendRepair DEF PrInv, Shaped, Allowed
<1>4. LogShaped' /\ JobsShaped' /\ JobsAllowed' /\ Published' /\ QuestionsAsked' /\ Exact'
  BY <1>1 DEF PrInv, Shaped, LogShaped, JobsShaped, Entries, Allowed, JobsAllowed, Matched, RuleMatches,
              CommentOf, Published, QuestionsAsked, Exact
<1>5. QED BY <1>1, <1>3, <1>4, NotReady DEF PrInv, Shaped, Allowed

-----------------------------------------------------------------------------
(* The log grows *)

\* An event is recorded, and what points into the log still points to the same.
LEMMA LogGrows ==
    ASSUME PrInv, NEW w, log' = Append(log, w)
    PROVE  /\ LogShaped' /\ Len(log') = Len(log) + 1 /\ Len(log) \in Nat
           /\ \A e \in 1 .. Len(log) : log'[e] = log[e]
           /\ UNCHANGED jobs => JobsShaped' /\ JobsAllowed'
           /\ UNCHANGED repairs => RepairsShaped' /\ RepairsAllowed'
           /\ UNCHANGED <<phase, approvals>> => QuestionsAsked'
<1>1. log \in Seq(Entries(log))
  BY DEF PrInv, Shaped, LogShaped
<1>2. /\ log' \in Seq(Entries(log')) /\ Len(log') = Len(log) + 1 /\ Len(log) \in Nat
      /\ \A i \in 1 .. Len(log) : log'[i] = log[i]
  BY <1>1, AppendKeepsEntries
<1>4. ASSUME UNCHANGED jobs PROVE JobsShaped' /\ JobsAllowed'
  <2>1. JobsShaped /\ JobsAllowed
    BY DEF PrInv, Shaped, Allowed
  <2>2. JobsShaped'
    BY <1>2, <1>4, <2>1 DEF JobsShaped, Entries
  <2>3. \A j \in 1 .. Len(jobs) : jobs[j].event # 0 => jobs[j].event \in 1 .. Len(log)
    <3>1. \A j \in 1 .. Len(jobs) : jobs[j].event \in 0 .. Len(log)
      BY <2>1 DEF JobsShaped
    <3>2. QED BY <1>2, <3>1
  <2>4. JobsAllowed'
    BY <1>2, <1>4, <2>1, <2>3 DEF JobsAllowed, Matched, RuleMatches, CommentOf
  <2>5. QED BY <2>2, <2>4
<1>5. ASSUME UNCHANGED repairs PROVE RepairsShaped' /\ RepairsAllowed'
  <2>1. RepairsShaped /\ RepairsAllowed
    BY DEF PrInv, Shaped, Allowed
  <2>2. RepairsShaped'
    BY <1>2, <1>5, <2>1 DEF RepairsShaped, Entries
  <2>3. RepairsAllowed'
    BY <1>2, <1>5, <2>1 DEF RepairsShaped, RepairsAllowed, Matched, RuleMatches, CommentOf
  <2>4. QED BY <2>2, <2>3
<1>6. ASSUME UNCHANGED <<phase, approvals>> PROVE QuestionsAsked'
  BY <1>2, <1>6 DEF PrInv, QuestionsAsked
<1>7. LogShaped'
  BY <1>2 DEF LogShaped
<1>8. QED BY <1>2, <1>4, <1>5, <1>6, <1>7

\* A wake-up is appended.
LEMMA AppendJob ==
    ASSUME JobsShaped, JobsAllowed, NEW e \in 0 .. Len(log'), Len(log') >= Len(log), Len(log) \in Nat,
           Len(log') \in Nat,
           NEW step \in {"QUEUED", "RECONCILE"},
           \A i \in 1 .. Len(log) : log'[i] = log[i],
           jobs' = Append(jobs, [event |-> e, step |-> step, seen |-> None])
    PROVE  /\ JobsShaped' /\ JobsAllowed'
           /\ \E j \in 1 .. Len(jobs') : jobs'[j].step = step
<1> DEFINE w == [event |-> e, step |-> step, seen |-> None]
<1>1. w.event = e /\ w.step = step /\ w = [event |-> w.event, step |-> w.step, seen |-> w.seen]
  OBVIOUS
<1>2. jobs' = Append(jobs, w)
  OBVIOUS
<1> HIDE DEF w
<1>3. jobs \in Seq(Entries(jobs))
  BY DEF JobsShaped
<1>4. /\ jobs' \in Seq(Entries(jobs')) /\ Len(jobs') = Len(jobs) + 1 /\ Len(jobs) \in Nat
      /\ \A i \in 1 .. Len(jobs) : jobs'[i] = jobs[i]
      /\ jobs'[Len(jobs) + 1] = w
  BY <1>2, <1>3, AppendKeepsEntries
<1>5. JobsShaped'
  BY <1>1, <1>4 DEF JobsShaped, JobSteps
<1>6. \A j \in 1 .. Len(jobs) : jobs[j].event # 0 => jobs[j].event \in 1 .. Len(log)
  <2>1. \A j \in 1 .. Len(jobs) : jobs[j].event \in 0 .. Len(log)
    BY DEF JobsShaped
  <2>2. QED BY <2>1
<1>7. JobsAllowed'
  BY <1>1, <1>4, <1>6 DEF JobsAllowed, Matched, RuleMatches, CommentOf
<1>8. QED BY <1>1, <1>4, <1>5, <1>7

LEMMA ProcessKeeps ==
    ASSUME PrInv, NEW d \in 1 .. Len(sent), Process(d)
    PROVE  PrInv'
<1>1. UNCHANGED <<task, opening, opened, assessed, approvals, repairs>>
  BY DEF Process, review
<1>2. CASE UNCHANGED <<log, jobs>>
  <2>1. Unpublished'
    BY <1>1, <1>2, QuietStep DEF task
  <2>2. Published'
    BY <1>1 DEF PrInv, Published, task
  <2>3. QED BY <2>1, <2>2 DEF PrInv, Unpublished
<1>3. CASE phase \notin Ended /\ \E type \in {"UPDATE", "HEAD"} : Accept(sent[d], type)
  <2>1. PICK w : log' = Append(log, w)
    BY <1>3 DEF Accept
  <2>2. /\ LogShaped' /\ Len(log') = Len(log) + 1 /\ Len(log) \in Nat
        /\ \A e \in 1 .. Len(log) : log'[e] = log[e]
        /\ RepairsShaped' /\ RepairsAllowed' /\ QuestionsAsked'
    BY <1>1, <2>1, LogGrows DEF task
  <2>3. jobs' = Append(jobs, [event |-> Len(log) + 1, step |-> "QUEUED", seen |-> None])
    BY <1>3 DEF Accept, WakeUp
  <2>4. /\ JobsShaped' /\ JobsAllowed'
        /\ \E j \in 1 .. Len(jobs') : jobs'[j].step = "QUEUED"
    <3>1. Len(log) + 1 \in 0 .. Len(log') /\ Len(log') >= Len(log) /\ Len(log') \in Nat
      BY <2>2
    <3>2. JobsShaped /\ JobsAllowed
      BY DEF PrInv, Shaped, Allowed
    <3>3. QED BY <2>2, <2>3, <3>1, <3>2, AppendJob
  <2>5. Published' /\ OneAtATime' /\ Exact' /\ Settled' /\ Committed'
    BY <1>1 DEF PrInv, Published, OneAtATime, Repairing, Exact, Settled, Committed, task
  <2>6. Watched'
    BY <2>4 DEF Watched, Watches
  <2>7. HandedOver'
    BY <1>1, <1>3 DEF HandedOver, Ended, task
  <2>8. QED BY <2>2, <2>4, <2>5, <2>6, <2>7 DEF PrInv, Shaped, Allowed
<1>4. QED BY <1>2, <1>3 DEF Process, Refused

LEMMA BindKeeps ==
    ASSUME PrInv, Bind
    PROVE  PrInv'
<1>1. /\ opening # None /\ opening' = [opening EXCEPT !.step = "BOUND"]
      /\ UNCHANGED <<task, opened, jobs, assessed, approvals, repairs>>
      /\ log' = log \/ \E w : log' = Append(log, w)
  BY DEF Bind, review
<1>2. phase = "VALIDATING" /\ phase' = "VALIDATING" /\ opening = [head |-> local, step |-> opening.step]
  BY <1>1 DEF PrInv, Published, task
<1>3. Published'
  BY <1>1, <1>2 DEF Published, task
<1>4. Shaped' /\ Allowed' /\ QuestionsAsked'
  <2>1. CASE log' = log
    <3>1. Unpublished'
      BY <1>1, <2>1, QuietStep DEF task
    <3>2. QED BY <3>1 DEF Unpublished
  <2>2. CASE \E w : log' = Append(log, w)
    BY <1>1, <2>2, LogGrows DEF Shaped, Allowed, task
  <2>3. QED BY <1>1, <2>1, <2>2
<1>5. OneAtATime' /\ Exact' /\ Committed'
  BY <1>1 DEF PrInv, OneAtATime, Repairing, Exact, Committed, task
<1>6. QED BY <1>2, <1>3, <1>4, <1>5, NotReady DEF PrInv

LEMMA ActivateKeeps ==
    ASSUME PrInv, NEW stops \in BOOLEAN, Activate(stops)
    PROVE  PrInv'
<1>1. /\ opening # None /\ phase = "VALIDATING" /\ phase' = "PR_ACTIVE" /\ opened' = opening.head
      /\ opening' = None /\ UNCHANGED <<retries, local, log, assessed, approvals, repairs>>
      /\ jobs' = jobs \/ jobs' = Append(jobs, [WakeUp(0) EXCEPT !.step = "RECONCILE"])
  BY DEF Activate, review
<1>2. JobsShaped' /\ JobsAllowed'
  <2>1. JobsShaped /\ JobsAllowed /\ Len(log) \in Nat
    BY DEF PrInv, Shaped, LogShaped, Allowed
  <2>2. \A i \in 1 .. Len(log) : log'[i] = log[i]
    BY <1>1
  <2>3. CASE jobs' = jobs
    BY <1>1, <2>1, <2>3 DEF JobsShaped, JobsAllowed, Entries, Matched, RuleMatches, CommentOf
  <2>4. CASE jobs' = Append(jobs, [WakeUp(0) EXCEPT !.step = "RECONCILE"])
    <3>1. [WakeUp(0) EXCEPT !.step = "RECONCILE"] = [event |-> 0, step |-> "RECONCILE", seen |-> None]
      BY DEF WakeUp
    <3>2. jobs' = Append(jobs, [event |-> 0, step |-> "RECONCILE", seen |-> None])
      BY <2>4, <3>1
    <3>3. 0 \in 0 .. Len(log') /\ Len(log') >= Len(log) /\ Len(log') \in Nat
      BY <1>1, <2>1
    <3>4. QED BY <2>1, <2>2, <3>2, <3>3, AppendJob
  <2>5. QED BY <1>1, <2>3, <2>4
<1>3. LogShaped' /\ RepairsShaped' /\ RepairsAllowed' /\ QuestionsAsked' /\ OneAtATime' /\ Committed'
  BY <1>1 DEF PrInv, Shaped, Allowed, LogShaped, RepairsShaped, RepairsAllowed, Entries, Matched,
              RuleMatches, CommentOf, QuestionsAsked, OneAtATime, Repairing, Committed
<1>4. Published' /\ Exact'
  BY <1>1 DEF PrInv, Published, Exact
<1>5. QED BY <1>1, <1>2, <1>3, <1>4, NotReady DEF PrInv, Shaped, Allowed

-----------------------------------------------------------------------------
(* A repair at work *)

\* StatusOf, as the record it leaves.
LEMMA SetRepair ==
    ASSUME RepairsShaped, RepairsAllowed, NEW i \in 1 .. Len(repairs), NEW s \in RepairSteps,
           StatusOf(i, s), log' = log
    PROVE  /\ RepairsShaped' /\ RepairsAllowed' /\ Len(repairs') = Len(repairs)
           /\ repairs'[i].status = s
           /\ \A k \in 1 .. Len(repairs) : k # i => repairs'[k] = repairs[k]
<1>1. PICK w : w = [event |-> repairs[i].event, by |-> repairs[i].by,
                    policy |-> repairs[i].policy, status |-> s]
  OBVIOUS
<1>2. /\ w = [event |-> w.event, by |-> w.by, policy |-> w.policy, status |-> w.status]
      /\ w.event = repairs[i].event /\ w.by = repairs[i].by /\ w.status = s
  BY <1>1
<1>3. repairs' = [repairs EXCEPT ![i] = w]
  <2>1. PICK a, b, c, e : repairs[i] = [event |-> a, by |-> b, policy |-> c, status |-> e]
    BY DEF RepairsShaped
  <2>2. [repairs[i] EXCEPT !.status = s] = [event |-> a, by |-> b, policy |-> c, status |-> s]
    BY <2>1
  <2>3. w = [event |-> a, by |-> b, policy |-> c, status |-> s]
    BY <1>1, <2>1
  <2>4. QED BY <2>2, <2>3 DEF StatusOf
<1>4. PICK S : S = Entries(repairs) \cup {w}
  OBVIOUS
<1>5. repairs \in Seq(S) /\ w \in S
  <2>1. \A k \in 1 .. Len(repairs) : repairs[k] \in S
    BY <1>4 DEF Entries
  <2>2. QED BY <1>4, <2>1 DEF RepairsShaped
<1>6. /\ repairs' \in Seq(S) /\ Len(repairs') = Len(repairs)
      /\ \A k \in 1 .. Len(repairs) : repairs'[k] = IF k = i THEN w ELSE repairs[k]
  BY <1>3, <1>5
<1>7. RepairsShaped'
  <2>1. repairs' \in Seq(Entries(repairs'))
    BY <1>6, EntriesHold
  <2>2. QED BY <1>2, <1>6, <2>1 DEF RepairsShaped
<1>8. RepairsAllowed'
  BY <1>2, <1>6 DEF RepairsAllowed, Matched, RuleMatches, CommentOf
<1>9. QED BY <1>2, <1>6, <1>7, <1>8

LEMMA RepairStepKeeps ==
    ASSUME PrInv, NEW i \in 1 .. Len(repairs), RepairStep(i)
    PROVE  PrInv'
<1>1. /\ UNCHANGED <<opening, opened, log, jobs, assessed, approvals>>
      /\ \E s \in {"STARTED", "COMMITTED", "REVALIDATING", "FAILED"} : StatusOf(i, s)
  BY DEF RepairStep, BeginRepair, CommitRepair, Revalidate, RepairFails
<1>2. LogShaped' /\ JobsShaped' /\ JobsAllowed'
  BY <1>1 DEF PrInv, Shaped, LogShaped, JobsShaped, Entries, Allowed, JobsAllowed, Matched, RuleMatches,
              CommentOf
<1>3. RepairsShaped /\ RepairsAllowed /\ OneAtATime
  BY DEF PrInv, Shaped, Allowed
<1>4. ASSUME NEW s \in {"STARTED", "COMMITTED", "REVALIDATING", "FAILED"}, StatusOf(i, s)
      PROVE  /\ RepairsShaped' /\ RepairsAllowed' /\ Len(repairs') = Len(repairs)
             /\ repairs'[i].status = s
             /\ \A k \in 1 .. Len(repairs) : k # i => repairs'[k] = repairs[k]
  BY <1>1, <1>3, <1>4, SetRepair DEF RepairSteps
<1>5. CASE BeginRepair(i)
  <2>1. /\ phase = "PR_ACTIVE" /\ phase' = "REPAIRING" /\ retries' = retries + 1 /\ local' = local
        /\ StatusOf(i, "STARTED")
    BY <1>5 DEF BeginRepair
  <2>2. \A k \in 1 .. Len(repairs) : ~Repairing(k)
    BY <1>3, <2>1 DEF OneAtATime
  <2>3. OneAtATime' /\ Committed'
    <3>1. OneAtATime'
      BY <1>4, <2>1, <2>2 DEF OneAtATime, Repairing
    <3>2. Committed'
      BY <1>4, <2>1, <2>2 DEF PrInv, Repairing, Committed
    <3>3. QED BY <3>1, <3>2
  <2>4. Published' /\ QuestionsAsked' /\ Exact'
    BY <1>1, <2>1 DEF PrInv, Published, QuestionsAsked, Exact
  <2>5. QED BY <1>2, <1>4, <2>1, <2>3, <2>4, NotReady DEF PrInv, Shaped, Allowed
<1>6. CASE CommitRepair(i)
  <2>1. /\ repairs[i].status = "STARTED" /\ local < MaxCommits /\ local' = local + 1
        /\ StatusOf(i, "COMMITTED") /\ UNCHANGED <<phase, retries>>
    BY <1>6 DEF CommitRepair
  <2>2. phase = "REPAIRING" /\ \A k \in 1 .. Len(repairs) : Repairing(k) => k = i
    BY <1>3, <2>1 DEF OneAtATime, Repairing
  <2>3. OneAtATime' /\ Committed'
    <3>1. OneAtATime'
      BY <1>4, <2>1, <2>2 DEF OneAtATime, Repairing
    <3>2. Committed'
      BY <1>4, <2>1, <2>2, PullRequestAssumption DEF PrInv, Repairing, Committed
    <3>3. QED BY <3>1, <3>2
  <2>4. Published' /\ QuestionsAsked' /\ Exact'
    BY <1>1, <2>1, <2>2 DEF PrInv, Published, QuestionsAsked, Exact
  <2>5. QED BY <1>2, <1>4, <2>1, <2>2, <2>3, <2>4, NotReady DEF PrInv, Shaped, Allowed
<1>7. CASE Revalidate(i)
  <2>1. /\ repairs[i].status = "COMMITTED" /\ phase = "REPAIRING" /\ phase' = "VALIDATING"
        /\ StatusOf(i, "REVALIDATING") /\ UNCHANGED <<retries, local>>
    BY <1>7 DEF Revalidate
  <2>2. \A k \in 1 .. Len(repairs) : Repairing(k) => k = i
    BY <1>3, <2>1 DEF OneAtATime, Repairing
  <2>3. OneAtATime' /\ Committed'
    BY <1>4, <2>1, <2>2 DEF PrInv, OneAtATime, Repairing, Committed
  <2>4. Published' /\ QuestionsAsked' /\ Exact'
    BY <1>1, <2>1 DEF PrInv, Published, QuestionsAsked, Exact
  <2>5. QED BY <1>2, <1>4, <2>1, <2>3, <2>4, NotReady DEF PrInv, Shaped, Allowed
<1>8. CASE RepairFails(i)
  <2>1. repairs[i].status # "FAILED" /\ StatusOf(i, "FAILED") /\ UNCHANGED <<phase, retries, local>>
    BY <1>8 DEF RepairFails, task
  <2>2. phase' \notin {"READY_FOR_HUMAN_MERGE", "HANDED_OFF"}
    BY <2>1 DEF PrInv, Settled
  <2>3. OneAtATime' /\ Committed'
    BY <1>4, <2>1 DEF PrInv, OneAtATime, Repairing, Committed
  <2>4. Published' /\ QuestionsAsked' /\ Exact'
    BY <1>1, <2>1 DEF PrInv, Published, QuestionsAsked, Exact
  <2>5. QED BY <1>2, <1>4, <2>1, <2>2, <2>3, <2>4, NotReady DEF PrInv, Shaped, Allowed
<1>9. QED BY <1>5, <1>6, <1>7, <1>8 DEF RepairStep

-----------------------------------------------------------------------------
(* What follows *)

\* The values of the other variables.
Valued ==
    /\ phase \in Phases /\ verdict \in Heads \cup {None} /\ opened \in Heads \cup {None}
    /\ remote \in Heads \cup {0}
    /\ sent \in Seq(Entries(sent)) /\ delivery \in Seq(Entries(delivery))
    /\ Len(sent) = Len(delivery)

LEMMA PrInitially == PrInit => PrInv
<1> SUFFICES ASSUME PrInit PROVE PrInv
  OBVIOUS
<1>1. Shaped
  <2>1. Len(<< >>) = 0 /\ \A S : << >> \in Seq(S)
    OBVIOUS
  <2>2. QED BY <2>1 DEF PrInit, Shaped, LogShaped, JobsShaped, RepairsShaped
<1>2. Len(jobs) = 0 /\ Len(repairs) = 0
  BY DEF PrInit
<1>3. Published /\ QuestionsAsked /\ OneAtATime /\ Exact /\ Settled /\ Watched /\ HandedOver /\ Allowed
  BY <1>2 DEF PrInit, Published, QuestionsAsked, OneAtATime, Exact, Settled, Watched, HandedOver,
              Allowed, JobsAllowed,
              RepairsAllowed
<1>4. Committed
  BY <1>2, PullRequestAssumption DEF PrInit, Committed
<1>5. QED BY <1>1, <1>3, <1>4 DEF PrInv

LEMMA PrStepKeeps == PrInv /\ [PrNext]_prvars => PrInv'
<1> SUFFICES ASSUME PrInv, PrNext \/ UNCHANGED prvars PROVE PrInv'
  OBVIOUS
<1>1. CASE Service
  <2>1. ASSUME NEW j \in 1 .. Len(jobs), JobStepPr(j) PROVE PrInv'
    BY <2>1, WakeWorkflowKeeps, ReadFactsKeeps, ReconcileKeeps, AssessCommentKeeps,
       ScheduleRepairKeeps, ScheduleRefusedKeeps DEF JobStepPr
  <2>2. CASE Publication
    BY <2>2, QuietStepsKeep, BindKeeps, ActivateKeeps DEF Publication
  <2>3. QED BY <1>1, <2>1, <2>2, ProcessKeeps, RepairStepKeeps DEF Service
<1>2. CASE Outside
  <2>1. CASE \/ \E d \in 1 .. Len(sent) : Receive(d)
             \/ ActivatePolicy
             \/ \E h \in Foreign : OtherPush(h)
             \/ \E at \in {Now, Now + 1} :
                   \/ ToggleDraft(at)
                   \/ \E of \in Resources \ {"pr"} : \E s \in States(of) : Update(of, s, at)
    BY <2>1, QuietStepsKeep
  <2>2. CASE \/ \E a \in approvals : ResumeApproved(a) \/ \E allow \in BOOLEAN : Answer(a, allow)
             \/ \E h \in Heads : AcknowledgeHandoff(h)
    BY <2>2, ResumeApprovedKeeps, AnswerKeeps, AcknowledgeHandoffKeeps
  <2>3. QED BY <1>2, <2>1, <2>2 DEF Outside
<1>3. CASE UNCHANGED prvars
  BY <1>3, QuietStepsKeep
<1>4. QED BY <1>1, <1>2, <1>3 DEF PrNext

\* Publications, deliveries in any order, wake-ups, answers and repairs keep the invariant.
THEOREM PrInvariance == PrSpec => []PrInv
<1>1. QED BY PrInitially, PrStepKeeps, PTL DEF PrSpec

LEMMA ValuesStay == PrInv /\ Valued /\ [PrNext]_prvars => Valued'
<1> SUFFICES ASSUME PrInv, Valued, PrNext \/ UNCHANGED prvars PROVE Valued'
  OBVIOUS
<1>1. local \in Heads /\ (opening # None => opening.head = local)
  BY DEF PrInv, Committed, Published, Heads
<1>2. phase' \in Phases
  <2>1. phase \in Phases
    BY DEF Valued
  <2>2. CASE \/ \E stops \in BOOLEAN : Activate(stops)
             \/ \E h \in Heads : AcknowledgeHandoff(h)
             \/ \E a \in approvals : \E allow \in BOOLEAN : Answer(a, allow)
             \/ \E i \in 1 .. Len(repairs) : RepairStep(i)
    BY <2>1, <2>2 DEF Phases, Activate, AcknowledgeHandoff, Answer, RepairStep, BeginRepair,
                      CommitRepair, Revalidate, RepairFails, task
  <2>3. CASE \E j \in 1 .. Len(jobs) : JobStepPr(j)
    BY <2>1, <2>3 DEF Phases, JobStepPr, WakeWorkflow, InvalidateFirst, ReadFacts, Reconcile,
                      AssessComment, ScheduleRepair, Dismiss, RequestApproval, Enqueue,
                      ScheduleRefused, task
  <2>4. CASE \/ Decide \/ Push \/ EnsureDraft \/ CaptureProof \/ Bind \/ OpenFails \/ ActivatePolicy
             \/ \E d \in 1 .. Len(sent) : Process(d) \/ Receive(d)
             \/ \E a \in approvals : ResumeApproved(a)
             \/ \E h \in Foreign : OtherPush(h)
             \/ \E at \in {Now, Now + 1} :
                   \/ ToggleDraft(at)
                   \/ \E of \in Resources \ {"pr"} : \E s \in States(of) : Update(of, s, at)
             \/ UNCHANGED prvars
    BY <2>1, <2>4 DEF Decide, Push, EnsureDraft, CaptureProof, Bind, OpenFails, ActivatePolicy, Process,
                      Receive, ResumeApproved, OtherPush, ToggleDraft, Update, task, prvars
  <2>5. QED BY <2>2, <2>3, <2>4 DEF PrNext, Service, Publication, Outside
<1>3. /\ verdict' \in {verdict, local, None} /\ remote' \in {remote, local} \cup Foreign
      /\ opened' = opened \/ (opening # None /\ opened' = opening.head)
  <2>1. verdict' \in {verdict, local, None}
    BY DEF PrNext, Service, Outside, Publication, Decide, Push, EnsureDraft,
           CaptureProof, Bind, Activate, OpenFails, Process, JobStepPr, WakeWorkflow, InvalidateFirst,
           ReadFacts, Reconcile, AssessComment, ScheduleRepair, ScheduleRefused, Receive,
           ResumeApproved, Answer, AcknowledgeHandoff, ActivatePolicy, OtherPush, ToggleDraft, Update,
           RepairStep, BeginRepair, CommitRepair, Revalidate, RepairFails, task, github, prvars
  <2>2. remote' = remote \/ remote' = local \/ remote' \in Foreign
    <3>1. CASE Push \/ \E h \in Foreign : OtherPush(h)
      BY <3>1 DEF Push, OtherPush
    <3>2. CASE \/ EnsureDraft
               \/ \E d \in 1 .. Len(sent) : Receive(d)
               \/ \E at \in {Now, Now + 1} :
                     \/ ToggleDraft(at)
                     \/ \E of \in Resources \ {"pr"} : \E s \in States(of) : Update(of, s, at)
      BY <3>2 DEF EnsureDraft, Receive, ToggleDraft, Update
    <3>3. CASE \/ Decide \/ CaptureProof \/ Bind \/ OpenFails \/ ActivatePolicy
               \/ \E stops \in BOOLEAN : Activate(stops)
               \/ \E d \in 1 .. Len(sent) : Process(d)
               \/ \E j \in 1 .. Len(jobs) : JobStepPr(j)
               \/ \E i \in 1 .. Len(repairs) : RepairStep(i)
               \/ \E a \in approvals : ResumeApproved(a) \/ \E allow \in BOOLEAN : Answer(a, allow)
               \/ \E h \in Heads : AcknowledgeHandoff(h)
               \/ UNCHANGED prvars
      BY <3>3 DEF Decide, CaptureProof, Bind, OpenFails, ActivatePolicy, Activate, Process, JobStepPr,
         WakeWorkflow, InvalidateFirst, ReadFacts, Reconcile, AssessComment, ScheduleRepair,
         ScheduleRefused, RepairStep, BeginRepair, CommitRepair, Revalidate, RepairFails,
         ResumeApproved, Answer, AcknowledgeHandoff, github, prvars
    <3>4. QED BY <3>1, <3>2, <3>3 DEF PrNext, Service, Publication, Outside
  <2>3. opened' = opened \/ (opening # None /\ opened' = opening.head)
    <3>1. CASE \E stops \in BOOLEAN : Activate(stops)
      BY <3>1 DEF Activate
    <3>2. CASE \/ Decide \/ Push \/ EnsureDraft \/ CaptureProof \/ Bind \/ OpenFails \/ ActivatePolicy
               \/ \E d \in 1 .. Len(sent) : Process(d) \/ Receive(d)
               \/ \E j \in 1 .. Len(jobs) : JobStepPr(j)
               \/ \E i \in 1 .. Len(repairs) : RepairStep(i)
      <4>1. opened' = opened
        BY <3>2 DEF Decide, Push, EnsureDraft, CaptureProof, Bind, OpenFails, ActivatePolicy, Process,
           Receive, JobStepPr, WakeWorkflow, InvalidateFirst, ReadFacts, Reconcile, AssessComment,
           ScheduleRepair, ScheduleRefused, RepairStep, BeginRepair, CommitRepair, Revalidate,
           RepairFails
      <4>2. QED BY <4>1
    <3>3. CASE \/ \E a \in approvals : ResumeApproved(a) \/ \E allow \in BOOLEAN : Answer(a, allow)
               \/ \E h \in Heads : AcknowledgeHandoff(h)
               \/ \E h \in Foreign : OtherPush(h)
               \/ \E at \in {Now, Now + 1} :
                     \/ ToggleDraft(at)
                     \/ \E of \in Resources \ {"pr"} : \E s \in States(of) : Update(of, s, at)
               \/ UNCHANGED prvars
      <4>1. opened' = opened
        BY <3>3 DEF ResumeApproved, Answer, AcknowledgeHandoff, OtherPush, ToggleDraft, Update, prvars
      <4>2. QED BY <4>1
    <3>4. QED BY <3>1, <3>2, <3>3 DEF PrNext, Service, Publication, Outside
  <2>4. QED BY <2>1, <2>2, <2>3
<1>4. /\ sent' \in Seq(Entries(sent')) /\ delivery' \in Seq(Entries(delivery'))
      /\ Len(sent') = Len(delivery')
  <2>1. sent \in Seq(Entries(sent)) /\ delivery \in Seq(Entries(delivery)) /\ Len(sent) = Len(delivery)
    BY DEF Valued
  <2>2. CASE UNCHANGED <<sent, delivery>>
    BY <2>1, <2>2 DEF Entries
  <2>3. CASE \E d : Deliver(d)
    <3>1. PICK d : sent' = Append(sent, d) /\ delivery' = Append(delivery, "SENT")
      BY <2>3 DEF Deliver
    <3>2. QED BY <2>1, <3>1, AppendKeepsEntries
  <2>4. CASE \E d \in 1 .. Len(sent) : \E w, x :
               /\ sent' = sent \/ sent' = [sent EXCEPT ![d] = w]
               /\ delivery' = [delivery EXCEPT ![d] = x]
    <3>0. PICK d \in 1 .. Len(sent) : \E w, x :
              /\ sent' = sent \/ sent' = [sent EXCEPT ![d] = w]
              /\ delivery' = [delivery EXCEPT ![d] = x]
      BY <2>4
    <3>1. PICK w, x : /\ sent' = sent \/ sent' = [sent EXCEPT ![d] = w]
                      /\ delivery' = [delivery EXCEPT ![d] = x]
      BY <3>0
    <3>2. sent' \in Seq(Entries(sent')) /\ Len(sent') = Len(sent)
      <4>1. CASE sent' = sent
        BY <2>1, <4>1 DEF Entries
      <4>2. CASE sent' = [sent EXCEPT ![d] = w]
        BY <2>1, <4>2, ExceptKeepsEntries
      <4>3. QED BY <3>1, <4>1, <4>2
    <3>3. delivery' \in Seq(Entries(delivery')) /\ Len(delivery') = Len(delivery)
      BY <2>1, <3>1, ExceptKeepsEntries
    <3>4. QED BY <2>1, <3>2, <3>3
  <2>5. CASE sent' = sent /\ \E f : delivery' = [d \in 1 .. Len(sent) |-> f[d]]
    <3>1. PICK f : delivery' = [d \in 1 .. Len(sent) |-> f[d]]
      BY <2>5
    <3>2. PICK S : S = {f[d] : d \in 1 .. Len(sent)}
      OBVIOUS
    <3>3. delivery' \in Seq(S) /\ Len(delivery') = Len(sent) /\ sent' = sent
      <4>1. Len(sent) \in Nat
        BY <2>1
      <4>2. delivery' \in [1 .. Len(sent) -> S]
        BY <3>1, <3>2
      <4>3. Len(delivery') = Len(sent) /\ delivery' \in Seq(S)
        BY <4>1, <4>2
      <4>4. QED BY <2>5, <4>3
    <3>4. delivery' \in Seq(Entries(delivery'))
      BY <3>3, EntriesHold
    <3>5. QED BY <2>1, <3>3, <3>4 DEF Entries
  <2>6. CASE Push \/ EnsureDraft \/ \E h \in Foreign : OtherPush(h)
    BY <2>2, <2>3, <2>6 DEF Push, EnsureDraft, OtherPush, Synchronize
  <2>7. CASE \E at \in {Now, Now + 1} :
               \/ ToggleDraft(at)
               \/ \E of \in Resources \ {"pr"} : \E s \in States(of) : Update(of, s, at)
    BY <2>3, <2>7 DEF ToggleDraft, Update
  <2>8. CASE Bind
    <3>1. PICK f : f = [d \in 1 .. Len(sent) |->
                          IF d \in Reopened(opening.head) THEN "REOPENED" ELSE delivery[d]]
      OBVIOUS
    <3>2. delivery' = f /\ f = [d \in 1 .. Len(sent) |-> f[d]] /\ sent' = sent
      BY <2>8, <3>1 DEF Bind, github
    <3>3. QED BY <2>5, <3>2
  <2>9. CASE \E d \in 1 .. Len(sent) : Receive(d) \/ Process(d)
    <3>1. PICK d \in 1 .. Len(sent) : Receive(d) \/ Process(d)
      BY <2>9
    <3>2. sent' = sent \/ \E w : sent' = [sent EXCEPT ![d] = w]
      BY <3>1 DEF Receive, Process, github
    <3>3. \E x : delivery' = [delivery EXCEPT ![d] = x]
      BY <3>1 DEF Receive, Process, Finish
    <3>4. QED BY <2>4, <3>2, <3>3
  <2>10. CASE \/ Decide \/ CaptureProof \/ OpenFails \/ ActivatePolicy
              \/ \E stops \in BOOLEAN : Activate(stops)
              \/ \E j \in 1 .. Len(jobs) : JobStepPr(j)
              \/ \E i \in 1 .. Len(repairs) : RepairStep(i)
              \/ \E a \in approvals : ResumeApproved(a) \/ \E allow \in BOOLEAN : Answer(a, allow)
              \/ \E h \in Heads : AcknowledgeHandoff(h)
              \/ UNCHANGED prvars
    <3>1. UNCHANGED <<sent, delivery>>
      BY <2>10 DEF Decide, CaptureProof, OpenFails, ActivatePolicy, Activate, JobStepPr, WakeWorkflow,
         InvalidateFirst, ReadFacts, Reconcile, AssessComment, ScheduleRepair, ScheduleRefused,
         RepairStep, BeginRepair, CommitRepair, Revalidate, RepairFails, ResumeApproved, Answer,
         AcknowledgeHandoff, github, prvars
    <3>2. QED BY <2>2, <3>1
  <2>11. QED
    BY <2>6, <2>7, <2>8, <2>9, <2>10 DEF PrNext, Service, Publication, Outside
<1>5. QED BY <1>1, <1>2, <1>3, <1>4 DEF Valued, Heads

\* The rows have the values their columns can hold, and what points into the log of the
\* task's GitHub events points to an event; each repair begun makes a commit.
THEOREM PrTypeCorrect == PrSpec => []PrTypeOK
<1>1. PrInit => Valued
  <2>1. Len(<< >>) = 0 /\ \A S : << >> \in Seq(S)
    OBVIOUS
  <2>2. QED BY <2>1, PullRequestAssumption DEF PrInit, Valued, Phases, Heads
<1>2. PrInv /\ Valued => PrTypeOK
  <2> SUFFICES ASSUME PrInv, Valued PROVE PrTypeOK
    OBVIOUS
  <2>1. local \in Heads /\ retries \in 0 .. MaxCommits
    BY PullRequestAssumption DEF PrInv, Committed, Heads
  <2>2. \A j \in 1 .. Len(jobs) : jobs[j].event \in 0 .. Len(log)
    BY DEF PrInv, Shaped, JobsShaped
  <2>3. \A i \in 1 .. Len(repairs) : repairs[i].event \in 1 .. Len(log)
    BY DEF PrInv, Shaped, RepairsShaped
  <2>4. QED BY <2>1, <2>2, <2>3 DEF Valued, PrTypeOK
<1>3. QED BY <1>1, <1>2, ValuesStay, PrInvariance, PTL DEF PrSpec

\* A task that is called ready and is not has a wake-up that will read its facts, or that
\* has read them as they are and takes the call back (ReadinessService.reconcile).
THEOREM NobodyForgetsReadiness == PrSpec => []StaleReadinessIsWoken
<1>1. PrInv => StaleReadinessIsWoken
  BY DEF PrInv, Watched, Watches, StaleReadinessIsWoken
<1>2. QED BY <1>1, PrInvariance, PTL

\* What was handed off is ready, for the head that was published, and stays it: an ended
\* task takes no more events, and a ready one has no repair left to start.
THEOREM HandoffStaysExact == PrSpec => []HandoffIsExact
<1>1. PrInv => HandoffIsExact
  BY DEF PrInv, HandedOver, Exact, HandoffIsExact
<1>2. QED BY <1>1, PrInvariance, PTL

\* A repair starts under a rule of the policy of that moment that is made for its comment,
\* or an approval given under it, on the head there is (_ReviewRepairGates).
THEOREM RepairsStayAuthorized == PrSpec => RepairsAreAuthorized
<1> DEFINE Authorized(i) ==
               /\ log[repairs[i].event].head = EffectiveHead
               /\ \/ \E rule \in Rules[version] : RuleMatches(rule, CommentOf(repairs[i].event))
                  \/ OneOff(repairs[i].event, version)
<1>1. ASSUME PrInv, PrNext \/ UNCHANGED prvars, NEW i \in 1 .. Len(repairs),
             repairs[i].status = "QUEUED", repairs'[i].status = "STARTED"
      PROVE  Authorized(i)
  <2>1. BeginRepair(i)
    <3>1. /\ repairs \in Seq(Entries(repairs)) /\ RepairsShaped /\ RepairsAllowed
      BY <1>1 DEF PrInv, Shaped, RepairsShaped, Allowed
    <3>2. repairs' # repairs
      BY <1>1
    <3>3. \A w : repairs' # Append(repairs, w)
      BY <1>1, <3>1, AppendKeepsEntries
    <3>4. \A k \in 1 .. Len(repairs) : \A s \in RepairSteps :
              StatusOf(k, s) /\ log' = log => k = i /\ s = "STARTED"
      BY <1>1, <3>1, SetRepair
    <3>5. PICK k \in 1 .. Len(repairs) : RepairStep(k)
      BY <1>1, <3>2, <3>3 DEF PrNext, Service, Outside, Publication, Decide, Push, EnsureDraft,
         CaptureProof, Bind, Activate, OpenFails, Process, JobStepPr, WakeWorkflow, InvalidateFirst,
         ReadFacts, Reconcile, AssessComment, ScheduleRepair, Dismiss, RequestApproval, Enqueue,
         ScheduleRefused, Receive, ResumeApproved, Answer, AcknowledgeHandoff, ActivatePolicy,
         OtherPush, ToggleDraft, Update, review, prvars
    <3>6. QED
      BY <3>4, <3>5 DEF RepairStep, BeginRepair, CommitRepair, Revalidate, RepairFails, RepairSteps
  <2>2. MayRepair(repairs[i])
    BY <2>1 DEF BeginRepair
  <2>3. Matched(repairs[i].by, repairs[i].event)
    BY <1>1 DEF PrInv, Allowed, RepairsAllowed
  <2>4. QED BY <2>2, <2>3 DEF MayRepair, CurrentPrHead, Matched
<1>2. PrInv /\ [PrNext]_prvars =>
          [\A i \in 1 .. Len(repairs) :
              repairs[i].status = "QUEUED" /\ repairs'[i].status = "STARTED" => Authorized(i)]_prvars
  BY <1>1
<1>3. QED BY <1>2, PrInvariance, PTL DEF PrSpec, RepairsAreAuthorized
-----------------------------------------------------------------------------
(* The promise of a task that has a pull request *)

\* How a step moves the task.
PhaseMoves ==
    \/ <<phase, phase'>> \in {<<"VALIDATING", "PR_ACTIVE">>, <<"PR_ACTIVE", "REPAIRING">>,
                              <<"REPAIRING", "VALIDATING">>,
                              <<"PR_ACTIVE", "READY_FOR_HUMAN_MERGE">>,
                              <<"READY_FOR_HUMAN_MERGE", "PR_ACTIVE">>,
                              <<"READY_FOR_HUMAN_MERGE", "HANDED_OFF">>}
    \/ phase = "PR_ACTIVE" /\ phase' = "ESCALATED"
    \/ phase = "ESCALATED" /\ phase' \in {"PR_ACTIVE", "FAILED"}

LEMMA PrStepsMove == ASSUME [PrNext]_prvars PROVE PhaseMoves \/ phase' = phase
<1>1. CASE \/ \E stops \in BOOLEAN : Activate(stops)
           \/ \E h \in Heads : AcknowledgeHandoff(h)
           \/ \E a \in approvals : \E allow \in BOOLEAN : Answer(a, allow)
           \/ \E i \in 1 .. Len(repairs) : RepairStep(i)
  BY <1>1 DEF PhaseMoves, Activate, AcknowledgeHandoff, Answer, RepairStep, BeginRepair,
              CommitRepair, Revalidate, RepairFails, task
<1>2. CASE \E j \in 1 .. Len(jobs) : JobStepPr(j)
  BY <1>2 DEF PhaseMoves, JobStepPr, WakeWorkflow, InvalidateFirst, ReadFacts, Reconcile,
              AssessComment, ScheduleRepair, Dismiss, RequestApproval, Enqueue,
              ScheduleRefused, task
<1>3. CASE \/ Decide \/ Push \/ EnsureDraft \/ CaptureProof \/ Bind \/ OpenFails \/ ActivatePolicy
           \/ \E d \in 1 .. Len(sent) : Process(d) \/ Receive(d)
           \/ \E a \in approvals : ResumeApproved(a)
           \/ \E h \in Foreign : OtherPush(h)
           \/ \E at \in {Now, Now + 1} :
                 \/ ToggleDraft(at)
                 \/ \E of \in Resources \ {"pr"} : \E s \in States(of) : Update(of, s, at)
           \/ UNCHANGED prvars
  BY <1>3 DEF Decide, Push, EnsureDraft, CaptureProof, Bind, OpenFails, ActivatePolicy, Process,
              Receive, ResumeApproved, OtherPush, ToggleDraft, Update, task, prvars
<1>4. QED BY <1>1, <1>2, <1>3 DEF PrNext, Service, Publication, Outside

\* A task with a pull request keeps to the edges of the life cycle, whatever publications,
\* wake-ups, repairs and answers read before they move it (readiness.py,
\* draft_pull_requests.py, review_resolution.py).
THEOREM PullRequestsKeepPromise == PrSpec => PullRequestKeepsPromise
<1> DEFINE S == [t \in {"task"} |-> phase]
           R == [t \in {"task"} |-> IF phase = "ESCALATED" THEN "PR_ACTIVE" ELSE "NULL"]
<1>1. PrInit => Reviewed!Init
  BY DEF PrInit, Reviewed!Init
<1>2. [PrNext]_prvars => [Reviewed!Next]_(Reviewed!promise)
  <2> SUFFICES ASSUME [PrNext]_prvars PROVE Reviewed!Next \/ UNCHANGED <<S, R>>
    BY DEF Reviewed!promise
  <2>1. S["task"] = phase /\ R["task"] = IF phase = "ESCALATED" THEN "PR_ACTIVE" ELSE "NULL"
    OBVIOUS
  <2>2. ASSUME NEW s, NEW r, phase' = s, r = IF s = "ESCALATED" THEN "PR_ACTIVE" ELSE "NULL"
        PROVE  Reviewed!Becomes("task", s, r)
    BY <2>2 DEF Reviewed!Becomes
  <2>3. CASE phase' = phase
    BY <2>3
  <2>4. CASE <<phase, phase'>> \in
                {<<"VALIDATING", "PR_ACTIVE">>, <<"PR_ACTIVE", "REPAIRING">>,
                 <<"REPAIRING", "VALIDATING">>, <<"PR_ACTIVE", "READY_FOR_HUMAN_MERGE">>,
                 <<"READY_FOR_HUMAN_MERGE", "PR_ACTIVE">>, <<"READY_FOR_HUMAN_MERGE", "HANDED_OFF">>}
    <3>1. /\ Reviewed!Becomes("task", phase', "NULL")
          /\ phase' \in Reviewed!Underway \cup {"HANDED_OFF"}
      BY <2>2, <2>4 DEF Reviewed!Underway
    <3>2. Reviewed!Proceed("task", phase')
      BY <2>1, <2>4, <3>1 DEF Reviewed!Proceed, Reviewed!Steps
    <3>3. QED BY <3>1, <3>2 DEF Reviewed!Next
  <2>5. CASE phase = "PR_ACTIVE" /\ phase' = "ESCALATED"
    <3>1. Reviewed!Escalate("task")
      BY <2>1, <2>2, <2>5 DEF Reviewed!Escalate, Reviewed!Underway
    <3>2. QED BY <3>1 DEF Reviewed!Next
  <2>6. CASE phase = "ESCALATED" /\ phase' = "PR_ACTIVE"
    <3>1. Reviewed!Resume("task")
      BY <2>1, <2>2, <2>6 DEF Reviewed!Resume
    <3>2. QED BY <3>1 DEF Reviewed!Next
  <2>7. CASE phase = "ESCALATED" /\ phase' = "FAILED"
    <3>1. Reviewed!Stop("task", "FAILED")
      BY <2>1, <2>2, <2>7 DEF Reviewed!Stop
    <3>2. QED BY <3>1 DEF Reviewed!Next
  <2>8. QED BY <2>3, <2>4, <2>5, <2>6, <2>7, PrStepsMove DEF PhaseMoves
<1>3. QED BY <1>1, <1>2, PTL DEF PrSpec, PullRequestKeepsPromise, Reviewed!Spec

=============================================================================
