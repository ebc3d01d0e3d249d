---------------------------- MODULE ApprovalsProofs ----------------------------
(* Proofs about the questions to the owner, and the outages that raise some: for  *)
(* any tasks, requests, briefs, candidates and jobs.                              *)
(*                                                                                *)
(* The invariant says that a task waits on one request, which says how the wait   *)
(* ends; that the state a decided question returns to may be worked in; and what  *)
(* the book of rules is: versions count the rules of a lineage, and the last two  *)
(* policies hold the newest rule of each, or what the policy before it held.      *)
EXTENDS Outages, FiniteSetTheorems, WellFoundedInduction, TLAPS

Briefs == [version : 0 .. MaxBriefs, human : BOOLEAN, policy : Nat,
           response : Answers \cup {None}]
Reads  == [state : TaskStates, pending : SUBSET Requests]
Rules  == [candidate : Candidates, request : Requests, version : Nat, activated : Nat,
           predecessor : Nat]

TypeInv ==
    /\ state \in [Tasks -> TaskStates]
    /\ resume \in [Tasks -> WorkStates \cup {None}]
    /\ versions \in [Tasks -> 0 .. MaxBriefs]
    /\ brief \in [Tasks -> Briefs]
    /\ \A t \in Tasks : brief[t].version <= versions[t] /\ brief[t].policy <= Len(policy)
    /\ request \in [Requests -> Rows \cup {None}]
    /\ DOMAIN event = Ids
    /\ status \in [Candidates -> {"EVALUATED", "APPROVED", "REJECTED"}]
    /\ intact \subseteq Candidates \cup Requests
    /\ rules \in Seq(Rules)
    /\ policy \in Seq(Seq(1 .. Len(rules)))
    /\ due \subseteq Existing
    /\ listed \subseteq Existing
    /\ cancelling \in [Tasks -> Reads \cup {None}]

\* What a request asks about, and where an escalation resumes.
Formed ==
    \A r \in Existing :
        /\ request[r].type = "BRIEF" =>
              request[r].subject \in 1 .. MaxBriefs /\ request[r].resume = None
        /\ request[r].type = "REVIEW_RULE" => request[r].subject \in Candidates
        /\ request[r].type # "BRIEF" => request[r].resume \in WorkStates

\* r is what t waits on.
Asks(t, r) ==
    /\ state[t] = WaitsIn(request[r].type)
    /\ resume[t] = request[r].resume
    /\ request[r].type = "BRIEF" => ExactBrief(t, request[r].subject)

Waits(t) ==
    /\ \A r \in PendingOf(t) : Asks(t, r)
    /\ \A r, s \in PendingOf(t) : r = s
    /\ state[t] \in WaitingStates => PendingOf(t) # {}
    /\ state[t] \notin WaitingStates => resume[t] = None

\* r is the answer the work on the brief of t rests on.
Approves(t, r) ==
    /\ request[r].task = t /\ request[r].type = "BRIEF"
    /\ request[r].subject = brief[t].version /\ request[r].status = "APPROVED"

\* The work on t, or the work it will return to, rests on its brief.
Rests(t) ==
    {state[t], resume[t]} \cap {"IMPLEMENTING", "VALIDATING"} # {} =>
        /\ brief[t].version # 0
        /\ brief[t].human => \E r \in Existing : Approves(t, r)

\* A cancellation that found no question found a task that did not wait.
Found ==
    \A t \in Tasks : cancelling[t] # None =>
        /\ cancelling[t].pending \subseteq Existing
        /\ cancelling[t].pending = {} => cancelling[t].state \notin WaitingStates

\* The rules of the lineage of n up to n.
Upto(n) == {m \in 1 .. n : LineageOf[rules[m].candidate] = LineageOf[rules[n].candidate]}

Learned ==
    \A n \in 1 .. Len(rules) :
        /\ status[rules[n].candidate] = "APPROVED"
        /\ rules[n].request \in Existing
        /\ request[rules[n].request].status = "APPROVED"
        /\ rules[n].predecessor < n
        /\ rules[n].version = 1 + (IF rules[n].predecessor = 0 THEN 0
                                   ELSE rules[rules[n].predecessor].version)
        /\ rules[n].version = Cardinality(Upto(n))
        /\ \A m \in 1 .. Len(rules) : rules[m].candidate = rules[n].candidate => m = n

Lineage(n) == LineageOf[rules[n].candidate]
Newest(n) == \A m \in 1 .. Len(rules) : Lineage(m) = Lineage(n) => m <= n
Members(p) == {p[i] : i \in 1 .. Len(p)}

\* What policy p holds of the lineage of n, and what that may be: n, or, if the very next
\* activation took n back, what was there before n.
InForce(n, p) == {m \in Members(policy[p]) : Lineage(m) = Lineage(n)}

Took(n, p) ==
    LET a == rules[n].activated
    IN  \/ InForce(n, p) = {n}
        \/ a < p /\ n \notin Members(policy[a + 1]) /\ InForce(n, p) = InForce(n, a - 1)

\* The policies a step may go by, the active one and the one before it.
Last == {Len(policy) - 1, Len(policy)}

Standing(n) ==
    /\ rules[n].activated \in 2 .. Len(policy)
    /\ n \notin Members(policy[rules[n].activated - 1])
    /\ \A p \in Last : p >= rules[n].activated => Took(n, p)

Held ==
    /\ Len(policy) > 0
    /\ \A p \in 1 .. Len(policy) : \A n, m \in Members(policy[p]) :
          Lineage(n) = Lineage(m) => n = m
    /\ \A n \in 1 .. Len(rules) : Newest(n) => Standing(n)

IInv ==
    /\ TypeInv /\ Formed /\ Found /\ Learned /\ Held
    /\ \A t \in Tasks : Waits(t) /\ Rests(t)

-----------------------------------------------------------------------------
(* Sets of numbers *)

\* The greatest of a bounded set of numbers, which CHOOSE finds.
LEMMA LargestOf ==
    ASSUME NEW n \in Nat, NEW S \in SUBSET (1 .. n), S # {}
    PROVE  \E q \in S : \A p \in S : p <= q
<1> DEFINE R == OpToRel(<, Nat)
           gap == {n - q : q \in S}
<1>1. gap # {} /\ gap \subseteq Nat
  <2>1. ASSUME NEW h \in gap PROVE h \in Nat
    <3>1. PICK q \in S : h = n - q
      OBVIOUS
    <3>2. QED BY <3>1
  <2>2. PICK q \in S : TRUE
    OBVIOUS
  <2>3. n - q \in gap
    OBVIOUS
  <2>4. QED BY <2>1, <2>3
<1>2. PICK g \in gap : \A h \in gap : <<h, g>> \notin R
  <2>1. IsWellFoundedOn(R, Nat)
    BY NatLessThanWellFounded
  <2> HIDE DEF R, gap
  <2>2. QED BY <1>1, <2>1, WFMin
<1>3. \A h \in gap : ~(h < g)
  BY <1>1, <1>2 DEF OpToRel
<1>4. PICK q \in S : g = n - q
  OBVIOUS
<1>5. \A p \in S : ~(n - p < n - q)
  BY <1>3, <1>4
<1>6. QED BY <1>5

\* A set of numbers has, for each number up to its size, one member of that rank.
LEMMA Ranked ==
    ASSUME NEW n \in Nat, NEW S \in SUBSET (1 .. n)
    PROVE  /\ Cardinality(S) \in Nat
           /\ \A i \in S : Cardinality({j \in S : j <= i}) \in 1 .. Cardinality(S)
           /\ \A i, k \in S : Cardinality({j \in S : j <= i}) = Cardinality({j \in S : j <= k})
                                  => i = k
           /\ \A m \in 1 .. Cardinality(S) : \E i \in S : Cardinality({j \in S : j <= i}) = m
<1> DEFINE below(i) == {j \in S : j <= i}
           rank == [i \in S |-> Cardinality(below(i))]
           T == 1 .. Cardinality(S)
<1>1. IsFiniteSet(S) /\ Cardinality(S) \in Nat
  <2>1. IsFiniteSet(1 .. n)
    BY FS_Interval
  <2>2. QED BY <2>1, FS_Subset, FS_CardinalityType
<1>2. ASSUME NEW i \in S
      PROVE  /\ IsFiniteSet(below(i)) /\ i \in below(i)
             /\ Cardinality(below(i)) \in T
  <2>1. below(i) \in SUBSET S /\ i \in below(i)
    OBVIOUS
  <2> HIDE DEF below
  <2>2. IsFiniteSet(below(i)) /\ Cardinality(below(i)) <= Cardinality(S)
    BY <1>1, <2>1, FS_Subset
  <2>3. Cardinality(below(i)) \in Nat /\ Cardinality(below(i)) # 0
    BY <2>1, <2>2, FS_CardinalityType, FS_EmptySet
  <2>4. QED BY <1>1, <2>1, <2>2, <2>3
<1>3. ASSUME NEW i \in S, NEW k \in S, i < k
      PROVE  Cardinality(below(i)) # Cardinality(below(k))
  <2>1. below(i) \in SUBSET below(k) /\ k \in below(k) /\ k \notin below(i)
    <3>1. i \in Nat /\ k \in Nat /\ \A j \in S : j \in Nat
      OBVIOUS
    <3>2. k \notin below(i) /\ k \in below(k)
      BY <1>3, <3>1
    <3>3. ASSUME NEW j \in below(i) PROVE j \in below(k)
      BY <1>3, <3>1
    <3>4. QED BY <3>2, <3>3
  <2>2. IsFiniteSet(below(k))
    BY <1>2
  <2> HIDE DEF below
  <2>3. QED BY <2>1, <2>2, FS_Subset
<1>4. \A i, k \in S : Cardinality(below(i)) = Cardinality(below(k)) => i = k
  <2> SUFFICES ASSUME NEW i \in S, NEW k \in S, i # k
               PROVE  Cardinality(below(i)) # Cardinality(below(k))
    OBVIOUS
  <2>1. i < k \/ k < i
    OBVIOUS
  <2> HIDE DEF below
  <2>2. QED BY <1>3, <2>1
<1>5. rank \in Injection(S, T)
  <2> HIDE DEF below, T
  <2>1. rank \in [S -> T] /\ \A i \in S : rank[i] = Cardinality(below(i))
    BY <1>2
  <2> HIDE DEF rank
  <2>2. QED BY <1>4, <2>1 DEF Injection, IsInjective
<1>6. IsFiniteSet(T) /\ Cardinality(T) = Cardinality(S)
  BY <1>1, FS_Interval
<1>7. rank \in Surjection(S, T)
  <2> HIDE DEF rank, T
  <2>1. QED BY <1>5, <1>6, FS_Injection
<1>8. \A m \in T : \E i \in S : Cardinality(below(i)) = m
  <2> HIDE DEF below, T
  <2>1. \A m \in T : \E i \in S : rank[i] = m
    <3> HIDE DEF rank
    <3>1. QED BY <1>7 DEF Surjection
  <2>2. QED BY <2>1
<1>9. QED BY <1>1, <1>2, <1>4, <1>8

\* The least of a set of numbers, which CHOOSE finds.
LEMMA Least ==
    ASSUME NEW S \in SUBSET Nat, S # {}
    PROVE  \E m \in S : \A k \in S : m <= k
<1> DEFINE R == OpToRel(<, Nat)
<1>1. PICK m \in S : \A k \in S : <<k, m>> \notin R
  <2>1. IsWellFoundedOn(R, Nat)
    BY NatLessThanWellFounded
  <2> HIDE DEF R
  <2>2. QED BY <2>1, WFMin
<1>2. \A k \in S : ~(k < m)
  BY <1>1 DEF OpToRel
<1>3. QED BY <1>2

-----------------------------------------------------------------------------
(* The policy that takes a rule in *)

\* A new rule takes the place of its lineage, the other rules stay (_promote_review_rule).
LEMMA MembershipChanges ==
    ASSUME TypeInv, Held, NEW c \in Candidates
    PROVE  /\ NewMembership(c, Len(rules) + 1) \in Seq(1 .. Len(rules) + 1)
           /\ Members(NewMembership(c, Len(rules) + 1)) =
                 {Len(rules) + 1} \cup {n \in Members(ActivePolicy) : Lineage(n) # LineageOf[c]}
<1> DEFINE rule == Len(rules) + 1
           old == ActivePolicy
           same == {i \in 1 .. Len(old) : LineageOf[rules[old[i]].candidate] = LineageOf[c]}
           kept == {i \in 1 .. Len(old) : i \notin same \/ \A j \in same : i <= j}
           at(n) == CHOOSE i \in kept : Cardinality({j \in kept : j <= i}) = n
           rest == {n \in Members(old) : Lineage(n) # LineageOf[c]}
           new == NewMembership(c, rule)
<1>1. /\ Len(rules) \in Nat /\ old \in Seq(1 .. Len(rules)) /\ Len(old) \in Nat
      /\ \A i \in 1 .. Len(old) : old[i] \in 1 .. Len(rules)
  <2>1. Len(rules) \in Nat /\ Len(policy) \in Nat /\ Len(policy) \in 1 .. Len(policy)
    BY DEF TypeInv, Held
  <2>2. old \in Seq(1 .. Len(rules))
    BY <2>1 DEF TypeInv, ActivePolicy
  <2> HIDE DEF old
  <2>3. QED BY <2>1, <2>2
<1>2. rule \in 1 .. rule /\ \A n \in 1 .. Len(rules) : n \in 1 .. rule
  BY <1>1
<1>3. new = IF same = {} THEN Append(old, rule)
            ELSE [n \in 1 .. Cardinality(kept) |-> IF at(n) \in same THEN rule ELSE old[at(n)]]
  BY DEF NewMembership
<1>4. rest = {old[i] : i \in (1 .. Len(old)) \ same}
  <2> HIDE DEF old
  <2>1. QED BY DEF Members, Lineage
<1>5. CASE same = {}
  <2>1. new = Append(old, rule)
    BY <1>3, <1>5
  <2> HIDE DEF old, same, rest, new, rule
  <2>2. old \in Seq(1 .. rule)
    BY <1>1, <1>2
  <2>3. /\ new \in Seq(1 .. rule) /\ Len(new) = Len(old) + 1
        /\ \A i \in 1 .. Len(new) : new[i] = IF i = Len(old) + 1 THEN rule ELSE old[i]
    BY <1>1, <1>2, <2>1, <2>2
  <2>4. Members(new) = {rule} \cup {old[i] : i \in 1 .. Len(old)}
    <3>1. 1 .. Len(new) = (1 .. Len(old)) \cup {Len(old) + 1}
      BY <1>1, <2>3
    <3>2. Len(old) + 1 \notin 1 .. Len(old)
      BY <1>1
    <3>3. QED BY <2>3, <3>1, <3>2 DEF Members
  <2>5. Members(new) = {rule} \cup rest
    BY <1>4, <1>5, <2>4
  <2>6. QED BY <2>3, <2>5 DEF new, rule, rest, old
<1>6. CASE same # {}
  <2>1. new = [n \in 1 .. Cardinality(kept) |-> IF at(n) \in same THEN rule ELSE old[at(n)]]
    BY <1>3, <1>6
  <2>2. kept \in SUBSET (1 .. Len(old)) /\ same \in SUBSET (1 .. Len(old))
    OBVIOUS
  <2>3. \A i \in 1 .. Len(old) : i \notin same => i \in kept
    OBVIOUS
  <2>4. PICK first \in same : first \in kept
    <3>1. same \in SUBSET Nat
      BY <1>1, <2>2
    <3> HIDE DEF same
    <3>2. PICK m \in same : \A k \in same : m <= k
      BY <1>6, <3>1, Least
    <3>3. QED BY <2>2, <3>2
  <2> HIDE DEF old, same, kept, rest, new, rule
  <2>5. /\ Cardinality(kept) \in Nat
        /\ \A i \in kept : Cardinality({j \in kept : j <= i}) \in 1 .. Cardinality(kept)
        /\ \A i, k \in kept :
              Cardinality({j \in kept : j <= i}) = Cardinality({j \in kept : j <= k}) => i = k
        /\ \A m \in 1 .. Cardinality(kept) : \E i \in kept : Cardinality({j \in kept : j <= i}) = m
    BY <1>1, <2>2, Ranked
  <2>6. \A n \in 1 .. Cardinality(kept) : at(n) \in kept
    BY <2>5
  <2>7. \A i \in kept : \E n \in 1 .. Cardinality(kept) : at(n) = i
    BY <2>5
  <2> HIDE DEF at
  <2>8. \A n \in 1 .. Cardinality(kept) : at(n) \in same \/ old[at(n)] \in 1 .. Len(rules)
    BY <1>1, <2>2, <2>6
  <2>9. /\ new \in Seq(1 .. rule) /\ Len(new) = Cardinality(kept)
        /\ \A n \in 1 .. Len(new) : new[n] = IF at(n) \in same THEN rule ELSE old[at(n)]
    <3>1. \A n \in 1 .. Cardinality(kept) :
              (IF at(n) \in same THEN rule ELSE old[at(n)]) \in 1 .. rule
      BY <1>2, <2>8
    <3>2. DOMAIN new = 1 .. Cardinality(kept) /\ new \in [1 .. Cardinality(kept) -> 1 .. rule]
      BY <2>1, <3>1
    <3>3. new \in Seq(1 .. rule) /\ Len(new) = Cardinality(kept)
      <4> DEFINE size == Cardinality(kept)
                 Numbers == 1 .. rule
      <4>1. size \in Nat /\ new \in [1 .. size -> Numbers] /\ DOMAIN new = 1 .. size
        BY <2>5, <3>2
      <4> HIDE DEF size, Numbers
      <4>2. new \in Seq(Numbers)
        BY <4>1
      <4>3. Len(new) = size
        BY <4>1, <4>2
      <4>4. QED BY <4>2, <4>3 DEF size, Numbers
    <3>4. QED BY <2>1, <3>3
  <2>10. Members(new) \subseteq {rule} \cup rest
    <3> SUFFICES ASSUME NEW n \in 1 .. Len(new), new[n] # rule
                 PROVE  new[n] \in rest
      BY DEF Members
    <3>1. at(n) \in kept /\ at(n) \notin same /\ new[n] = old[at(n)]
      BY <2>6, <2>9
    <3>2. QED BY <1>4, <2>2, <3>1
  <2>11. rule \in Members(new)
    BY <2>4, <2>7, <2>9 DEF Members
  <2>12. ASSUME NEW i \in (1 .. Len(old)) \ same PROVE old[i] \in Members(new)
    BY <2>3, <2>7, <2>9 DEF Members
  <2>13. Members(new) = {rule} \cup rest
    BY <1>4, <2>10, <2>11, <2>12
  <2>14. QED BY <2>9, <2>13 DEF new, rule, rest, old
<1>7. QED BY <1>5, <1>6

-----------------------------------------------------------------------------
(* The book of rules *)

\* What is approved stays so.
Endures ==
    /\ \A r \in Existing : request[r].status = "APPROVED" =>
          r \in Existing' /\ request'[r].status = "APPROVED"
    /\ \A c \in Candidates : status[c] = "APPROVED" => status'[c] = "APPROVED"

LEMMA BookStays ==
    ASSUME TypeInv, Learned, Held, Endures, UNCHANGED <<rules, policy>>
    PROVE  Learned' /\ Held'
<1>1. Held'
  <2>1. \A n, p : InForce(n, p)' = InForce(n, p)
    BY DEF InForce, Lineage
  <2>2. \A n, p : Took(n, p)' <=> Took(n, p)
    BY <2>1 DEF Took
  <2>3. \A n : Standing(n)' <=> Standing(n)
    BY <2>2 DEF Standing, Last
  <2>4. QED BY <2>3 DEF Held, Lineage, Newest
<1>2. \A n \in 1 .. Len(rules) : rules[n].candidate \in Candidates /\ Upto(n)' = Upto(n)
  <2>1. \A n \in 1 .. Len(rules) : rules[n] \in Rules
    BY DEF TypeInv
  <2>2. \A n : Upto(n)' = Upto(n)
    BY DEF Upto
  <2>3. QED BY <2>1, <2>2 DEF Rules
<1>3. Learned'
  BY <1>2 DEF Learned, Endures
<1>4. QED BY <1>1, <1>3

\* A policy is appended, and what is known of the rules there are stays.
Grows ==
    /\ Len(policy') = Len(policy) + 1
    /\ \A p \in 1 .. Len(policy) : policy'[p] = policy[p]
    /\ \A n \in 1 .. Len(rules) : /\ Lineage(n)' = Lineage(n)
                                   /\ rules'[n].activated = rules[n].activated

LEMMA MembersAreRules ==
    ASSUME TypeInv, NEW p \in 1 .. Len(policy) PROVE Members(policy[p]) \subseteq 1 .. Len(rules)
<1>1. policy[p] \in Seq(1 .. Len(rules))
  BY DEF TypeInv
<1>2. QED BY <1>1 DEF Members

\* A rule stands its ground when the new policy holds, of its lineage, what the active
\* policy holds or the one before it.
LEMMA GroundIsKept ==
    ASSUME TypeInv, Len(policy) > 0, Grows, NEW n \in 1 .. Len(rules), Standing(n),
           NEW q \in Last, q > 0, InForce(n, Len(policy))' = InForce(n, q)
    PROVE  Standing(n)'
<1>1. PICK a \in Nat : a = rules[n].activated
  BY DEF Standing
<1>2. PICK l \in Nat \ {0} : l = Len(policy)
  BY DEF TypeInv
<1>3. /\ a \in 2 .. l /\ rules'[n].activated = a /\ Len(policy') = l + 1
      /\ q \in {l - 1, l} /\ q \in 1 .. l /\ a - 1 \in 1 .. l
  BY <1>1, <1>2 DEF Standing, Grows, Last
<1>4. \A p \in 1 .. l : Members(policy'[p]) = Members(policy[p])
  BY <1>2 DEF Grows
<1>5. ASSUME NEW p \in 1 .. l PROVE InForce(n, p)' = InForce(n, p)
  <2>1. \A m \in Members(policy[p]) : Lineage(m)' = Lineage(m)
    BY <1>2, MembersAreRules DEF Grows
  <2>2. Lineage(n)' = Lineage(n)
    BY DEF Grows
  <2>3. Members(policy'[p]) = Members(policy[p])
    BY <1>4
  <2>4. QED BY <2>1, <2>2, <2>3 DEF InForce
<1>6. ASSUME NEW p \in 1 .. l, Took(n, p), NEW new \in 1 .. l + 1, new >= p,
             InForce(n, new)' = InForce(n, p)
      PROVE  Took(n, new)'
  <2>1. CASE InForce(n, p) = {n}
    BY <1>6, <2>1 DEF Took
  <2>2. CASE a < p /\ n \notin Members(policy[a + 1]) /\ InForce(n, p) = InForce(n, a - 1)
    <3>1. a < new /\ a + 1 \in 1 .. l
      BY <1>3, <1>6, <2>2
    <3>2. n \notin Members(policy'[a + 1])
      BY <1>4, <2>2, <3>1
    <3>3. InForce(n, new)' = InForce(n, a - 1)'
      BY <1>3, <1>5, <1>6, <2>2
    <3>4. QED BY <1>3, <3>1, <3>2, <3>3 DEF Took
  <2>3. QED BY <1>1, <1>6, <2>1, <2>2 DEF Took
<1>7. Took(n, l)'
  <2>1. Took(n, l)
    BY <1>1, <1>2, <1>3 DEF Standing, Last
  <2>2. QED BY <1>3, <1>5, <1>6, <2>1
<1>8. Took(n, l + 1)'
  <2>1. InForce(n, l + 1)' = InForce(n, q)
    BY <1>3 DEF InForce
  <2>2. CASE q >= a
    <3>1. Took(n, q)
      BY <1>1, <2>2 DEF Standing
    <3>2. QED BY <1>3, <1>6, <2>1, <3>1
  <2>3. CASE q < a
    <3>1. q = a - 1 /\ a = l /\ a < l + 1
      BY <1>3, <2>3
    <3>2. n \notin InForce(n, q)
      BY <1>1, <3>1 DEF Standing, InForce
    <3>3. n \notin Members(policy'[a + 1])
      BY <2>1, <3>1, <3>2 DEF InForce
    <3>4. InForce(n, l + 1)' = InForce(n, a - 1)'
      BY <1>3, <1>5, <2>1, <3>1
    <3>5. QED BY <1>3, <3>1, <3>3, <3>4 DEF Took
  <2>4. QED BY <1>3, <2>2, <2>3
<1>9. n \notin Members(policy'[a - 1])
  BY <1>1, <1>3, <1>4 DEF Standing
<1>10. QED
  <2>1. Last' = {l, l + 1}
    BY <1>3 DEF Last
  <2>2. QED BY <1>3, <1>7, <1>8, <1>9, <2>1 DEF Standing

\* The policies before, with one of the last two once more, are still a book of rules.
LEMMA RepeatKeeps ==
    ASSUME TypeInv, Held, NEW q \in Last, q > 0,
           policy' = Append(policy, policy[q]), rules' = rules
    PROVE  /\ Held' /\ policy' \in Seq(Seq(1 .. Len(rules'))) /\ Len(policy') = Len(policy) + 1
<1>1. PICK l \in Nat \ {0} : l = Len(policy)
  BY DEF TypeInv, Held
<1>2. q \in 1 .. l
  BY <1>1 DEF Last
<1> DEFINE Lists == Seq(1 .. Len(rules))
<1>3. policy \in Seq(Lists) /\ policy[q] \in Lists
  BY <1>1, <1>2 DEF TypeInv
<1> HIDE DEF Lists
<1>4. /\ policy' \in Seq(Lists) /\ Len(policy') = l + 1 /\ policy'[l + 1] = policy[q]
      /\ \A p \in 1 .. l : policy'[p] = policy[p]
  BY <1>1, <1>2, <1>3
<1>5. Grows
  BY <1>1, <1>4 DEF Grows, Lineage
<1>6. ASSUME NEW n \in 1 .. Len(rules), Newest(n) PROVE Standing(n)'
  <2>1. Standing(n)
    BY <1>6 DEF Held
  <2>2. InForce(n, Len(policy))' = InForce(n, q)
    BY <1>1, <1>4 DEF InForce, Lineage
  <2>3. QED BY <2>1, <2>2, <1>5, GroundIsKept DEF Held
<1>7. \A p \in 1 .. l + 1 : \E o \in 1 .. l : policy'[p] = policy[o]
  BY <1>1, <1>2, <1>4
<1>8. \A p \in 1 .. l + 1 : \A n, m \in Members(policy'[p]) : Lineage(n)' = Lineage(m)' => n = m
  BY <1>1, <1>7 DEF Held, Lineage
<1>9. Held'
  BY <1>4, <1>6, <1>8 DEF Held, Newest, Lineage
<1>10. QED BY <1>1, <1>4, <1>9 DEF Lists

\* A promotion appends a rule that follows the newest of its lineage.
LEMMA PromotionKeeps ==
    ASSUME TypeInv, Learned, Held, Endures,
           NEW r \in Requests, NEW c \in Candidates, PromoteReviewRule(r, c),
           status[c] # "APPROVED", status'[c] = "APPROVED",
           r \in Existing', request'[r].status = "APPROVED"
    PROVE  /\ Learned' /\ Held'
           /\ rules' \in Seq(Rules)
           /\ policy' \in Seq(Seq(1 .. Len(rules'))) /\ Len(policy') = Len(policy) + 1
<1>0. PICK rule \in Nat : rule = Len(rules) + 1
  BY DEF TypeInv
<1> DEFINE lineage == {n \in 1 .. Len(rules) : LineageOf[rules[n].candidate] = LineageOf[c]}
           newest == {n \in lineage : \A m \in lineage : m <= n}
           last == IF lineage = {} THEN 0 ELSE CHOOSE n \in newest : TRUE
           w == [candidate |-> c, request |-> r, version |-> Cardinality(lineage) + 1,
                 activated |-> Len(policy) + 1, predecessor |-> last]
           joined == NewMembership(c, rule)
<1>1. rules' = Append(rules, w) /\ policy' = Append(policy, joined)
  BY <1>0 DEF PromoteReviewRule
<1>2. /\ Len(rules) \in Nat /\ rules \in Seq(Rules) /\ Len(policy) \in Nat \ {0}
      /\ policy \in Seq(Seq(1 .. Len(rules)))
      /\ \A n \in 1 .. Len(rules) : rules[n] \in Rules /\ rules[n].candidate \in Candidates
  <2>1. rules \in Seq(Rules) /\ Len(policy) \in Nat \ {0} /\ policy \in Seq(Seq(1 .. Len(rules)))
    BY DEF TypeInv, Held
  <2>2. \A n \in 1 .. Len(rules) : rules[n] \in Rules
    BY <2>1
  <2>3. QED BY <2>1, <2>2 DEF Rules
<1>3. \/ lineage = {} /\ last = 0 /\ Cardinality(lineage) = 0
      \/ /\ last \in lineage /\ \A m \in lineage : m <= last
         /\ Cardinality(lineage) = rules[last].version
  <2>1. CASE lineage = {}
    BY <2>1, FS_EmptySet
  <2>2. CASE lineage # {}
    <3>1. lineage \in SUBSET (1 .. Len(rules))
      OBVIOUS
    <3>2. \E q \in lineage : \A p \in lineage : p <= q
      <4> HIDE DEF lineage
      <4>1. QED BY <1>2, <2>2, <3>1, LargestOf
    <3>3. last \in lineage /\ \A m \in lineage : m <= last
      <4> HIDE DEF lineage
      <4>1. QED BY <2>2, <3>2
    <3> HIDE DEF last
    <3>4. Upto(last) = lineage
      BY <1>2, <3>3 DEF Upto
    <3>5. QED BY <3>1, <3>3, <3>4 DEF Learned
  <2>3. QED BY <2>1, <2>2
<1>4. IsFiniteSet(lineage) /\ Cardinality(lineage) \in Nat
  <2>1. IsFiniteSet(1 .. Len(rules)) /\ lineage \in SUBSET (1 .. Len(rules))
    BY <1>2, FS_Interval
  <2> HIDE DEF lineage
  <2>2. QED BY <2>1, FS_Subset, FS_CardinalityType
<1>5. last \in Nat /\ last < rule
  <2>1. \A n \in lineage : n \in 1 .. Len(rules)
    OBVIOUS
  <2> HIDE DEF last, lineage
  <2>2. last = 0 \/ last \in 1 .. Len(rules)
    BY <1>3, <2>1
  <2>3. QED BY <1>0, <1>2, <2>2
<1> HIDE DEF last
<1>6. /\ w \in Rules /\ w.candidate = c /\ w.request = r /\ w.version = Cardinality(lineage) + 1
      /\ w.predecessor = last /\ w.activated = Len(policy) + 1
  <2> HIDE DEF last, lineage
  <2>1. Cardinality(lineage) + 1 \in Nat
    BY <1>4
  <2>2. PICK version \in Nat : version = Cardinality(lineage) + 1
    BY <2>1
  <2>3. PICK activated \in Nat : activated = Len(policy) + 1
    BY <1>2
  <2>4. w = [candidate |-> c, request |-> r, version |-> version, activated |-> activated,
             predecessor |-> last]
    BY <2>2, <2>3
  <2> HIDE DEF w
  <2>5. w \in Rules
    BY <1>5, <2>4 DEF Rules
  <2>6. /\ w.candidate = c /\ w.request = r /\ w.activated = Len(policy) + 1
        /\ w.version = version /\ w.predecessor = last
    BY <2>3, <2>4
  <2>7. QED BY <2>2, <2>5, <2>6
<1>7. /\ joined \in Seq(1 .. rule)
      /\ Members(joined) = {rule} \cup {n \in Members(ActivePolicy) : Lineage(n) # LineageOf[c]}
  BY <1>0, MembershipChanges
<1> HIDE DEF w, joined
<1>8. /\ rules' \in Seq(Rules) /\ Len(rules') = rule /\ rules'[rule] = w
      /\ \A n \in 1 .. Len(rules) : rules'[n] = rules[n]
  BY <1>0, <1>1, <1>2, <1>6
<1>9. /\ policy' \in Seq(Seq(1 .. rule)) /\ Len(policy') = Len(policy) + 1
      /\ ActivePolicy' = joined
      /\ \A p \in 1 .. Len(policy) : policy'[p] = policy[p] /\ policy[p] \in Seq(1 .. Len(rules))
  <2>1. policy \in Seq(Seq(1 .. rule))
    <3>1. \A p \in 1 .. Len(policy) : policy[p] \in Seq(1 .. Len(rules))
      BY <1>2
    <3>2. \A s \in Seq(1 .. Len(rules)) : s \in Seq(1 .. rule)
      <4> SUFFICES ASSUME NEW s \in Seq(1 .. Len(rules)) PROVE s \in Seq(1 .. rule)
        OBVIOUS
      <4>1. Len(s) \in Nat /\ s \in [1 .. Len(s) -> 1 .. Len(rules)]
        OBVIOUS
      <4>2. s \in [1 .. Len(s) -> 1 .. rule]
        BY <1>0, <1>2, <4>1
      <4>3. PICK n \in Nat : s \in [1 .. n -> 1 .. rule]
        BY <4>1, <4>2
      <4> DEFINE Numbers == 1 .. rule
      <4>4. s \in [1 .. n -> Numbers]
        BY <4>3
      <4> HIDE DEF Numbers
      <4>5. s \in Seq(Numbers)
        BY <4>4
      <4>6. QED BY <4>5 DEF Numbers
    <3>3. Len(policy) \in Nat /\ policy \in [1 .. Len(policy) -> Seq(1 .. rule)]
      BY <1>2, <3>1, <3>2
    <3>4. QED BY <3>3
  <2> DEFINE Lists == Seq(1 .. rule)
  <2>2. policy \in Seq(Lists) /\ joined \in Lists
    BY <1>7, <2>1
  <2>3. \A p \in 1 .. Len(policy) : policy[p] \in Seq(1 .. Len(rules))
    BY <1>2
  <2> HIDE DEF Lists
  <2>4. /\ policy' \in Seq(Lists) /\ Len(policy') = Len(policy) + 1
        /\ policy'[Len(policy) + 1] = joined
        /\ \A p \in 1 .. Len(policy) : policy'[p] = policy[p]
    BY <1>1, <1>2, <2>2
  <2>5. QED BY <2>3, <2>4 DEF Lists, ActivePolicy
<1>10. /\ \A n \in 1 .. Len(rules) : Lineage(n)' = Lineage(n)
       /\ Lineage(rule)' = LineageOf[c]
  BY <1>6, <1>8 DEF Lineage
<1>11. \A n \in 1 .. Len(rules) : n < rule /\ n # rule
  BY <1>0, <1>2
<1>12. \A n \in 1 .. rule : n = rule \/ n \in 1 .. Len(rules)
  BY <1>0, <1>2
<1>13. rule \in 1 .. rule /\ \A n \in 1 .. Len(rules) : n \in 1 .. rule
  BY <1>0, <1>2
<1>14. Held'
  <2>1. \A p \in 1 .. Len(policy') : \A n, m \in Members(policy'[p]) :
            Lineage(n)' = Lineage(m)' => n = m
    <3> SUFFICES ASSUME NEW p \in 1 .. Len(policy'),
                        NEW n \in Members(policy'[p]), NEW m \in Members(policy'[p]),
                        Lineage(n)' = Lineage(m)'
                 PROVE  n = m
      OBVIOUS
    <3>1. CASE p \in 1 .. Len(policy)
      <4>1. policy'[p] = policy[p] /\ policy[p] \in Seq(1 .. Len(rules))
        BY <1>9, <3>1
      <4>2. n \in 1 .. Len(rules) /\ m \in 1 .. Len(rules)
        BY <4>1 DEF Members
      <4>3. Lineage(n) = Lineage(m)
        BY <1>10, <4>2
      <4>4. QED BY <3>1, <4>1, <4>3 DEF Held
    <3>2. CASE p = Len(policy) + 1
      <4>1. policy'[p] = joined
        BY <1>9, <3>2 DEF ActivePolicy
      <4>2. \A k \in Members(joined) :
                k = rule \/ (k \in Members(ActivePolicy) /\ Lineage(k) # LineageOf[c])
        BY <1>7
      <4>3. \A k \in Members(ActivePolicy) : k \in 1 .. Len(rules)
        <5>1. ActivePolicy \in Seq(1 .. Len(rules))
          BY <1>2 DEF ActivePolicy
        <5>2. QED BY <5>1 DEF Members
      <4>4. \A k \in Members(joined) : k # rule => Lineage(k)' = Lineage(k) /\ Lineage(k) # LineageOf[c]
        BY <1>10, <4>2, <4>3
      <4>5. CASE n = rule \/ m = rule
        <5>1. Lineage(rule)' = LineageOf[c]
          BY <1>10
        <5>2. \A k \in Members(joined) : k # rule => Lineage(k)' # LineageOf[c]
          BY <4>4
        <5>3. QED BY <4>1, <4>5, <5>1, <5>2
      <4>6. CASE n # rule /\ m # rule
        <5>1. n \in Members(ActivePolicy) /\ m \in Members(ActivePolicy) /\ Lineage(n) = Lineage(m)
          BY <4>1, <4>2, <4>4, <4>6
        <5>2. Len(policy) \in 1 .. Len(policy)
          BY <1>2
        <5>3. QED BY <5>1, <5>2 DEF Held, ActivePolicy
      <4>7. QED BY <4>5, <4>6
    <3>3. QED BY <1>2, <1>9, <3>1, <3>2
  <2>2. ASSUME NEW n \in 1 .. rule, Newest(n)' PROVE Standing(n)'
    <3>1. PICK l \in Nat \ {0} : l = Len(policy)
      BY <1>2
    <3>2. Members(policy'[l + 1]) =
             {rule} \cup {k \in Members(policy[l]) : Lineage(k) # LineageOf[c]}
      BY <1>7, <1>9, <3>1 DEF ActivePolicy
    <3>3. Members(policy[l]) \subseteq 1 .. Len(rules)
      BY <3>1, MembersAreRules
    <3>4. CASE n = rule
      <4>1. rules'[n].activated = l + 1 /\ Last' = {l, l + 1} /\ Len(policy') = l + 1
        <5>1. rules'[n].activated = l + 1 /\ Len(policy') = l + 1
          BY <1>6, <1>8, <1>9, <3>1, <3>4
        <5>2. Last' = {l, l + 1}
          BY <5>1 DEF Last
        <5>3. QED BY <5>1, <5>2
      <4>2. n \notin Members(policy'[l])
        <5>1. l \in 1 .. Len(policy)
          BY <3>1
        <5>2. policy'[l] = policy[l]
          BY <1>9, <5>1
        <5>3. QED BY <1>11, <3>3, <3>4, <5>2
      <4>3. InForce(n, l + 1)' = {n}
        BY <1>10, <3>2, <3>3, <3>4 DEF InForce
      <4>4. Took(n, l + 1)'
        BY <4>3 DEF Took
      <4>5. QED BY <3>1, <4>1, <4>2, <4>4 DEF Standing
    <3>5. CASE n \in 1 .. Len(rules)
      <4>1. \A m \in 1 .. rule : Lineage(m)' = Lineage(n)' => m <= n
        BY <1>8, <2>2 DEF Newest
      <4>2. Lineage(n) # LineageOf[c]
        BY <1>0, <1>2, <1>10, <1>13, <3>5, <4>1
      <4>3. Newest(n)
        BY <1>10, <1>13, <3>5, <4>1 DEF Newest
      <4>4. InForce(n, l + 1)' = InForce(n, l)
        BY <1>10, <3>2, <3>3, <3>5, <4>2 DEF InForce
      <4>5. Standing(n) /\ l \in Last /\ l > 0
        BY <3>1, <3>5, <4>3 DEF Held, Last
      <4>6. Grows /\ InForce(n, Len(policy))' = InForce(n, l)
        BY <1>8, <1>9, <1>10, <3>1, <4>4 DEF Grows, InForce
      <4>7. QED BY <1>2, <3>5, <4>5, <4>6, GroundIsKept
    <3>6. QED BY <1>12, <3>4, <3>5
  <2>3. Len(policy') > 0
    BY <1>2, <1>9
  <2>4. QED BY <1>8, <2>1, <2>2, <2>3 DEF Held, Members
<1>15. Learned'
  <2> SUFFICES ASSUME NEW n \in 1 .. rule
               PROVE  /\ status'[rules'[n].candidate] = "APPROVED"
                      /\ rules'[n].request \in Existing'
                      /\ request'[rules'[n].request].status = "APPROVED"
                      /\ rules'[n].predecessor < n
                      /\ rules'[n].version = 1 + (IF rules'[n].predecessor = 0 THEN 0
                                                  ELSE rules'[rules'[n].predecessor].version)
                      /\ rules'[n].version = Cardinality(Upto(n))'
                      /\ \A m \in 1 .. rule : rules'[m].candidate = rules'[n].candidate => m = n
    BY <1>8 DEF Learned
  <2>1. CASE n \in 1 .. Len(rules)
    <3>1. Upto(n)' = Upto(n)
      <4>1. \A m \in 1 .. n : m \in 1 .. Len(rules)
        BY <1>2, <2>1
      <4>2. QED BY <1>8, <2>1, <4>1 DEF Upto
    <3>2. /\ status[rules[n].candidate] = "APPROVED"
          /\ rules[n].request \in Existing /\ request[rules[n].request].status = "APPROVED"
          /\ rules[n].predecessor < n /\ rules[n].predecessor \in Nat
          /\ rules[n].version = 1 + (IF rules[n].predecessor = 0 THEN 0
                                     ELSE rules[rules[n].predecessor].version)
          /\ rules[n].version = Cardinality(Upto(n))
          /\ \A m \in 1 .. Len(rules) : rules[m].candidate = rules[n].candidate => m = n
      BY <1>2, <2>1 DEF Learned, Rules
    <3>3. rules[n].predecessor = 0 \/ rules[n].predecessor \in 1 .. Len(rules)
      BY <1>2, <2>1, <3>2
    <3>4. rules'[n] = rules[n]
      BY <1>8, <2>1
    <3>5. \A m \in 1 .. rule : rules'[m].candidate = rules'[n].candidate => m = n
      <4>1. rules'[rule].candidate # rules[n].candidate
        BY <1>6, <1>8, <3>2
      <4>2. QED BY <1>8, <1>12, <3>2, <3>4, <4>1
    <3>6. QED BY <1>2, <1>8, <2>1, <3>1, <3>2, <3>3, <3>4, <3>5 DEF Endures
  <2>2. CASE n = rule
    <3>1. rules'[n] = w
      BY <1>8, <2>2
    <3>2. Upto(n)' = lineage \cup {rule}
      <4>1. Upto(n)' = {m \in 1 .. rule : Lineage(m)' = LineageOf[c]}
        BY <1>10, <2>2 DEF Upto, Lineage
      <4>2. lineage = {m \in 1 .. Len(rules) : Lineage(m) = LineageOf[c]}
        BY DEF Lineage
      <4>3. QED BY <1>10, <1>12, <1>13, <4>1, <4>2
    <3>3. Cardinality(lineage \cup {rule}) = Cardinality(lineage) + 1
      <4>1. rule \notin lineage
        BY <1>11
      <4> HIDE DEF lineage
      <4>2. QED BY <1>4, <4>1, FS_AddElement
    <3>4. last # 0 => last \in 1 .. Len(rules) /\ rules'[last] = rules[last]
      BY <1>3, <1>8
    <3>5. w.version = 1 + (IF last = 0 THEN 0 ELSE rules'[last].version)
      <4>1. CASE last = 0
        <5>1. Cardinality(lineage) = 0
          BY <1>2, <1>3, <4>1
        <5>2. QED BY <1>6, <4>1, <5>1
      <4>2. CASE last # 0
        <5>1. Cardinality(lineage) = rules[last].version
          BY <1>3, <4>2
        <5>2. QED BY <1>4, <1>6, <3>4, <4>2, <5>1
      <4>3. QED BY <4>1, <4>2
    <3>6. \A m \in 1 .. rule : rules'[m].candidate = c => m = rule
      BY <1>8, <1>12 DEF Learned
    <3>7. Cardinality(Upto(n))' = Cardinality(lineage) + 1
      BY <3>2, <3>3
    <3>8. QED BY <1>5, <1>6, <2>2, <3>1, <3>5, <3>6, <3>7
  <2>3. QED BY <1>12, <2>1, <2>2
<1>16. QED BY <1>8, <1>9, <1>14, <1>15

-----------------------------------------------------------------------------
(* What a step leaves alone *)

LEMMA Initially == Init => IInv
<1> SUFFICES ASSUME Init PROVE IInv
  OBVIOUS
<1>1. Unbound \in Briefs /\ Unbound.version = 0 /\ Unbound.policy = 0
  BY ApprovalAssumption DEF Unbound, Briefs
<1>2. policy = << << >> >> /\ rules = << >> /\ Len(rules) = 0 /\ Len(policy) = 1
      /\ policy[1] = << >> /\ policy \in Seq(Seq(1 .. Len(rules))) /\ rules \in Seq(Rules)
  BY DEF Init
<1>3. Existing = {} /\ \A t \in Tasks : PendingOf(t) = {}
  BY DEF Init, Existing, PendingOf
<1>4. TypeInv
  <2>1. 0 \in 0 .. MaxBriefs
    BY ApprovalAssumption
  <2>2. \A t \in Tasks : brief[t].version <= versions[t] /\ brief[t].policy <= Len(policy)
    BY <1>1, <1>2 DEF Init
  <2>3. QED
    BY <1>1, <1>2, <1>3, <2>1, <2>2 DEF Init, TypeInv, TaskStates, WorkStates
<1>5. Formed /\ Found
  BY <1>3 DEF Init, Formed, Found
<1>6. Learned
  BY <1>2 DEF Learned
<1>7. Held
  BY <1>2 DEF Held, Members, ActivePolicy
<1>8. ASSUME NEW t \in Tasks PROVE Waits(t) /\ Rests(t)
  <2>1. state[t] = "BRIEFING" /\ resume[t] = None /\ None \notin {"IMPLEMENTING", "VALIDATING"}
    BY NullAssumption DEF Init, TaskStates, WorkStates
  <2>2. QED BY <1>3, <2>1 DEF Waits, Rests, WaitingStates
<1>9. QED BY <1>4, <1>5, <1>6, <1>7, <1>8 DEF IInv

\* A row is a record, so that a request with one exists.
LEMMA RowsExist ==
    ASSUME TypeInv
    PROVE  /\ Existing = {r \in Requests : request[r] \in Rows}
           /\ \A r \in Existing : request[r] \in Rows
  BY NullAssumption DEF TypeInv, Existing

\* A task nobody touched, none of whose requests was touched, is where it was.
LEMMA OthersStay ==
    ASSUME TypeInv, NEW t \in Tasks, Waits(t), Rests(t),
           state'[t] = state[t], resume'[t] = resume[t], brief'[t] = brief[t],
           \A r \in Requests :
              \/ request'[r] = request[r]
              \/ /\ request[r] = None \/ request[r].task # t
                 /\ request'[r].task # t
    PROVE  Waits(t)' /\ Rests(t)'
<1>1. PendingOf(t)' = PendingOf(t)
  BY DEF PendingOf, Existing
<1>2. \A r \in PendingOf(t) : request'[r] = request[r]
  BY DEF PendingOf, Existing
<1>3. Waits(t)'
  BY <1>1, <1>2 DEF Waits, Asks, ExactBrief
<1>4. \A r \in Existing : Approves(t, r) => r \in Existing' /\ Approves(t, r)'
  BY DEF Existing, Approves
<1>5. Rests(t)'
  BY <1>4 DEF Rests
<1>6. QED BY <1>3, <1>5

\* A step that touches no task, brief, request or rule.
LEMMA QuestionsStay ==
    ASSUME IInv, UNCHANGED <<state, resume, brief, versions, request, event, status, rules, policy>>,
           intact' \subseteq Candidates \cup Requests, due' \subseteq Existing, listed' \subseteq Existing,
           cancelling' \in [Tasks -> Reads \cup {None}], Found'
    PROVE  IInv'
<1>1. Existing' = Existing
  BY DEF Existing
<1>2. TypeInv' /\ Formed'
  BY <1>1 DEF IInv, TypeInv, Formed
<1>3. Learned' /\ Held'
  BY <1>1, BookStays DEF IInv, Endures
<1>4. \A t \in Tasks : Waits(t)' /\ Rests(t)'
  BY OthersStay DEF IInv
<1>5. QED BY <1>2, <1>3, <1>4 DEF IInv

\* A cancellation that is under way keeps what it has read.
LEMMA FoundStays ==
    ASSUME Found, cancelling' = cancelling, \A r \in Existing : r \in Existing'
    PROVE  Found'
  BY DEF Found

-----------------------------------------------------------------------------
(* Raising a question *)

\* A task that may be asked about does not wait.
LEMMA NotWaiting ==
    ASSUME IInv, NEW t \in Tasks, FreeToAsk(t)
    PROVE  state[t] \notin WaitingStates /\ resume[t] = None
  BY DEF IInv, FreeToAsk, Waits

LEMMA RequestKeeps ==
    ASSUME IInv, NEW r \in Requests, NEW t \in Tasks, NEW type \in Types, NEW subject \in Subjects,
           Request(r, t, type, subject)
    PROVE  IInv'
<1> DEFINE w == [task |-> t, type |-> type, subject |-> subject, from |-> state[t],
                 resume |-> IF type = "BRIEF" THEN None ELSE state[t],
                 status |-> "PENDING", decision |-> None, id |-> None]
           kind == IF type = "BRIEF" THEN "REQUEST_BRIEF_APPROVAL" ELSE "ESCALATE"
<1>1. /\ request[r] = None /\ PendingOf(t) = {}
      /\ request' = [request EXCEPT ![r] = w]
      /\ UNCHANGED <<brief, versions, status, intact, rules, policy, due, listed, cancelling>>
      /\ ExactSubject(t, type, subject)
      /\ Transition(t, r, kind)
  BY DEF Request, FreeToAsk
<1>2. TypeInv /\ state[t] \in TaskStates
  BY DEF IInv, TypeInv
<1>3. state[t] \in WorkStates /\ resume[t] = None
  <2>1. state[t] \notin WaitingStates /\ resume[t] = None
    BY NotWaiting DEF Request
  <2>2. state[t] \in WorkStates \cup {"BRIEF_PENDING_APPROVAL"}
    BY DEF Request, WorkStates
  <2>3. QED BY <2>1, <2>2 DEF WaitingStates
<1>4. /\ w \in Rows /\ w # None
      /\ w.task = t /\ w.type = type /\ w.subject = subject /\ w.status = "PENDING"
      /\ w.resume = IF type = "BRIEF" THEN None ELSE state[t]
  <2>1. w \in Rows
    BY <1>2 DEF Rows, Statuses
  <2>2. QED BY <2>1, NullAssumption
<1> HIDE DEF w
<1>5. /\ request'[r] = w /\ \A s \in Requests : s # r => request'[s] = request[s]
      /\ request' \in [Requests -> Rows \cup {None}]
  BY <1>1, <1>2, <1>4 DEF TypeInv
<1>6. \A s \in Existing : s # r /\ s \in Existing' /\ request'[s] = request[s]
  BY <1>1, <1>5 DEF Existing
<1>7. \A s \in Existing' : s = r \/ s \in Existing
  BY <1>5 DEF Existing
<1>8. /\ state' = [state EXCEPT ![t] = WaitsIn(type)]
      /\ resume' = [resume EXCEPT ![t] = w.resume]
      /\ DOMAIN event' = DOMAIN event
  BY <1>1, <1>4 DEF Transition, Target, WaitsIn
<1>9. state'[t] = WaitsIn(type) /\ resume'[t] = w.resume /\ WaitsIn(type) \in WaitingStates
  BY <1>2, <1>8 DEF TypeInv, WaitsIn, WaitingStates
<1>10. TypeInv'
  <2>1. state' \in [Tasks -> TaskStates] /\ resume' \in [Tasks -> WorkStates \cup {None}]
    BY <1>2, <1>3, <1>4, <1>8, <1>9 DEF TypeInv, TaskStates
  <2>2. due' \subseteq Existing' /\ listed' \subseteq Existing'
    BY <1>1, <1>2, <1>6 DEF TypeInv
  <2>3. QED BY <1>1, <1>2, <1>5, <1>8, <2>1, <2>2 DEF TypeInv
<1>11. /\ type = "BRIEF" => subject \in 1 .. MaxBriefs /\ ExactBrief(t, subject)
       /\ type = "REVIEW_RULE" => subject \in Candidates
  BY <1>1 DEF ExactSubject
<1>12. Formed'
  <2>1. \A s \in Existing : /\ request[s].type = "BRIEF" =>
                                  request[s].subject \in 1 .. MaxBriefs /\ request[s].resume = None
                            /\ request[s].type = "REVIEW_RULE" => request[s].subject \in Candidates
                            /\ request[s].type # "BRIEF" => request[s].resume \in WorkStates
    BY DEF IInv, Formed
  <2>2. QED BY <1>3, <1>4, <1>5, <1>6, <1>7, <1>11, <2>1 DEF Formed
<1>13. Found'
  BY <1>1, <1>6, FoundStays DEF IInv
<1>14. Learned' /\ Held'
  BY <1>1, <1>6, BookStays DEF IInv, Endures
<1>15. Waits(t)'
  <2>1. PendingOf(t)' = {r}
    <3>1. ASSUME NEW s \in Existing', s # r, request'[s].task = t, request'[s].status = "PENDING"
          PROVE  s \in PendingOf(t)
      BY <1>6, <1>7, <3>1 DEF PendingOf
    <3>2. r \in Existing'
      BY <1>4, <1>5 DEF Existing
    <3>3. QED BY <1>1, <1>4, <1>5, <3>1, <3>2 DEF PendingOf
  <2>2. Asks(t, r)'
    BY <1>1, <1>4, <1>5, <1>9, <1>11 DEF Asks, ExactBrief
  <2>3. QED BY <1>9, <2>1, <2>2 DEF Waits
<1>16. Rests(t)'
  <2>1. {state'[t], resume'[t]} \cap {"IMPLEMENTING", "VALIDATING"} # {} =>
            state[t] \in {"IMPLEMENTING", "VALIDATING"}
    BY <1>4, <1>9, NullAssumption DEF WaitsIn, TaskStates, WorkStates
  <2>2. \A s \in Existing : Approves(t, s) => s \in Existing' /\ Approves(t, s)'
    BY <1>1, <1>6 DEF Approves
  <2>3. Rests(t)
    BY DEF IInv
  <2>4. QED BY <1>1, <2>1, <2>2, <2>3 DEF Rests
<1>17. ASSUME NEW u \in Tasks, u # t PROVE Waits(u)' /\ Rests(u)'
  <2>1. state'[u] = state[u] /\ resume'[u] = resume[u]
    BY <1>2, <1>8, <1>17 DEF TypeInv
  <2>2. \A s \in Requests : request'[s] = request[s]
                            \/ (request[s] = None /\ request'[s].task # u)
    BY <1>1, <1>4, <1>5, <1>17
  <2>3. QED BY <1>1, <1>2, <2>1, <2>2, OthersStay DEF IInv
<1>18. QED BY <1>10, <1>12, <1>13, <1>14, <1>15, <1>16, <1>17 DEF IInv

-----------------------------------------------------------------------------
(* Answering it *)

\* What an answer on offer makes of a question.
LEMMA ProjectionIs ==
    ASSUME NEW type \in RequestTypes, NEW d \in Answers, d = "EXPIRE" \/ d \in Options(type)
    PROVE  LET p == Projection(type, d)
           IN  /\ p.status \in Statuses \ {"PENDING"}
               /\ p.kind \in {"CANCEL", "FAIL", "APPROVE_EXACT_BRIEF", "REVISE_BRIEF", "RESUME"}
               /\ p.kind = "RESUME" => type # "BRIEF"
               /\ p.kind = "APPROVE_EXACT_BRIEF" => type = "BRIEF" /\ p.status = "APPROVED"
               /\ type = "REVIEW_RULE" /\ d = "APPROVE" => p.status = "APPROVED"
               /\ d = "EXPIRE" => p.status = "EXPIRED"
<1> USE DEF Projection, Statuses, Approving
<1>1. CASE type = "BRIEF"
  <2>1. d \in {"EXPIRE", "APPROVE", "REQUEST_REVISION", "CANCEL"}
    BY <1>1 DEF Options
  <2>2. QED BY <1>1, <2>1
<1>2. CASE type = "RETRY_LIMIT"
  <2>1. d \in {"EXPIRE", "RETRY", "ABANDON", "CANCEL"}
    BY <1>2 DEF Options
  <2>2. QED BY <1>2, <2>1
<1>3. CASE type = "REVIEW_RULE"
  <2>1. d \in {"EXPIRE", "APPROVE", "REJECT", "CANCEL"}
    BY <1>3 DEF Options
  <2>2. QED BY <1>3, <2>1
<1>4. CASE type \in {"UNSAFE_ACTION", "REVIEW_CONFLICT"}
  <2>1. d \in {"EXPIRE", "APPROVE", "DENY", "CANCEL"}
    BY <1>4 DEF Options
  <2>2. QED BY <1>4, <2>1
<1>5. QED BY <1>1, <1>2, <1>3, <1>4 DEF RequestTypes

\* The rows an answer leaves.
LEMMA AnswerIs ==
    ASSUME IInv, NEW r \in Existing, NEW id \in Ids, NEW d \in Answers, DecideAs(r, id, d)
    PROVE  LET q == request[r]
               p == Projection(q.type, d)
           IN  /\ q \in Rows /\ q.task \in Tasks /\ q.type \in RequestTypes
               /\ q.status = "PENDING" /\ PendingOf(q.task) = {r} /\ Asks(q.task, r)
               /\ d = "EXPIRE" \/ d \in Options(q.type)
               /\ request'[r].task = q.task /\ request'[r].type = q.type
               /\ request'[r].subject = q.subject /\ request'[r].resume = q.resume
               /\ request'[r].from = q.from
               /\ request'[r].status = p.status /\ request'[r].decision = d
               /\ request'[r].id = id
               /\ request'[r] # None
               /\ request' \in [Requests -> Rows \cup {None}]
               /\ \A s \in Requests : s # r => request'[s] = request[s]
<1> DEFINE q == request[r]
           p == Projection(q.type, d)
           w == [q EXCEPT !.status = p.status, !.decision = d, !.id = id]
<1>1. /\ q \in Rows /\ q.task \in Tasks /\ q.type \in RequestTypes /\ r \in Requests
      /\ request \in [Requests -> Rows \cup {None}]
  <2>1. q \in Rows
    BY RowsExist DEF IInv
  <2>2. q.task \in Tasks /\ q.type \in Types
    BY <2>1 DEF Rows
  <2>3. QED BY <2>1, <2>2, ApprovalAssumption DEF IInv, TypeInv, Existing
<1>2. q.status = "PENDING" /\ CanDecide(r, d)
  BY DEF DecideAs, CanDecide, Undecided
<1>3. d = "EXPIRE" \/ d \in Options(q.type)
  BY <1>2 DEF CanDecide
<1>4. r \in PendingOf(q.task)
  BY <1>2 DEF PendingOf
<1>5. PendingOf(q.task) = {r} /\ Asks(q.task, r)
  BY <1>1, <1>4 DEF IInv, Waits
<1>6. request' = [request EXCEPT ![r] = w]
  BY DEF DecideAs
<1>7. p.status \in Statuses
  BY <1>1, <1>3, ProjectionIs
<1>8. /\ w \in Rows /\ w.task = q.task /\ w.type = q.type /\ w.subject = q.subject
      /\ w.resume = q.resume /\ w.from = q.from
      /\ w.status = p.status /\ w.decision = d /\ w.id = id
  <2> HIDE DEF p
  <2>1. QED BY <1>1, <1>7 DEF Rows
<1>9. w # None
  BY <1>8, NullAssumption
<1> HIDE DEF w
<1>10. QED BY <1>1, <1>2, <1>3, <1>5, <1>6, <1>8, <1>9

\* What happens to the task.
LEMMA AnswerMoves ==
    ASSUME IInv, NEW r \in Existing, NEW id \in Ids, NEW d \in Answers, DecideAs(r, id, d)
    PROVE  LET t == request[r].task
               p == Projection(request[r].type, d)
           IN  /\ DOMAIN event' = DOMAIN event
               /\ state' = [state EXCEPT ![t] = state'[t]]
               /\ resume' = [resume EXCEPT ![t] = None]
               /\ state'[t] \in WorkStates \cup {"FAILED", "CANCELLED"}
               /\ resume'[t] = None
               /\ state'[t] \in {"IMPLEMENTING", "VALIDATING"} =>
                     \/ p.kind = "APPROVE_EXACT_BRIEF"
                     \/ p.kind = "RESUME" /\ state'[t] = resume[t]
<1> DEFINE q == request[r]
           t == q.task
           p == Projection(q.type, d)
<1>1. /\ q \in Rows /\ t \in Tasks /\ q.type \in RequestTypes /\ Asks(t, r)
      /\ d = "EXPIRE" \/ d \in Options(q.type)
  BY AnswerIs
<1>2. /\ p.kind \in {"CANCEL", "FAIL", "APPROVE_EXACT_BRIEF", "REVISE_BRIEF", "RESUME"}
      /\ p.kind = "RESUME" => q.type # "BRIEF"
  BY <1>1, ProjectionIs
<1>3. Transition(t, id, p.kind)
  BY DEF DecideAs
<1>4. q.type # "BRIEF" => resume[t] \in WorkStates
  BY <1>1 DEF Asks, IInv, Formed
<1> HIDE DEF p, t, q
<1>5. /\ DOMAIN event' = DOMAIN event
      /\ state' = [state EXCEPT ![t] = Target(t, p.kind)]
      /\ resume' = [resume EXCEPT ![t] = None]
  BY <1>2, <1>3 DEF Transition
<1>6. state \in [Tasks -> TaskStates] /\ resume \in [Tasks -> WorkStates \cup {None}]
  BY DEF IInv, TypeInv
<1>7. state'[t] = Target(t, p.kind) /\ resume'[t] = None
  BY <1>1, <1>5, <1>6
<1>8. /\ Target(t, p.kind) \in WorkStates \cup {"FAILED", "CANCELLED"}
      /\ Target(t, p.kind) \in {"IMPLEMENTING", "VALIDATING"} =>
            \/ p.kind = "APPROVE_EXACT_BRIEF"
            \/ p.kind = "RESUME" /\ Target(t, p.kind) = resume[t]
  BY <1>2, <1>4 DEF Target, WorkStates
<1>9. QED BY <1>5, <1>7, <1>8 DEF p, t, q

\* What happens to its subject.
LEMMA AnswerProjects ==
    ASSUME IInv, NEW r \in Existing, NEW id \in Ids, NEW d \in Answers, DecideAs(r, id, d)
    PROVE  LET q == request[r]
           IN  /\ brief' \in [Tasks -> Briefs]
               /\ \A t \in Tasks : /\ brief'[t].version = brief[t].version
                                   /\ brief'[t].human = brief[t].human
                                   /\ brief'[t].policy = brief[t].policy
                                   /\ t # q.task => brief'[t] = brief[t]
               /\ status' \in [Candidates -> {"EVALUATED", "APPROVED", "REJECTED"}]
               /\ \A c \in Candidates : status[c] = "APPROVED" => status'[c] = "APPROVED"
               /\ Promotes(r, d) =>
                     /\ q.subject \in Candidates /\ PromoteReviewRule(r, q.subject)
                     /\ status[q.subject] # "APPROVED" /\ status'[q.subject] = "APPROVED"
               /\ ~Promotes(r, d) => UNCHANGED <<rules, policy>>
<1> DEFINE q == request[r]
           b == [brief[q.task] EXCEPT !.response = d]
<1>1. /\ q \in Rows /\ q.task \in Tasks
      /\ brief \in [Tasks -> Briefs]
      /\ status \in [Candidates -> {"EVALUATED", "APPROVED", "REJECTED"}]
  BY AnswerIs DEF IInv, TypeInv
<1>2. ProjectSubject(r, d) /\ CanDecide(r, d)
  BY DEF DecideAs
<1>3. /\ b \in Briefs /\ b.version = brief[q.task].version /\ b.human = brief[q.task].human
      /\ b.policy = brief[q.task].policy
  BY <1>1 DEF Briefs
<1>4. brief' = [brief EXCEPT ![q.task] = b] \/ brief' = brief
  BY <1>2 DEF ProjectSubject
<1>5. /\ brief' \in [Tasks -> Briefs]
      /\ \A t \in Tasks : /\ brief'[t].version = brief[t].version
                          /\ brief'[t].human = brief[t].human
                          /\ brief'[t].policy = brief[t].policy
                          /\ t # q.task => brief'[t] = brief[t]
  <2> HIDE DEF b, q
  <2>1. QED BY <1>1, <1>3, <1>4
<1>6. ASSUME q.type = "REVIEW_RULE", d \in {"APPROVE", "REJECT"}
      PROVE  q.subject \in Candidates /\ status[q.subject] = "EVALUATED"
  <2>1. Current(r)
    BY <1>2, <1>6 DEF CanDecide, Preconditioned, Approving
  <2>2. q.subject \in Candidates
    BY <1>6 DEF IInv, Formed
  <2>3. QED BY <1>6, <2>1, <2>2 DEF Current, ExactCandidate
<1>7. CASE q.type = "REVIEW_RULE" /\ d \in {"APPROVE", "REJECT"}
  <2>1. status' = [status EXCEPT ![q.subject] = IF d = "APPROVE" THEN "APPROVED" ELSE "REJECTED"]
    BY <1>2, <1>7 DEF ProjectSubject
  <2>2. Promotes(r, d) => PromoteReviewRule(r, q.subject) /\ d = "APPROVE"
    BY <1>2 DEF ProjectSubject, Promotes
  <2>3. ~Promotes(r, d) => UNCHANGED <<rules, policy>>
    BY <1>2 DEF ProjectSubject
  <2>4. QED BY <1>1, <1>5, <1>6, <1>7, <2>1, <2>2, <2>3
<1>8. CASE ~(q.type = "REVIEW_RULE" /\ d \in {"APPROVE", "REJECT"})
  <2>1. status' = status /\ ~Promotes(r, d) /\ UNCHANGED <<rules, policy>>
    BY <1>2, <1>8 DEF ProjectSubject, Promotes
  <2>2. QED BY <1>1, <1>5, <2>1
<1>9. QED BY <1>7, <1>8

\* An answer ends the wait of its task, and nothing else.
LEMMA AnswerKeeps ==
    ASSUME IInv, NEW r \in Existing, NEW id \in Ids, NEW d \in Answers, DecideAs(r, id, d),
           listed' \subseteq listed, cancelling' \in [Tasks -> Reads \cup {None}],
           \A t \in Tasks : cancelling'[t] = cancelling[t] \/ cancelling'[t] = None
    PROVE  IInv'
<1>0. PICK t \in Tasks : t = request[r].task
  BY AnswerIs
<1> DEFINE q == request[r]
           p == Projection(q.type, d)
<1>1. /\ q \in Rows /\ t \in Tasks /\ q.type \in RequestTypes /\ r \in Requests
      /\ q.status = "PENDING" /\ PendingOf(t) = {r} /\ Asks(t, r)
      /\ d = "EXPIRE" \/ d \in Options(q.type)
      /\ request'[r].task = t /\ request'[r].type = q.type
      /\ request'[r].subject = q.subject /\ request'[r].resume = q.resume
      /\ request'[r].status = p.status /\ request'[r] # None
      /\ request' \in [Requests -> Rows \cup {None}]
      /\ \A s \in Requests : s # r => request'[s] = request[s]
  BY <1>0, AnswerIs DEF Existing
<1>2. /\ p.status \in Statuses \ {"PENDING"}
      /\ p.kind = "RESUME" => q.type # "BRIEF"
      /\ p.kind = "APPROVE_EXACT_BRIEF" => q.type = "BRIEF" /\ p.status = "APPROVED"
      /\ q.type = "REVIEW_RULE" /\ d = "APPROVE" => p.status = "APPROVED"
  BY <1>1, ProjectionIs
<1>3. /\ DOMAIN event' = DOMAIN event
      /\ state' = [state EXCEPT ![t] = state'[t]]
      /\ resume' = [resume EXCEPT ![t] = None]
      /\ state'[t] \in WorkStates \cup {"FAILED", "CANCELLED"}
      /\ resume'[t] = None
      /\ state'[t] \in {"IMPLEMENTING", "VALIDATING"} =>
            \/ p.kind = "APPROVE_EXACT_BRIEF"
            \/ p.kind = "RESUME" /\ state'[t] = resume[t]
  BY <1>0, AnswerMoves
<1>4. /\ brief' \in [Tasks -> Briefs]
      /\ \A u \in Tasks : /\ brief'[u].version = brief[u].version
                          /\ brief'[u].human = brief[u].human
                          /\ brief'[u].policy = brief[u].policy
                          /\ u # t => brief'[u] = brief[u]
      /\ status' \in [Candidates -> {"EVALUATED", "APPROVED", "REJECTED"}]
      /\ \A c \in Candidates : status[c] = "APPROVED" => status'[c] = "APPROVED"
      /\ Promotes(r, d) =>
            /\ q.subject \in Candidates /\ PromoteReviewRule(r, q.subject)
            /\ status[q.subject] # "APPROVED" /\ status'[q.subject] = "APPROVED"
      /\ ~Promotes(r, d) => UNCHANGED <<rules, policy>>
  BY <1>0, AnswerProjects
<1>5. Promotes(r, d) => p.status = "APPROVED"
  BY <1>2 DEF Promotes
<1> HIDE DEF p, q
<1>6. UNCHANGED <<versions, intact, due>>
  BY DEF DecideAs
<1>7. Existing' = Existing
  BY <1>1 DEF Existing
<1>8. Endures
  BY <1>1, <1>4, <1>7 DEF Endures, q, Existing
<1>9. /\ Learned' /\ Held' /\ rules' \in Seq(Rules) /\ policy' \in Seq(Seq(1 .. Len(rules')))
      /\ Len(policy') >= Len(policy) /\ Len(policy) \in Nat /\ Len(policy') \in Nat
  <2>1. TypeInv /\ Learned /\ Held /\ Len(policy) \in Nat
    BY DEF IInv, TypeInv
  <2>2. CASE Promotes(r, d)
    BY <1>1, <1>4, <1>5, <1>7, <1>8, <2>1, <2>2, PromotionKeeps
  <2>3. CASE ~Promotes(r, d)
    BY <1>4, <1>8, <2>1, <2>3, BookStays DEF TypeInv
  <2>4. QED BY <2>2, <2>3
<1>10. TypeInv'
  <2>1. state' \in [Tasks -> TaskStates] /\ resume' \in [Tasks -> WorkStates \cup {None}]
    BY <1>1, <1>3 DEF IInv, TypeInv, TaskStates
  <2>2. \A u \in Tasks : brief'[u].version <= versions'[u] /\ brief'[u].policy <= Len(policy')
    <3> SUFFICES ASSUME NEW u \in Tasks
                 PROVE  brief'[u].version <= versions'[u] /\ brief'[u].policy <= Len(policy')
      OBVIOUS
    <3>1. brief[u] \in Briefs /\ brief[u].version <= versions[u] /\ brief[u].policy <= Len(policy)
      BY DEF IInv, TypeInv
    <3>2. brief[u].policy \in Nat
      BY <3>1 DEF Briefs
    <3>3. QED BY <1>4, <1>6, <1>9, <3>1, <3>2
  <2>3. listed' \subseteq Existing' /\ due' \subseteq Existing'
    BY <1>6, <1>7 DEF IInv, TypeInv
  <2>4. QED BY <1>1, <1>3, <1>4, <1>6, <1>9, <2>1, <2>2, <2>3 DEF IInv, TypeInv
<1>11. Formed'
  <2>1. \A s \in Existing : s = r \/ request'[s] = request[s]
    BY <1>1 DEF Existing
  <2>2. QED BY <1>1, <1>7, <2>1 DEF IInv, Formed, q
<1>12. Found'
  BY <1>7 DEF IInv, Found
<1>13. Waits(t)'
  <2>1. PendingOf(t)' = {}
    <3> SUFFICES ASSUME NEW s \in Existing', request'[s].task = t, request'[s].status = "PENDING"
                 PROVE  FALSE
      BY DEF PendingOf
    <3>1. s # r /\ s \in Existing /\ request'[s] = request[s]
      BY <1>1, <1>2, <1>7 DEF Existing
    <3>2. QED BY <1>1, <3>1 DEF PendingOf
  <2>2. QED BY <1>3, <2>1 DEF Waits, WorkStates, WaitingStates
<1>14. Rests(t)'
  <2> SUFFICES ASSUME {state'[t], resume'[t]} \cap {"IMPLEMENTING", "VALIDATING"} # {}
               PROVE  /\ brief'[t].version # 0
                      /\ brief'[t].human => \E s \in Existing' : Approves(t, s)'
    BY DEF Rests
  <2>1. state'[t] \in {"IMPLEMENTING", "VALIDATING"}
    BY <1>3, NullAssumption DEF TaskStates, WorkStates
  <2>2. CASE p.kind = "APPROVE_EXACT_BRIEF"
    <3>1. q.type = "BRIEF" /\ p.status = "APPROVED"
      BY <1>2, <2>2
    <3>2. q.subject \in 1 .. MaxBriefs /\ brief[t].version = q.subject
      BY <1>1, <3>1 DEF IInv, Formed, Asks, ExactBrief, q
    <3>3. q.subject # 0
      BY <3>2, ApprovalAssumption
    <3>4. Approves(t, r)'
      BY <1>1, <1>4, <3>1, <3>2 DEF Approves
    <3>5. QED BY <1>1, <1>4, <1>7, <3>2, <3>3, <3>4
  <2>3. CASE p.kind = "RESUME" /\ state'[t] = resume[t]
    <3>1. brief[t].version # 0 /\ (brief[t].human => \E s \in Existing : Approves(t, s))
      BY <1>1, <2>1, <2>3 DEF IInv, Rests
    <3>2. \A s \in Existing : Approves(t, s) => Approves(t, s)'
      BY <1>1, <1>4 DEF Approves, q, Existing
    <3>3. QED BY <1>1, <1>4, <1>7, <3>1, <3>2
  <2>4. QED BY <1>3, <2>1, <2>2, <2>3
<1>15. ASSUME NEW u \in Tasks, u # t PROVE Waits(u)' /\ Rests(u)'
  <2>1. state'[u] = state[u] /\ resume'[u] = resume[u] /\ brief'[u] = brief[u]
    BY <1>1, <1>3, <1>4, <1>15 DEF IInv, TypeInv
  <2>2. \A s \in Requests : request'[s] = request[s]
                            \/ (request[s].task # u /\ request'[s].task # u)
    BY <1>0, <1>1, <1>15 DEF q
  <2>3. QED BY <2>1, <2>2, OthersStay DEF IInv
<1>16. QED BY <1>9, <1>10, <1>11, <1>12, <1>13, <1>14, <1>15 DEF IInv

-----------------------------------------------------------------------------
(* Briefs, steering, cancellation, work *)

\* A task that waits for nobody moves on, with the brief it has or with a new one.
LEMMA TaskMoves ==
    ASSUME IInv, NEW t \in Tasks, state[t] \notin WaitingStates,
           NEW s \in WorkStates \cup {"FAILED", "CANCELLED"}, NEW b \in Briefs,
           state' = [state EXCEPT ![t] = s], brief' = [brief EXCEPT ![t] = b],
           resume' = [resume EXCEPT ![t] = None],
           UNCHANGED <<request, status, intact, rules, policy, due, listed>>,
           DOMAIN event' = DOMAIN event,
           versions' \in [Tasks -> 0 .. MaxBriefs], \A u \in Tasks : versions[u] <= versions'[u],
           b.version <= versions'[t], b.policy <= Len(policy),
           s \in {"IMPLEMENTING", "VALIDATING"} =>
              /\ b.version # 0
              /\ b.human => b.version = brief[t].version /\ \E r \in Existing : Approves(t, r),
           cancelling' \in [Tasks -> Reads \cup {None}],
           \A u \in Tasks : cancelling'[u] = cancelling[u] \/ cancelling'[u] = None
    PROVE  IInv'
<1>1. Existing' = Existing
  BY DEF Existing
<1>2. /\ state'[t] = s /\ brief'[t] = b /\ resume'[t] = None
      /\ \A u \in Tasks : u # t => /\ state'[u] = state[u] /\ brief'[u] = brief[u]
                                   /\ resume'[u] = resume[u]
      /\ state' \in [Tasks -> TaskStates] /\ brief' \in [Tasks -> Briefs]
      /\ resume' \in [Tasks -> WorkStates \cup {None}]
  BY DEF IInv, TypeInv, TaskStates
<1>3. TypeInv'
  <2>1. \A u \in Tasks : brief'[u].version <= versions'[u] /\ brief'[u].policy <= Len(policy')
    <3> SUFFICES ASSUME NEW u \in Tasks, u # t
                 PROVE  brief'[u].version <= versions'[u] /\ brief'[u].policy <= Len(policy')
      BY <1>2
    <3>1. brief[u] \in Briefs /\ versions[u] \in 0 .. MaxBriefs /\ versions'[u] \in 0 .. MaxBriefs
          /\ brief[u].version <= versions[u] /\ brief[u].policy <= Len(policy)
      BY DEF IInv, TypeInv
    <3>2. brief[u].version \in 0 .. MaxBriefs
      BY <3>1 DEF Briefs
    <3>3. QED BY <1>2, <3>1, <3>2, ApprovalAssumption
  <2>2. QED BY <1>1, <1>2, <2>1 DEF IInv, TypeInv
<1>4. Formed' /\ Found'
  BY <1>1 DEF IInv, Formed, Found
<1>5. Learned' /\ Held'
  BY <1>1, BookStays DEF IInv, Endures
<1>6. PendingOf(t)' = PendingOf(t) /\ PendingOf(t) = {}
  <2>1. \A r \in PendingOf(t) : Asks(t, r)
    BY DEF IInv, Waits
  <2>2. QED BY <1>1, <2>1 DEF PendingOf, Asks, WaitsIn, WaitingStates
<1>7. Waits(t)'
  BY <1>2, <1>6 DEF Waits, WorkStates, WaitingStates
<1>8. Rests(t)'
  <2>1. {state'[t], resume'[t]} \cap {"IMPLEMENTING", "VALIDATING"} # {} =>
            s \in {"IMPLEMENTING", "VALIDATING"}
    BY <1>2, NullAssumption DEF TaskStates, WorkStates
  <2>2. b.version = brief[t].version => \A r \in Existing : Approves(t, r) => Approves(t, r)'
    BY <1>2 DEF Approves
  <2>3. QED BY <1>1, <1>2, <2>1, <2>2 DEF Rests
<1>9. \A u \in Tasks \ {t} : Waits(u)' /\ Rests(u)'
  BY <1>2, OthersStay DEF IInv
<1>10. QED BY <1>3, <1>4, <1>5, <1>7, <1>8, <1>9 DEF IInv

\* What a task that does not wait has.
LEMMA AtWork ==
    ASSUME IInv, NEW t \in Tasks, state[t] \notin WaitingStates
    PROVE  /\ resume = [resume EXCEPT ![t] = None]
           /\ brief[t] \in Briefs /\ brief = [brief EXCEPT ![t] = brief[t]]
           /\ brief[t].version <= versions[t] /\ brief[t].policy <= Len(policy)
           /\ versions \in [Tasks -> 0 .. MaxBriefs] /\ \A u \in Tasks : versions[u] <= versions[u]
<1>1. resume[t] = None /\ resume \in [Tasks -> WorkStates \cup {None}]
      /\ brief \in [Tasks -> Briefs] /\ versions \in [Tasks -> 0 .. MaxBriefs]
  BY DEF IInv, TypeInv, Waits
<1>2. \A u \in Tasks : versions[u] <= versions[u]
  BY <1>1, ApprovalAssumption
<1>3. QED BY <1>1, <1>2 DEF IInv, TypeInv

LEMMA StoreBriefKeeps ==
    ASSUME IInv, NEW t \in Tasks, NEW human \in BOOLEAN, StoreBrief(t, human) PROVE IInv'
<1> DEFINE b == [version |-> versions[t] + 1, human |-> human, policy |-> Len(policy),
                 response |-> None]
<1>1. state[t] = "BRIEFING" /\ state[t] \notin WaitingStates
  BY DEF StoreBrief, WaitingStates
<1>2. resume = [resume EXCEPT ![t] = None] /\ state = [state EXCEPT ![t] = "BRIEFING"]
  BY <1>1, AtWork DEF IInv, TypeInv
<1>3. /\ versions \in [Tasks -> 0 .. MaxBriefs] /\ versions[t] < MaxBriefs /\ MaxBriefs \in Nat
      /\ versions' = [versions EXCEPT ![t] = versions[t] + 1] /\ Len(policy) \in Nat
  BY ApprovalAssumption DEF StoreBrief, IInv, TypeInv
<1>4. /\ versions' \in [Tasks -> 0 .. MaxBriefs] /\ versions'[t] = versions[t] + 1
      /\ \A u \in Tasks : versions[u] <= versions'[u]
      /\ versions[t] + 1 \in 0 .. MaxBriefs
  BY <1>3
<1>5. b \in Briefs /\ b.version <= versions'[t] /\ b.policy <= Len(policy)
  BY <1>3, <1>4 DEF Briefs
<1>6. brief' = [brief EXCEPT ![t] = b]
  BY DEF StoreBrief
<1> HIDE DEF b
<1>7. UNCHANGED <<state, resume, request, event, status, intact, rules, policy, due, listed, cancelling>>
  BY DEF StoreBrief
<1>8. "BRIEFING" \in WorkStates /\ cancelling \in [Tasks -> Reads \cup {None}]
  BY DEF WorkStates, IInv, TypeInv
<1>9. QED BY <1>1, <1>2, <1>4, <1>5, <1>6, <1>7, <1>8, TaskMoves

LEMMA AutoAcceptKeeps == ASSUME IInv, NEW t \in Tasks, AutoAccept(t) PROVE IInv'
<1>1. state[t] \notin WaitingStates
  BY DEF AutoAccept, WaitingStates
<1>2. brief[t].version # 0 /\ ~brief[t].human
  BY DEF AutoAccept, BypassAllowed
<1>3. /\ state' = [state EXCEPT ![t] = "IMPLEMENTING"]
      /\ UNCHANGED <<resume, brief, versions, request, event, status, intact, rules, policy, due,
                     listed, cancelling>>
  BY DEF AutoAccept
<1>4. "IMPLEMENTING" \in WorkStates /\ cancelling \in [Tasks -> Reads \cup {None}]
  BY DEF WorkStates, IInv, TypeInv
<1>5. QED BY <1>1, <1>2, <1>3, <1>4, AtWork, TaskMoves

LEMMA WorkKeeps == ASSUME IInv, NEW t \in Tasks, Work(t) PROVE IInv'
<1>1. state[t] \in {"IMPLEMENTING", "VALIDATING"} /\ state[t] \notin WaitingStates
  BY DEF Work, WaitingStates
<1>2. brief[t].version # 0 /\ (brief[t].human => \E r \in Existing : Approves(t, r))
  BY <1>1 DEF IInv, Rests
<1>3. PICK s \in {"VALIDATING", "FAILED"} : state' = [state EXCEPT ![t] = s]
  BY DEF Work
<1>4. /\ UNCHANGED <<resume, brief, versions, request, event, status, intact, rules, policy, due,
                     listed, cancelling>>
  BY DEF Work
<1>5. s \in WorkStates \cup {"FAILED", "CANCELLED"} /\ cancelling \in [Tasks -> Reads \cup {None}]
  BY DEF WorkStates, IInv, TypeInv
<1>6. QED BY <1>1, <1>2, <1>3, <1>4, <1>5, AtWork, TaskMoves

\* A change of scope withdraws what the task waits on.
LEMMA SteerRows ==
    ASSUME IInv, NEW t \in Tasks, Steer(t)
    PROVE  /\ request' \in [Requests -> Rows \cup {None}] /\ Existing' = Existing
           /\ \A r \in Existing :
                 IF r \in PendingOf(t)
                 THEN /\ request'[r].task = request[r].task /\ request'[r].type = request[r].type
                      /\ request'[r].subject = request[r].subject
                      /\ request'[r].resume = request[r].resume
                      /\ request'[r].from = request[r].from
                      /\ request'[r].status = "CANCELLED" /\ request'[r].decision = "CANCEL"
                      /\ request'[r].id = SteeringId(r)
                 ELSE request'[r] = request[r]
           /\ \A r \in Requests \ PendingOf(t) : request'[r] = request[r]
<1> DEFINE w(r) == [request[r] EXCEPT !.status = "CANCELLED", !.decision = "CANCEL",
                                      !.id = SteeringId(r)]
<1>1. request' = [r \in Requests |-> IF r \in PendingOf(t) THEN w(r) ELSE request[r]]
  BY DEF Steer, Withdrawn
<1>2. PendingOf(t) \subseteq Existing /\ Existing \subseteq Requests
      /\ \A r \in Existing : request[r] \in Rows
  BY RowsExist DEF IInv, PendingOf, Existing
<1>3. \A r \in Existing :
          /\ w(r) \in Rows
          /\ w(r).task = request[r].task /\ w(r).type = request[r].type
          /\ w(r).subject = request[r].subject /\ w(r).resume = request[r].resume
          /\ w(r).from = request[r].from
          /\ w(r).status = "CANCELLED" /\ w(r).decision = "CANCEL" /\ w(r).id = SteeringId(r)
  <2> SUFFICES ASSUME NEW r \in Existing
               PROVE  /\ w(r) \in Rows
                      /\ w(r).task = request[r].task /\ w(r).type = request[r].type
                      /\ w(r).subject = request[r].subject /\ w(r).resume = request[r].resume
                      /\ w(r).from = request[r].from
                      /\ w(r).status = "CANCELLED" /\ w(r).decision = "CANCEL"
                      /\ w(r).id = SteeringId(r)
    OBVIOUS
  <2>1. request[r] \in Rows /\ r \in Requests
    BY <1>2
  <2>2. QED BY <2>1 DEF Rows, Statuses, Answers, Decisions
<1> HIDE DEF w
<1>4. request' \in [Requests -> Rows \cup {None}]
  BY <1>1, <1>2, <1>3 DEF IInv, TypeInv
<1>5. \A r \in Requests : request'[r] = IF r \in PendingOf(t) THEN w(r) ELSE request[r]
  BY <1>1
<1>6. Existing' = Existing
  <2>1. \A r \in PendingOf(t) : request'[r] # None /\ request[r] # None
    BY <1>2, <1>3, <1>5, NullAssumption
  <2>2. QED BY <1>2, <1>5, <2>1 DEF Existing
<1>7. QED BY <1>2, <1>3, <1>4, <1>5, <1>6

LEMMA SteerKeeps == ASSUME IInv, NEW t \in Tasks, Steer(t) PROVE IInv'
<1>1. /\ request' \in [Requests -> Rows \cup {None}] /\ Existing' = Existing
      /\ \A r \in PendingOf(t) : /\ request'[r].task = request[r].task
                                 /\ request'[r].type = request[r].type
                                 /\ request'[r].subject = request[r].subject
                                 /\ request'[r].resume = request[r].resume
                                 /\ request'[r].status = "CANCELLED"
      /\ \A r \in Requests \ PendingOf(t) : request'[r] = request[r]
      /\ PendingOf(t) \subseteq Existing /\ Existing \subseteq Requests
  BY SteerRows DEF PendingOf, Existing
<1>2. /\ state[t] \in WorkStates \cup {"BRIEF_PENDING_APPROVAL"}
      /\ brief' = [brief EXCEPT ![t] = Unbound] /\ state' = [state EXCEPT ![t] = "BRIEFING"]
      /\ UNCHANGED <<resume, versions, event, status, intact, rules, policy, due, listed, cancelling>>
  BY DEF Steer
<1>3. /\ Unbound \in Briefs /\ Unbound.version = 0 /\ Unbound.policy = 0
      /\ "BRIEFING" \in TaskStates
  BY ApprovalAssumption DEF Unbound, Briefs, TaskStates, WorkStates
<1>4. /\ state'[t] = "BRIEFING" /\ state' \in [Tasks -> TaskStates] /\ brief' \in [Tasks -> Briefs]
      /\ brief'[t] = Unbound
      /\ \A u \in Tasks : u # t => state'[u] = state[u] /\ brief'[u] = brief[u]
  BY <1>2, <1>3 DEF IInv, TypeInv
<1>5. resume'[t] = None
  <2>1. CASE state[t] \notin WaitingStates
    BY <1>2, <2>1 DEF IInv, Waits
  <2>2. CASE state[t] \in WaitingStates
    <3>1. PICK r \in PendingOf(t) : Asks(t, r)
      BY <2>2 DEF IInv, Waits
    <3>2. state[t] = "BRIEF_PENDING_APPROVAL"
      BY <1>2, <2>2 DEF WorkStates, WaitingStates
    <3>3. request[r].type = "BRIEF" /\ r \in Existing
      BY <3>1, <3>2 DEF Asks, WaitsIn, PendingOf
    <3>4. QED BY <1>2, <3>1, <3>3 DEF IInv, Formed, Asks
  <2>3. QED BY <2>1, <2>2
<1>6. TypeInv'
  <2>1. \A u \in Tasks : brief'[u].version <= versions'[u] /\ brief'[u].policy <= Len(policy')
    <3>1. \A u \in Tasks : versions[u] \in 0 .. MaxBriefs /\ Len(policy) \in Nat
      BY DEF IInv, TypeInv
    <3>2. \A u \in Tasks : brief[u].version <= versions[u] /\ brief[u].policy <= Len(policy)
      BY DEF IInv, TypeInv
    <3>3. QED BY <1>2, <1>3, <1>4, <3>1, <3>2, ApprovalAssumption
  <2>2. QED BY <1>1, <1>2, <1>4, <2>1 DEF IInv, TypeInv
<1>7. Formed'
  <2>1. \A r \in Existing : r \in PendingOf(t) \/ request'[r] = request[r]
    BY <1>1
  <2>2. QED BY <1>1, <2>1 DEF IInv, Formed
<1>8. Found'
  BY <1>1, <1>2, FoundStays DEF IInv
<1>9. Learned' /\ Held'
  <2>1. \A r \in PendingOf(t) : request[r].status = "PENDING"
    BY DEF PendingOf
  <2>2. Endures
    BY <1>1, <1>2, <2>1 DEF Endures
  <2>3. QED BY <1>2, <2>2, BookStays DEF IInv
<1>10. Waits(t)'
  <2>1. PendingOf(t)' = {}
    <3> SUFFICES ASSUME NEW r \in Existing', request'[r].task = t, request'[r].status = "PENDING"
                 PROVE  FALSE
      BY DEF PendingOf
    <3>1. r \notin PendingOf(t) /\ r \in Existing
      BY <1>1
    <3>2. request'[r] = request[r]
      BY <1>1, <3>1
    <3>3. QED BY <3>1, <3>2 DEF PendingOf
  <2>2. QED BY <1>4, <1>5, <2>1 DEF Waits, WaitingStates
<1>11. Rests(t)'
  BY <1>4, <1>5, NullAssumption DEF Rests, TaskStates, WorkStates
<1>12. ASSUME NEW u \in Tasks, u # t PROVE Waits(u)' /\ Rests(u)'
  <2>1. \A r \in Requests : \/ request'[r] = request[r]
                            \/ request[r].task # u /\ request'[r].task # u
    BY <1>1, <1>12 DEF PendingOf
  <2>2. QED BY <1>2, <1>4, <1>12, <2>1, OthersStay DEF IInv
<1>13. QED BY <1>6, <1>7, <1>8, <1>9, <1>10, <1>11, <1>12 DEF IInv

LEMMA CancelReadKeeps == ASSUME IInv, NEW t \in Tasks, CancelRead(t) PROVE IInv'
<1> DEFINE c == [state |-> state[t], pending |-> PendingOf(t)]
<1>1. /\ cancelling' = [cancelling EXCEPT ![t] = c]
      /\ UNCHANGED <<state, resume, brief, versions, request, event, status, intact, rules, policy,
                     due, listed>>
  BY DEF CancelRead
<1>2. c \in Reads /\ c.state = state[t] /\ c.pending = PendingOf(t)
  BY DEF Reads, IInv, TypeInv, PendingOf, Existing
<1>3. PendingOf(t) = {} => state[t] \notin WaitingStates
  BY DEF IInv, Waits
<1> HIDE DEF c
<1>4. cancelling' \in [Tasks -> Reads \cup {None}]
  BY <1>1, <1>2 DEF IInv, TypeInv
<1>5. \A u \in Tasks : cancelling'[u] = IF u = t THEN c ELSE cancelling[u]
  BY <1>1 DEF IInv, TypeInv
<1>6. Existing' = Existing /\ PendingOf(t) \subseteq Existing
  BY <1>1 DEF Existing, PendingOf
<1>7. Found'
  BY <1>2, <1>3, <1>5, <1>6 DEF IInv, Found
<1>8. QED BY <1>1, <1>4, <1>7, QuestionsStay DEF IInv, TypeInv

\* The id an answer is given, and the answer it becomes.
LEMMA GivenIds ==
    /\ DecisionIds \subseteq Ids /\ \A r \in Requests : ExpiryId(r) \in Ids
    /\ \A r, d : d \in Decisions => Effective(r, d) \in Answers
    /\ "EXPIRE" \in Answers /\ "CANCEL" \in Decisions
  BY DEF Ids, Effective, Answers, Decisions

LEMMA CancelTaskKeeps ==
    ASSUME IInv, NEW t \in Tasks, NEW id \in DecisionIds, CancelTask(t, id) PROVE IInv'
<1>1. /\ cancelling[t] # None /\ cancelling' = [cancelling EXCEPT ![t] = None] /\ listed' = listed
      /\ cancelling \in [Tasks -> Reads \cup {None}]
  BY DEF CancelTask, IInv, TypeInv
<1>2. /\ cancelling' \in [Tasks -> Reads \cup {None}]
      /\ \A u \in Tasks : cancelling'[u] = cancelling[u] \/ cancelling'[u] = None
  BY <1>1
<1>3. ASSUME NEW r \in cancelling[t].pending, DecideAs(r, id, Effective(r, "CANCEL"))
      PROVE  IInv'
  <2>1. r \in Existing
    BY <1>1 DEF IInv, Found
  <2>2. id \in Ids /\ Effective(r, "CANCEL") \in Answers
    BY GivenIds
  <2>3. QED BY <1>1, <1>2, <1>3, <2>1, <2>2, AnswerKeeps
<1>4. ASSUME cancelling[t].pending = {}, ~CancelSeesChange(t), Transition(t, id, "CANCEL"),
             UNCHANGED <<brief, versions, request, status, intact, rules, policy, due>>
      PROVE  IInv'
  <2>1. state[t] \notin WaitingStates
    BY <1>1, <1>4 DEF IInv, Found, CancelSeesChange
  <2>2. /\ state' = [state EXCEPT ![t] = "CANCELLED"] /\ resume' = [resume EXCEPT ![t] = None]
        /\ DOMAIN event' = DOMAIN event
    BY <1>4 DEF Transition, Target
  <2>3. QED BY <1>1, <1>2, <1>4, <2>1, <2>2, AtWork, TaskMoves
<1>5. ASSUME UNCHANGED <<state, resume, brief, versions, request, event, status, intact, rules,
                         policy, due>>
      PROVE  IInv'
  <2>1. Existing' = Existing
    BY <1>5 DEF Existing
  <2>2. Found'
    BY <1>2, <2>1 DEF IInv, Found
  <2>3. QED BY <1>1, <1>2, <1>5, <2>2, QuestionsStay DEF IInv, TypeInv
<1>6. QED BY <1>3, <1>4, <1>5 DEF CancelTask

LEMMA DecideKeeps ==
    ASSUME IInv, NEW r \in Requests, NEW id \in DecisionIds, NEW given \in Decisions,
           NEW recent \in {"yes", "no"}, NEW review \in {None, "passed", "stale"},
           Decide(r, id, given, recent, review)
    PROVE  IInv'
<1>1. r \in Existing /\ DecideAs(r, id, Effective(r, given)) /\ UNCHANGED <<listed, cancelling>>
  BY DEF Decide
<1>2. id \in Ids /\ Effective(r, given) \in Answers /\ cancelling \in [Tasks -> Reads \cup {None}]
  BY GivenIds DEF IInv, TypeInv
<1>3. QED BY <1>1, <1>2, AnswerKeeps

LEMMA ListExpiredKeeps == IInv /\ ListExpired => IInv'
<1> SUFFICES ASSUME IInv, ListExpired PROVE IInv'
  OBVIOUS
<1>1. /\ listed' \subseteq Existing
      /\ UNCHANGED <<state, resume, brief, versions, request, event, status, intact, rules, policy,
                     due, cancelling>>
  BY DEF ListExpired
<1>2. Existing' = Existing
  BY <1>1 DEF Existing
<1>3. QED BY <1>1, <1>2, FoundStays, QuestionsStay DEF IInv, TypeInv

LEMMA ExpireNextKeeps == ASSUME IInv, NEW r \in Requests, ExpireNext(r) PROVE IInv'
<1>1. r \in Existing /\ listed' \subseteq listed /\ cancelling' = cancelling
      /\ cancelling' \in [Tasks -> Reads \cup {None}]
  BY DEF ExpireNext, IInv, TypeInv
<1>2. CASE DecideAs(r, ExpiryId(r), "EXPIRE")
  BY <1>1, <1>2, AnswerKeeps, GivenIds
<1>3. CASE UNCHANGED <<state, resume, brief, versions, request, event, status, intact, rules, policy,
                       due>>
  <2>1. Existing' = Existing
    BY <1>3 DEF Existing
  <2>2. QED BY <1>1, <1>3, <2>1, FoundStays, QuestionsStay DEF IInv, TypeInv
<1>4. QED BY <1>2, <1>3 DEF ExpireNext

\* The clock, and what others delete.
LEMMA OthersKeep ==
    ASSUME IInv, \/ \E r \in Requests : Overdue(r)
                 \/ \E e \in Candidates \cup Requests : LoseEvidence(e)
                 \/ UNCHANGED vars
    PROVE  IInv'
<1>1. /\ UNCHANGED <<state, resume, brief, versions, request, event, status, rules, policy, listed,
                     cancelling>>
      /\ intact' \subseteq Candidates \cup Requests /\ due' \subseteq Existing
  BY DEF Overdue, LoseEvidence, vars, IInv, TypeInv
<1>2. Existing' = Existing
  BY <1>1 DEF Existing
<1>3. QED BY <1>1, <1>2, FoundStays, QuestionsStay DEF IInv, TypeInv

\* The owner's other activations: a rollback, and another prompt.
LEMMA ActivationKeeps == ASSUME IInv, Rollback \/ PromotePrompt PROVE IInv'
<1>1. UNCHANGED <<state, resume, brief, versions, request, event, status, intact, rules, due, listed,
                  cancelling>>
  BY DEF Rollback, PromotePrompt
<1>2. PICK q \in Last : q > 0 /\ policy' = Append(policy, policy[q])
  <2>1. Len(policy) \in Nat \ {0}
    BY DEF IInv, TypeInv, Held
  <2>2. CASE Rollback
    BY <2>1, <2>2 DEF Rollback, Last
  <2>3. CASE PromotePrompt
    BY <2>1, <2>3 DEF PromotePrompt, ActivePolicy, Last
  <2>4. QED BY <2>2, <2>3
<1>3. /\ Held' /\ policy' \in Seq(Seq(1 .. Len(rules'))) /\ Len(policy') = Len(policy) + 1
  BY <1>1, <1>2, RepeatKeeps DEF IInv
<1>4. Existing' = Existing
  BY <1>1 DEF Existing
<1>5. TypeInv' /\ Formed'
  <2>1. \A t \in Tasks : brief'[t].version <= versions'[t] /\ brief'[t].policy <= Len(policy')
    <3>1. \A t \in Tasks : brief[t].policy \in Nat
      BY DEF IInv, TypeInv, Briefs
    <3>2. Len(policy) \in Nat
      BY DEF IInv, TypeInv
    <3>3. QED BY <1>1, <1>3, <3>1, <3>2 DEF IInv, TypeInv
  <2>2. QED BY <1>1, <1>3, <1>4, <2>1 DEF IInv, TypeInv, Formed
<1>6. Learned'
  <2>1. \A n : Upto(n)' = Upto(n)
    BY <1>1 DEF Upto
  <2>2. QED BY <1>1, <1>4, <2>1 DEF IInv, Learned
<1>7. Found' /\ \A t \in Tasks : Waits(t)' /\ Rests(t)'
  BY <1>1, <1>4, FoundStays, OthersStay DEF IInv
<1>8. QED BY <1>3, <1>5, <1>6, <1>7 DEF IInv

LEMMA StepKeeps == IInv /\ [Next]_vars => IInv'
<1> SUFFICES ASSUME IInv, Next \/ UNCHANGED vars PROVE IInv'
  OBVIOUS
<1>1. QED
  BY RequestKeeps, DecideKeeps, ListExpiredKeeps, ExpireNextKeeps, StoreBriefKeeps, AutoAcceptKeeps,
     SteerKeeps, CancelReadKeeps, CancelTaskKeeps, WorkKeeps, OthersKeep, ActivationKeeps DEF Next

-----------------------------------------------------------------------------
(* What follows *)

\* Every call of the approval, briefing, steering and cancellation services, in any order
\* of their transactions, keeps the invariant.
THEOREM Invariance == Spec => []IInv
<1>1. QED BY Initially, StepKeeps, PTL DEF Spec

\* Requests, briefs, candidates and policies have the values the columns can hold, and an
\* answer leaves a status and not the decision itself (_decision_projection).
THEOREM TypeCorrect == Spec => []TypeOK
<1>1. IInv => TypeOK
  <2> SUFFICES ASSUME IInv PROVE TypeOK
    OBVIOUS
  <2>1. TypeInv /\ resume \in [Tasks -> TaskStates \cup {None}]
    BY DEF IInv, TypeInv, TaskStates
  <2>2. ASSUME NEW t \in Tasks
        PROVE  /\ brief[t].version \in 0 .. versions[t] /\ brief[t].human \in BOOLEAN
               /\ brief[t].policy \in 0 .. Len(policy) /\ brief[t].response \in Answers \cup {None}
    <3>1. brief[t] \in Briefs /\ brief[t].version <= versions[t] /\ brief[t].policy <= Len(policy)
          /\ versions[t] \in 0 .. MaxBriefs /\ Len(policy) \in Nat
      BY <2>1 DEF TypeInv
    <3>2. brief[t].version \in 0 .. MaxBriefs /\ brief[t].human \in BOOLEAN
          /\ brief[t].policy \in Nat /\ brief[t].response \in Answers \cup {None}
      BY <3>1 DEF Briefs
    <3>3. QED BY <3>1, <3>2, ApprovalAssumption
  <2>3. \A n \in 1 .. Len(policy) : policy[n] \in Seq(1 .. Len(rules))
    BY <2>1 DEF TypeInv
  <2>4. QED BY <2>1, <2>2, <2>3 DEF TypeInv, TypeOK
<1>2. QED BY <1>1, Invariance, PTL

\* A task waits exactly while one request of it is pending, of the kind its state is for,
\* and resumes where that request was raised (request, decide, _fence_scope_work).
THEOREM OneQuestionAWait == Spec => []WaitingHasOneQuestion
<1>1. IInv => WaitingHasOneQuestion
  <2> SUFFICES ASSUME IInv, NEW t \in Tasks
               PROVE  /\ Cardinality(PendingOf(t)) = IF state[t] \in WaitingStates THEN 1 ELSE 0
                      /\ \A r \in PendingOf(t) : /\ state[t] = WaitsIn(request[r].type)
                                                 /\ resume[t] = request[r].resume
    BY DEF WaitingHasOneQuestion
  <2>1. \A r \in PendingOf(t) : Asks(t, r)
    BY DEF IInv, Waits
  <2>2. CASE state[t] \in WaitingStates
    <3>1. PICK r \in PendingOf(t) : TRUE
      BY <2>2 DEF IInv, Waits
    <3>2. PendingOf(t) = {r}
      BY <3>1 DEF IInv, Waits
    <3>3. QED BY <2>1, <2>2, <3>2, FS_Singleton DEF Asks
  <2>3. CASE state[t] \notin WaitingStates
    <3>1. PendingOf(t) = {}
      BY <2>1, <2>3 DEF Asks, WaitsIn, WaitingStates
    <3>2. QED BY <2>3, <3>1, FS_EmptySet
  <2>4. QED BY <2>2, <2>3
<1>2. QED BY <1>1, Invariance, PTL

\* Only lost evidence can keep a waiting task: while that of its question stands, the
\* question can be cancelled, or expired once its deadline has passed, whatever happened to
\* its subject and to the policy (decide, _verify_transition_evidence, expire_due).
THEOREM NobodyWaitsInVain == Spec => []WaitingCanBeReleased
<1>1. IInv => WaitingCanBeReleased
  <2> SUFFICES ASSUME IInv, NEW t \in Tasks, state[t] \in WaitingStates
               PROVE  \E r \in PendingOf(t) :
                         EvidenceStands(r) => CanDecide(r, Effective(r, "CANCEL"))
    BY DEF WaitingCanBeReleased
  <2>1. PICK r \in PendingOf(t) : Asks(t, r)
    BY DEF IInv, Waits
  <2>2. r \in Existing /\ request[r].task = t /\ request[r].status = "PENDING"
    BY DEF PendingOf
  <2>3. request[r].type \in RequestTypes
    BY <2>2, RowsExist, ApprovalAssumption DEF IInv, Rows
  <2>4. "CANCEL" \in Options(request[r].type)
    <3>1. \A type \in RequestTypes : "CANCEL" \in Options(type)
      BY DEF Options, RequestTypes
    <3>2. QED BY <2>3, <3>1
  <2>5. Effective(r, "CANCEL") \notin Preconditioned \cup PolicyBound
    BY DEF Effective, Preconditioned, Approving, PolicyBound
  <2>6. IF Effective(r, "CANCEL") = "EXPIRE" THEN r \in due
        ELSE Effective(r, "CANCEL") \in Options(request[r].type)
    BY <2>4 DEF Effective
  <2>7. EvidenceStands(r) => CanDecide(r, Effective(r, "CANCEL"))
    BY <2>1, <2>2, <2>5, <2>6 DEF CanDecide, Undecided, Asks
  <2>8. QED BY <2>7
<1>2. QED BY <1>1, Invariance, PTL

\* Work rests on the bound brief, which the policy let pass or the owner approved in answer
\* to a request that named exactly this version (BriefingService, _project_subject_decision).
THEOREM WorkIsApproved == Spec => []WorkRestsOnApproval
<1>1. IInv => WorkRestsOnApproval
  BY DEF IInv, Rests, Approves, WorkRestsOnApproval
<1>2. QED BY <1>1, Invariance, PTL

\* Every rule stems from one approved request, the versions of a lineage are a chain, and in
\* force is the newest rule of a lineage, or, if the very next activation took that rule back,
\* what was in force before it: no rollback reaches a rule that survived an activation
\* (_promote_review_rule, PolicyActivationService.rollback, PromptCompilerService.promote).
THEOREM ApprovedRulesStayInForce == Spec => []RulesInForce
<1>1. IInv => RulesInForce
  <2> SUFFICES ASSUME IInv PROVE RulesInForce
    OBVIOUS
  <2>1. Learned /\ Held
    BY DEF IInv
  <2>2. ASSUME NEW n \in 1 .. Len(rules), Newest(n) PROVE Took(n, Len(policy))
    <3>1. Standing(n) /\ Len(policy) \in Nat
      BY <2>1, <2>2 DEF Held, IInv, TypeInv
    <3>2. QED BY <3>1 DEF Standing, Last
  <2>3. QED
    BY <2>1, <2>2 DEF Learned, Held, Newest, Lineage, Members, Took, InForce, RulesInForce
<1>2. QED BY <1>1, Invariance, PTL

\* Once the deadline of an open question has passed nothing but an expiry answers it,
\* however late the sweep runs and however early it read its list (decide, expire_due).
THEOREM DeadlinesHold == Spec => DeadlineHolds
<1> DEFINE Holds == \A r \in due : request'[r] # request[r] /\ request'[r].id \in Ids
                                       => request'[r].status = "EXPIRED"
<1>1. ASSUME IInv, NEW r \in Existing, NEW id \in Ids, NEW d \in Answers, DecideAs(r, id, d),
             r \in due => d = "EXPIRE"
      PROVE  Holds
  <2>1. \A s \in Requests : s # r => request'[s] = request[s]
    BY <1>1, AnswerIs
  <2>2. d = "EXPIRE" => request'[r].status = "EXPIRED"
    BY <1>1, AnswerIs, ProjectionIs
  <2>3. due \subseteq Requests
    BY <1>1 DEF IInv, TypeInv, Existing
  <2>4. QED BY <1>1, <2>1, <2>2, <2>3
<1>2. ASSUME IInv, NEW r \in Existing, NEW id \in DecisionIds, NEW given \in Decisions,
             DecideAs(r, id, Effective(r, given))
      PROVE  Holds
  <2>1. r \in due => Effective(r, given) = "EXPIRE"
    BY DEF Effective
  <2> HIDE DEF Holds
  <2>2. QED BY <1>1, <1>2, <2>1, GivenIds
<1>3. ASSUME IInv, request' = request PROVE Holds
  BY <1>3
<1>4. ASSUME IInv, NEW r \in Requests, NEW t \in Tasks, NEW type \in Types, NEW subject \in Subjects,
             Request(r, t, type, subject)
      PROVE  Holds
  <2>1. r \notin due /\ due \subseteq Requests
    BY <1>4 DEF Request, IInv, TypeInv, Existing
  <2>2. \A s \in Requests : s # r => request'[s] = request[s]
    BY <1>4 DEF Request, IInv, TypeInv
  <2>3. QED BY <2>1, <2>2
<1>5. ASSUME IInv, NEW t \in Tasks, Steer(t) PROVE Holds
  <2>1. due \subseteq Existing /\ Existing \subseteq Requests
    BY <1>5 DEF IInv, TypeInv, Existing
  <2>2. \A r \in Existing : request'[r] = request[r] \/ request'[r].id = SteeringId(r)
    BY <1>5, SteerRows
  <2>3. QED BY <2>1, <2>2, NullAssumption
<1>6. ASSUME IInv, NEW t \in Tasks, NEW id \in DecisionIds, CancelTask(t, id) PROVE Holds
  <2>1. CASE request' = request
    BY <1>3, <1>6, <2>1
  <2>2. ASSUME NEW r \in cancelling[t].pending, cancelling[t] # None,
               DecideAs(r, id, Effective(r, "CANCEL"))
        PROVE  Holds
    <3>1. r \in Existing
      BY <1>6, <2>2 DEF IInv, Found
    <3> HIDE DEF Holds
    <3>2. QED BY <1>2, <1>6, <2>2, <3>1, GivenIds
  <2> HIDE DEF Holds
  <2>3. QED BY <1>6, <2>1, <2>2 DEF CancelTask
<1>7. ASSUME IInv, NEW r \in Requests, ExpireNext(r) PROVE Holds
  <2>1. CASE request' = request
    BY <1>3, <1>7, <2>1
  <2>2. CASE DecideAs(r, ExpiryId(r), "EXPIRE")
    <3>1. r \in Existing
      BY <1>7 DEF ExpireNext, IInv, TypeInv
    <3> HIDE DEF Holds
    <3>2. QED BY <1>1, <1>7, <2>2, <3>1, GivenIds
  <2>3. QED BY <1>7, <2>1, <2>2 DEF ExpireNext
<1>8. IInv /\ [Next]_vars => Holds
  <2> SUFFICES ASSUME IInv, Next \/ UNCHANGED vars PROVE Holds
    OBVIOUS
  <2> HIDE DEF Holds
  <2>1. CASE UNCHANGED vars
    BY <1>3, <2>1 DEF vars
  <2>2. CASE \E r \in Requests, id \in DecisionIds, given \in Decisions, recent \in {"yes", "no"},
                review \in {None, "passed", "stale"} : Decide(r, id, given, recent, review)
    BY <1>2, <2>2 DEF Decide
  <2>3. CASE \/ ListExpired \/ \E t \in Tasks, human \in BOOLEAN : StoreBrief(t, human)
             \/ \E t \in Tasks : AutoAccept(t) \/ CancelRead(t) \/ Work(t)
             \/ \E r \in Requests : Overdue(r)
             \/ \E e \in Candidates \cup Requests : LoseEvidence(e)
             \/ Rollback \/ PromotePrompt
    BY <1>3, <2>3 DEF ListExpired, StoreBrief, AutoAccept, CancelRead, Work, Overdue, LoseEvidence,
                      Rollback, PromotePrompt
  <2>4. QED BY <1>4, <1>5, <1>6, <1>7, <2>1, <2>2, <2>3 DEF Next
<1>9. IInv /\ [Next]_vars => [Holds]_vars
  BY <1>8
<1>10. QED BY <1>9, Invariance, PTL DEF Spec, DeadlineHolds

-----------------------------------------------------------------------------
(* The promise *)

\* Outside an escalation there is nothing to resume.
LEMMA NothingToResume ==
    ASSUME IInv, NEW t \in Tasks, state[t] # "ESCALATED"
    PROVE  resume = [resume EXCEPT ![t] = None]
<1>1. resume \in [Tasks -> WorkStates \cup {None}]
  BY DEF IInv, TypeInv
<1>2. CASE state[t] \notin WaitingStates
  BY <1>1, <1>2 DEF IInv, Waits
<1>3. CASE state[t] = "BRIEF_PENDING_APPROVAL"
  <2>1. PICK r \in PendingOf(t) : Asks(t, r)
    BY <1>3 DEF IInv, Waits, WaitingStates
  <2>2. request[r].type = "BRIEF" /\ resume[t] = request[r].resume
    BY <1>3, <2>1 DEF Asks, WaitsIn
  <2>3. resume[t] = None
    BY <2>1, <2>2 DEF IInv, Formed, PendingOf
  <2>4. QED BY <1>1, <2>3
<1>4. QED BY <1>2, <1>3 DEF WaitingStates

\* A question stops the task where it is.
LEMMA RequestPromised ==
    ASSUME IInv, NEW r \in Requests, NEW t \in Tasks, NEW type \in Types, NEW subject \in Subjects,
           Request(r, t, type, subject)
    PROVE  Promise!Next
<1>1. CASE type = "BRIEF"
  <2>1. state[t] = "BRIEFING" /\ Promise!Becomes(t, "BRIEF_PENDING_APPROVAL", None)
    BY <1>1 DEF Request, Transition, Target, Promise!Becomes
  <2>2. Promise!Proceed(t, "BRIEF_PENDING_APPROVAL")
    BY <2>1 DEF Promise!Proceed, Promise!Steps
  <2>3. QED BY <2>2 DEF Promise!Next, Promise!Underway
<1>2. CASE type # "BRIEF"
  <2>1. state[t] \in Promise!Underway /\ Promise!Becomes(t, "ESCALATED", state[t])
    BY <1>2 DEF Request, Transition, Target, Promise!Becomes, Promise!Underway, WorkStates
  <2>2. QED BY <2>1 DEF Promise!Next, Promise!Escalate
<1>3. QED BY <1>1, <1>2

\* An answer returns the task to where the question was raised, or ends it.
LEMMA AnswerPromised ==
    ASSUME IInv, NEW r \in Existing, NEW id \in Ids, NEW d \in Answers, DecideAs(r, id, d)
    PROVE  Promise!Next
<1> DEFINE q == request[r]
           t == q.task
           kind == Projection(q.type, d).kind
<1>1. /\ t \in Tasks /\ q.type \in RequestTypes /\ state[t] = WaitsIn(q.type)
      /\ d = "EXPIRE" \/ d \in Options(q.type)
  BY AnswerIs DEF Asks
<1>2. /\ kind \in {"CANCEL", "FAIL", "APPROVE_EXACT_BRIEF", "REVISE_BRIEF", "RESUME"}
      /\ kind = "RESUME" => q.type # "BRIEF"
      /\ kind = "APPROVE_EXACT_BRIEF" => q.type = "BRIEF"
  BY <1>1, ProjectionIs
<1>3. kind = "REVISE_BRIEF" => q.type = "BRIEF"
  BY DEF Projection
<1>4. Promise!Becomes(t, Target(t, kind), None)
  BY <1>2 DEF DecideAs, Transition, Promise!Becomes
<1>5. CASE kind \in {"CANCEL", "FAIL"}
  <2>1. state[t] \in Promise!Underway \cup {"ESCALATED"}
    BY <1>1 DEF WaitsIn, Promise!Underway
  <2>2. Target(t, kind) \in {"FAILED", "CANCELLED"}
    BY <1>5 DEF Target
  <2> HIDE DEF kind, t
  <2>3. QED BY <1>1, <1>4, <2>1, <2>2 DEF Promise!Next, Promise!Stop
<1>6. CASE kind = "APPROVE_EXACT_BRIEF"
  <2>1. state[t] = "BRIEF_PENDING_APPROVAL" /\ Target(t, kind) = "IMPLEMENTING"
    BY <1>1, <1>2, <1>6 DEF WaitsIn, Target
  <2> HIDE DEF kind, t
  <2>2. Promise!Proceed(t, "IMPLEMENTING")
    BY <1>4, <2>1 DEF Promise!Proceed, Promise!Steps
  <2>3. QED BY <1>1, <2>2 DEF Promise!Next, Promise!Underway
<1>7. CASE kind = "REVISE_BRIEF"
  <2>1. state[t] = "BRIEF_PENDING_APPROVAL" /\ Target(t, kind) = "BRIEFING"
    BY <1>1, <1>3, <1>7 DEF WaitsIn, Target
  <2> HIDE DEF kind, t
  <2>2. QED BY <1>1, <1>4, <2>1 DEF Promise!Next, Promise!Rescope, Promise!Underway
<1>8. CASE kind = "RESUME"
  <2>1. state[t] = "ESCALATED" /\ Target(t, kind) = resume[t]
    BY <1>1, <1>2, <1>8 DEF WaitsIn, Target
  <2> HIDE DEF kind, t
  <2>2. QED BY <1>1, <1>4, <2>1 DEF Promise!Next, Promise!Resume
<1>9. QED BY <1>2, <1>5, <1>6, <1>7, <1>8

\* Briefing, work and steering move a task that is underway.
LEMMA ServicesPromised ==
    ASSUME IInv, NEW t \in Tasks, AutoAccept(t) \/ Work(t) \/ Steer(t)
    PROVE  Promise!Next
<1>1. CASE AutoAccept(t) \/ Work(t)
  <2>1. PICK s \in {"IMPLEMENTING", "VALIDATING", "FAILED"} :
           /\ state' = [state EXCEPT ![t] = s] /\ resume' = resume
           /\ state[t] # "ESCALATED"
           /\ \/ <<state[t], s>> \in {<<"BRIEFING", "IMPLEMENTING">>, <<"IMPLEMENTING", "VALIDATING">>}
              \/ state[t] = "VALIDATING" /\ s = "FAILED"
    BY <1>1 DEF AutoAccept, Work
  <2>2. Promise!Becomes(t, s, None)
    BY <2>1, NothingToResume DEF Promise!Becomes
  <2>3. CASE s = "FAILED"
    BY <2>1, <2>2, <2>3 DEF Promise!Next, Promise!Stop, Promise!Underway
  <2>4. CASE s # "FAILED"
    <3>1. Promise!Proceed(t, s) /\ s \in Promise!Underway
      BY <2>1, <2>2, <2>4 DEF Promise!Proceed, Promise!Steps, Promise!Underway
    <3>2. QED BY <3>1 DEF Promise!Next
  <2>5. QED BY <2>3, <2>4
<1>2. CASE Steer(t)
  <2>1. state[t] \in Promise!Underway /\ state[t] # "ESCALATED"
    BY <1>2 DEF Steer, WorkStates, Promise!Underway
  <2>2. Promise!Becomes(t, "BRIEFING", None)
    BY <1>2, <2>1, NothingToResume DEF Steer, Promise!Becomes
  <2>3. QED BY <2>1, <2>2 DEF Promise!Next, Promise!Rescope
<1>3. QED BY <1>1, <1>2

\* A cancellation goes on only for a task it has found alive.
FoundAlive ==
    \A t \in Tasks : cancelling[t] # None => cancelling[t].state \notin {"FAILED", "CANCELLED"}

LEMMA FoundAliveStays == IInv /\ FoundAlive /\ [Next]_vars => FoundAlive'
<1> SUFFICES ASSUME IInv, FoundAlive, Next \/ UNCHANGED vars, cancelling' # cancelling
             PROVE  FoundAlive'
  BY DEF FoundAlive
<1>1. cancelling \in [Tasks -> Reads \cup {None}]
  BY DEF IInv, TypeInv
<1>2. PICK t \in Tasks : CancelRead(t) \/ \E id \in DecisionIds : CancelTask(t, id)
  BY DEF Next, vars, Request, Decide, ListExpired, ExpireNext, StoreBrief, AutoAccept, Steer, Work,
         Overdue, LoseEvidence, Rollback, PromotePrompt
<1>3. CASE CancelRead(t)
  BY <1>1, <1>3 DEF CancelRead, FoundAlive
<1>4. CASE \E id \in DecisionIds : CancelTask(t, id)
  <2>1. cancelling' = [cancelling EXCEPT ![t] = None]
    BY <1>4 DEF CancelTask
  <2>2. QED BY <1>1, <2>1 DEF FoundAlive
<1>5. QED BY <1>2, <1>3, <1>4

\* A cancellation answers the question it read, or ends a task that is as it was read.
LEMMA CancelPromised ==
    ASSUME IInv, FoundAlive, NEW t \in Tasks, NEW id \in DecisionIds, CancelTask(t, id),
           ~UNCHANGED <<state, resume>>
    PROVE  Promise!Next
<1>1. cancelling[t] # None
  BY DEF CancelTask
<1>2. ASSUME NEW r \in cancelling[t].pending, DecideAs(r, id, Effective(r, "CANCEL"))
      PROVE  Promise!Next
  <2>1. r \in Existing /\ id \in Ids /\ Effective(r, "CANCEL") \in Answers
    BY <1>1, GivenIds DEF IInv, Found
  <2>2. QED BY <1>2, <2>1, AnswerPromised
<1>3. ASSUME ~CancelSeesChange(t), Transition(t, id, "CANCEL") PROVE Promise!Next
  <2>1. state[t] = cancelling[t].state
    BY <1>3 DEF CancelSeesChange
  <2>2. Promise!Becomes(t, "CANCELLED", None)
    BY <1>3 DEF Transition, Target, Promise!Becomes
  <2>3. state[t] \in TaskStates \ {"FAILED", "CANCELLED"}
    BY <1>1, <2>1 DEF FoundAlive, IInv, TypeInv
  <2>4. state[t] \in Promise!Underway \cup {"ESCALATED"}
    BY <2>3 DEF TaskStates, WorkStates, WaitingStates, Promise!Underway
  <2>5. QED BY <2>2, <2>4 DEF Promise!Next, Promise!Stop
<1>4. QED BY <1>2, <1>3 DEF CancelTask

\* Every step of the services is a step of the promise, or leaves the task alone.
LEMMA StepPromised == IInv /\ FoundAlive /\ [Next]_vars => [Promise!Next]_(Promise!promise)
<1> SUFFICES ASSUME IInv, FoundAlive, Next, ~UNCHANGED <<state, resume>> PROVE Promise!Next
  BY DEF Promise!promise, vars
<1>1. ASSUME NEW r \in Requests, NEW t \in Tasks, NEW type \in Types, NEW subject \in Subjects,
             Request(r, t, type, subject)
      PROVE  Promise!Next
  BY <1>1, RequestPromised
<1>2. ASSUME NEW r \in Requests, NEW id \in DecisionIds, NEW given \in Decisions,
             NEW recent \in {"yes", "no"}, NEW review \in {None, "passed", "stale"},
             Decide(r, id, given, recent, review)
      PROVE  Promise!Next
  <2>1. r \in Existing /\ DecideAs(r, id, Effective(r, given))
    BY <1>2 DEF Decide
  <2>2. QED BY <2>1, GivenIds, AnswerPromised
<1>3. ASSUME NEW r \in Requests, ExpireNext(r) PROVE Promise!Next
  <2>1. r \in Existing
    BY <1>3 DEF ExpireNext, IInv, TypeInv
  <2>2. DecideAs(r, ExpiryId(r), "EXPIRE")
    BY <1>3 DEF ExpireNext
  <2>3. QED BY <2>1, <2>2, GivenIds, AnswerPromised
<1>4. ASSUME NEW t \in Tasks, AutoAccept(t) \/ Work(t) \/ Steer(t) PROVE Promise!Next
  BY <1>4, ServicesPromised
<1>5. ASSUME NEW t \in Tasks, NEW id \in DecisionIds, CancelTask(t, id) PROVE Promise!Next
  BY <1>5, CancelPromised
<1>6. QED
  BY <1>1, <1>2, <1>3, <1>4, <1>5
     DEF Next, ListExpired, StoreBrief, CancelRead, Overdue, LoseEvidence, Rollback, PromotePrompt

\* Whatever is asked, answered late, withdrawn or cancelled in between, a task keeps to the
\* edges of the life cycle (ApprovalService.request and decide, cancel_task).
THEOREM PromiseIsKept == Spec => WaitKeepsPromise
<1>1. Init => Promise!Init /\ FoundAlive
  BY DEF Init, Promise!Init, FoundAlive
<1>2. Spec => []FoundAlive
  BY <1>1, FoundAliveStays, Invariance, PTL DEF Spec
<1>3. QED
  BY <1>1, <1>2, StepPromised, Invariance, PTL DEF Spec, WaitKeepsPromise, Promise!Spec

-----------------------------------------------------------------------------
(* Outages *)

JobStates == {"ABSENT", "QUEUED", "RUNNING", "SUCCEEDED", "FAILED", "CANCELLED"}
Calls     == [job : Jobs, from : TaskStates, asked : BOOLEAN]

Retried(j) == outage[j] # None /\ outage[j].resolved = "RETRY"

OutageTypes ==
    /\ job \in [Jobs -> JobStates]
    /\ parent \in [Jobs -> Jobs \cup {None}]
    /\ outage \in [Jobs -> OutageRows \cup {None}]
    /\ calls \subseteq Calls

\* An outage is of a failed job and is linked to a question that was asked; that is
\* answered with RETRY only when linked, and only then the job is continued.
Bound(j) ==
    /\ outage[j] # None => job[j] = "FAILED"
    /\ parent[j] # None => job[j] # "ABSENT"
    /\ Linked(j) => EscalationOf[j] \in Existing
    /\ EscalationOf[j] \in Existing /\ request[EscalationOf[j]].decision = "RETRY" => Linked(j)
    /\ Retried(j) => /\ EscalationOf[j] \in Existing
                     /\ request[EscalationOf[j]].decision = "RETRY"
                     /\ \E k \in Jobs : {i \in Jobs : parent[i] = j} = {k}
    /\ ~Retried(j) => \A k \in Jobs : parent[k] # j

\* A call is about an outage, and what it says it has asked was asked.
Carried ==
    \A c \in calls : outage[c.job] # None /\ (c.asked => EscalationOf[c.job] \in Existing)

\* An open question has no answer.
Open == \A r \in Existing : request[r].status = "PENDING" => request[r].decision # "RETRY"

OInv == OutageTypes /\ Carried /\ Open /\ \A j \in Jobs : Bound(j)

\* What questions do while the jobs look away: an answer stays, and a RETRY is given only
\* to an outage that is current.
Answering ==
    /\ \A r \in Existing : /\ r \in Existing'
                           /\ request[r].status # "PENDING" => request'[r] = request[r]
    /\ \A r \in Existing' : /\ request'[r].status = "PENDING" => request'[r].decision # "RETRY"
                            /\ request'[r].decision = "RETRY" =>
                                  \/ r \in Existing /\ request[r].decision = "RETRY"
                                  \/ OutageIsCurrent(r)

LEMMA NothingAnswered == ASSUME OInv, request' = request PROVE Answering
  BY DEF OInv, Open, Answering, Existing

\* A step that starts no new generation of a job.
LEMMA OutagesStay ==
    ASSUME OInv, Answering,
           job' \in [Jobs -> JobStates], parent' = parent,
           outage' \in [Jobs -> OutageRows \cup {None}],
           \A j \in Jobs : /\ job[j] = "FAILED" => job'[j] = "FAILED"
                           /\ job[j] # "ABSENT" => job'[j] # "ABSENT"
                           /\ outage'[j] # None => outage[j] # None \/ job'[j] = "FAILED"
                           /\ Linked(j) => Linked(j)'
                           /\ Linked(j)' => EscalationOf[j] \in Existing'
                           /\ Retried(j)' <=> Retried(j),
           calls' \subseteq Calls, Carried'
    PROVE  OInv'
<1>1. ASSUME NEW j \in Jobs PROVE Bound(j)'
  <2>1. /\ outage'[j] # None => job'[j] = "FAILED"
        /\ parent'[j] # None => job'[j] # "ABSENT"
        /\ Linked(j)' => EscalationOf[j] \in Existing'
    BY DEF OInv, Bound
  <2>2. EscalationOf[j] \in Existing' /\ request'[EscalationOf[j]].decision = "RETRY" => Linked(j)'
    BY DEF OInv, Bound, Answering, OutageIsCurrent
  <2>3. Retried(j) => /\ EscalationOf[j] \in Existing'
                      /\ request'[EscalationOf[j]].decision = "RETRY"
    BY DEF OInv, Bound, Answering, Open
  <2>4. QED BY <2>1, <2>2, <2>3 DEF OInv, Bound
<1>2. OutageTypes' /\ Open'
  BY DEF OInv, OutageTypes, Answering, Open
<1>3. QED BY <1>1, <1>2 DEF OInv

LEMMA OutageInitially == OutageInit => IInv /\ OInv
<1> SUFFICES ASSUME OutageInit PROVE IInv /\ OInv
  OBVIOUS
<1>1. Existing = {} /\ Init
  BY DEF OutageInit, Init, Existing
<1>2. IInv
  BY <1>1, Initially
<1>3. ASSUME NEW j \in Jobs PROVE Bound(j)
  BY <1>1, OutageAssumption DEF OutageInit, Bound, Linked, Retried
<1>4. OutageTypes /\ Carried /\ Open
  BY <1>1 DEF OutageInit, OutageTypes, Carried, Open, JobStates
<1>5. QED BY <1>2, <1>3, <1>4 DEF OInv

\* A step that only moves jobs on.
LEMMA JobsMove ==
    ASSUME OInv, request' = request, UNCHANGED <<parent, outage, calls>>,
           job' \in [Jobs -> JobStates],
           \A j \in Jobs : /\ job[j] = "FAILED" => job'[j] = "FAILED"
                           /\ job[j] # "ABSENT" => job'[j] # "ABSENT"
    PROVE  OInv'
<1>1. Existing' = Existing
  BY DEF Existing
<1>2. \A j \in Jobs : (Linked(j)' <=> Linked(j)) /\ (Retried(j)' <=> Retried(j))
                      /\ (Linked(j) => EscalationOf[j] \in Existing)
  BY DEF Linked, Retried, OInv, Bound
<1>3. Carried'
  BY <1>1 DEF OInv, Carried
<1>4. QED BY <1>1, <1>2, <1>3, NothingAnswered, OutagesStay DEF OInv, OutageTypes

LEMMA WorkingKeeps ==
    ASSUME OInv, NEW j \in Jobs, Schedule(j) \/ Claim(j) \/ Succeed(j)
    PROVE  OInv'
<1>1. PICK s \in {"QUEUED", "RUNNING", "SUCCEEDED"} :
          job[j] \in {"ABSENT", "QUEUED", "RUNNING"} /\ job' = [job EXCEPT ![j] = s]
  BY DEF Schedule, Claim, Succeed
<1>2. request' = request /\ UNCHANGED <<parent, outage, calls>>
  BY DEF Schedule, Claim, Succeed, approvals, vars
<1>3. QED BY <1>1, <1>2, JobsMove DEF OInv, OutageTypes, JobStates

LEMMA FenceKeeps == ASSUME OInv, NEW t \in Tasks, FenceEnded(t) PROVE OInv'
<1>1. request' = request /\ UNCHANGED <<parent, outage, calls>> /\ job' = Fenced(t)
  BY DEF FenceEnded, approvals, vars
<1>2. QED BY <1>1, JobsMove DEF OInv, OutageTypes, JobStates, Fenced

\* A step that only moves the calls on, or links an outage.
LEMMA CallsMove ==
    ASSUME OInv, Answering, UNCHANGED <<job, parent>>,
           outage' \in [Jobs -> OutageRows \cup {None}],
           \A j \in Jobs : outage'[j] = outage[j]
                           \/ /\ outage[j] # None /\ outage'[j] # None
                              /\ outage'[j].resolved = outage[j].resolved
                              /\ Linked(j)' /\ EscalationOf[j] \in Existing,
           calls' \subseteq Calls,
           \A c \in calls' : c \in calls \/ /\ outage[c.job] # None
                                            /\ c.asked => EscalationOf[c.job] \in Existing'
    PROVE  OInv'
<1>1. \A j \in Jobs : /\ outage[j] # None <=> outage'[j] # None
                      /\ Linked(j) => Linked(j)'
                      /\ Linked(j)' => EscalationOf[j] \in Existing'
                      /\ Retried(j)' <=> Retried(j)
  BY DEF Linked, Retried, OInv, Bound, Answering
<1>2. Carried'
  <2> SUFFICES ASSUME NEW c \in calls'
               PROVE  outage'[c.job] # None /\ (c.asked => EscalationOf[c.job] \in Existing')
    BY DEF Carried
  <2>1. c.job \in Jobs
    BY DEF Calls
  <2>2. outage[c.job] # None /\ (c.asked => EscalationOf[c.job] \in Existing')
    BY DEF OInv, Carried, Answering
  <2>3. QED BY <1>1, <2>1, <2>2
<1>3. QED BY <1>1, <1>2, OutagesStay DEF OInv, OutageTypes

LEMMA ExhaustKeeps == ASSUME IInv, OInv, NEW j \in Jobs, Exhaust(j) PROVE OInv'
<1> DEFINE w == [linked |-> FALSE, resolved |-> None]
           c == [job |-> j, from |-> state[JobTask[j]], asked |-> FALSE]
<1>1. /\ job[j] = "RUNNING" /\ job' = [job EXCEPT ![j] = "FAILED"]
      /\ outage' = [outage EXCEPT ![j] = w] /\ calls' \subseteq calls \cup {c}
      /\ calls \subseteq calls' /\ parent' = parent /\ request' = request
  BY DEF Exhaust, approvals, vars
<1>2. w \in OutageRows /\ w # None /\ ~w.linked /\ w.resolved = None
  <2>1. w \in OutageRows /\ ~w.linked /\ w.resolved = None
    BY DEF OutageRows
  <2>2. QED BY <2>1, OutageAssumption
<1>3. c \in Calls /\ c.job = j /\ ~c.asked
  BY OutageAssumption DEF Calls, IInv, TypeInv
<1> HIDE DEF w, c
<1>4. None # "RETRY"
  BY NullAssumption DEF Answers, Decisions
<1>5. outage[j] = None
  BY <1>1 DEF OInv, Bound
<1>6. /\ job' \in [Jobs -> JobStates] /\ outage' \in [Jobs -> OutageRows \cup {None}]
      /\ job'[j] = "FAILED" /\ outage'[j] = w
      /\ \A k \in Jobs : k # j => job'[k] = job[k] /\ outage'[k] = outage[k]
  BY <1>1, <1>2 DEF OInv, OutageTypes, JobStates
<1>7. Existing' = Existing
  BY <1>1 DEF Existing
<1>8. ASSUME NEW k \in Jobs
      PROVE  /\ job[k] = "FAILED" => job'[k] = "FAILED"
             /\ job[k] # "ABSENT" => job'[k] # "ABSENT"
             /\ outage'[k] # None => outage[k] # None \/ job'[k] = "FAILED"
             /\ Linked(k) => Linked(k)'
             /\ Linked(k)' => EscalationOf[k] \in Existing'
             /\ Retried(k)' <=> Retried(k)
  <2>1. Linked(k) => EscalationOf[k] \in Existing
    BY DEF OInv, Bound
  <2>2. CASE k = j
    BY <1>2, <1>4, <1>5, <1>6, <2>2 DEF Linked, Retried
  <2>3. CASE k # j
    BY <1>6, <1>7, <2>1, <2>3 DEF Linked, Retried
  <2>4. QED BY <2>2, <2>3
<1>9. calls' \subseteq Calls
  BY <1>1, <1>3 DEF OInv, OutageTypes
<1>10. Carried'
  <2> SUFFICES ASSUME NEW d \in calls'
               PROVE  outage'[d.job] # None /\ (d.asked => EscalationOf[d.job] \in Existing')
    BY DEF Carried
  <2>1. CASE d = c
    BY <1>2, <1>3, <1>6, <2>1
  <2>2. CASE d \in calls
    <3>1. d.job \in Jobs /\ outage[d.job] # None /\ (d.asked => EscalationOf[d.job] \in Existing)
      BY <2>2 DEF OInv, OutageTypes, Calls, Carried
    <3>2. QED BY <1>2, <1>6, <1>7, <3>1
  <2>3. QED BY <1>1, <2>1, <2>2
<1>11. QED BY <1>1, <1>6, <1>8, <1>9, <1>10, NothingAnswered, OutagesStay

LEMMA ReadEscalationKeeps == ASSUME IInv, OInv, NEW j \in Jobs, ReadEscalation(j) PROVE OInv'
<1> DEFINE c == [job |-> j, from |-> state[JobTask[j]], asked |-> FALSE]
<1>1. /\ outage[j] # None /\ calls' = calls \cup {c}
      /\ UNCHANGED <<job, parent, outage>> /\ request' = request
  BY DEF ReadEscalation, approvals, vars
<1>2. c \in Calls /\ c.job = j /\ ~c.asked
  BY OutageAssumption DEF Calls, IInv, TypeInv
<1> HIDE DEF c
<1>3. calls' \subseteq Calls
  BY <1>1, <1>2 DEF OInv, OutageTypes
<1>4. \A d \in calls' : d \in calls \/ (outage[d.job] # None /\ ~d.asked)
  BY <1>1, <1>2
<1>5. QED BY <1>1, <1>3, <1>4, NothingAnswered, CallsMove DEF OInv, OutageTypes

\* A call that ends.
LEMMA CallEnds ==
    ASSUME OInv, UNCHANGED <<job, parent, outage>>, request' = request, calls' \subseteq calls
    PROVE  OInv'
<1>1. calls' \subseteq Calls
  BY DEF OInv, OutageTypes
<1>2. QED BY <1>1, NothingAnswered, CallsMove DEF OInv, OutageTypes

LEMMA LinkKeeps == ASSUME OInv, NEW c \in calls, LinkEscalation(c) PROVE OInv'
<1>1. /\ c.asked /\ calls' \subseteq calls /\ UNCHANGED <<job, parent>> /\ request' = request
      /\ outage' = outage \/ outage' = [outage EXCEPT ![c.job].linked = TRUE]
  BY DEF LinkEscalation, approvals, vars
<1>2. /\ c.job \in Jobs /\ EscalationOf[c.job] \in Existing /\ outage[c.job] # None
      /\ outage[c.job] \in OutageRows /\ outage \in [Jobs -> OutageRows \cup {None}]
  BY <1>1 DEF OInv, OutageTypes, Calls, Carried
<1>3. CASE outage' = outage
  BY <1>1, <1>3, CallEnds
<1>4. CASE outage' = [outage EXCEPT ![c.job].linked = TRUE]
  <2> DEFINE w == [outage[c.job] EXCEPT !.linked = TRUE]
  <2>1. w \in OutageRows /\ w.linked /\ w.resolved = outage[c.job].resolved
    BY <1>2 DEF OutageRows
  <2>2. w # None /\ outage' = [outage EXCEPT ![c.job] = w]
    BY <1>4, <2>1, OutageAssumption
  <2> HIDE DEF w
  <2>3. /\ outage' \in [Jobs -> OutageRows \cup {None}]
        /\ \A j \in Jobs : outage'[j] = IF j = c.job THEN w ELSE outage[j]
    BY <1>2, <2>1, <2>2
  <2>4. \A j \in Jobs : outage'[j] = outage[j]
                        \/ /\ outage[j] # None /\ outage'[j] # None
                           /\ outage'[j].resolved = outage[j].resolved
                           /\ Linked(j)' /\ EscalationOf[j] \in Existing
    BY <1>2, <2>1, <2>2, <2>3 DEF Linked
  <2>5. calls' \subseteq Calls
    BY <1>1 DEF OInv, OutageTypes
  <2>6. QED BY <1>1, <2>3, <2>4, <2>5, NothingAnswered, CallsMove
<1>5. QED BY <1>1, <1>3, <1>4

LEMMA RequestAnswers ==
    ASSUME IInv, OInv, NEW r \in Requests, NEW t \in Tasks, NEW type \in Types, NEW subject \in Subjects,
           Request(r, t, type, subject)
    PROVE  Answering /\ r \in Existing'
<1> DEFINE w == [task |-> t, type |-> type, subject |-> subject, from |-> state[t],
                 resume |-> IF type = "BRIEF" THEN None ELSE state[t],
                 status |-> "PENDING", decision |-> None, id |-> None]
<1>1. request[r] = None /\ request' = [request EXCEPT ![r] = w]
  BY DEF Request
<1>2. w # None /\ w.decision = None /\ None # "RETRY"
  <2>1. w \in Rows
    BY DEF IInv, TypeInv, Rows, Statuses
  <2>2. QED BY <2>1, NullAssumption DEF Answers, Decisions
<1> HIDE DEF w
<1>3. request'[r] = w /\ \A s \in Requests : s # r => request'[s] = request[s]
  BY <1>1 DEF IInv, TypeInv
<1>4. QED BY <1>1, <1>2, <1>3 DEF Answering, Existing, OInv, Open

LEMMA AskKeeps == ASSUME IInv, OInv, NEW c \in calls, AskEscalation(c) PROVE OInv'
<1> DEFINE d == [c EXCEPT !.asked = TRUE]
<1>1. calls' = (calls \ {c}) \cup {d} /\ UNCHANGED <<job, parent, outage>>
  BY DEF AskEscalation, Asked
<1>2. /\ c \in Calls /\ c.job \in Jobs /\ outage[c.job] # None /\ calls \subseteq Calls
      /\ EscalationOf[c.job] \in Requests /\ JobTask[c.job] \in Tasks
  BY OutageAssumption DEF OInv, OutageTypes, Calls, Carried
<1>3. d \in Calls /\ d.job = c.job
  BY <1>2 DEF Calls
<1> HIDE DEF d
<1>4. Answering /\ EscalationOf[c.job] \in Existing'
  <2>1. CASE Request(EscalationOf[c.job], JobTask[c.job], "RETRY_LIMIT", None)
    <3>1. "RETRY_LIMIT" \in Types /\ None \in Subjects
      BY <2>1 DEF Request, Subjects
    <3>2. QED BY <1>2, <2>1, <3>1, RequestAnswers
  <2>2. CASE Replayed(c) /\ request' = request
    <3>1. EscalationOf[c.job] \in Existing /\ Existing' = Existing
      BY <1>2, <2>2 DEF Replayed, Existing
    <3>2. QED BY <2>2, <3>1, NothingAnswered
  <2>3. QED BY <2>1, <2>2 DEF AskEscalation, approvals, vars
<1>5. calls' \subseteq Calls
  BY <1>1, <1>2, <1>3
<1>6. \A e \in calls' : e \in calls \/ (outage[e.job] # None /\ EscalationOf[e.job] \in Existing')
  BY <1>1, <1>2, <1>3, <1>4
<1>7. QED BY <1>1, <1>4, <1>5, <1>6, CallsMove DEF OInv, OutageTypes

LEMMA DecideOutageKeeps ==
    ASSUME IInv, OInv, NEW r \in Requests, NEW id \in DecisionIds, NEW given \in Decisions,
           NEW recent \in {"yes", "no"}, DecideOutage(r, id, given, recent, None)
    PROVE  OInv'
<1> DEFINE d == Effective(r, given)
<1>1. /\ r \in Existing /\ DecideAs(r, id, d) /\ d \in Answers /\ id \in Ids
      /\ d \in Preconditioned => OutageIsCurrent(r)
      /\ UNCHANGED <<job, parent, outage, calls>>
  BY GivenIds DEF DecideOutage, Decide
<1> HIDE DEF d
<1>2. /\ request[r].status = "PENDING" /\ request'[r].decision = d /\ request'[r] # None
      /\ request'[r].status = Projection(request[r].type, d).status
      /\ request[r].type \in RequestTypes
      /\ d = "EXPIRE" \/ d \in Options(request[r].type)
      /\ \A s \in Requests : s # r => request'[s] = request[s]
  BY <1>1, AnswerIs
<1>3. request'[r].status # "PENDING"
  <2>1. Projection(request[r].type, d).status \in Statuses \ {"PENDING"}
    BY <1>1, <1>2, ProjectionIs
  <2>2. QED BY <1>2, <2>1
<1>4. Answering
  BY <1>1, <1>2, <1>3 DEF Answering, Existing, OInv, Open, Preconditioned, Approving
<1>5. QED BY <1>1, <1>4, CallsMove DEF OInv, OutageTypes

LEMMA SteerOutagesKeeps == ASSUME IInv, OInv, NEW t \in Tasks, SteerOutages(t) PROVE OInv'
<1> DEFINE w(j) == [outage[j] EXCEPT !.resolved = "STEERED"]
<1>1. /\ Steer(t) /\ UNCHANGED <<parent, calls>> /\ job' = Fenced(t)
      /\ outage' = [j \in Jobs |-> IF j \in Unresolved(t) THEN w(j) ELSE outage[j]]
      /\ \A j \in Unresolved(t) : Linked(j)
  BY DEF SteerOutages
<1>2. /\ Existing' = Existing
      /\ \A r \in Existing : request'[r] = request[r]
                             \/ /\ request[r].status = "PENDING" /\ request'[r].status = "CANCELLED"
                                /\ request'[r].decision = "CANCEL"
  BY <1>1, SteerRows DEF PendingOf
<1>3. Answering
  BY <1>2 DEF Answering, OInv, Open
<1>4. ASSUME NEW j \in Unresolved(t)
      PROVE  /\ w(j) \in OutageRows /\ w(j) # None /\ w(j).linked /\ w(j).resolved = "STEERED"
             /\ outage[j] # None /\ outage[j].resolved = None /\ j \in Jobs
  <2>1. outage[j] \in OutageRows /\ outage[j].linked /\ outage[j].resolved = None /\ j \in Jobs
        /\ outage[j] # None
    BY <1>1 DEF OInv, OutageTypes, Unresolved, JobsOf, Linked
  <2>2. w(j) \in OutageRows /\ w(j).linked /\ w(j).resolved = "STEERED"
    BY <2>1 DEF OutageRows
  <2>3. QED BY <2>1, <2>2, OutageAssumption
<1> HIDE DEF w
<1>5. /\ outage' \in [Jobs -> OutageRows \cup {None}]
      /\ \A j \in Jobs : outage'[j] = IF j \in Unresolved(t) THEN w(j) ELSE outage[j]
  BY <1>1, <1>4 DEF OInv, OutageTypes
<1>6. None # "RETRY"
  BY NullAssumption DEF Answers, Decisions
<1>7. \A j \in Jobs : /\ outage'[j] # None <=> outage[j] # None
                      /\ Linked(j)' <=> Linked(j)
                      /\ Retried(j)' <=> Retried(j)
  <2> SUFFICES ASSUME NEW j \in Jobs
               PROVE  /\ outage'[j] # None <=> outage[j] # None
                      /\ Linked(j)' <=> Linked(j)
                      /\ Retried(j)' <=> Retried(j)
    OBVIOUS
  <2>1. CASE j \in Unresolved(t)
    BY <1>1, <1>4, <1>5, <1>6, <2>1 DEF Linked, Retried
  <2>2. CASE j \notin Unresolved(t)
    BY <1>5, <2>2 DEF Linked, Retried
  <2>3. QED BY <2>1, <2>2
<1>8. /\ job' \in [Jobs -> JobStates]
      /\ \A j \in Jobs : /\ job[j] = "FAILED" => job'[j] = "FAILED"
                         /\ job[j] # "ABSENT" => job'[j] # "ABSENT"
  BY <1>1 DEF Fenced, OInv, OutageTypes, JobStates
<1>9. \A j \in Jobs : Linked(j) => EscalationOf[j] \in Existing
  BY DEF OInv, Bound
<1>10. Carried' /\ calls' \subseteq Calls
  <2>1. \A c \in calls : c.job \in Jobs
    BY DEF OInv, OutageTypes, Calls
  <2>2. QED BY <1>1, <1>2, <1>7, <2>1 DEF OInv, OutageTypes, Carried
<1>11. QED BY <1>1, <1>2, <1>3, <1>5, <1>7, <1>8, <1>9, <1>10, OutagesStay

\* An answered outage; a RETRY of it starts the one job that continues the failed one.
LEMMA ResolveKeeps == ASSUME IInv, OInv, NEW j \in Jobs, ResolveOutage(j) PROVE OInv'
<1> DEFINE q == request[EscalationOf[j]]
           w == [outage[j] EXCEPT !.resolved = q.decision]
<1>1. /\ Linked(j) /\ outage[j].resolved = None /\ q.status # "PENDING"
      /\ outage' = [outage EXCEPT ![j].resolved = q.decision]
      /\ request' = request /\ calls' = calls
      /\ IF q.decision = "RETRY"
         THEN \E k \in Generation(j) :
                 /\ job' = [job EXCEPT ![k] = IF @ = "ABSENT" THEN "QUEUED" ELSE @]
                 /\ parent' = [parent EXCEPT ![k] = j]
         ELSE UNCHANGED <<job, parent>>
  BY DEF ResolveOutage, approvals, vars
<1>2. /\ outage \in [Jobs -> OutageRows \cup {None}] /\ job \in [Jobs -> JobStates]
      /\ parent \in [Jobs -> Jobs \cup {None}] /\ calls \subseteq Calls /\ Carried /\ Open
      /\ \A i \in Jobs : Bound(i)
  BY DEF OInv, OutageTypes
<1>3. outage[j] # None /\ outage[j].linked /\ outage[j] \in OutageRows /\ EscalationOf[j] \in Existing
  BY <1>1, <1>2 DEF Linked, Bound
<1>4. q.decision \in Answers \cup {None}
  BY <1>3, RowsExist DEF IInv, Rows
<1>5. None # "RETRY" /\ None \notin Jobs
  BY NullAssumption, OutageAssumption DEF Answers, Decisions
<1>6. w \in OutageRows /\ w.linked /\ w.resolved = q.decision
  <2> HIDE DEF q
  <2>1. QED BY <1>3, <1>4 DEF OutageRows
<1>7. w # None /\ outage' = [outage EXCEPT ![j] = w]
  BY <1>1, <1>6, OutageAssumption
<1> HIDE DEF w
<1>8. /\ outage' \in [Jobs -> OutageRows \cup {None}]
      /\ \A i \in Jobs : outage'[i] = IF i = j THEN w ELSE outage[i]
  BY <1>2, <1>6, <1>7
<1>9. Existing' = Existing
  BY <1>1 DEF Existing
<1>10. \A i \in Jobs : /\ outage'[i] # None <=> outage[i] # None
                       /\ Linked(i)' <=> Linked(i)
                       /\ i # j => (Retried(i)' <=> Retried(i))
  BY <1>1, <1>3, <1>6, <1>7, <1>8 DEF Linked, Retried
<1>11. (Retried(j)' <=> q.decision = "RETRY") /\ ~Retried(j)
  BY <1>1, <1>5, <1>6, <1>7, <1>8 DEF Retried
<1>12. Carried'
  <2>1. \A c \in calls : c.job \in Jobs
    BY <1>2 DEF Calls
  <2>2. QED BY <1>1, <1>2, <1>9, <1>10, <2>1 DEF Carried
<1>13. CASE q.decision # "RETRY"
  <2>1. UNCHANGED <<job, parent>>
    BY <1>1, <1>13
  <2>2. \A i \in Jobs : Retried(i)' <=> Retried(i)
    BY <1>10, <1>11, <1>13
  <2>3. \A i \in Jobs : Linked(i) => EscalationOf[i] \in Existing
    BY <1>2 DEF Bound
  <2>4. Answering
    BY <1>1, NothingAnswered
  <2>5. QED BY <1>1, <1>2, <1>8, <1>9, <1>10, <1>12, <2>1, <2>2, <2>3, <2>4, OutagesStay
<1>14. CASE q.decision = "RETRY"
  <2>1. PICK k \in Generation(j) :
            /\ job' = [job EXCEPT ![k] = IF @ = "ABSENT" THEN "QUEUED" ELSE @]
            /\ parent' = [parent EXCEPT ![k] = j]
    BY <1>1, <1>14
  <2>2. \A i \in Jobs : parent[i] # j
    BY <1>2, <1>11 DEF Bound
  <2>3. k \in Jobs /\ job[k] = "ABSENT"
    BY <2>2 DEF Generation
  <2>4. parent[k] = None /\ outage[k] = None /\ k # j
    BY <1>2, <1>3, <2>3 DEF Bound
  <2>5. /\ job' \in [Jobs -> JobStates] /\ parent' \in [Jobs -> Jobs \cup {None}]
        /\ \A i \in Jobs : /\ job'[i] = IF i = k THEN "QUEUED" ELSE job[i]
                           /\ parent'[i] = IF i = k THEN j ELSE parent[i]
    BY <1>2, <2>1, <2>3 DEF JobStates
  <2>6. ASSUME NEW i \in Jobs PROVE Bound(i)'
    <3>1. Bound(i)
      BY <1>2
    <3>2. /\ outage'[i] # None => job'[i] = "FAILED"
          /\ parent'[i] # None => job'[i] # "ABSENT"
      BY <1>10, <2>4, <2>5, <3>1 DEF Bound
    <3>3. Linked(i)' => EscalationOf[i] \in Existing'
      BY <1>9, <1>10, <3>1 DEF Bound
    <3>4. EscalationOf[i] \in Existing' /\ request'[EscalationOf[i]].decision = "RETRY" => Linked(i)'
      BY <1>1, <1>9, <1>10, <3>1 DEF Bound
    <3>5. CASE i = j
      <4>1. {x \in Jobs : parent'[x] = j} = {k}
        BY <2>2, <2>3, <2>5
      <4>2. Retried(i)'
        BY <1>11, <1>14, <3>5
      <4>3. EscalationOf[i] \in Existing' /\ request'[EscalationOf[i]].decision = "RETRY"
        BY <1>1, <1>3, <1>9, <1>14, <3>5
      <4>4. QED BY <2>3, <3>2, <3>3, <3>4, <3>5, <4>1, <4>2, <4>3 DEF Bound
    <3>6. CASE i # j
      <4>1. \A x \in Jobs : parent'[x] = i <=> parent[x] = i
        BY <1>5, <2>4, <2>5, <3>6
      <4>2. {x \in Jobs : parent'[x] = i} = {x \in Jobs : parent[x] = i}
        BY <4>1
      <4>3. Retried(i)' <=> Retried(i)
        BY <1>10, <3>6
      <4>4. Retried(i)' => /\ EscalationOf[i] \in Existing'
                           /\ request'[EscalationOf[i]].decision = "RETRY"
                           /\ \E x \in Jobs : {y \in Jobs : parent'[y] = i} = {x}
        BY <1>1, <1>9, <3>1, <4>2, <4>3 DEF Bound
      <4>5. ~Retried(i)' => \A x \in Jobs : parent'[x] # i
        BY <3>1, <4>1, <4>3 DEF Bound
      <4>6. QED BY <3>2, <3>3, <3>4, <4>4, <4>5 DEF Bound
    <3>7. QED BY <3>5, <3>6
  <2>7. OutageTypes' /\ Open'
    BY <1>1, <1>2, <1>8, <1>9, <2>5 DEF OutageTypes, Open
  <2>8. QED BY <1>12, <2>6, <2>7 DEF OInv
<1>15. QED BY <1>13, <1>14

LEMMA OutageStepKeeps == IInv /\ OInv /\ [OutageNext]_ovars => OInv'
<1> SUFFICES ASSUME IInv, OInv, OutageNext \/ UNCHANGED ovars PROVE OInv'
  OBVIOUS
<1>1. ASSUME NEW j \in Jobs, JobStep(j) PROVE OInv'
  BY <1>1, WorkingKeeps, ExhaustKeeps, ReadEscalationKeeps, ResolveKeeps DEF JobStep
<1>2. ASSUME NEW c \in calls, CallStep(c) \/ Crash(c) PROVE OInv'
  <2>1. ASSUME RefuseEscalation(c) \/ Crash(c) PROVE OInv'
    <3>1. UNCHANGED <<job, parent, outage>> /\ request' = request /\ calls' \subseteq calls
      BY <2>1 DEF RefuseEscalation, Crash, approvals, vars
    <3>2. QED BY <3>1, CallEnds
  <2>2. QED BY <1>2, <2>1, AskKeeps, LinkKeeps DEF CallStep
<1>3. ASSUME request' = request, UNCHANGED <<job, parent, outage, calls>> PROVE OInv'
  BY <1>3, CallEnds
<1>4. CASE UNCHANGED ovars
  BY <1>3, <1>4 DEF ovars, vars
<1>5. CASE \E t \in Tasks : /\ StoreBrief(t, FALSE) \/ AutoAccept(t) \/ Work(t)
                            /\ UNCHANGED <<job, parent, outage, calls>>
  BY <1>3, <1>5 DEF StoreBrief, AutoAccept, Work
<1>6. QED
  BY <1>1, <1>2, <1>4, <1>5, DecideOutageKeeps, SteerOutagesKeeps, FenceKeeps DEF OutageNext

\* Beside the jobs, what happens to questions are steps of Approvals.
LEMMA OutageStepIsApprovals == IInv /\ OInv /\ [OutageNext]_ovars => [Next]_vars
<1> SUFFICES ASSUME IInv, OInv, OutageNext \/ UNCHANGED ovars PROVE Next \/ UNCHANGED vars
  OBVIOUS
<1>1. ASSUME NEW c \in calls, AskEscalation(c) PROVE Next \/ UNCHANGED vars
  <2>1. c.job \in Jobs
    BY DEF OInv, OutageTypes, Calls
  <2>2. EscalationOf[c.job] \in Requests /\ JobTask[c.job] \in Tasks
    BY <2>1, OutageAssumption
  <2>3. CASE Request(EscalationOf[c.job], JobTask[c.job], "RETRY_LIMIT", None)
    <3>1. "RETRY_LIMIT" \in Types /\ None \in Subjects
      BY <2>3 DEF Request, Subjects
    <3>2. QED BY <2>2, <2>3, <3>1 DEF Next
  <2>4. CASE UNCHANGED approvals
    BY <2>4 DEF approvals
  <2>5. QED BY <1>1, <2>3, <2>4 DEF AskEscalation
<1>2. ASSUME NEW c \in calls, CallStep(c) \/ Crash(c) PROVE Next \/ UNCHANGED vars
  BY <1>1, <1>2 DEF CallStep, Crash, RefuseEscalation, LinkEscalation, approvals
<1>3. ASSUME NEW j \in Jobs, JobStep(j) PROVE UNCHANGED vars
  BY <1>3 DEF JobStep, Schedule, Claim, Succeed, Exhaust, ReadEscalation, ResolveOutage, approvals
<1>4. ASSUME NEW r \in Requests, NEW id \in DecisionIds, NEW given \in Decisions,
             NEW recent \in {"yes", "no"}, DecideOutage(r, id, given, recent, None)
      PROVE  Next
  BY <1>4 DEF DecideOutage, Next
<1>5. ASSUME NEW t \in Tasks, SteerOutages(t) \/ FenceEnded(t) PROVE Next \/ UNCHANGED vars
  BY <1>5 DEF SteerOutages, FenceEnded, Next, approvals
<1>6. ASSUME NEW t \in Tasks, StoreBrief(t, FALSE) \/ AutoAccept(t) \/ Work(t) PROVE Next
  BY <1>6 DEF Next
<1>7. QED BY <1>2, <1>3, <1>4, <1>5, <1>6 DEF OutageNext, ovars

\* Failing, escalating, answering, resuming and crashing in any order keep the invariant.
THEOREM OutageInvariance == OutageSpec => [](IInv /\ OInv)
<1>1. IInv /\ OInv /\ [OutageNext]_ovars => (IInv /\ OInv)'
  BY OutageStepIsApprovals, StepKeeps, OutageStepKeeps
<1>2. QED BY OutageInitially, <1>1, PTL DEF OutageSpec

\* With the jobs beside them, the questions behave as Approvals says: what is proved of
\* those holds whatever fails, retries and dies (reconcile_outage_escalation).
THEOREM OutagesAreApprovals == OutageSpec => Spec
<1>1. OutageInit => Init
  BY DEF OutageInit
<1>2. QED BY <1>1, OutageInvariance, OutageStepIsApprovals, PTL DEF OutageSpec, Spec

\* So a task keeps to the edges of the life cycle through every outage, too.
THEOREM OutagesKeepPromise == OutageSpec => WaitKeepsPromise
BY OutagesAreApprovals, PromiseIsKept, PTL

\* A RETRY is taken only for a failed job its question is linked to, and that job is then
\* continued once, and never without a RETRY (reconcile_outage_decisions).
THEOREM RetriesResumeOnce == OutageSpec => []RetryResumesOnce
<1>1. IInv /\ OInv => RetryResumesOnce
  <2> SUFFICES ASSUME IInv, OInv, NEW j \in Jobs
               PROVE  LET q == request[EscalationOf[j]]
                          successors == {k \in Jobs : parent[k] = j}
                      IN  /\ q # None /\ q.decision = "RETRY" => job[j] = "FAILED" /\ Linked(j)
                          /\ Cardinality(successors) =
                                IF outage[j] # None /\ outage[j].resolved = "RETRY" THEN 1 ELSE 0
                          /\ successors # {} => q.decision = "RETRY"
    BY DEF RetryResumesOnce
  <2>1. Bound(j) /\ EscalationOf[j] \in Requests
    BY OutageAssumption DEF OInv
  <2>2. request[EscalationOf[j]] # None /\ request[EscalationOf[j]].decision = "RETRY" =>
            job[j] = "FAILED" /\ Linked(j)
    BY <2>1 DEF Bound, Existing, Linked
  <2>3. CASE Retried(j)
    <3>1. PICK k \in Jobs : {i \in Jobs : parent[i] = j} = {k}
      BY <2>1, <2>3 DEF Bound
    <3>2. Cardinality({i \in Jobs : parent[i] = j}) = 1
      BY <3>1, FS_Singleton
    <3>3. QED BY <2>1, <2>2, <2>3, <3>2 DEF Bound, Retried
  <2>4. CASE ~Retried(j)
    <3>1. {i \in Jobs : parent[i] = j} = {}
      BY <2>1, <2>4 DEF Bound
    <3>2. QED BY <2>2, <2>4, <3>1, FS_EmptySet DEF Retried
  <2>5. QED BY <2>3, <2>4
<1>2. QED BY <1>1, OutageInvariance, PTL
=============================================================================
