--------------------------- MODULE MCHostOperations ---------------------------
(* A small instance of HostOperations for TLC: one job, two leases, and         *)
(* requests of one of two kinds; what happens to them is HostOperations'.       *)
EXTENDS HostOperations, TLC

CONSTANTS j1, o1, o2, o3, o4, p1

OneJob == {j1}
TwoTokens == {1, 2}
AllOfOneJob == [n \in TwoTokens |-> j1]

OneOfEachKind == o1 :> "plain" @@ o2 :> "yielding" @@ o3 :> "staged" @@ o4 :> "read"
PlainAndYielding == o1 :> "plain" @@ o2 :> "yielding"

Sent == ({receipts[i] : i \in Ids} \cup {thread[c].msg : c \in Threads}) \ {None}

\* Two operations that always say the same, under leases that are extended; or two
\* whose repetitions may differ, under leases that are not.
Extended == {m \in Messages : m.op \in {o1, o2} /\ m.content = p1}
Differing == {m \in Messages : m.op \in {o3, o4} /\ m.ext = 1}

Once == \A n \in Tokens : passed[n] <= 1

Sendable ==
    (IF Sent \subseteq Extended THEN Extended ELSE {})
    \cup (IF Once /\ Sent \cap Extended = {} THEN Differing ELSE {})

MCNext ==
    \/ \E n \in Tokens : /\ Sent \cap Differing # {} => passed[n] = 0
                         /\ Tick(n)
    \/ \E c \in Threads, m \in Sendable : Receive(c, m)
    \/ \E c \in Threads : Dispatch(c)
    \/ Crash

MCSpec == Init /\ [][MCNext]_vars

Symmetry == Permutations(Threads) \cup Permutations(Ids)
=============================================================================
