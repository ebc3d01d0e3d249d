--------------------------- MODULE MCTaskLifecycle ---------------------------
(* A small instance of TaskLifecycle for TLC: transition ids are 1, 2, ...     *)
(* Which commands are issued is narrowed to two patterns; what happens to them *)
(* afterwards is TaskLifecycle's.                                              *)
EXTENDS TaskLifecycle, TLC

KnownIds == UsedIds \cup {c.id : c \in inflight}

Touched == {t \in Tasks : events[t] # <<>>}

\* The commands issued next.  They take a known id or the next fresh one: which fresh
\* name a caller draws carries no information.  As long as three ids do, two commands
\* may race, for any two tasks; then a task that is
\* alone lives on, its commands sent one at a time.
Issuable ==
    LET known == KnownIds
        ids   == {i \in TransitionIds : i - 1 \in known \cup {0}}
        short == known \subseteq 1 .. 3
        long  == /\ inflight = {} /\ Cardinality(Touched) = 1
                 /\ \A t \in Touched : \A n \in 1 .. Len(events[t]) : events[t][n].id = n
    IN  IF Cardinality(inflight) < MaxInflight /\ (short \/ long)
        THEN {c \in Sendable : /\ c.id \in ids
                               /\ (short /\ c.id <= 3) \/ (long /\ c.task \in Touched)}
        ELSE {}

MCNext ==
    \/ \E c \in Issuable : Issue(c)
    \/ \E c \in inflight : Forget(c)
    \/ \E c \in inflight, grant \in BOOLEAN, head \in Heads \cup {None} :
          Deliver(c, grant, head)
    \/ \E t \in Tasks : StoreBrief(t)
    \/ \E t \in Tasks : BindContract(t)

MCSpec == Init /\ [][MCNext]_vars

TaskSymmetry == Permutations(Tasks)
=============================================================================
