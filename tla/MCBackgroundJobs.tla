--------------------------- MODULE MCBackgroundJobs ---------------------------
(* Small instances of BackgroundJobs for TLC: all jobs belong to one task. *)
EXTENDS BackgroundJobs, TLC

CONSTANT t1

OneTask == {t1}
AllOfOneTask == [j \in Jobs |-> t1]

\* Two jobs whose handlers leave no trace but that one of them may come to bar the task,
\* or one job with everything else.
NoEffects ==
    \A j \in Jobs : checkpoints[j] = <<>> /\ \A k \in Keys : effects[j][k].status = "ABSENT"
OneJob == \E i \in Jobs : \A j \in Jobs \ {i} : job[j].status = "ABSENT"

Barring == outage \cup {j \in Jobs : target[j] # "none"}

LeasesOrEffects ==
    (\/ NoEffects /\ Cardinality(Barring) <= 1
     \/ OneJob /\ Barring = {})'

\* Two jobs of a task that does not end; one and the same of them may come to bar it.
\* (Of a task that ended JobsEnd asks nothing.)
Starter == CHOOSE j \in Jobs : TRUE
OneStarter == (Barring \subseteq {Starter} /\ \A t \in Tasks : mode[t] \in Open)'

Symmetry == Permutations(Workers) \cup Permutations(Jobs) \cup Permutations(Keys)
=============================================================================
