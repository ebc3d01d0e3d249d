------------------------------ MODULE JobPromise ------------------------------
(***************************************************************************)
(* What a durable background job promises, whatever workers, leases and    *)
(* crashes it goes through: an external effect is performed at most once,  *)
(* a recorded result is the one its provider gave, a job ends at most      *)
(* once, and one that succeeded has recorded all it did and does no more.  *)
(***************************************************************************)
EXTENDS Naturals

CONSTANTS Jobs, Keys, None

VARIABLES
    outcome,    \* "open", or how the job ended
    performed,  \* the provider's outcome and how often it was called
    recorded    \* the result the job recorded for a key, or None

promise == <<outcome, performed, recorded>>

Endings == {"SUCCEEDED", "FAILED", "CANCELLED"}
Results == {"SUCCEEDED", "FAILED"}

Init ==
    /\ outcome = [j \in Jobs |-> "open"]
    /\ performed = [j \in Jobs |-> [k \in Keys |-> [outcome |-> None, calls |-> 0]]]
    /\ recorded = [j \in Jobs |-> [k \in Keys |-> None]]

\* An effect may still happen after its job failed or was cancelled: whoever was about
\* to call the provider does not know.  After success nobody is.
Perform(j, k, r) ==
    /\ outcome[j] # "SUCCEEDED"
    /\ performed[j][k].calls = 0
    /\ performed' = [performed EXCEPT ![j][k] = [outcome |-> r, calls |-> 1]]
    /\ UNCHANGED <<outcome, recorded>>

Record(j, k) ==
    /\ outcome[j] = "open"
    /\ performed[j][k].calls = 1
    /\ recorded[j][k] = None
    /\ recorded' = [recorded EXCEPT ![j][k] = performed[j][k].outcome]
    /\ UNCHANGED <<outcome, performed>>

\* Some open jobs end, each in its own way.
End(endings) ==
    /\ \A j \in Jobs : endings[j] # outcome[j] =>
          /\ outcome[j] = "open"
          /\ endings[j] \in Endings
          /\ endings[j] = "SUCCEEDED" =>
                \A k \in Keys : recorded[j][k] = performed[j][k].outcome
    /\ outcome' = endings
    /\ UNCHANGED <<performed, recorded>>

Next ==
    \/ \E j \in Jobs, k \in Keys, r \in Results : Perform(j, k, r)
    \/ \E j \in Jobs, k \in Keys : Record(j, k)
    \/ \E endings \in [Jobs -> Endings \cup {"open"}] : End(endings)

Spec == Init /\ [][Next]_promise

=============================================================================
