--------------------------- MODULE MCCancellations ---------------------------
(* Small instances of Cancellations for TLC. *)
EXTENDS Cancellations

\* The worker has an adapter for Hermes runs, and nobody one for host processes.
Adapters == {<<"worker", "HERMES_RUN">>}

\* One service starts again at any time, and one more once the task is fenced.
CancellationNext == CanNext /\ (boots' > boots => boots = 0 \/ IsFencedTask)
=============================================================================
