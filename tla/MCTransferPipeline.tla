------------------------ MODULE MCTransferPipeline ------------------------
(* Model-checking instances of TransferPipeline.                           *)
EXTENDS TransferPipeline, TLC

\* Requests, and signed transactions, are interchangeable; used only in runs
\* without liveness properties.
Symmetry == Permutations(Calls) \cup Permutations(Signed)

=============================================================================
