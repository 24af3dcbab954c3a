----------------------------- MODULE MCIngestion -----------------------------
(* A behaviour is of the ingestion's claims or of one document, which share no state. *)
EXTENDS Ingestion, MCDocuments

Symmetry == Permutations(Procs) \cup Permutations(Claims)

MCInit == Init /\ ((NoExtraction /\ NoCompilation) \/ DocumentsInit)
MCNext ==
    \/ step = "idle" /\ stage = "idle" /\ Next /\ UNCHANGED documentVars
    \/ DocumentsNext /\ UNCHANGED vars
MCSpec == MCInit /\ [][MCNext]_<<vars, documentVars>>
MCFairSpec == MCSpec /\ Fairness

=============================================================================
