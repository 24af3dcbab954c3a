---------------------------- MODULE MCIdentities ----------------------------
(* A behaviour is of an operator's sign-ins or of the installation's tokens and identities, which *)
(* share no state.                                                                                *)
EXTENDS SignIn, Tokens, TLC

VARIABLE part

MCInit ==
    /\ part \in {"sign-ins", "tokens"}
    /\ Init /\ TokensInit
    /\ part = "sign-ins" => denied = {} /\ rows = {}
    /\ part = "tokens" => place = "file"

MCNext ==
    /\ UNCHANGED part
    /\ \/ part = "sign-ins" /\ Next /\ UNCHANGED tokensVars
       \/ part = "tokens" /\ TokensNext /\ UNCHANGED vars

MCSpec == MCInit /\ [][MCNext]_<<vars, tokensVars, part>>

Symmetry == Permutations(Procs) \cup Permutations(Subjects) \cup Permutations(Versions) \cup Permutations(Txs)

=============================================================================
