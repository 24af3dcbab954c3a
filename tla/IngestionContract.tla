-------------------------- MODULE IngestionContract --------------------------
(***************************************************************************)
(* What an ingestion promises, without claims, owners, leases or runs: it  *)
(* is open from its start, then committed once or abandoned; a commit      *)
(* moves the draft from the revision the ingestion bound and references    *)
(* values of that ingestion only, none of them named by an orphan report.  *)
(***************************************************************************)
EXTENDS Integers

CONSTANTS Ingestions, Values

VARIABLES status, bound, revision, editable, referenced, reported

cvars == <<status, bound, revision, editable, referenced, reported>>

OwnPaths(k) == {<<k, v[1], v[2]>> : v \in Values}

Init ==
    /\ status = [k \in Ingestions |-> "absent"] /\ bound = [k \in Ingestions |-> 0]
    /\ revision = 0 /\ editable = TRUE /\ referenced = {} /\ reported = {}

\* An ingestion starts at the draft's current revision; one it finds dead may end in the same
\* transaction.
Start(k, over) ==
    /\ status[k] = "absent" /\ k \notin over /\ \A j \in over : status[j] = "open"
    /\ status' = [j \in Ingestions |-> IF j = k THEN "open"
                                       ELSE IF j \in over THEN "abandoned" ELSE status[j]]
    /\ bound' = [bound EXCEPT ![k] = revision]
    /\ UNCHANGED <<revision, editable, referenced, reported>>

Commit(k) ==
    /\ status[k] = "open" /\ editable /\ bound[k] = revision
    /\ \E own \in SUBSET (OwnPaths(k) \ reported) : referenced' = referenced \cup own
    /\ status' = [status EXCEPT ![k] = "committed"]
    /\ revision' = revision + 1
    /\ UNCHANGED <<bound, editable, reported>>

Abandon(k) ==
    /\ status[k] = "open" /\ status' = [status EXCEPT ![k] = "abandoned"]
    /\ UNCHANGED <<bound, revision, editable, referenced, reported>>

\* A recovery entry abandons every open ingestion, and ends a publication of the draft.
Recover ==
    /\ status' = [k \in Ingestions |-> IF status[k] = "open" THEN "abandoned" ELSE status[k]]
    /\ editable' \in {editable, TRUE}
    /\ UNCHANGED <<bound, revision, referenced, reported>>

\* A report names unreferenced values of ingestions that are not open.
Report ==
    /\ \E more \in SUBSET ((UNION {OwnPaths(k) : k \in {j \in Ingestions : status[j] # "open"}})
                            \ referenced) : reported' = reported \cup more
    /\ UNCHANGED <<status, bound, revision, editable, referenced>>

\* The draft's other writers.
DraftChanges ==
    /\ editable' \in BOOLEAN /\ revision' \in {revision, revision + 1}
    /\ UNCHANGED <<status, bound, referenced, reported>>

Next ==
    \/ \E k \in Ingestions : Commit(k) \/ Abandon(k) \/ \E over \in SUBSET Ingestions : Start(k, over)
    \/ Report \/ Recover \/ DraftChanges

Spec == Init /\ [][Next]_cvars

=============================================================================
