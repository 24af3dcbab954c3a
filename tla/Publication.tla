----------------------------- MODULE Publication -----------------------------
(***************************************************************************)
(* Drafts of one cluster, their publications and the releases they commit  *)
(* (internal/api drafts.go, fragments.go, publications.go, worker.go,      *)
(* pipeline*.go, publication_observation.go, publish.go).                  *)
(*                                                                         *)
(* The cluster has one fragment, one profile, and one assignment for each  *)
(* machine. A fragment revision is a singleton holding its number, a       *)
(* profile revision the set of fragment revisions it pins, an assignment   *)
(* revision the set of names it selects; the empty set is a removal.       *)
(* Every transaction is one action; the worker holds none between them.    *)
(* Owner generations are told apart, never ordered: a claim takes one that *)
(* no other run still carries.                                             *)
(***************************************************************************)
EXTENDS Integers, FiniteSets

CONSTANTS
    Procs,      \* server processes, each with one publish worker
    NoProc,     \* no process
    Drafts,     \* the cluster's drafts
    NoDraft,    \* no draft of the instance
    Machines,
    MaxEdits,   \* bound on draft updates, over all drafts
    MaxEvents,  \* bound on faults (early lapses, failed runs, crashes, recovery entries) and
                \* on the records of other actors that a commit compares
    Published,  \* machines an earlier draft's release covers, with the release applied
    Assigned,   \* those of them it assigned the profile
    Bases,      \* import bases the instance's ingestions give
    Withdraw    \* whether a draft may remove a name it introduces itself

ASSUME PublicationAssumption ==
    /\ NoProc \notin Procs /\ NoDraft \notin Drafts /\ MaxEdits \in Nat
    /\ IsFiniteSet(Procs) /\ Machines \cap {"fragment", "profile"} = {}
    /\ MaxEvents \in Nat
    /\ Bases \subseteq Nat \ {0} /\ Published \subseteq Machines
    /\ Assigned \subseteq Published /\ Withdraw \in BOOLEAN

VARIABLES
    head,       \* fragment, profile and assignment heads
    draft,      \* drafts with their entries and import bases
    operation,  \* the latest publish operation of each draft
    job,        \* the publish job each worker runs, with what was recorded after its reads
    releases,
    desired,    \* release each machine_state names as Desired
    applied,    \* import base of each machine's Applied release, 0 for none
    held,       \* release of the apply operation that holds the scope, or NoRelease
    barred,     \* machines whose scope recovery mode has not released
    status,     \* the recorded class of the release's dependency
    current,    \* processes of the current epoch
    fragments,  \* fragment revisions inserted so far
    edits,
    events      \* faults and other actors' records so far

vars == <<head, draft, operation, job, releases, desired, applied, held, barred, status,
          current, fragments, edits, events>>

Names == {"fragment", "profile"}
Keys == Names \cup Machines
Generations == 1 .. Cardinality(Procs) + 1

NoEntry == [set |-> FALSE, base |-> 0, rev |-> {}]
NoRelease == [draft |-> NoDraft, rev |-> 0, base |-> [m \in Machines |-> 0],
              composed |-> [m \in Machines |-> {}], named |-> {}]
NoUnit == [base |-> [m \in Machines |-> 0], composed |-> [m \in Machines |-> {}],
           used |-> [k \in Keys |-> 0], changed |-> {}]
NoJob == [pc |-> "idle", draft |-> NoDraft, rev |-> 0, gen |-> 0, unit |-> NoUnit, news |-> {}]

\* A fresh cluster or, with Published machines, one whose first release introduced the fragment,
\* a profile pinning it and the assignments of some, and was applied.
FirstRelease ==
    [draft |-> NoDraft, rev |-> 1, base |-> [m \in Machines |-> IF m \in Published THEN 1 ELSE 0],
     composed |-> [m \in Machines |-> IF m \in Assigned THEN {1} ELSE {}],
     named |-> Names \cup Assigned]

Init ==
    LET first == Published # {} IN
    /\ head = [k \in Keys |->
                CASE first /\ k \in Names -> [n |-> 1, rev |-> {1}]
                  [] k \in Assigned -> [n |-> 1, rev |-> {"profile"}]
                  [] OTHER -> [n |-> 0, rev |-> {}]]
    /\ fragments = IF first THEN 1 ELSE 0
    /\ draft = [d \in Drafts |-> [state |-> "open", rev |-> 1, entry |-> [k \in Keys |-> NoEntry],
                                  base |-> [m \in Machines |-> 0]]]
    /\ operation = [d \in Drafts |-> [state |-> "none", rev |-> 0, owner |-> NoProc, gen |-> 0,
                                      lease |-> FALSE]]
    /\ job = [p \in Procs |-> NoJob]
    /\ releases = IF first THEN {FirstRelease} ELSE {}
    /\ desired = [m \in Machines |-> IF m \in Published THEN FirstRelease ELSE NoRelease]
    /\ applied = FirstRelease.base
    /\ held = [m \in Machines |-> NoRelease]
    /\ barred = {} /\ status = IF first THEN "retained" ELSE "none"
    /\ current = Procs /\ edits = 0 /\ events = 0

-----------------------------------------------------------------------------
(* Draft updates: T1 without a claim, and the draft transaction of an      *)
(* ingestion, whose own steps are the Ingestion module's.                  *)

Active(d) == operation[d].state \in {"queued", "running"}

\* lockDraft: the draft open at the request's If-Match, with no publication of it active.
LockDraft(d) == draft[d].state = "open" /\ ~Active(d) /\ edits < MaxEdits

\* The revision of k as the draft leaves it: its entry's, else the head's.
After(d, k) == IF draft[d].entry[k].set THEN draft[d].entry[k].rev ELSE head[k].rev

\* setEntry and advance: a new entry takes the head's revision as its base, an existing one
\* keeps the base it was first edited from.
SetEntry(d, k, rev) ==
    LET e == draft[d].entry[k] IN
    /\ draft' = [draft EXCEPT ![d].entry[k] = [set |-> TRUE, rev |-> rev,
                                            base |-> IF e.set THEN e.base ELSE head[k].n],
                           ![d].rev = draft[d].rev + 1]
    /\ edits' = edits + 1

Rest == <<head, operation, job, releases, desired, applied, held, barred, status, current,
          events>>

\* updateFragment: a fresh revision of the fragment, at the end of the update's ingestion.
UpdateFragment(d) ==
    /\ LockDraft(d)
    /\ fragments' = fragments + 1
    /\ SetEntry(d, "fragment", {fragments + 1})
    /\ UNCHANGED Rest

\* updateProfile: every pin is its fragment's revision as the draft leaves it (pinnable), the
\* heads held FOR SHARE before the draft (lockHeads).
UpdateProfile(d) ==
    /\ LockDraft(d) /\ After(d, "fragment") # {}
    /\ SetEntry(d, "profile", After(d, "fragment"))
    /\ UNCHANGED fragments /\ UNCHANGED Rest

\* updateAssignment: every selected name has a revision as the draft leaves it (selectable).
UpdateAssignment(d, m, selection) ==
    /\ LockDraft(d) /\ selection # {}
    /\ \A name \in selection : After(d, name) # {}
    /\ SetEntry(d, m, selection)
    /\ UNCHANGED fragments /\ UNCHANGED Rest

\* removeSource: the name has a head, removed or not, or an entry in this draft.
RemoveSource(d, k) ==
    /\ LockDraft(d)
    /\ head[k].n > 0 \/ (Withdraw /\ draft[d].entry[k].set)
    /\ After(d, k) # {}
    /\ SetEntry(d, k, {})
    /\ UNCHANGED fragments /\ UNCHANGED Rest

\* commitImport's draft entry: the import base an ingestion gives the machine in this draft.
ImportBase(d, m, b) ==
    /\ LockDraft(d) /\ draft[d].base[m] # b
    /\ draft' = [draft EXCEPT ![d].base[m] = b, ![d].rev = draft[d].rev + 1]
    /\ edits' = edits + 1
    /\ UNCHANGED fragments /\ UNCHANGED Rest

DiscardDraft(d) ==
    /\ LockDraft(d)
    /\ draft' = [draft EXCEPT ![d].state = "discarded", ![d].rev = draft[d].rev + 1]
    /\ edits' = edits + 1
    /\ UNCHANGED fragments /\ UNCHANGED Rest

-----------------------------------------------------------------------------
(* The publication request and the worker's claim.                         *)

\* requestPublication (T2): a queued operation binding the revision; the active one of that
\* revision is answered instead.
RequestPublication(d) ==
    /\ draft[d].state = "open" /\ ~Active(d)
    /\ operation' = [operation EXCEPT ![d] = [state |-> "queued", rev |-> draft[d].rev,
                        owner |-> NoProc, gen |-> 0, lease |-> FALSE]]
    /\ UNCHANGED <<head, draft, job, releases, desired, applied, held, barred, status,
                   current, fragments, edits, events>>

\* An owner generation no run of the draft still carries.
NextGeneration(d) ==
    CHOOSE g \in Generations :
        /\ g # operation[d].gen
        /\ \A p \in Procs : job[p].draft = d => job[p].gen # g

\* Defect: a running job whose lease lapsed is not claimed again.
ClaimQueued(p, d) ==
    /\ p \in current /\ job[p].pc = "idle" /\ operation[d].state = "queued"
    /\ operation' = [operation EXCEPT ![d] = [state |-> "running", rev |-> operation[d].rev,
                        owner |-> p, gen |-> NextGeneration(d), lease |-> TRUE]]
    /\ job' = [job EXCEPT ![p] = [pc |-> "claimed", draft |-> d, rev |-> operation[d].rev,
                                  gen |-> NextGeneration(d), unit |-> NoUnit, news |-> {}]]
    /\ UNCHANGED <<head, draft, releases, desired, applied, held, barred, status, current,
                   fragments, edits, events>>

\* claimPublish: a queued job, or a running one whose lease lapsed. The order of the queue is
\* left open.
ClaimPublish(p, d) ==
    /\ p \in current /\ job[p].pc = "idle"
    /\ operation[d].state = "queued" \/ (operation[d].state = "running" /\ ~operation[d].lease)
    /\ operation' = [operation EXCEPT ![d] = [state |-> "running", rev |-> operation[d].rev,
                        owner |-> p, gen |-> NextGeneration(d), lease |-> TRUE]]
    /\ job' = [job EXCEPT ![p] = [pc |-> "claimed", draft |-> d, rev |-> operation[d].rev,
                                  gen |-> NextGeneration(d), unit |-> NoUnit, news |-> {}]]
    /\ UNCHANGED <<head, draft, releases, desired, applied, held, barred, status, current,
                   fragments, edits, events>>

\* The fence of extendPublish, lockPublication and finishPublish, under the row's lock.
Fence(p) ==
    LET o == operation[job[p].draft] IN
    /\ p \in current /\ o.state = "running" /\ o.owner = p /\ o.gen = job[p].gen
    /\ o.lease

\* All but the jobs.
Committed == <<head, draft, operation, releases, desired, applied, held, barred, status, current,
           fragments, edits, events>>

\* extendPublish's refusal: the heartbeat stops the run. An extension postpones the lapse.
Heartbeat(p) ==
    /\ job[p].pc # "idle" /\ ~Fence(p)
    /\ job' = [job EXCEPT ![p] = NoJob]
    /\ UNCHANGED Committed

-----------------------------------------------------------------------------
(* buildRelease: a snapshot, then reads of nodes and provider.             *)

\* The import base of m after draft d: its entry's or its Applied release's.
BaseAfter(d, m) == IF draft[d].base[m] # 0 THEN draft[d].base[m] ELSE applied[m]
Covered(d) == {m \in Machines : BaseAfter(d, m) # 0}

\* The profile is named by the release: the draft's own, or selected by a covered assignment.
ProfileNamed(d) ==
    /\ After(d, "profile") # {}
    /\ draft[d].entry["profile"].set \/ \E m \in Covered(d) : "profile" \in After(d, m)

\* readSelections (ruling R30): every pin is its fragment's revision after the draft, and every
\* selected name has one.
Selections(d) ==
    /\ ProfileNamed(d) => After(d, "profile") = After(d, "fragment")
    /\ \A m \in Covered(d) : \A name \in After(d, m) : After(d, name) # {}

\* compose: the fragment revisions an assignment's selections resolve to. The layers' order is
\* left out.
Compose(selection, profile, fragment) ==
    (IF "profile" \in selection THEN profile ELSE {})
        \cup (IF "fragment" \in selection THEN fragment ELSE {})

\* unchanged: every head the release names without an entry of the draft.
Unchanged(d) ==
    {k \in Keys :
        /\ ~draft[d].entry[k].set /\ head[k].n > 0
        /\ \/ k \in Covered(d)
           \/ \E m \in Covered(d) : k \in After(d, m)
           \/ k = "fragment" /\ ProfileNamed(d)}

\* The unit readSnapshot's one transaction gives, with the heads the draft changes.
Unit(d) ==
    [base |-> [m \in Machines |-> BaseAfter(d, m)],
     composed |-> [m \in Machines |-> IF m \in Covered(d)
                        THEN Compose(After(d, m), After(d, "profile"), After(d, "fragment")) ELSE {}],
     used |-> [k \in Keys |-> IF k \in Unchanged(d) THEN head[k].n ELSE 0],
     changed |-> {k \in Keys : draft[d].entry[k].set}]

\* readSnapshot's refusals.
SnapshotRefused(d, rev) ==
    \/ draft[d].state # "open" \/ draft[d].rev # rev
    \/ Covered(d) = {}
    \/ \E m \in Machines \ Covered(d) : draft[d].entry[m].set
    \/ ~Selections(d)

JobStep(p, pc, unit) == job' = [job EXCEPT ![p] = [@ EXCEPT !.pc = pc, !.unit = unit]]

ReadSnapshot(p) ==
    /\ job[p].pc = "claimed"
    /\ LET d == job[p].draft IN
       IF SnapshotRefused(d, job[p].rev) THEN JobStep(p, "refused", NoUnit)
       ELSE JobStep(p, "snapshot", Unit(d))
    /\ UNCHANGED Committed

\* publicationObservations: every covered machine is read from its node, each read started and
\* recorded under the job's fence; or its evidence refuses the publication.
ObserveMachines(p) ==
    /\ job[p].pc = "snapshot" /\ Fence(p)
    /\ JobStep(p, "observed", job[p].unit) \/ JobStep(p, "refused", NoUnit)
    /\ UNCHANGED Committed

\* readPinned: every dependency is classified, then read; one that is not retained, or whose
\* pinned version the provider no longer serves, refuses the publication.
ReadPinned(p) ==
    /\ job[p].pc = "observed"
    /\ JobStep(p, "pinned", job[p].unit) \/ JobStep(p, "refused", NoUnit)
    /\ UNCHANGED Committed

\* The rest of buildRelease: each machine compiled and its artifact encrypted, or refused.
BuildRelease(p) ==
    /\ job[p].pc = "pinned"
    /\ JobStep(p, "built", job[p].unit) \/ JobStep(p, "refused", NoUnit)
    /\ UNCHANGED Committed

-----------------------------------------------------------------------------
(* The publication commit (T3) and the failure transaction.                *)

\* The release of this draft revision, met before the checks its own commit made fail.
Existing(d, rev) == {r \in releases : r.draft = d /\ r.rev = rev}

\* Defect: the heads the release uses unchanged are not compared.
StaleChangedHeads(p) ==
    LET d == job[p].draft IN
    \/ \E k \in job[p].unit.changed : draft[d].entry[k].base # head[k].n
    \/ \E m \in Machines : BaseAfter(d, m) # job[p].unit.base[m]

\* checkInputs, stale input: a head the draft changes is not at its entry's base (0: absent),
\* one used unchanged not at the revision the snapshot read, or the machines covered or their
\* import bases are not the unit's.
StaleInput(p) ==
    LET d == job[p].draft IN
    \/ \E k \in job[p].unit.changed : draft[d].entry[k].base # head[k].n
    \/ \E k \in Keys : job[p].unit.used[k] # 0 /\ job[p].unit.used[k] # head[k].n
    \/ \E m \in Machines : BaseAfter(d, m) # job[p].unit.base[m]

\* checkInputs, an assignment change: its machine's scope held, or not released in recovery mode.
ScopeRefused(p) ==
    \E m \in Machines \cap job[p].unit.changed : held[m] # NoRelease \/ m \in barred

\* publicationEvidence and recheckStatuses at the commit: the endpoint changed or a newer
\* observation contradicts, or the dependency was recorded other than retained since.
EvidenceRefused(p) ==
    "node" \in job[p].news \/ ("status" \in job[p].news /\ status = "other")

Refusal(p) ==
    LET d == job[p].draft IN
    \/ draft[d].state # "open" \/ draft[d].rev # job[p].rev
    \/ StaleInput(p) \/ ScopeRefused(p) \/ EvidenceRefused(p)

\* insertHead: a name the draft introduces has a revision to insert its head from.
Introducible(d) ==
    \A k \in Keys : draft[d].entry[k].set /\ head[k].n = 0 => draft[d].entry[k].rev # {}

\* finishPublish: the operation ended and its owner cleared, by the owner's fenced UPDATE.
FinishPublish(p, state) ==
    /\ Fence(p)
    /\ operation' = [operation EXCEPT ![job[p].draft] =
                        [@ EXCEPT !.state = state, !.owner = NoProc, !.lease = FALSE]]
    /\ job' = [job EXCEPT ![p] = NoJob]

\* Defect: the failure is recorded on the operation whoever owns it now.
FailPublishUnfenced(p) ==
    /\ job[p].pc = "refused"
    /\ operation' = [operation EXCEPT ![job[p].draft] =
                        [@ EXCEPT !.state = "failed", !.owner = NoProc, !.lease = FALSE]]
    /\ job' = [job EXCEPT ![p] = NoJob]
    /\ UNCHANGED <<head, draft, releases, desired, applied, held, barred, status, current,
                   fragments, edits, events>>

\* A refusal recorded as the operation's failure.
FailPublish(p) ==
    /\ job[p].pc = "refused" /\ FinishPublish(p, "failed")
    /\ UNCHANGED <<head, draft, releases, desired, applied, held, barred, status, current,
                   fragments, edits, events>>

\* moveHead: each changed head at its entry's revision, from its base or inserted at 1.
MovedHeads(d) ==
    [k \in Keys |-> IF draft[d].entry[k].set THEN [n |-> head[k].n + 1, rev |-> draft[d].entry[k].rev]
                    ELSE head[k]]

\* commitRelease: the release, the heads moved, the covered machines' Desired, the draft
\* published, the dependency's status seeded and the operation succeeded, in one transaction.
CommitRelease(p) ==
    LET d == job[p].draft
        u == job[p].unit
        r == [draft |-> d, rev |-> job[p].rev, base |-> u.base, composed |-> u.composed,
              named |-> u.changed \cup {k \in Keys : u.used[k] # 0}]
    IN
    /\ job[p].pc = "built" /\ Existing(d, job[p].rev) = {} /\ ~Refusal(p) /\ Introducible(d)
    /\ FinishPublish(p, "succeeded")
    /\ releases' = releases \cup {r}
    /\ head' = MovedHeads(d)
    /\ desired' = [m \in Machines |-> IF u.base[m] # 0 THEN r ELSE desired[m]]
    /\ draft' = [draft EXCEPT ![d].state = "published", ![d].rev = draft[d].rev + 1]
    /\ status' = IF status = "none" THEN "retained" ELSE status
    /\ UNCHANGED <<applied, held, barred, current, fragments, edits, events>>

\* commitRelease's refusals, the transaction rolled back: a check refuses, or every attempt
\* deadlocked, COMMIT was rejected or a constraint broken.
CommitRefused(p) ==
    /\ job[p].pc = "built" /\ p \in current
    /\ \/ Refusal(p) /\ UNCHANGED events
       \/ events < MaxEvents /\ events' = events + 1
    /\ JobStep(p, "refused", NoUnit)
    /\ UNCHANGED <<head, draft, operation, releases, desired, applied, held, barred, status,
                   current, fragments, edits>>

\* commitRelease's error where insertHead inserts no row: no refusal, so the transaction rolls
\* back and the job is left to its lease.
CommitFails(p) ==
    /\ job[p].pc = "built" /\ Fence(p) /\ ~Refusal(p) /\ ~Introducible(job[p].draft)
    /\ job' = [job EXCEPT ![p] = NoJob]
    /\ UNCHANGED Committed

-----------------------------------------------------------------------------
(* Faults, the clock and the other actors of the rows a commit compares.   *)

Rows == <<head, draft, releases, desired, applied, held, barred, status, fragments, edits>>

\* runPublish's errors: the run ends with nothing written and the job is left to its lease.
StopRun(p) ==
    /\ job[p].pc # "idle" /\ events < MaxEvents
    /\ events' = events + 1 /\ job' = [job EXCEPT ![p] = NoJob]
    /\ UNCHANGED <<operation, current>> /\ UNCHANGED Rows

\* The owner's worker still runs the job of the claim.
Running(d) ==
    LET o == operation[d] IN o.owner \in Procs /\ job[o.owner].draft = d /\ job[o.owner].gen = o.gen

\* A lease no heartbeat extends lapses; one of a running job when its heartbeats come too late.
LeaseLapses(d) ==
    /\ operation[d].state = "running" /\ operation[d].lease
    /\ \/ ~Running(d) /\ UNCHANGED events
       \/ Running(d) /\ events < MaxEvents /\ events' = events + 1
    /\ operation' = [operation EXCEPT ![d].lease = FALSE]
    /\ UNCHANGED <<job, current>> /\ UNCHANGED Rows

Crash(p) ==
    /\ p \in current /\ events < MaxEvents /\ events' = events + 1
    /\ current' = current \ {p} /\ job' = [job EXCEPT ![p] = NoJob]
    /\ UNCHANGED operation /\ UNCHANGED Rows

\* A process started again, in the current epoch; a superseded one claims nothing until then.
Restart(p) ==
    /\ p \notin current
    /\ current' = current \cup {p} /\ job' = [job EXCEPT ![p] = NoJob]
    /\ UNCHANGED <<operation, events>> /\ UNCHANGED Rows

\* enterRecovery, by a process that runs no worker: every active publication fails, no worker's
\* epoch is current until its process restarts, and no scope is released.
NewEpoch ==
    /\ events < MaxEvents /\ events' = events + 1
    /\ current' = {} /\ barred' = Machines
    /\ operation' = [d \in Drafts |->
            IF Active(d) THEN [operation[d] EXCEPT !.state = "failed", !.owner = NoProc, !.lease = FALSE]
            ELSE operation[d]]
    /\ UNCHANGED <<job, head, draft, releases, desired, applied, held, status, fragments, edits>>

ReleaseScope(m) ==
    /\ m \in barred /\ barred' = barred \ {m}
    /\ UNCHANGED <<head, draft, operation, job, releases, desired, applied, held, status, current,
                   fragments, edits, events>>

\* An apply operation of m's Desired release takes the machine's scope (T5).
TakeScope(m) ==
    /\ desired[m] # NoRelease /\ held[m] = NoRelease /\ m \notin barred /\ events < MaxEvents
    /\ held' = [held EXCEPT ![m] = desired[m]] /\ events' = events + 1
    /\ UNCHANGED <<head, draft, operation, job, releases, desired, applied, barred, status,
                   current, fragments, edits>>

\* It ends: completed, its release is the machine's Applied.
FreeScope(m) ==
    /\ held[m] # NoRelease /\ held' = [held EXCEPT ![m] = NoRelease]
    /\ applied' \in {applied, [applied EXCEPT ![m] = held[m].base[m]]}
    /\ UNCHANGED <<head, draft, operation, job, releases, desired, barred, status, current,
                   fragments, edits, events>>

\* Records that come after a worker's own read of the same: an endpoint change or a
\* contradicting observation of a covered machine; a class recorded of the dependency.
Told(what, reads) ==
    [p \in Procs |->
        IF job[p].pc \in reads THEN [job[p] EXCEPT !.news = job[p].news \cup {what}] ELSE job[p]]

NodeChanges ==
    /\ events < MaxEvents /\ events' = events + 1
    /\ \E p \in Procs : job[p].pc \in {"observed", "pinned", "built"}
    /\ job' = Told("node", {"observed", "pinned", "built"})
    /\ UNCHANGED <<head, draft, operation, releases, desired, applied, held, barred, status,
                   current, fragments, edits>>

StatusRecorded ==
    /\ events < MaxEvents /\ events' = events + 1 /\ status # "none"
    /\ status' \in {"retained", "other"} \ {status}
    /\ job' = Told("status", {"pinned", "built"})
    /\ UNCHANGED <<head, draft, operation, releases, desired, applied, held, barred, current,
                   fragments, edits>>

WorkerStep(p) ==
    \/ Heartbeat(p) \/ ReadSnapshot(p) \/ ObserveMachines(p) \/ ReadPinned(p) \/ BuildRelease(p)
    \/ CommitRelease(p) \/ CommitRefused(p) \/ CommitFails(p) \/ FailPublish(p)

Next ==
    \/ \E d \in Drafts :
        \/ UpdateFragment(d) \/ UpdateProfile(d)
        \/ \E m \in Machines :
            \/ \E selection \in SUBSET Names : UpdateAssignment(d, m, selection)
            \/ \E b \in Bases : ImportBase(d, m, b)
        \/ \E k \in Keys : RemoveSource(d, k)
        \/ DiscardDraft(d) \/ RequestPublication(d) \/ LeaseLapses(d)
        \/ \E p \in Procs : ClaimPublish(p, d)
    \/ \E p \in Procs :
        \/ WorkerStep(p) \/ StopRun(p) \/ Crash(p) \/ Restart(p)
    \/ \E m \in Machines : ReleaseScope(m) \/ TakeScope(m) \/ FreeScope(m)
    \/ NewEpoch \/ NodeChanges \/ StatusRecorded

Spec == Init /\ [][Next]_vars

\* The fairness of the server: a worker's loop goes on from each step to the next, the oldest
\* eligible job is claimed first, a stopped process is started again, and the clock passes the
\* lease of a job nobody runs.
Fairness ==
    /\ \A p \in Procs : WF_vars(WorkerStep(p)) /\ WF_vars(Restart(p))
    /\ \A d \in Drafts :
        /\ SF_vars(\E p \in Procs : ClaimPublish(p, d))
        /\ WF_vars(~Running(d) /\ LeaseLapses(d))

FairSpec == Spec /\ Fairness

-----------------------------------------------------------------------------
(* Properties.                                                             *)

Revision(k) == IF k \in Machines THEN SUBSET Names ELSE SUBSET (1 .. fragments)

(* Rows and jobs have their types; a draft's base is the revision of a head that exists, never past
   the head (setEntry reads it under the draft's lock, and heads only advance). *)
TypeOK ==
    /\ \A k \in Keys : head[k].n \in Nat /\ head[k].rev \in Revision(k) /\ (head[k].n = 0 => head[k].rev = {})
    /\ \A d \in Drafts :
        /\ draft[d].state \in {"open", "published", "discarded"} /\ draft[d].rev \in 1 .. MaxEdits + 2
        /\ draft[d].base \in [Machines -> {0, 1} \cup Bases]
        /\ \A k \in Keys : draft[d].entry[k].rev \in Revision(k) /\ draft[d].entry[k].base \in 0 .. head[k].n
        /\ operation[d].state \in {"none", "queued", "running", "succeeded", "failed"}
        /\ operation[d].owner \in Procs \cup {NoProc} /\ operation[d].gen \in {0} \cup Generations
    /\ \A p \in Procs :
        job[p].pc \in {"idle", "claimed", "snapshot", "observed", "pinned", "built", "refused"}
    /\ desired \in [Machines -> releases \cup {NoRelease}] /\ applied \in [Machines -> {0, 1} \cup Bases]
    /\ held \in [Machines -> releases \cup {NoRelease}]
    /\ barred \subseteq Machines /\ current \subseteq Procs /\ status \in {"none", "retained", "other"}

(* A release is what the heads it leaves compose: recomputed from the rows as its commit leaves
   them, every covered machine's fragments and import base are the ones compiled from a snapshot
   long before, every machine with an import base is covered, and each pin is its fragment's head.
   Another draft published meanwhile, an import base applied or a name introduced by both would
   break it (publish.go checkInputs and moveHead, pipeline.go readSelections). A machine never
   assigned when the snapshot was read has no head to hold: it composes its import base alone. *)
ReleaseIsCurrent ==
    [][\A r \in releases' \ releases :
        \A m \in Machines :
            LET base == IF draft[r.draft].base[m] # 0 THEN draft[r.draft].base[m] ELSE applied[m]
                pins == IF "profile" \in head'[m].rev THEN head'["profile"].rev ELSE {}
            IN /\ r.base[m] = base
               /\ base # 0 /\ m \in r.named =>
                    /\ r.composed[m] =
                        Compose(head'[m].rev, head'["profile"].rev, head'["fragment"].rev)
                    /\ pins \subseteq head'["fragment"].rev
               /\ m \notin r.named => r.composed[m] = {}]_vars

(* While a publication of a draft is queued or running, the draft stays open at the revision it
   bound, whoever edits, imports into or discards it (drafts.go lockDraft). *)
ActiveDraftFixed ==
    \A d \in Drafts : Active(d) => draft[d].state = "open" /\ draft[d].rev = operation[d].rev

(* What the publish operation says is what happened: a succeeded one's draft is published at the
   revision it bound with exactly one release of it, and a draft whose publication failed has none,
   whichever workers ran, lost their lease or reported late; until it says so, the draft is fixed
   (worker.go, publish.go finishPublish). *)
OutcomeTellsRelease ==
    /\ TypeOK
    /\ ActiveDraftFixed
    /\ \A d \in Drafts :
        LET mine == {r \in releases : r.draft = d} IN
        /\ operation[d].state = "succeeded" <=> mine # {}
        /\ draft[d].state = "published" <=> mine # {}
        /\ mine # {} => Cardinality(mine) = 1 /\ \A r \in mine : r.rev = operation[d].rev

(* Every publication ends, succeeded or failed, so its draft is published or accepts edits again:
   lapsed leases, crashed and superseded workers leave the job to another claim (worker.go
   publishLoop, publish.go finishPublish). *)
PublicationEnds == \A d \in Drafts : Active(d) ~> ~Active(d)

=============================================================================
