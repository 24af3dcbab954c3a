--------------------------- MODULE PublicationProofs ---------------------------
(***************************************************************************)
(* Theorems about Publication, for every set of drafts, machines, import   *)
(* bases and worker processes, and any number of edits and faults.         *)
(***************************************************************************)
EXTENDS Publication, FiniteSetTheorems, FunctionTheorems, TLAPS

Atoms == Nat \cup Names
ImportBases == {0, 1} \cup Bases
Building == {"snapshot", "observed", "pinned", "built"}

HeadRow == [n : Nat, rev : SUBSET Atoms]
EntryRow == [set : BOOLEAN, base : Nat, rev : SUBSET Atoms]
DraftRow ==
    [state : {"open", "published", "discarded"}, rev : Nat \ {0}, entry : [Keys -> EntryRow],
     base : [Machines -> ImportBases]]
OperationRow ==
    [state : {"none", "queued", "running", "succeeded", "failed"}, rev : Nat,
     owner : Procs \cup {NoProc}, gen : {0} \cup Generations, lease : BOOLEAN]
UnitRow ==
    [base : [Machines -> ImportBases], composed : [Machines -> SUBSET Atoms],
     used : [Keys -> Nat], changed : SUBSET Keys]
JobRow ==
    [pc : {"idle", "claimed", "refused"} \cup Building, draft : Drafts \cup {NoDraft}, rev : Nat,
     gen : {0} \cup Generations, unit : UnitRow, news : SUBSET {"node", "status"}]
ReleaseRow ==
    [draft : Drafts \cup {NoDraft}, rev : Nat, base : [Machines -> ImportBases],
     composed : [Machines -> SUBSET Atoms], named : SUBSET Keys]

HeadsTyped == head \in [Keys -> HeadRow] /\ fragments \in Nat
DraftsTyped == draft \in [Drafts -> DraftRow] /\ edits \in 0 .. MaxEdits
ReleasesTyped ==
    /\ releases \subseteq ReleaseRow
    /\ desired \in [Machines -> releases \cup {NoRelease}]
    /\ held \in [Machines -> releases \cup {NoRelease}]
    /\ applied \in [Machines -> ImportBases]
OthersTyped ==
    /\ barred \subseteq Machines /\ current \subseteq Procs
    /\ status \in {"none", "retained", "other"} /\ events \in Nat
OperationsTyped == operation \in [Drafts -> OperationRow]
JobsTyped == job \in [Procs -> JobRow]
Typed == HeadsTyped /\ DraftsTyped /\ ReleasesTyped /\ OthersTyped /\ OperationsTyped /\ JobsTyped

\* A revision is of its kind; a name without a head has none.
HeadsFit == \A k \in Keys : head[k].rev \in Revision(k) /\ (head[k].n = 0 => head[k].rev = {})

\* A draft's revision counts the edits made to it and its publication.
DraftFits(d) ==
    /\ draft[d].rev <= edits + (IF draft[d].state = "published" THEN 2 ELSE 1)
    /\ \A k \in Keys : draft[d].entry[k].rev \in Revision(k) /\ draft[d].entry[k].base <= head[k].n

\* What an operation says of its draft and of its release.
Outcome(d) ==
    LET mine == {r \in releases : r.draft = d} IN
    /\ Active(d) => draft[d].state = "open" /\ draft[d].rev = operation[d].rev
    /\ operation[d].state = "succeeded" <=> mine # {}
    /\ draft[d].state = "published" <=> mine # {}
    /\ mine # {} => Cardinality(mine) = 1 /\ \A r \in mine : r.rev = operation[d].rev

\* The unit names k: its commit compares k's head with what the snapshot read.
Binds(u, k) == k \in u.changed \/ u.used[k] # 0

\* What the unit says of machine m, as long as the draft is at the job's revision and no head the
\* unit uses has moved. What it does not bind the machine's composition does not depend on.
Composes(d, u, m) ==
    /\ ~Binds(u, m) => u.composed[m] = {}
    /\ Binds(u, m) /\ u.base[m] # 0 =>
        /\ "profile" \in After(d, m) => Binds(u, "profile") /\ Binds(u, "fragment")
        /\ "fragment" \in After(d, m) => Binds(u, "fragment")
        /\ u.composed[m] = Compose(After(d, m), After(d, "profile"), After(d, "fragment"))
        /\ "profile" \in After(d, m) => After(d, "profile") \subseteq After(d, "fragment")

UnitTrue(d, u) ==
    /\ u.changed = {k \in Keys : draft[d].entry[k].set}
    /\ (\A k \in Keys : u.used[k] # 0 => u.used[k] = head[k].n) => \A m \in Machines : Composes(d, u, m)

JobFits(j) ==
    /\ j.pc = "idle" => j.draft = NoDraft
    /\ j.pc # "idle" => j.draft \in Drafts /\ j.rev <= draft[j.draft].rev
    /\ j.pc \in Building =>
        /\ \A k \in Keys : j.unit.used[k] <= head[k].n
        /\ draft[j.draft].rev = j.rev => UnitTrue(j.draft, j.unit)

Inv ==
    /\ Typed /\ HeadsFit
    /\ \A d \in Drafts : DraftFits(d) /\ Outcome(d)
    /\ \A p \in Procs : JobFits(job[p])

-----------------------------------------------------------------------------
(* The parts of the invariant that a step carries over. *)

\* A job goes on with its draft and, while it builds, with its unit; or it ends.
Continues(p) ==
    \/ job'[p].pc = "idle" /\ job'[p].draft = NoDraft
    \/ job[p].pc = "idle" /\ job'[p] = job[p]
    \/ /\ job[p].pc # "idle" /\ job'[p].pc # "idle" /\ job'[p].draft = job[p].draft /\ job'[p].rev = job[p].rev
       /\ job'[p].pc \in Building => job[p].pc \in Building /\ job'[p].unit = job[p].unit

\* Heads and drafts stay as they are or get a later number.
HeadsAdvance == \A k \in Keys : head'[k] = head[k] \/ head'[k].n > head[k].n
DraftsAdvance == \A d \in Drafts : draft'[d] = draft[d] \/ draft'[d].rev > draft[d].rev

LEMMA KeysFacts == Machines \subseteq Keys /\ "profile" \in Keys /\ "fragment" \in Keys
BY DEF Keys, Names

\* What the unit says of the heads it binds goes on being so, or one of them has moved.
LEMMA UnitStays ==
    ASSUME NEW d \in Drafts, NEW u \in UnitRow, Typed, HeadsTyped', HeadsAdvance, draft'[d] = draft[d],
           \A k \in Keys : u.used[k] <= head[k].n, UnitTrue(d, u)
    PROVE  UnitTrue(d, u)'
<1>1. u.changed = {k \in Keys : draft'[d].entry[k].set} BY DEF UnitTrue
<1>2. ASSUME \A k \in Keys : u.used[k] # 0 => u.used[k] = head'[k].n, NEW m \in Machines
      PROVE  Composes(d, u, m)'
  <2>1. \A k \in Keys : u.used[k] \in Nat /\ head[k].n \in Nat /\ head'[k].n \in Nat
    BY DEF Typed, HeadsTyped, HeadRow, UnitRow
  <2>2. \A k \in Keys : u.used[k] # 0 => head'[k] = head[k]
    BY <1>2, <2>1 DEF HeadsAdvance
  <2>3. Composes(d, u, m) BY <1>2, <2>2 DEF UnitTrue
  <2>4. \A k \in Keys : Binds(u, k) => After(d, k)' = After(d, k)
    BY <2>2, <1>1 DEF Binds, After
  <2>5. \A k \in Keys : Binds(u, k)' <=> Binds(u, k) BY DEF Binds
  <2>6. CASE ~Binds(u, m) BY <2>6, <2>3, <2>5, KeysFacts DEF Composes
  <2>7. CASE Binds(u, m) /\ u.base[m] = 0 BY <2>7, <2>5, KeysFacts DEF Composes
  <2>8. CASE Binds(u, m) /\ u.base[m] # 0
    <3>1. After(d, m)' = After(d, m) BY <2>8, <2>4, KeysFacts
    <3>2. "profile" \in After(d, m) =>
            After(d, "profile")' = After(d, "profile") /\ After(d, "fragment")' = After(d, "fragment")
      BY <2>8, <2>3, <2>4, KeysFacts DEF Composes
    <3>3. "fragment" \in After(d, m) => After(d, "fragment")' = After(d, "fragment")
      BY <2>8, <2>3, <2>4, KeysFacts DEF Composes
    <3>4. Compose(After(d, m), After(d, "profile"), After(d, "fragment"))'
            = Compose(After(d, m), After(d, "profile"), After(d, "fragment"))
      BY <3>1, <3>2, <3>3 DEF Compose
    <3> QED BY <2>8, <2>3, <2>5, <3>1, <3>2, <3>3, <3>4, KeysFacts DEF Composes
  <2> QED BY <2>6, <2>7, <2>8
<1> QED BY <1>1, <1>2 DEF UnitTrue

LEMMA JobStays ==
    ASSUME NEW p \in Procs, Typed, HeadsTyped', DraftsTyped', HeadsAdvance, DraftsAdvance,
           JobFits(job[p]), Continues(p)
    PROVE  JobFits(job[p])'
<1> DEFINE j == job[p]
           d == j.draft
<1>1. CASE job'[p].pc = "idle" BY <1>1 DEF JobFits, Continues, Building
<1>2. CASE job'[p].pc # "idle"
  <2>0. Continues(p) => job[p].pc # "idle" /\ job'[p].draft = d /\ job'[p].rev = j.rev
    BY <1>2 DEF Continues
  <2>1. j.pc # "idle" /\ job'[p].draft = d /\ job'[p].rev = j.rev /\ d \in Drafts /\ j.rev <= draft[d].rev
    BY <2>0 DEF JobFits
  <2>2. j \in JobRow /\ j.rev \in Nat /\ draft[d].rev \in Nat /\ draft'[d].rev \in Nat
    BY <2>1 DEF Typed, JobsTyped, JobRow, DraftsTyped, DraftRow
  <2>3. j.rev <= draft'[d].rev /\ (draft'[d].rev = j.rev => draft'[d] = draft[d])
    BY <2>1, <2>2 DEF DraftsAdvance
  <2>4. ASSUME job'[p].pc \in Building
        PROVE  /\ \A k \in Keys : job'[p].unit.used[k] <= head'[k].n
               /\ draft'[d].rev = j.rev => UnitTrue(job[p].draft, job[p].unit)'
    <3>1. j.pc \in Building /\ job'[p].unit = j.unit BY <2>4, <1>2 DEF Continues
    <3>2. j.unit \in UnitRow BY <2>2 DEF JobRow
    <3>3. \A k \in Keys : j.unit.used[k] <= head[k].n BY <2>1, <3>1 DEF JobFits
    <3>4. \A k \in Keys : j.unit.used[k] \in Nat /\ head[k].n \in Nat /\ head'[k].n \in Nat
      BY <3>2 DEF Typed, HeadsTyped, HeadRow, UnitRow
    <3>5. \A k \in Keys : j.unit.used[k] <= head'[k].n BY <3>3, <3>4 DEF HeadsAdvance
    <3>6. ASSUME draft'[d].rev = j.rev PROVE UnitTrue(job[p].draft, job[p].unit)'
      <4>1. draft'[d] = draft[d] BY <3>6, <2>3
      <4>2. UnitTrue(d, j.unit) BY <4>1, <3>6, <2>1, <3>1 DEF JobFits
      <4>3. ASSUME NEW e, NEW u, e = d, u = j.unit PROVE UnitTrue(e, u)'
        BY <4>1, <4>2, <4>3, <2>1, <3>2, <3>3, UnitStays
      <4> QED BY <4>3, <2>1, <3>1
    <3> QED BY <3>1, <3>5, <3>6
  <2> QED BY <1>2, <2>1, <2>3, <2>4 DEF JobFits
<1> QED BY <1>1, <1>2

LEMMA RevisionGrows ==
    ASSUME HeadsTyped, HeadsTyped', fragments <= fragments', NEW k \in Keys
    PROVE  Revision(k) \subseteq Revision(k)'
BY DEF HeadsTyped, Revision

\* What a step may do to a draft and its operation while no release is made: the operation, if it is
\* active, goes on or fails; one is requested, or an edit made, of an open draft without one.
OutcomeStep(d) ==
    \/ /\ draft'[d] = draft[d] /\ operation'[d].rev = operation[d].rev
       /\ \/ operation'[d].state = operation[d].state
          \/ Active(d) /\ operation'[d].state \in {"running", "failed"}
    \/ /\ draft'[d] = draft[d] /\ draft[d].state = "open" /\ ~Active(d)
       /\ operation'[d].state = "queued" /\ operation'[d].rev = draft[d].rev
    \/ /\ operation'[d] = operation[d] /\ draft[d].state = "open" /\ ~Active(d)
       /\ draft'[d].state \in {"open", "discarded"}

LEMMA OutcomeStays ==
    ASSUME NEW d \in Drafts, Outcome(d), OutcomeStep(d), UNCHANGED releases
    PROVE  Outcome(d)'
<1> DEFINE mine == {r \in releases : r.draft = d}
<1>1. mine' = mine OBVIOUS
<1>2. operation'[d].state = "succeeded" <=> operation[d].state = "succeeded"
  BY <1>1 DEF OutcomeStep, Outcome, Active
<1>3. draft'[d].state = "published" <=> draft[d].state = "published"
  BY DEF OutcomeStep
<1>4. mine # {} => operation'[d].rev = operation[d].rev
  BY DEF OutcomeStep, Outcome
<1>5. Active(d)' => draft'[d].state = "open" /\ draft'[d].rev = operation'[d].rev
  BY DEF OutcomeStep, Outcome, Active
<1> QED BY <1>1, <1>2, <1>3, <1>4, <1>5 DEF Outcome

\* A step that moves no head and makes no edit and no release.
LEMMA RowsStay ==
    ASSUME Inv, UNCHANGED <<head, draft, fragments, edits, releases>>, Typed',
           \A d \in Drafts : OutcomeStep(d),
           \A p \in Procs : Continues(p) \/ JobFits(job[p])'
    PROVE  Inv'
<1>1. HeadsFit' BY DEF Inv, HeadsFit, Revision
<1>2. ASSUME NEW d \in Drafts PROVE DraftFits(d)' /\ Outcome(d)'
  <2>1. DraftFits(d)' BY <1>2 DEF Inv, DraftFits, Revision
  <2>2. Outcome(d)' BY <1>2, OutcomeStays DEF Inv
  <2> QED BY <2>1, <2>2
<1>3. ASSUME NEW p \in Procs PROVE JobFits(job[p])'
  <2>1. HeadsAdvance /\ DraftsAdvance BY DEF HeadsAdvance, DraftsAdvance
  <2> QED BY <1>3, <2>1, JobStays DEF Inv, Typed
<1> QED BY <1>1, <1>2, <1>3 DEF Inv

LEMMA Idle == NoUnit \in UnitRow /\ NoJob \in JobRow /\ NoJob.pc = "idle" /\ NoJob.draft = NoDraft
<1>1. NoUnit \in UnitRow BY DEF NoUnit, UnitRow, ImportBases
<1> QED BY <1>1 DEF NoJob, JobRow

\* A step that only moves jobs on, and faults and the epoch's processes with them.
LEMMA JobsMove ==
    ASSUME Inv, JobsTyped', OthersTyped',
           UNCHANGED <<head, draft, operation, releases, desired, applied, held, fragments, edits>>,
           \A p \in Procs : Continues(p) \/ JobFits(job[p])'
    PROVE  Inv'
<1>1. Typed' BY DEF Inv, Typed, HeadsTyped, DraftsTyped, ReleasesTyped, OperationsTyped
<1>2. \A d \in Drafts : OutcomeStep(d) BY DEF OutcomeStep
<1> QED BY <1>1, <1>2, RowsStay

\* One worker's job goes on or ends.
LEMMA JobMoves ==
    ASSUME Inv, NEW p \in Procs, NEW row \in JobRow, job' = [job EXCEPT ![p] = row], OthersTyped',
           UNCHANGED <<head, draft, operation, releases, desired, applied, held, fragments, edits>>,
           Continues(p) \/ JobFits(job[p])'
    PROVE  Inv'
<1>1. JobsTyped' BY DEF Inv, Typed, JobsTyped
<1>2. ASSUME NEW q \in Procs PROVE Continues(q) \/ JobFits(job[q])'
  <2>1. CASE q = p BY <2>1
  <2>2. CASE q # p BY <2>2 DEF Continues, Inv, Typed, JobsTyped
  <2> QED BY <2>1, <2>2
<1> QED BY <1>1, <1>2, JobsMove

-----------------------------------------------------------------------------
(* Draft updates. *)

\* Whatever an update does to its draft's row, it counts a revision and an edit.
LEMMA EditStep ==
    ASSUME Inv, NEW d \in Drafts, LockDraft(d), NEW row \in DraftRow, draft' = [draft EXCEPT ![d] = row],
           row.rev = draft[d].rev + 1, row.state \in {"open", "discarded"},
           HeadsTyped', fragments <= fragments', edits' = edits + 1,
           \A k \in Keys : row.entry[k].rev \in Revision(k)' /\ row.entry[k].base <= head[k].n,
           UNCHANGED Rest
    PROVE  Inv'
<1> USE DEF Rest
<1>1. Typed'
  <2>1. edits \in 0 .. MaxEdits /\ MaxEdits \in Nat /\ edits < MaxEdits
    BY PublicationAssumption DEF Inv, Typed, DraftsTyped, LockDraft
  <2>2. DraftsTyped' BY <2>1 DEF Inv, Typed, DraftsTyped
  <2> QED BY <2>2 DEF Inv, Typed, ReleasesTyped, OthersTyped, OperationsTyped, JobsTyped
<1>2. draft'[d] = row /\ \A e \in Drafts : e # d => draft'[e] = draft[e]
  BY DEF Inv, Typed, DraftsTyped
<1>3. \A k \in Keys : Revision(k) \subseteq Revision(k)'
  BY RevisionGrows DEF Inv, Typed
<1>4. HeadsFit' BY <1>3 DEF Inv, HeadsFit
<1>5. \A e \in Drafts : draft[e].rev \in Nat /\ edits \in Nat
  BY DEF Inv, Typed, DraftsTyped, DraftRow
<1>6. ASSUME NEW e \in Drafts PROVE DraftFits(e)'
  <2>1. CASE e = d
    <3>1. draft[d].rev <= edits + 1 BY DEF Inv, DraftFits, LockDraft
    <3>2. row.rev <= edits' + 1 BY <3>1, <1>5
    <3> QED BY <2>1, <3>2, <1>2 DEF DraftFits
  <2>2. CASE e # d
    <3>1. DraftFits(e) BY DEF Inv
    <3>2. draft[e].rev <= edits' + (IF draft[e].state = "published" THEN 2 ELSE 1)
      BY <3>1, <1>5 DEF DraftFits
    <3> QED BY <2>2, <3>1, <3>2, <1>2, <1>3 DEF DraftFits
  <2> QED BY <2>1, <2>2
<1>7. ASSUME NEW e \in Drafts PROVE Outcome(e)'
  <2>1. OutcomeStep(e) BY <1>2 DEF OutcomeStep, LockDraft
  <2> QED BY <2>1, OutcomeStays DEF Inv
<1>8. ASSUME NEW p \in Procs PROVE JobFits(job[p])'
  <2>1. HeadsAdvance BY DEF HeadsAdvance
  <2>2. DraftsAdvance BY <1>2, <1>5 DEF DraftsAdvance
  <2>3. Continues(p) BY DEF Continues
  <2> QED BY <2>1, <2>2, <2>3, <1>1, JobStays DEF Inv, Typed
<1> QED BY <1>1, <1>4, <1>6, <1>7, <1>8 DEF Inv

LEMMA DraftFacts ==
    ASSUME Inv, NEW d \in Drafts
    PROVE  /\ draft[d] \in DraftRow /\ draft[d].rev + 1 \in Nat \ {0}
           /\ \A k \in Keys : /\ head[k] \in HeadRow /\ After(d, k) \in Revision(k)
                              /\ draft[d].entry[k] \in EntryRow
                              /\ draft[d].entry[k].rev \in Revision(k) /\ draft[d].entry[k].base <= head[k].n
<1>1. draft[d] \in DraftRow /\ draft[d].rev \in Nat /\ draft[d].entry \in [Keys -> EntryRow]
  BY DEF Inv, Typed, DraftsTyped, DraftRow
<1>2. DraftFits(d) /\ HeadsFit BY DEF Inv
<1> QED BY <1>1, <1>2 DEF DraftFits, HeadsFit, After, Inv, Typed, HeadsTyped

\* An update that sets one entry.
LEMMA EntryStep ==
    ASSUME Inv, NEW d \in Drafts, NEW k \in Keys, NEW rev, LockDraft(d), SetEntry(d, k, rev),
           HeadsTyped', fragments <= fragments', rev \in Revision(k)', UNCHANGED Rest
    PROVE  Inv'
<1> DEFINE e == draft[d].entry[k]
           new == [set |-> TRUE, rev |-> rev, base |-> IF e.set THEN e.base ELSE head[k].n]
           row == [draft[d] EXCEPT !.entry = [draft[d].entry EXCEPT ![k] = new], !.rev = draft[d].rev + 1]
<1>1. draft[d] \in DraftRow /\ draft[d].entry \in [Keys -> EntryRow] /\ draft[d].rev + 1 \in Nat \ {0}
  BY DraftFacts DEF DraftRow
<1>2. head[k].n \in Nat /\ e \in EntryRow /\ e.base \in Nat /\ e.base <= head[k].n
  BY DraftFacts DEF HeadRow, EntryRow
<1>3. Revision(k)' \subseteq SUBSET Atoms
  BY DEF Revision, HeadsTyped, Atoms, Names
<1>4. new \in EntryRow /\ new.base <= head[k].n BY <1>2, <1>3 DEF EntryRow
<1>5. row \in DraftRow /\ row.rev = draft[d].rev + 1 /\ row.state = draft[d].state
      /\ row.entry = [draft[d].entry EXCEPT ![k] = new]
  BY <1>1, <1>4 DEF DraftRow
<1>6. draft' = [draft EXCEPT ![d] = row]
  BY <1>1 DEF SetEntry, Inv, Typed, DraftsTyped, DraftRow
<1>7. \A l \in Keys : row.entry[l].rev \in Revision(l)' /\ row.entry[l].base <= head[l].n
  <2>1. \A l \in Keys : Revision(l) \subseteq Revision(l)' BY RevisionGrows DEF Inv, Typed
  <2> QED BY <2>1, <1>1, <1>4, <1>5, DraftFacts
<1>8. row.state = "open" /\ edits' = edits + 1 BY <1>5 DEF LockDraft, SetEntry
<1> HIDE DEF row, new
<1> QED BY <1>5, <1>6, <1>7, <1>8, EditStep

LEMMA Fragment == ASSUME Inv, NEW d \in Drafts, UpdateFragment(d) PROVE Inv'
<1>1. fragments \in Nat /\ fragments' = fragments + 1 /\ "fragment" \in Keys /\ "fragment" \notin Machines
  BY PublicationAssumption DEF Inv, Typed, HeadsTyped, UpdateFragment, Keys, Names
<1>2. HeadsTyped' BY <1>1 DEF UpdateFragment, Rest, Inv, Typed, HeadsTyped
<1>3. {fragments + 1} \in Revision("fragment")' BY <1>1 DEF Revision
<1> QED BY <1>1, <1>2, <1>3, EntryStep DEF UpdateFragment

\* The other updates insert no fragment revision.
LEMMA Inserted ==
    ASSUME Inv, UNCHANGED fragments, UNCHANGED Rest
    PROVE  HeadsTyped' /\ fragments <= fragments' /\ \A k \in Keys : Revision(k)' = Revision(k)
BY DEF Inv, Typed, HeadsTyped, Rest, Revision

LEMMA Profile == ASSUME Inv, NEW d \in Drafts, UpdateProfile(d) PROVE Inv'
<1>1. "profile" \in Keys /\ "fragment" \in Keys /\ Revision("profile") = Revision("fragment")
  BY PublicationAssumption DEF Keys, Names, Revision
<1>2. After(d, "fragment") \in Revision("profile")' BY <1>1, DraftFacts, Inserted DEF UpdateProfile
<1> QED BY <1>1, <1>2, Inserted, EntryStep DEF UpdateProfile

LEMMA Assignment ==
    ASSUME Inv, NEW d \in Drafts, NEW m \in Machines, NEW selection \in SUBSET Names,
           UpdateAssignment(d, m, selection)
    PROVE  Inv'
<1>1. m \in Keys /\ selection \in Revision(m)' BY DEF Keys, Revision
<1> QED BY <1>1, Inserted, EntryStep DEF UpdateAssignment

LEMMA Removal == ASSUME Inv, NEW d \in Drafts, NEW k \in Keys, RemoveSource(d, k) PROVE Inv'
<1>1. {} \in Revision(k)' BY DEF Revision
<1> QED BY <1>1, Inserted, EntryStep DEF RemoveSource

LEMMA Import == ASSUME Inv, NEW d \in Drafts, NEW m \in Machines, NEW b \in Bases, ImportBase(d, m, b) PROVE Inv'
<1> DEFINE row == [draft[d] EXCEPT !.base = [draft[d].base EXCEPT ![m] = b], !.rev = draft[d].rev + 1]
<1>1. draft[d] \in DraftRow /\ draft[d].rev + 1 \in Nat \ {0} /\ draft[d].base \in [Machines -> ImportBases]
  BY DraftFacts DEF DraftRow
<1>2. row \in DraftRow /\ row.rev = draft[d].rev + 1 /\ row.state = draft[d].state /\ row.entry = draft[d].entry
  BY <1>1 DEF DraftRow, ImportBases
<1>3. draft' = [draft EXCEPT ![d] = row] /\ edits' = edits + 1
  BY <1>1 DEF ImportBase, Inv, Typed, DraftsTyped, DraftRow
<1>4. \A k \in Keys : row.entry[k].rev \in Revision(k)' /\ row.entry[k].base <= head[k].n
  BY <1>2, DraftFacts, Inserted DEF ImportBase
<1> HIDE DEF row
<1> QED BY <1>2, <1>3, <1>4, Inserted, EditStep DEF ImportBase, LockDraft

LEMMA Discard == ASSUME Inv, NEW d \in Drafts, DiscardDraft(d) PROVE Inv'
<1> DEFINE row == [draft[d] EXCEPT !.state = "discarded", !.rev = draft[d].rev + 1]
<1>1. draft[d] \in DraftRow /\ draft[d].rev + 1 \in Nat \ {0} BY DraftFacts
<1>2. row \in DraftRow /\ row.rev = draft[d].rev + 1 /\ row.state = "discarded" /\ row.entry = draft[d].entry
  BY <1>1 DEF DraftRow
<1>3. draft' = [draft EXCEPT ![d] = row] /\ edits' = edits + 1
  BY <1>1 DEF DiscardDraft, Inv, Typed, DraftsTyped, DraftRow
<1>4. \A k \in Keys : row.entry[k].rev \in Revision(k)' /\ row.entry[k].base <= head[k].n
  BY <1>2, DraftFacts, Inserted DEF DiscardDraft
<1> HIDE DEF row
<1> QED BY <1>2, <1>3, <1>4, Inserted, EditStep DEF DiscardDraft

-----------------------------------------------------------------------------
(* The request, the claim, and the end of an operation without a release. *)

LEMMA OperationFacts ==
    ASSUME Inv, NEW d \in Drafts
    PROVE  /\ operation[d] \in OperationRow /\ operation[d].rev \in Nat /\ draft[d].rev \in Nat
           /\ Active(d) => draft[d].rev = operation[d].rev
BY DEF Inv, Typed, OperationsTyped, OperationRow, DraftsTyped, DraftRow, Outcome

\* A step that changes operations, and jobs and faults with them.
LEMMA OperationsMove ==
    ASSUME Inv, OperationsTyped', JobsTyped', OthersTyped',
           UNCHANGED <<head, draft, releases, desired, applied, held, fragments, edits>>,
           \A d \in Drafts : OutcomeStep(d),
           \A p \in Procs : Continues(p) \/ JobFits(job[p])'
    PROVE  Inv'
<1>1. Typed' BY DEF Inv, Typed, HeadsTyped, DraftsTyped, ReleasesTyped
<1> QED BY <1>1, RowsStay

\* One draft's operation changes.
LEMMA OperationMoves ==
    ASSUME Inv, NEW d \in Drafts, NEW row \in OperationRow, operation' = [operation EXCEPT ![d] = row],
           OutcomeStep(d), JobsTyped', OthersTyped',
           UNCHANGED <<head, draft, releases, desired, applied, held, fragments, edits>>,
           \A p \in Procs : Continues(p) \/ JobFits(job[p])'
    PROVE  Inv'
<1>1. OperationsTyped' BY DEF Inv, Typed, OperationsTyped
<1>2. ASSUME NEW e \in Drafts PROVE OutcomeStep(e)
  <2>1. CASE e = d BY <2>1
  <2>2. CASE e # d BY <2>2 DEF OutcomeStep, Inv, Typed, OperationsTyped
  <2> QED BY <2>1, <2>2
<1> QED BY <1>1, <1>2, OperationsMove

LEMMA SameJobs ==
    ASSUME Inv, UNCHANGED job
    PROVE  JobsTyped' /\ \A p \in Procs : Continues(p)
BY DEF Inv, Typed, JobsTyped, Continues

LEMMA SameOthers ==
    ASSUME Inv, UNCHANGED <<barred, status, current, events>>
    PROVE  OthersTyped'
BY DEF Inv, Typed, OthersTyped

LEMMA Request == ASSUME Inv, NEW d \in Drafts, RequestPublication(d) PROVE Inv'
<1> DEFINE row == [state |-> "queued", rev |-> draft[d].rev, owner |-> NoProc, gen |-> 0, lease |-> FALSE]
<1>1. row \in OperationRow BY OperationFacts DEF OperationRow
<1>2. operation' = [operation EXCEPT ![d] = row] BY DEF RequestPublication
<1>3. OutcomeStep(d)
  BY <1>2 DEF OutcomeStep, RequestPublication, Inv, Typed, OperationsTyped
<1>4. JobsTyped' /\ OthersTyped' /\ \A p \in Procs : Continues(p)
  BY SameJobs, SameOthers DEF RequestPublication
<1> HIDE DEF row
<1> QED BY <1>1, <1>2, <1>3, <1>4, OperationMoves DEF RequestPublication

\* A claiming worker is idle, so the other workers and the operation carry no more generations than
\* there are processes, and one is left.
LEMMA GenerationLeft ==
    ASSUME Inv, NEW p \in Procs, NEW d \in Drafts, job[p].pc = "idle"
    PROVE  NextGeneration(d) \in Generations
<1> DEFINE f == [q \in Procs |-> IF q = p THEN operation[d].gen ELSE job[q].gen]
           carried == {f[q] : q \in Procs}
           n == Cardinality(Procs)
<1>1. IsFiniteSet(Procs) /\ n \in Nat BY PublicationAssumption, FS_CardinalityType
<1>2. IsFiniteSet(carried) /\ Cardinality(carried) <= n
  <2>1. f \in Surjection(Procs, carried) BY Fun_IsSurj
  <2> QED BY <2>1, <1>1, FS_Surjection
<1>3. IsFiniteSet(Generations) /\ Cardinality(Generations) = n + 1
  <2>1. 1 \in Int /\ n + 1 \in Int /\ ~(1 > n + 1) /\ (n + 1) - 1 + 1 = n + 1 BY <1>1
  <2> QED BY <2>1, FS_Interval DEF Generations
<1>4. ~(Generations \subseteq carried)
  <2> SUFFICES ASSUME Generations \subseteq carried PROVE FALSE OBVIOUS
  <2>1. Cardinality(Generations) <= Cardinality(carried) BY <1>2, FS_Subset
  <2>2. Cardinality(carried) \in Nat BY <1>2, FS_CardinalityType
  <2> QED BY <2>1, <2>2, <1>1, <1>2, <1>3
<1>5. PICK g \in Generations : g \notin carried BY <1>4
<1>6. g # operation[d].gen /\ \A q \in Procs : job[q].draft = d => job[q].gen # g
  <2>1. job[p].draft # d BY PublicationAssumption DEF Inv, JobFits
  <2> QED BY <1>5, <2>1
<1> QED BY <1>5, <1>6 DEF NextGeneration

LEMMA Claim == ASSUME Inv, NEW p \in Procs, NEW d \in Drafts, ClaimPublish(p, d) PROVE Inv'
<1> DEFINE g == NextGeneration(d)
           row == [state |-> "running", rev |-> operation[d].rev, owner |-> p, gen |-> g, lease |-> TRUE]
           run == [pc |-> "claimed", draft |-> d, rev |-> operation[d].rev, gen |-> g, unit |-> NoUnit,
                   news |-> {}]
<1>1. g \in Generations BY GenerationLeft DEF ClaimPublish
<1>2. operation' = [operation EXCEPT ![d] = row] /\ job' = [job EXCEPT ![p] = run] BY DEF ClaimPublish
<1>3. row \in OperationRow /\ row.state = "running" /\ row.rev = operation[d].rev
  BY <1>1, OperationFacts DEF OperationRow
<1>4. run \in JobRow /\ run.pc = "claimed" /\ run.draft = d /\ run.rev = operation[d].rev
  BY <1>1, OperationFacts, Idle DEF JobRow
<1>5. Active(d) BY DEF Active, ClaimPublish
<1> HIDE DEF row, run
<1>6. OutcomeStep(d)
  BY <1>2, <1>3, <1>5 DEF OutcomeStep, ClaimPublish, Inv, Typed, OperationsTyped
<1>7. JobsTyped' /\ OthersTyped' BY <1>2, <1>4, SameOthers DEF ClaimPublish, Inv, Typed, JobsTyped
<1>8. ASSUME NEW q \in Procs PROVE Continues(q) \/ JobFits(job[q])'
  <2>1. CASE q = p
    <3>1. job'[q] = run BY <2>1, <1>2 DEF Inv, Typed, JobsTyped
    <3>2. run.rev <= draft'[d].rev BY <1>4, <1>5, OperationFacts DEF ClaimPublish
    <3> QED BY <3>1, <3>2, <1>4 DEF JobFits, Building
  <2>2. CASE q # p BY <2>2, <1>2 DEF Inv, Typed, JobsTyped, Continues
  <2> QED BY <2>1, <2>2
<1> QED BY <1>2, <1>3, <1>6, <1>7, <1>8, OperationMoves DEF ClaimPublish

LEMMA Lapse == ASSUME Inv, NEW d \in Drafts, LeaseLapses(d) PROVE Inv'
<1> DEFINE row == [operation[d] EXCEPT !.lease = FALSE]
<1>1. row \in OperationRow /\ row.state = operation[d].state /\ row.rev = operation[d].rev
  BY OperationFacts DEF OperationRow
<1>2. operation' = [operation EXCEPT ![d] = row]
  BY OperationFacts DEF LeaseLapses, Inv, Typed, OperationsTyped, OperationRow
<1>3. JobsTyped' /\ OthersTyped' /\ \A p \in Procs : Continues(p)
  <2>1. events \in Nat /\ events' \in Nat BY DEF LeaseLapses, Inv, Typed, OthersTyped
  <2>2. OthersTyped' BY <2>1 DEF LeaseLapses, Rows, Inv, Typed, OthersTyped
  <2>3. UNCHANGED job BY DEF LeaseLapses
  <2> QED BY <2>2, <2>3, SameJobs
<1> HIDE DEF row
<1>4. OutcomeStep(d) BY <1>1, <1>2 DEF OutcomeStep, LeaseLapses, Rows, Inv, Typed, OperationsTyped
<1> QED BY <1>1, <1>2, <1>3, <1>4, OperationMoves DEF LeaseLapses, Rows

LEMMA Entry == ASSUME Inv, NewEpoch PROVE Inv'
<1>1. ASSUME NEW d \in Drafts
      PROVE  /\ operation'[d] \in OperationRow /\ operation'[d].rev = operation[d].rev
             /\ operation'[d].state = IF Active(d) THEN "failed" ELSE operation[d].state
  BY OperationFacts DEF NewEpoch, OperationRow
<1>2. OperationsTyped' BY <1>1 DEF OperationsTyped, NewEpoch
<1>3. \A d \in Drafts : OutcomeStep(d) BY <1>1 DEF OutcomeStep, NewEpoch
<1>4. JobsTyped' /\ OthersTyped' /\ \A p \in Procs : Continues(p)
  <2>1. OthersTyped'
    <3>1. events' = events + 1 /\ current' = {} /\ barred' = Machines /\ status' = status BY DEF NewEpoch
    <3>2. events \in Nat /\ status \in {"none", "retained", "other"} BY DEF Inv, Typed, OthersTyped
    <3> QED BY <3>1, <3>2 DEF OthersTyped
  <2>2. UNCHANGED job BY DEF NewEpoch
  <2> QED BY <2>1, <2>2, SameJobs
<1> QED BY <1>2, <1>3, <1>4, OperationsMove DEF NewEpoch

LEMMA Failure == ASSUME Inv, NEW p \in Procs, FailPublish(p) PROVE Inv'
<1> DEFINE d == job[p].draft
           row == [operation[d] EXCEPT !.state = "failed", !.owner = NoProc, !.lease = FALSE]
<1>1. d \in Drafts /\ Active(d)
  BY DEF Inv, JobFits, FailPublish, FinishPublish, Fence, Active
<1>2. row \in OperationRow /\ row.state = "failed" /\ row.rev = operation[d].rev
  BY <1>1, OperationFacts DEF OperationRow
<1>3. operation' = [operation EXCEPT ![d] = row]
  BY DEF FailPublish, FinishPublish
<1>4. JobsTyped' /\ OthersTyped' /\ \A q \in Procs : Continues(q)
  BY Idle, SameOthers DEF FailPublish, FinishPublish, Inv, Typed, JobsTyped, Continues
<1> HIDE DEF row
<1>5. OutcomeStep(d) BY <1>1, <1>2, <1>3 DEF OutcomeStep, FailPublish, Inv, Typed, OperationsTyped
<1> QED BY <1>1, <1>2, <1>3, <1>4, <1>5, OperationMoves DEF FailPublish

-----------------------------------------------------------------------------
(* The worker's steps up to its commit. *)

\* A name with a revision as the draft leaves it is the draft's or has a head.
LEMMA Named ==
    ASSUME Inv, NEW d \in Drafts, NEW k \in Keys, After(d, k) # {}
    PROVE  draft[d].entry[k].set \/ head[k].n > 0
BY DEF Inv, HeadsFit, After, Typed, HeadsTyped, HeadRow

\* The unit a snapshot gives is true of the rows it was read from.
LEMMA SnapshotTrue ==
    ASSUME Inv, NEW d \in Drafts, Selections(d)
    PROVE  /\ Unit(d) \in UnitRow /\ UnitTrue(d, Unit(d))
           /\ \A k \in Keys : Unit(d).used[k] <= head[k].n
<1> DEFINE u == Unit(d)
<1>1. \A k \in Keys : head[k].n \in Nat /\ head[k].rev \in SUBSET Atoms /\ (head[k].n = 0 => head[k].rev = {})
  BY DEF Inv, Typed, HeadsTyped, HeadRow, HeadsFit
<1>2. \A k \in Keys : After(d, k) \in SUBSET Atoms
  BY <1>1, DraftFacts DEF EntryRow, After
<1>3. \A m \in Machines : BaseAfter(d, m) \in ImportBases
  <2>1. draft[d].base \in [Machines -> ImportBases] /\ applied \in [Machines -> ImportBases]
    BY DraftFacts DEF DraftRow, Inv, Typed, ReleasesTyped
  <2> QED BY <2>1 DEF BaseAfter
<1>4. u \in UnitRow
  BY <1>1, <1>2, <1>3, KeysFacts DEF Unit, UnitRow, Compose, Unchanged
<1>5. \A k \in Keys : u.used[k] = IF k \in Unchanged(d) THEN head[k].n ELSE 0 BY DEF Unit
<1>6. u.changed = {k \in Keys : draft[d].entry[k].set} BY DEF Unit
<1>7. \A k \in Keys : Binds(u, k) <=> draft[d].entry[k].set \/ k \in Unchanged(d)
  BY <1>1, <1>5, <1>6 DEF Binds, Unchanged
<1>8. ASSUME NEW m \in Machines PROVE Composes(d, u, m)
  <2>1. m \in Keys /\ "profile" \in Keys /\ "fragment" \in Keys BY KeysFacts
  <2>2. u.base[m] # 0 <=> m \in Covered(d) BY DEF Unit, Covered
  <2>3. u.composed[m] = IF m \in Covered(d)
                        THEN Compose(After(d, m), After(d, "profile"), After(d, "fragment")) ELSE {}
    BY DEF Unit
  <2>4. ASSUME ~Binds(u, m) PROVE u.composed[m] = {}
    <3>1. ~draft[d].entry[m].set /\ m \notin Unchanged(d) BY <2>4, <2>1, <1>7
    <3>2. m \in Covered(d) => After(d, m) = {}
      BY <3>1, <2>1, <1>1 DEF Unchanged, After
    <3> QED BY <3>2, <2>3 DEF Compose
  <2>5. ASSUME m \in Covered(d), NEW name \in Names, name \in After(d, m)
        PROVE  After(d, name) # {} /\ Binds(u, name)
    <3>1. name \in Keys BY DEF Keys
    <3>2. After(d, name) # {} BY <2>5 DEF Selections
    <3>3. draft[d].entry[name].set \/ head[name].n > 0 BY <3>1, <3>2, Named
    <3> QED BY <3>1, <3>2, <3>3, <2>5, <1>7 DEF Unchanged
  <2>6. ASSUME m \in Covered(d), "profile" \in After(d, m)
        PROVE  After(d, "profile") = After(d, "fragment") /\ Binds(u, "fragment")
    <3>1. After(d, "profile") # {} BY <2>5, <2>6 DEF Names
    <3>2. ProfileNamed(d) BY <2>6, <3>1 DEF ProfileNamed
    <3>3. After(d, "profile") = After(d, "fragment") BY <3>2 DEF Selections
    <3>4. draft[d].entry["fragment"].set \/ head["fragment"].n > 0 BY <2>1, <3>1, <3>3, Named
    <3> QED BY <2>1, <3>2, <3>3, <3>4, <1>7 DEF Unchanged
  <2> HIDE DEF u
  <2> QED BY <2>2, <2>3, <2>4, <2>5, <2>6 DEF Composes, Names
<1> HIDE DEF u
<1>9. \A k \in Keys : u.used[k] <= head[k].n BY <1>1, <1>5
<1> QED BY <1>4, <1>6, <1>8, <1>9 DEF UnitTrue, u

LEMMA JobFacts ==
    ASSUME Inv, NEW p \in Procs
    PROVE  /\ job[p] \in JobRow /\ job[p].unit \in UnitRow /\ JobFits(job[p])
           /\ job[p].pc # "idle" => job[p].draft \in Drafts
BY DEF Inv, Typed, JobsTyped, JobRow, JobFits

LEMMA RowsCommitted ==
    ASSUME UNCHANGED Committed
    PROVE  UNCHANGED <<head, draft, operation, releases, desired, applied, held, barred, status, current,
                       fragments, edits, events>>
BY DEF Committed

\* The steps that keep the unit, or give it up.
LEMMA Proceeds ==
    ASSUME Inv, NEW p \in Procs, NEW pc \in Building \cup {"refused"}, NEW unit \in UnitRow, JobStep(p, pc, unit),
           job[p].pc # "idle", pc \in Building => job[p].pc \in Building /\ unit = job[p].unit,
           UNCHANGED <<head, draft, operation, releases, desired, applied, held, fragments, edits>>, OthersTyped'
    PROVE  Inv'
<1> DEFINE row == [job[p] EXCEPT !.pc = pc, !.unit = unit]
<1>1. row \in JobRow /\ row.pc = pc /\ row.draft = job[p].draft /\ row.rev = job[p].rev /\ row.unit = unit
  BY JobFacts DEF JobRow, Building
<1>2. job' = [job EXCEPT ![p] = row] BY DEF JobStep
<1> HIDE DEF row
<1>3. job'[p] = row BY <1>2 DEF Inv, Typed, JobsTyped
<1>4. Continues(p) BY <1>1, <1>3 DEF Continues, Building
<1> QED BY <1>1, <1>2, <1>4, JobMoves

LEMMA Snapshot == ASSUME Inv, NEW p \in Procs, ReadSnapshot(p) PROVE Inv'
<1> DEFINE d == job[p].draft
           row == [job[p] EXCEPT !.pc = "snapshot", !.unit = Unit(d)]
<1>1. OthersTyped' BY RowsCommitted, SameOthers DEF ReadSnapshot
<1>2. CASE SnapshotRefused(d, job[p].rev)
  <2>1. JobStep(p, "refused", NoUnit) BY <1>2 DEF ReadSnapshot
  <2>2. "refused" \notin Building BY DEF Building
  <2> QED BY <2>1, <2>2, <1>1, Idle, RowsCommitted, Proceeds DEF ReadSnapshot
<1>3. CASE ~SnapshotRefused(d, job[p].rev)
  <2>1. d \in Drafts /\ Selections(d) BY <1>3, JobFacts DEF SnapshotRefused, ReadSnapshot
  <2>2. Unit(d) \in UnitRow /\ UnitTrue(d, Unit(d)) /\ \A k \in Keys : Unit(d).used[k] <= head[k].n
    BY <2>1, SnapshotTrue
  <2>3. /\ row \in JobRow /\ row.pc = "snapshot" /\ row.draft = d /\ row.rev = job[p].rev
        /\ row.unit = Unit(d)
    BY <2>2, JobFacts DEF JobRow, Building
  <2>4. job' = [job EXCEPT ![p] = row] BY <1>3 DEF ReadSnapshot, JobStep
  <2>5. UNCHANGED <<head, draft, operation, releases, desired, applied, held, fragments, edits>>
    BY RowsCommitted DEF ReadSnapshot
  <2> HIDE DEF row
  <2>6. job'[p] = row BY <2>4 DEF Inv, Typed, JobsTyped
  <2>7. JobFits(job[p])'
    <3>1. job[p].rev <= draft[d].rev BY JobFacts DEF ReadSnapshot, JobFits
    <3>2. ASSUME NEW e, NEW u, e = d, u = Unit(d) PROVE UnitTrue(e, u)'
      <4>1. UnitTrue(e, u) BY <2>2, <3>2
      <4>2. \A m \in Machines : Composes(e, u, m)' <=> Composes(e, u, m)
        BY <2>5 DEF Composes, Binds, After, Compose
      <4> QED BY <4>1, <4>2, <2>5 DEF UnitTrue
    <3>3. UnitTrue(job[p].draft, job[p].unit)' BY <3>2, <2>6, <2>3
    <3> QED BY <3>1, <3>3, <2>1, <2>2, <2>3, <2>5, <2>6 DEF JobFits, Building
  <2> QED BY <1>1, <2>3, <2>4, <2>5, <2>7, JobMoves
<1> QED BY <1>2, <1>3

\* A step that ends one worker's job, with whatever it does to the processes and the faults.
LEMMA Ends ==
    ASSUME Inv, NEW p \in Procs, job' = [job EXCEPT ![p] = NoJob], OthersTyped',
           UNCHANGED <<head, draft, operation, releases, desired, applied, held, fragments, edits>>
    PROVE  Inv'
<1>1. job'[p] = NoJob BY DEF Inv, Typed, JobsTyped
<1>2. Continues(p) BY <1>1, Idle DEF Continues
<1> QED BY <1>2, Idle, JobMoves

\* The observations, the pinned reads and the build keep the unit, or are refused.
LEMMA Builds ==
    ASSUME Inv, NEW p \in Procs, NEW pc \in Building, job[p].pc \in Building, UNCHANGED Committed,
           JobStep(p, pc, job[p].unit) \/ JobStep(p, "refused", NoUnit)
    PROVE  Inv'
<1>1. OthersTyped' BY RowsCommitted, SameOthers
<1>2. "refused" \notin Building /\ job[p].pc # "idle" BY DEF Building
<1>3. UNCHANGED <<head, draft, operation, releases, desired, applied, held, fragments, edits>>
  BY RowsCommitted
<1>4. CASE JobStep(p, pc, job[p].unit) BY <1>4, <1>1, <1>2, <1>3, JobFacts, Proceeds
<1>5. CASE JobStep(p, "refused", NoUnit) BY <1>5, <1>1, <1>2, <1>3, Idle, Proceeds
<1> QED BY <1>4, <1>5

LEMMA Refused == ASSUME Inv, NEW p \in Procs, CommitRefused(p) PROVE Inv'
<1>1. events \in Nat /\ events' \in Nat BY DEF Inv, Typed, OthersTyped, CommitRefused
<1>2. OthersTyped' BY <1>1 DEF Inv, Typed, OthersTyped, CommitRefused
<1>3. "refused" \notin Building BY DEF Building
<1> QED BY <1>2, <1>3, Idle, Proceeds DEF CommitRefused

-----------------------------------------------------------------------------
(* The commit. *)

\* What the commit makes of the heads is what its draft leaves.
LEMMA HeadsAfter ==
    ASSUME Inv, NEW d \in Drafts, head' = MovedHeads(d)
    PROVE  /\ head' \in [Keys -> HeadRow] /\ HeadsAdvance
           /\ \A k \in Keys : head'[k].rev = After(d, k) /\ (head'[k].n = 0 => head'[k] = head[k])
           /\ \A k \in Keys : head[k].n <= head'[k].n
<1>1. \A k \in Keys : /\ head[k] \in HeadRow /\ head[k].n \in Nat
                      /\ draft[d].entry[k] \in EntryRow /\ draft[d].entry[k].rev \in SUBSET Atoms
  BY DraftFacts DEF HeadRow, EntryRow
<1>2. \A k \in Keys : head'[k] = IF draft[d].entry[k].set
                                 THEN [n |-> head[k].n + 1, rev |-> draft[d].entry[k].rev] ELSE head[k]
  BY DEF MovedHeads
<1>3. ASSUME NEW k \in Keys
      PROVE  /\ head'[k] \in HeadRow
             /\ draft[d].entry[k].set => head'[k].n = head[k].n + 1 /\ head'[k].rev = draft[d].entry[k].rev
             /\ ~draft[d].entry[k].set => head'[k] = head[k]
  <2>1. CASE draft[d].entry[k].set
    <3>1. head'[k] = [n |-> head[k].n + 1, rev |-> draft[d].entry[k].rev] BY <2>1, <1>2
    <3>2. head'[k].n = head[k].n + 1 /\ head'[k].rev = draft[d].entry[k].rev BY <3>1
    <3>3. head'[k] \in HeadRow BY <3>1, <1>1 DEF HeadRow
    <3> QED BY <2>1, <3>2, <3>3
  <2>2. CASE ~draft[d].entry[k].set BY <2>2, <1>1, <1>2
  <2> QED BY <2>1, <2>2
<1>4. \A k \in Keys : draft[d].entry[k].set =>
         head'[k].n = head[k].n + 1 /\ head'[k].rev = draft[d].entry[k].rev
  BY <1>3
<1>5. \A k \in Keys : ~draft[d].entry[k].set => head'[k] = head[k] BY <1>3
<1>6. head' \in [Keys -> HeadRow] BY <1>3 DEF MovedHeads
<1>7. HeadsAdvance BY <1>1, <1>4, <1>5 DEF HeadsAdvance
<1>8. \A k \in Keys : head'[k].rev = After(d, k) BY <1>4, <1>5 DEF After
<1> QED BY <1>1, <1>4, <1>5, <1>6, <1>7, <1>8

\* The release a commit makes.
Made(p) ==
    [draft |-> job[p].draft, rev |-> job[p].rev, base |-> job[p].unit.base,
     composed |-> job[p].unit.composed,
     named |-> job[p].unit.changed \cup {k \in Keys : job[p].unit.used[k] # 0}]

LEMMA CommitFacts ==
    ASSUME Inv, NEW p \in Procs, CommitRelease(p)
    PROVE  /\ job[p].draft \in Drafts /\ Active(job[p].draft) /\ draft[job[p].draft].rev = job[p].rev
           /\ operation[job[p].draft].rev = job[p].rev /\ draft[job[p].draft].state = "open"
           /\ Made(p) \in ReleaseRow /\ releases' = releases \cup {Made(p)}
           /\ Made(p).draft = job[p].draft /\ Made(p).rev = job[p].rev
           /\ Made(p).base = job[p].unit.base
<1>1. job[p].draft \in Drafts BY JobFacts DEF CommitRelease
<1>2. Active(job[p].draft) BY DEF CommitRelease, FinishPublish, Fence, Active
<1>3. draft[job[p].draft].rev = job[p].rev /\ draft[job[p].draft].state = "open" BY DEF CommitRelease, Refusal
<1>4. operation[job[p].draft].rev = job[p].rev BY <1>1, <1>2, <1>3, OperationFacts
<1>5. Made(p) \in ReleaseRow BY JobFacts DEF Made, ReleaseRow, JobRow, UnitRow
<1>6. releases' = releases \cup {Made(p)} BY DEF CommitRelease, Made
<1> QED BY <1>1, <1>2, <1>3, <1>4, <1>5, <1>6 DEF Made

LEMMA Commit == ASSUME Inv, NEW p \in Procs, CommitRelease(p) PROVE Inv'
<1> DEFINE d == job[p].draft
           row == [operation[d] EXCEPT !.state = "succeeded", !.owner = NoProc, !.lease = FALSE]
           new == [draft[d] EXCEPT !.state = "published", !.rev = draft[d].rev + 1]
<1>1. /\ d \in Drafts /\ Active(d) /\ draft[d].rev = job[p].rev /\ operation[d].rev = job[p].rev
      /\ draft[d].state = "open" /\ Made(p) \in ReleaseRow /\ releases' = releases \cup {Made(p)}
      /\ Made(p).draft = d /\ Made(p).rev = job[p].rev
  BY CommitFacts
<1>2. /\ row \in OperationRow /\ row.state = "succeeded" /\ row.rev = operation[d].rev
      /\ operation' = [operation EXCEPT ![d] = row]
  BY <1>1, OperationFacts DEF OperationRow, CommitRelease, FinishPublish
<1>3. draft[d] \in DraftRow /\ draft[d].rev \in Nat /\ draft[d].rev + 1 \in Nat \ {0}
  BY <1>1, DraftFacts, OperationFacts
<1>4. /\ new \in DraftRow /\ new.state = "published" /\ new.rev = draft[d].rev + 1
      /\ new.entry = draft[d].entry /\ new.base = draft[d].base
  BY <1>3 DEF DraftRow
<1>5. draft' = [draft EXCEPT ![d] = new]
  BY <1>1, <1>3 DEF CommitRelease, DraftRow, Inv, Typed, DraftsTyped
<1> HIDE DEF row, new
<1>6. /\ operation'[d] = row /\ draft'[d] = new
      /\ \A e \in Drafts : e # d => operation'[e] = operation[e] /\ draft'[e] = draft[e]
  BY <1>1, <1>2, <1>5 DEF Inv, Typed, OperationsTyped, DraftsTyped
<1>7. /\ head' \in [Keys -> HeadRow] /\ HeadsAdvance
      /\ \A k \in Keys : head'[k].rev = After(d, k) /\ (head'[k].n = 0 => head'[k] = head[k])
      /\ \A k \in Keys : head[k].n <= head'[k].n
  BY <1>1, HeadsAfter DEF CommitRelease
<1>8. Typed'
  <2>1. HeadsTyped' BY <1>7 DEF HeadsTyped, Inv, Typed, CommitRelease
  <2>2. DraftsTyped' BY <1>4, <1>5 DEF DraftsTyped, Inv, Typed, CommitRelease
  <2>3. OperationsTyped' BY <1>2 DEF OperationsTyped, Inv, Typed
  <2>4. JobsTyped' BY Idle DEF JobsTyped, Inv, Typed, CommitRelease, FinishPublish
  <2>5. OthersTyped'
    <3>1. status' \in {"none", "retained", "other"} BY DEF CommitRelease, Inv, Typed, OthersTyped
    <3> QED BY <3>1 DEF OthersTyped, Inv, Typed, CommitRelease
  <2>6. ReleasesTyped'
    <3>1. desired' = [m \in Machines |-> IF job[p].unit.base[m] # 0 THEN Made(p) ELSE desired[m]]
      BY DEF CommitRelease, Made
    <3>2. ReleasesTyped BY DEF Inv, Typed
    <3>3. UNCHANGED <<held, applied>> BY DEF CommitRelease
    <3> QED BY <1>1, <3>1, <3>2, <3>3 DEF ReleasesTyped
  <2> QED BY <2>1, <2>2, <2>3, <2>4, <2>5, <2>6 DEF Typed
<1>9. HeadsFit'
  <2>1. \A k \in Keys : After(d, k) \in Revision(k) /\ Revision(k)' = Revision(k)
    BY <1>1, DraftFacts DEF Revision, CommitRelease
  <2> QED BY <1>7, <2>1 DEF HeadsFit, Inv
<1>10. ASSUME NEW e \in Drafts PROVE DraftFits(e)'
  <2>1. DraftFits(e) BY DEF Inv
  <2>2. edits' = edits /\ edits \in Nat /\ draft[e].rev \in Nat
    BY OperationFacts DEF CommitRelease, Inv, Typed, DraftsTyped
  <2>3. \A k \in Keys : Revision(k)' = Revision(k) BY DEF Revision, CommitRelease
  <2>4. draft'[e].entry = draft[e].entry BY <1>4, <1>6
  <2>5. \A k \in Keys : draft'[e].entry[k].base <= head'[k].n
    <3>1. \A k \in Keys : draft[e].entry[k].base \in Nat /\ head[k].n \in Nat /\ head'[k].n \in Nat
                          /\ draft[e].entry[k].base <= head[k].n
      BY DraftFacts, <1>7 DEF EntryRow, HeadRow
    <3> QED BY <3>1, <2>4, <1>7
  <2>6. draft'[e].rev <= edits' + (IF draft'[e].state = "published" THEN 2 ELSE 1)
    BY <2>1, <2>2, <1>1, <1>4, <1>6 DEF DraftFits
  <2> QED BY <2>1, <2>3, <2>4, <2>5, <2>6 DEF DraftFits
<1>11. ASSUME NEW e \in Drafts PROVE Outcome(e)'
  <2> DEFINE mine == {r \in releases : r.draft = e}
  <2>1. Outcome(e) BY DEF Inv
  <2>2. CASE e # d
    <3>1. mine' = mine BY <1>1, <2>2
    <3> QED BY <2>1, <2>2, <3>1, <1>6 DEF Outcome, Active
  <2>3. CASE e = d
    <3>1. mine = {} BY <2>1, <2>3, <1>1 DEF Outcome, Active
    <3>2. mine' = {Made(p)} BY <3>1, <2>3, <1>1
    <3>3. Cardinality({Made(p)}) = 1 BY FS_Singleton
    <3>4. ~Active(e)' BY <2>3, <1>2, <1>6 DEF Active
    <3> QED BY <2>3, <3>2, <3>3, <3>4, <1>1, <1>2, <1>4, <1>6 DEF Outcome
  <2> QED BY <2>2, <2>3
<1>12. ASSUME NEW q \in Procs PROVE JobFits(job[q])'
  <2>1. DraftsAdvance BY <1>3, <1>4, <1>6 DEF DraftsAdvance
  <2>2. Continues(q) BY Idle DEF Continues, CommitRelease, FinishPublish, Inv, Typed, JobsTyped
  <2> QED BY <2>1, <2>2, <1>7, <1>8, JobStays DEF Inv, Typed
<1> QED BY <1>8, <1>9, <1>10, <1>11, <1>12 DEF Inv

-----------------------------------------------------------------------------
(* Faults and other actors. *)

LEMMA Stops == ASSUME Inv, NEW p \in Procs, StopRun(p) PROVE Inv'
<1>1. OthersTyped' BY DEF StopRun, Rows, Inv, Typed, OthersTyped
<1> QED BY <1>1, Ends DEF StopRun, Rows

LEMMA Crashes == ASSUME Inv, NEW p \in Procs, Crash(p) PROVE Inv'
<1>1. OthersTyped' BY DEF Crash, Rows, Inv, Typed, OthersTyped
<1> QED BY <1>1, Ends DEF Crash, Rows

LEMMA Restarts == ASSUME Inv, NEW p \in Procs, Restart(p) PROVE Inv'
<1>1. OthersTyped' BY DEF Restart, Rows, Inv, Typed, OthersTyped
<1> QED BY <1>1, Ends DEF Restart, Rows

LEMMA Works == ASSUME Inv, NEW p \in Procs, WorkerStep(p) PROVE Inv'
<1>1. CASE Heartbeat(p)
  <2>1. OthersTyped' BY <1>1, RowsCommitted, SameOthers DEF Heartbeat
  <2> QED BY <1>1, <2>1, RowsCommitted, Ends DEF Heartbeat
<1>2. CASE ReadSnapshot(p) BY <1>2, Snapshot
<1>3. CASE ObserveMachines(p) BY <1>3, Builds DEF ObserveMachines, Building
<1>4. CASE ReadPinned(p) BY <1>4, Builds DEF ReadPinned, Building
<1>5. CASE BuildRelease(p) BY <1>5, Builds DEF BuildRelease, Building
<1>6. CASE CommitRelease(p) BY <1>6, Commit
<1>7. CASE CommitRefused(p) BY <1>7, Refused
<1>8. CASE CommitFails(p)
  <2>1. OthersTyped' BY <1>8, RowsCommitted, SameOthers DEF CommitFails
  <2> QED BY <1>8, <2>1, RowsCommitted, Ends DEF CommitFails
<1>9. CASE FailPublish(p) BY <1>9, Failure
<1> QED BY <1>1, <1>2, <1>3, <1>4, <1>5, <1>6, <1>7, <1>8, <1>9 DEF WorkerStep

\* A step on the scopes changes neither drafts nor operations nor jobs.
LEMMA ScopesMove ==
    ASSUME Inv, UNCHANGED <<head, draft, operation, job, releases, fragments, edits>>,
           ReleasesTyped', OthersTyped'
    PROVE  Inv'
<1>1. Typed' BY DEF Inv, Typed, HeadsTyped, DraftsTyped, OperationsTyped, JobsTyped
<1>2. \A d \in Drafts : OutcomeStep(d) BY DEF OutcomeStep
<1> QED BY <1>1, <1>2, SameJobs, RowsStay

LEMMA Scopes == ASSUME Inv, NEW m \in Machines, ReleaseScope(m) \/ TakeScope(m) \/ FreeScope(m) PROVE Inv'
<1>1. CASE ReleaseScope(m)
  <2>1. ReleasesTyped' /\ OthersTyped'
    BY <1>1 DEF ReleaseScope, Inv, Typed, ReleasesTyped, OthersTyped
  <2> QED BY <1>1, <2>1, ScopesMove DEF ReleaseScope
<1>2. CASE TakeScope(m)
  <2>1. ReleasesTyped' /\ OthersTyped'
    BY <1>2 DEF TakeScope, Inv, Typed, ReleasesTyped, OthersTyped
  <2> QED BY <1>2, <2>1, ScopesMove DEF TakeScope
<1>3. CASE FreeScope(m)
  <2>1. held[m] \in releases /\ held[m].base[m] \in ImportBases
    BY <1>3 DEF FreeScope, Inv, Typed, ReleasesTyped, ReleaseRow
  <2>2. applied' \in [Machines -> ImportBases]
    BY <1>3, <2>1 DEF FreeScope, Inv, Typed, ReleasesTyped
  <2>3. held' \in [Machines -> releases \cup {NoRelease}]
    BY <1>3 DEF FreeScope, Inv, Typed, ReleasesTyped
  <2>4. ReleasesTyped' BY <1>3, <2>2, <2>3 DEF FreeScope, Inv, Typed, ReleasesTyped
  <2>5. OthersTyped' BY <1>3, SameOthers DEF FreeScope
  <2> QED BY <1>3, <2>4, <2>5, ScopesMove DEF FreeScope
<1> QED BY <1>1, <1>2, <1>3

\* News reach the jobs that build.
LEMMA NewsCome ==
    ASSUME Inv, NEW what \in {"node", "status"}, NEW reads \in SUBSET Building, job' = Told(what, reads),
           OthersTyped',
           UNCHANGED <<head, draft, operation, releases, desired, applied, held, fragments, edits>>
    PROVE  Inv'
<1>1. ASSUME NEW p \in Procs PROVE job'[p] \in JobRow /\ Continues(p)
  <2>1. job[p] \in JobRow BY JobFacts
  <2>2. CASE job[p].pc \in reads
    <3>1. job'[p] = [job[p] EXCEPT !.news = job[p].news \cup {what}] BY <2>2 DEF Told
    <3>2. /\ job'[p] \in JobRow /\ job'[p].pc = job[p].pc /\ job'[p].draft = job[p].draft
          /\ job'[p].rev = job[p].rev /\ job'[p].unit = job[p].unit
      BY <2>1, <3>1 DEF JobRow
    <3> QED BY <2>2, <3>2 DEF Continues, Building
  <2>3. CASE job[p].pc \notin reads
    <3>1. job'[p] = job[p] BY <2>3 DEF Told
    <3> QED BY <2>1, <3>1 DEF Continues
  <2> QED BY <2>2, <2>3
<1>2. JobsTyped' BY <1>1 DEF JobsTyped, Told
<1> QED BY <1>1, <1>2, JobsMove

LEMMA News == ASSUME Inv, NodeChanges \/ StatusRecorded PROVE Inv'
<1>1. CASE NodeChanges
  <2>1. OthersTyped' BY <1>1 DEF NodeChanges, Inv, Typed, OthersTyped
  <2>2. {"observed", "pinned", "built"} \in SUBSET Building BY DEF Building
  <2> QED BY <1>1, <2>1, <2>2, NewsCome DEF NodeChanges
<1>2. CASE StatusRecorded
  <2>1. OthersTyped' BY <1>2 DEF StatusRecorded, Inv, Typed, OthersTyped
  <2>2. {"pinned", "built"} \in SUBSET Building BY DEF Building
  <2> QED BY <1>2, <2>1, <2>2, NewsCome DEF StatusRecorded
<1> QED BY <1>1, <1>2

-----------------------------------------------------------------------------
(* The invariant. *)

LEMMA InitInv == Init => Inv
<1> SUFFICES ASSUME Init PROVE Inv OBVIOUS
<1> USE PublicationAssumption
<1>1. Names \cap Machines = {} /\ Assigned \subseteq Machines /\ Keys = Names \cup Machines
  BY DEF Names, Keys
<1>2. HeadsTyped
  BY DEF Init, HeadsTyped, HeadRow, Atoms, Names
<1>3. HeadsFit
  <2>1. ASSUME NEW k \in Keys PROVE head[k].rev \in Revision(k) /\ (head[k].n = 0 => head[k].rev = {})
    <3>1. CASE Published # {} /\ k \in Names
      <4>1. head[k] = [n |-> 1, rev |-> {1}] /\ fragments = 1 /\ k \notin Machines BY <3>1, <1>1 DEF Init
      <4> QED BY <4>1 DEF Revision
    <3>2. CASE ~(Published # {} /\ k \in Names) /\ k \in Assigned
      <4>1. head[k] = [n |-> 1, rev |-> {"profile"}] /\ k \in Machines BY <3>2, <1>1 DEF Init
      <4> QED BY <4>1 DEF Revision, Names
    <3>3. CASE ~(Published # {} /\ k \in Names) /\ k \notin Assigned
      <4>1. head[k] = [n |-> 0, rev |-> {}] BY <3>3 DEF Init
      <4> QED BY <4>1 DEF Revision
    <3> QED BY <3>1, <3>2, <3>3
  <2> QED BY <2>1 DEF HeadsFit
<1>4. DraftsTyped
  <2>1. NoEntry \in EntryRow BY DEF NoEntry, EntryRow
  <2>2. \A d \in Drafts : draft[d] \in DraftRow BY <2>1 DEF Init, DraftRow, ImportBases
  <2> QED BY <2>2 DEF DraftsTyped, Init
<1>5. FirstRelease \in ReleaseRow /\ FirstRelease.draft = NoDraft
  BY <1>1 DEF FirstRelease, ReleaseRow, ImportBases, Atoms, Keys
<1>6. releases \subseteq {FirstRelease} BY DEF Init
<1>7. ReleasesTyped
  <2>1. desired \in [Machines -> releases \cup {NoRelease}] /\ held \in [Machines -> releases \cup {NoRelease}]
    BY DEF Init
  <2>2. applied \in [Machines -> ImportBases] BY <1>5 DEF Init, ReleaseRow
  <2> QED BY <1>5, <1>6, <2>1, <2>2 DEF ReleasesTyped
<1>8. OthersTyped BY DEF Init, OthersTyped
<1>9. OperationsTyped BY DEF Init, OperationsTyped, OperationRow
<1>10. JobsTyped /\ \A p \in Procs : JobFits(job[p])
  BY Idle DEF Init, JobsTyped, JobFits, Building
<1>11. ASSUME NEW d \in Drafts PROVE DraftFits(d) /\ Outcome(d)
  <2>1. draft[d].state = "open" /\ draft[d].rev = 1 /\ edits = 0 /\ operation[d].state = "none"
        /\ draft[d].entry = [k \in Keys |-> NoEntry]
    BY DEF Init
  <2>2. DraftFits(d)
    <3>1. \A k \in Keys : draft[d].entry[k].rev = {} /\ draft[d].entry[k].base = 0 /\ head[k].n \in Nat
      BY <2>1, <1>2 DEF NoEntry, HeadsTyped, HeadRow
    <3> QED BY <3>1, <2>1 DEF DraftFits, Revision
  <2>3. {r \in releases : r.draft = d} = {} BY <1>5, <1>6
  <2> QED BY <2>1, <2>2, <2>3 DEF Outcome, Active
<1> QED BY <1>2, <1>3, <1>4, <1>7, <1>8, <1>9, <1>10, <1>11 DEF Inv, Typed

LEMMA NextInv == ASSUME Inv, [Next]_vars PROVE Inv'
<1>1. CASE \E d \in Drafts :
              \/ UpdateFragment(d) \/ UpdateProfile(d)
              \/ \E m \in Machines :
                  \/ \E selection \in SUBSET Names : UpdateAssignment(d, m, selection)
                  \/ \E b \in Bases : ImportBase(d, m, b)
              \/ \E k \in Keys : RemoveSource(d, k)
              \/ DiscardDraft(d) \/ RequestPublication(d) \/ LeaseLapses(d)
              \/ \E p \in Procs : ClaimPublish(p, d)
  BY <1>1, Fragment, Profile, Assignment, Import, Removal, Discard, Request, Lapse, Claim
<1>2. CASE \E p \in Procs : WorkerStep(p) \/ StopRun(p) \/ Crash(p) \/ Restart(p)
  BY <1>2, Works, Stops, Crashes, Restarts
<1>3. CASE \E m \in Machines : ReleaseScope(m) \/ TakeScope(m) \/ FreeScope(m) BY <1>3, Scopes
<1>4. CASE NewEpoch BY <1>4, Entry
<1>5. CASE NodeChanges \/ StatusRecorded BY <1>5, News
<1>6. CASE UNCHANGED vars
  <2>1. ReleasesTyped' /\ OthersTyped' BY <1>6, SameOthers DEF vars, Inv, Typed, ReleasesTyped, OthersTyped
  <2> QED BY <1>6, <2>1, ScopesMove DEF vars
<1> QED BY <1>1, <1>2, <1>3, <1>4, <1>5, <1>6 DEF Next

LEMMA Invariance == Spec => []Inv
<1>1. Inv /\ [Next]_vars => Inv' BY NextInv
<1> QED BY InitInv, <1>1, PTL DEF Spec

LEMMA InvTells == Inv => OutcomeTellsRelease
<1> SUFFICES ASSUME Inv PROVE OutcomeTellsRelease OBVIOUS
<1>1. \A k \in Keys : head[k].n \in Nat /\ head[k].rev \in Revision(k) /\ (head[k].n = 0 => head[k].rev = {})
  BY DEF Inv, Typed, HeadsTyped, HeadRow, HeadsFit
<1>2. ASSUME NEW d \in Drafts
      PROVE  /\ draft[d].state \in {"open", "published", "discarded"} /\ draft[d].rev \in 1 .. MaxEdits + 2
             /\ draft[d].base \in [Machines -> {0, 1} \cup Bases]
             /\ \A k \in Keys : draft[d].entry[k].rev \in Revision(k) /\ draft[d].entry[k].base \in 0 .. head[k].n
  <2>1. draft[d] \in DraftRow BY DraftFacts
  <2>2. draft[d].rev \in 1 .. MaxEdits + 2
    <3>1. edits \in 0 .. MaxEdits /\ MaxEdits \in Nat /\ draft[d].rev \in Nat \ {0}
      BY <2>1, PublicationAssumption DEF Inv, Typed, DraftsTyped, DraftRow
    <3>2. draft[d].rev <= edits + 2 BY <3>1 DEF Inv, DraftFits
    <3> QED BY <3>1, <3>2
  <2>3. \A k \in Keys : draft[d].entry[k].rev \in Revision(k) /\ draft[d].entry[k].base \in 0 .. head[k].n
    BY <1>1, DraftFacts DEF EntryRow
  <2> QED BY <2>1, <2>2, <2>3 DEF DraftRow, ImportBases
<1>3. \A d \in Drafts :
        /\ operation[d].state \in {"none", "queued", "running", "succeeded", "failed"}
        /\ operation[d].owner \in Procs \cup {NoProc} /\ operation[d].gen \in {0} \cup Generations
  BY OperationFacts DEF OperationRow
<1>4. \A p \in Procs :
        job[p].pc \in {"idle", "claimed", "snapshot", "observed", "pinned", "built", "refused"}
  BY JobFacts DEF JobRow, Building
<1>5. TypeOK
  BY <1>1, <1>2, <1>3, <1>4 DEF TypeOK, Inv, Typed, ReleasesTyped, OthersTyped, ImportBases
<1>6. ActiveDraftFixed BY DEF ActiveDraftFixed, Inv, Outcome
<1> QED BY <1>5, <1>6 DEF OutcomeTellsRelease, Inv, Outcome

\* What the publish operation of a draft says is what happened: it succeeded exactly when the draft
\* is published and has the one release of the revision it bound, whichever workers ran it, lost its
\* lease or reported late (worker.go, publish.go finishPublish).
THEOREM OutcomesTell == Spec => []OutcomeTellsRelease
BY Invariance, InvTells, PTL

\* A commit's release is what the heads it leaves compose, though it was built from a snapshot that
\* other drafts' commits, edits and applies followed (publish.go checkInputs, moveHead).
THEOREM CurrentReleases == Spec => ReleaseIsCurrent
<1> DEFINE Current ==
      \A r \in releases' \ releases :
        \A m \in Machines :
            LET base == IF draft[r.draft].base[m] # 0 THEN draft[r.draft].base[m] ELSE applied[m]
                pins == IF "profile" \in head'[m].rev THEN head'["profile"].rev ELSE {}
            IN /\ r.base[m] = base
               /\ base # 0 /\ m \in r.named =>
                    /\ r.composed[m] =
                        Compose(head'[m].rev, head'["profile"].rev, head'["fragment"].rev)
                    /\ pins \subseteq head'["fragment"].rev
               /\ m \notin r.named => r.composed[m] = {}
<1>1. ASSUME Inv, Next PROVE Current
  <2>1. CASE \E p \in Procs : CommitRelease(p)
    <3>1. PICK p \in Procs : CommitRelease(p) BY <2>1
    <3> DEFINE d == job[p].draft
               u == job[p].unit
    <3>2. /\ d \in Drafts /\ draft[d].rev = job[p].rev /\ releases' = releases \cup {Made(p)}
          /\ Made(p).draft = d /\ Made(p).base = u.base
      BY <1>1, <3>1, CommitFacts
    <3>3. /\ Made(p).composed = u.composed /\ u \in UnitRow
          /\ \A k \in Keys : k \in Made(p).named <=> Binds(u, k)
      BY <1>1, <3>1, JobFacts DEF Made, Binds, UnitRow
    <3>4. \A k \in Keys : head'[k].rev = After(d, k)
      BY <1>1, <3>1, <3>2, HeadsAfter DEF CommitRelease
    <3>5. \A m \in Machines : u.base[m] = BaseAfter(d, m)
      BY <3>1 DEF CommitRelease, Refusal, StaleInput
    <3>6. \A m \in Machines : Composes(d, u, m)
      <4>1. \A k \in Keys : u.used[k] # 0 => u.used[k] = head[k].n
        BY <3>1 DEF CommitRelease, Refusal, StaleInput
      <4>2. UnitTrue(d, u) BY <1>1, <3>1, <3>2, JobFacts DEF JobFits, CommitRelease, Building
      <4> QED BY <4>1, <4>2 DEF UnitTrue
    <3> HIDE DEF d, u
    <3>7. ASSUME NEW m \in Machines
          PROVE  /\ u.base[m] # 0 /\ Binds(u, m) =>
                      /\ u.composed[m] = Compose(head'[m].rev, head'["profile"].rev, head'["fragment"].rev)
                      /\ "profile" \in head'[m].rev => head'["profile"].rev \subseteq head'["fragment"].rev
                 /\ ~Binds(u, m) => u.composed[m] = {}
      BY <3>4, <3>6, KeysFacts DEF Composes
    <3>8. \A r \in releases' \ releases : r = Made(p) BY <3>2
    <3> QED BY <3>2, <3>3, <3>5, <3>7, <3>8, KeysFacts DEF BaseAfter
  <2>2. CASE ~\E p \in Procs : CommitRelease(p)
    <3>1. releases' = releases
      BY <1>1, <2>2 DEF Next, WorkerStep, UpdateFragment, UpdateProfile, UpdateAssignment, ImportBase,
         RemoveSource, DiscardDraft, RequestPublication, LeaseLapses, ClaimPublish, Heartbeat,
         ReadSnapshot, ObserveMachines, ReadPinned, BuildRelease, CommitRefused, CommitFails,
         FailPublish, StopRun, Crash, Restart, ReleaseScope, TakeScope, FreeScope, NewEpoch,
         NodeChanges, StatusRecorded, Rest, Rows, Committed
    <3> QED BY <3>1
  <2> QED BY <2>1, <2>2
<1>2. Inv /\ [Next]_vars => [Current]_vars BY <1>1
<1> QED BY <1>2, Invariance, PTL DEF Spec, ReleaseIsCurrent
=============================================================================
