--------------------------- MODULE RecoveryProofs ---------------------------
(***************************************************************************)
(* Recovery mode and adoption, for any number of machines, processes,       *)
(* epochs, backups and restores: mode and scopes agree, a gate opens only   *)
(* on its own entry, nothing is sent or adopted beside a request a restore  *)
(* erased, and an adopt plan has one outcome.                               *)
(***************************************************************************)
EXTENDS Adoption, FiniteSetTheorems, TLAPS

-----------------------------------------------------------------------------
(* Types. *)

LimitType == [procs : SUBSET Procs, machines : SUBSET Machines, stock : SUBSET Machines,
              backups : Nat, restores : Nat, entries : Nat, crashes : Nat, releases : Nat, plans : Nat]

Counted == \E l \in Limits : /\ left.backups <= l.backups /\ left.restores <= l.restores
                             /\ left.entries <= l.entries /\ left.crashes <= l.crashes
                             /\ left.releases <= l.releases /\ left.plans <= l.plans

TypeInv ==
    /\ inst \in [epoch : Epochs, recovery : BOOLEAN]
    /\ mach \in [Machines -> MachType]
    /\ entry \in [Keys -> Epochs \cup {NoEpoch}]
    /\ proc \in [Procs -> ProcType]
    /\ flight \in [Machines -> SUBSET Epochs]
    /\ stage \in [Machines -> Stages]
    /\ backup = NoBackup \/ RowsOK(backup)
    /\ left.restores > 0 => RowsOK(backup)
    /\ used \subseteq Epochs
    /\ entered \in [Epochs -> Procs \cup {NoProc}]
    /\ checked \in [Machines -> SUBSET (Releases \cup {NoRelease})]
    /\ pending \in BOOLEAN
    /\ left \in LimitType /\ Counted

-----------------------------------------------------------------------------
(* What the rows, the processes and the machines keep. *)

\* Of the rows alone, and so of a backup of them: mode and scopes agree, and a plan that was
\* adopted is committed and not refused.
RowsGood(i, rs) ==
    \A m \in Machines :
        /\ rs[m].scope # "absent" => (rs[m].scope = "normal") = ~i.recovery
        /\ rs[m].plan.adopted => rs[m].plan.state = "committed" /\ ~rs[m].plan.refused

Kept ==
    /\ RowsGood(inst, mach)
    /\ left.restores > 0 => RowsGood(backup[1], backup[2]) /\ backup[1].epoch \in used

Observing == {"recovery", "restoration", "evidence"}

\* Epochs are minted once, and only a running process is remembered to have entered one.
EpochsKept ==
    /\ inst.epoch \in used
    /\ \A e \in Epochs : entered[e] # NoProc => e \in used /\ proc[entered[e]].up

\* A process whose gate is closed does nothing; a recovery start whose gate is open entered, after
\* the epoch it started in; until the entry after a restore every process is such a start.
StartKept(p) ==
    LET r == proc[p] IN
    /\ r.up => r.epoch \in used /\ r.start \in used
    /\ ~r.up => ~r.gate /\ r.minted = NoEpoch /\ r.job.kind = "none"
    /\ r.gate => r.flag /\ r.job.kind = "none"
    /\ r.up /\ r.flag /\ ~r.gate => r.start # inst.epoch /\ entered[r.epoch] = p
    /\ r.minted # NoEpoch => entered[r.minted] = p /\ r.start # r.minted
    /\ entered[inst.epoch] = p => r.minted = inst.epoch
    /\ pending /\ r.up => r.gate /\ r.minted = NoEpoch

\* An inventory request holds the mode it read; an observation begun past a machine's transport
\* deadline has no attempt after it; a check that passed in the epoch is remembered.
JobKept(p) ==
    LET j == proc[p].job IN
    /\ j.kind = "none" <=> j.on = NoMachine
    /\ j.kind = "inventory" => ~inst.recovery
    /\ j.kind = "inventory-recovery" => inst.recovery
    /\ j.kind \in Observing /\ j.stage \in Past => stage[j.on] \in Past
    /\ j.kind = "restoration" /\ j.passed /\ proc[p].epoch = inst.epoch => j.release \in checked[j.on]

\* A request that can still arrive is the attempt's of the operation that holds the machine, unless
\* the machine's scope is not yet accounted for or its stop deadline has not passed.
MachKept(m) ==
    /\ stage[m] \in Past => flight[m] = {}
    /\ mach[m].settle # "none" => stage[m] \in Past
    /\ \A a, b \in flight[m] : a = b
    /\ \/ stage[m] = "stopped" \/ flight[m] = {} \/ mach[m].scope = "pre-restore-unaccounted"
       \/ flight[m] \subseteq {inst.epoch} /\ Holds(m) /\ mach[m].op.tried = "unaccounted"
    /\ mach[m].scope = "absent" \/ pending => stage[m] = "stopped" \/ flight[m] = {}
    /\ mach[m].scope = "ready" /\ ~pending => mach[m].marked \in checked[m]

\* Until the stop deadline of a restore passes nothing is observed, and once the entry committed
\* every scope, of which there are some, waits for its accounting.
StopKept ==
    (\E m \in Machines : stage[m] = "stopped") =>
        /\ \A m \in Machines : stage[m] = "stopped" /\ mach[m].settle = "none"
        /\ Present # {}
        /\ pending \/ (inst.recovery /\ \A m \in Present : mach[m].scope = "pre-restore-unaccounted")
        /\ \A p \in Procs : proc[p].job.kind \notin Observing

Inv ==
    /\ Kept /\ EpochsKept /\ StopKept
    /\ \A p \in Procs : StartKept(p) /\ JobKept(p)
    /\ \A m \in Machines : MachKept(m)

-----------------------------------------------------------------------------
(* Frames. *)

\* A process is the same but for its job, and a job but for what its machine's timeline recorded.
Same(r, s) ==
    /\ s.up = r.up /\ s.flag = r.flag /\ s.start = r.start /\ s.epoch = r.epoch
    /\ s.gate = r.gate /\ s.minted = r.minted
SameJob(i, j) ==
    /\ j.kind = i.kind /\ j.on = i.on /\ j.stage = i.stage /\ j.release = i.release
    /\ j.passed = i.passed

\* No stop deadline is awaited.
Calm == \A m \in Machines : stage[m] # "stopped"

\* What a step that starts, stops and enters nothing may do to a process.
JobStep(q) ==
    /\ Same(proc[q], proc'[q])
    /\ \/ SameJob(proc[q].job, proc'[q].job)
       \/ /\ JobKept(q)'
          /\ Calm \/ proc'[q].job.kind \notin Observing
          /\ (proc[q].up /\ ~proc[q].gate) \/ proc'[q].job.kind = "none"

LEMMA StartStays ==
    ASSUME NEW q \in Procs, StartKept(q), JobStep(q), UNCHANGED <<inst, used, entered, pending>>
    PROVE  StartKept(q)'
<1>1. Same(proc[q], proc'[q]) BY DEF JobStep
<1>2. proc[q].job.kind = "none" /\ (~proc[q].up \/ proc[q].gate) => proc'[q].job.kind = "none"
  BY DEF JobStep, SameJob
<1> QED BY <1>1, <1>2 DEF StartKept, Same

LEMMA JobStays ==
    ASSUME NEW q \in Procs, JobKept(q), Same(proc[q], proc'[q]), SameJob(proc[q].job, proc'[q].job),
           UNCHANGED inst, proc[q].job.on \in Machines \cup {NoMachine},
           \A m \in Machines : (stage[m] \in Past => stage'[m] \in Past) /\ checked[m] \subseteq checked'[m]
    PROVE  JobKept(q)'
<1>1. PICK j : j = proc[q].job OBVIOUS
<1>2. PICK k : k = proc'[q].job OBVIOUS
<1>3. /\ k.kind = j.kind /\ k.on = j.on /\ k.stage = j.stage /\ k.release = j.release
      /\ k.passed = j.passed /\ proc'[q].epoch = proc[q].epoch
  BY <1>1, <1>2 DEF Same, SameJob
<1>4. j.kind # "none" => j.on \in Machines BY <1>1 DEF JobKept
<1> QED BY <1>1, <1>2, <1>3, <1>4 DEF JobKept, Observing

LEMMA ProcFrame ==
    ASSUME TypeInv, Inv, UNCHANGED <<inst, used, entered, pending>>, \A q \in Procs : JobStep(q),
           \A m \in Machines : (stage[m] \in Past => stage'[m] \in Past) /\ checked[m] \subseteq checked'[m]
    PROVE  EpochsKept' /\ \A q \in Procs : StartKept(q)' /\ JobKept(q)'
<1>1. EpochsKept'
  <2>1. \A q \in Procs : proc'[q].up = proc[q].up BY DEF JobStep, Same
  <2>2. \A e \in Epochs : entered[e] \in Procs \cup {NoProc} BY DEF TypeInv
  <2> QED BY <2>1, <2>2 DEF Inv, EpochsKept
<1>2. \A q \in Procs : StartKept(q)' BY StartStays DEF Inv
<1>3. \A q \in Procs : JobKept(q)'
  <2> SUFFICES ASSUME NEW q \in Procs PROVE JobKept(q)' OBVIOUS
  <2>1. proc[q].job.on \in Machines \cup {NoMachine} BY DEF TypeInv, ProcType, JobType
  <2>2. JobKept(q) BY DEF Inv
  <2> QED BY <2>1, <2>2, JobStays DEF JobStep
<1> QED BY <1>1, <1>2, <1>3

\* Nothing is observed while a stop deadline is awaited.
LEMMA StopJobs ==
    ASSUME Inv, \A q \in Procs : JobStep(q), ~Calm
    PROVE  \A q \in Procs : proc'[q].job.kind \notin Observing
<1>1. \A q \in Procs : proc[q].job.kind \notin Observing BY DEF Inv, StopKept, Calm
<1> QED BY <1>1 DEF JobStep, SameJob

\* A process that may act on a scope that was accounted for awaits no stop deadline.
LEMMA ActsCalm ==
    ASSUME TypeInv, Inv, NEW p \in Procs, proc[p].up, ~proc[p].gate, NEW m \in Machines,
           mach[m].scope \notin {"absent", "pre-restore-unaccounted"}
    PROVE  Calm /\ ~pending
<1>1. ~pending BY DEF Inv, StartKept
<1>2. m \in Present BY DEF Present
<1> QED BY <1>1, <1>2 DEF Inv, StopKept, Calm

\* One machine's row changes.
LEMMA RowFrame ==
    ASSUME TypeInv, Inv, NEW m \in Machines, NEW r \in MachType, mach' = [mach EXCEPT ![m] = r],
           UNCHANGED <<inst, entry, flight, stage, backup, used, entered, checked, pending>>,
           left' \in LimitType, left'.restores = left.restores, Counted',
           proc' \in [Procs -> ProcType], \A q \in Procs : JobStep(q),
           r.scope # "absent" => (r.scope = "normal") = ~inst.recovery,
           r.plan.adopted => r.plan.state = "committed" /\ ~r.plan.refused,
           MachKept(m)',
           \/ Calm
           \/ /\ r.settle = "none" /\ r.scope \in {"absent", "pre-restore-unaccounted", mach[m].scope}
              /\ r.scope = "absent" => mach[m].scope = "absent"
    PROVE  TypeInv' /\ Inv'
<1>1. mach'[m] = r /\ \A k \in Machines \ {m} : mach'[k] = mach[k] BY DEF TypeInv
<1>2. TypeInv'
  <2>1. mach' \in [Machines -> MachType] BY DEF TypeInv
  <2>2. left'.restores > 0 => RowsOK(backup) BY DEF TypeInv
  <2> QED BY <2>1, <2>2 DEF TypeInv, RowsOK
<1>3. Kept'
  <2>1. RowsGood(inst, mach') BY <1>1 DEF Inv, Kept, RowsGood
  <2> QED BY <2>1 DEF Inv, Kept, RowsGood
<1>4. EpochsKept' /\ \A q \in Procs : StartKept(q)' /\ JobKept(q)' BY ProcFrame
<1>5. \A k \in Machines : MachKept(k)'
  <2>1. ASSUME NEW k \in Machines \ {m} PROVE MachKept(k)'
    <3>1. mach'[k] = mach[k] BY <1>1
    <3>2. MachKept(k) BY DEF Inv
    <3> QED BY <3>1, <3>2 DEF MachKept, Holds
  <2> QED BY <2>1
<1>6. StopKept'
  <2>1. CASE Calm BY <2>1 DEF Calm, StopKept
  <2>2. CASE ~Calm
    <3>1. \A q \in Procs : proc'[q].job.kind \notin Observing BY <2>2, StopJobs
    <3>2. /\ \A k \in Machines : stage[k] = "stopped" /\ mach[k].settle = "none"
          /\ Present # {}
          /\ pending \/ (inst.recovery /\ \A k \in Present : mach[k].scope = "pre-restore-unaccounted")
      BY <2>2 DEF Inv, StopKept, Calm
    <3>3. \A k \in Machines : mach'[k].settle = "none" BY <1>1, <2>2, <3>2
    <3>4. Present' # {}
      <4>1. PICK k \in Machines : mach[k].scope # "absent" BY <3>2 DEF Present
      <4>2. mach'[k].scope # "absent" BY <1>1, <2>2, <4>1
      <4> QED BY <4>2 DEF Present
    <3>5. pending' \/ (inst'.recovery /\ \A k \in Present' : mach'[k].scope = "pre-restore-unaccounted")
      <4>1. SUFFICES ASSUME ~pending, NEW k \in Machines, mach'[k].scope # "absent"
                     PROVE  inst.recovery /\ mach'[k].scope = "pre-restore-unaccounted"
        BY <3>2 DEF Present
      <4>2. inst.recovery /\ \A x \in Machines : mach[x].scope # "absent" => mach[x].scope = "pre-restore-unaccounted"
        BY <3>2, <4>1 DEF Present
      <4> QED BY <1>1, <2>2, <4>1, <4>2
    <3> QED BY <3>1, <3>2, <3>3, <3>4, <3>5 DEF StopKept
  <2> QED BY <2>1, <2>2
<1> QED BY <1>2, <1>3, <1>4, <1>5, <1>6 DEF Inv

\* Only jobs change.
LEMMA JobFrame ==
    ASSUME TypeInv, Inv, proc' \in [Procs -> ProcType], \A q \in Procs : JobStep(q),
           UNCHANGED <<inst, mach, entry, flight, stage, backup, used, entered, checked, pending, left>>
    PROVE  TypeInv' /\ Inv'
<1>1. TypeInv' BY DEF TypeInv, RowsOK, Counted
<1>2. Kept' BY DEF Inv, Kept, RowsGood
<1>3. EpochsKept' /\ \A q \in Procs : StartKept(q)' /\ JobKept(q)' BY ProcFrame
<1>4. \A k \in Machines : MachKept(k)' BY DEF Inv, MachKept, Holds
<1>5. StopKept'
  <2>1. CASE Calm BY <2>1 DEF Calm, StopKept
  <2>2. CASE ~Calm
    <3>1. \A q \in Procs : proc'[q].job.kind \notin Observing BY <2>2, StopJobs
    <3> QED BY <2>2, <3>1 DEF Inv, StopKept, Calm, Present
  <2> QED BY <2>1, <2>2
<1> QED BY <1>1, <1>2, <1>3, <1>4, <1>5 DEF Inv

-----------------------------------------------------------------------------
(* Helpers of the actions. *)

\* What Note does to one process.
LEMMA NotedOne ==
    ASSUME NEW r \in ProcType, NEW ev \in SUBSET Since, NEW s, s = [r EXCEPT !.job.since = @ \cup ev]
    PROVE  s \in ProcType /\ Same(r, s) /\ SameJob(r.job, s.job)
<1>1. PICK j \in JobType : j = r.job BY DEF ProcType
<1>2. PICK k \in JobType : k = [j EXCEPT !.since = @ \cup ev] BY DEF JobType
<1>3. s = [r EXCEPT !.job = k] BY <1>1, <1>2
<1>4. s \in ProcType BY <1>3 DEF ProcType
<1>5. s.job = k /\ Same(r, s) BY <1>3 DEF ProcType, Same
<1>6. SameJob(j, k) BY <1>2 DEF JobType, SameJob
<1> QED BY <1>1, <1>4, <1>5, <1>6

LEMMA Noted ==
    ASSUME TypeInv, NEW m \in Machines, NEW ev \in SUBSET Since, proc' = Note(m, ev)
    PROVE  proc' \in [Procs -> ProcType] /\ \A q \in Procs : JobStep(q)
<1>1. ASSUME NEW q \in Procs
      PROVE  proc'[q] \in ProcType /\ Same(proc[q], proc'[q]) /\ SameJob(proc[q].job, proc'[q].job)
  <2>1. PICK r \in ProcType : r = proc[q] BY DEF TypeInv
  <2>2. CASE proc[q].job.on = m
    <3>1. proc'[q] = [r EXCEPT !.job.since = @ \cup ev] BY <2>1, <2>2 DEF Note
    <3> QED BY <2>1, <3>1, NotedOne
  <2>3. CASE proc[q].job.on # m
    <3>1. proc'[q] = r BY <2>1, <2>3 DEF Note
    <3> QED BY <2>1, <3>1 DEF Same, SameJob
  <2> QED BY <2>2, <2>3
<1>2. proc' \in [Procs -> ProcType] BY <1>1 DEF Note
<1> QED BY <1>1, <1>2 DEF JobStep

LEMMA StillProcs ==
    ASSUME TypeInv, UNCHANGED proc
    PROVE  proc' \in [Procs -> ProcType] /\ \A q \in Procs : JobStep(q)
BY DEF TypeInv, JobStep, Same, SameJob

LEMMA NoJobTyped == NoJob \in JobType
BY RecoveryAssumption DEF NoJob, JobType, Stages

\* One process's job changes to j.
LEMMA JobSet ==
    ASSUME TypeInv, NEW p \in Procs, NEW j \in JobType, proc' = [proc EXCEPT ![p].job = j]
    PROVE  /\ proc' \in [Procs -> ProcType]
           /\ proc'[p].job = j /\ Same(proc[p], proc'[p])
           /\ \A q \in Procs \ {p} : JobStep(q)
<1>1. PICK r \in ProcType : r = proc[p] BY DEF TypeInv
<1>2. PICK s \in ProcType : s = [r EXCEPT !.job = j] BY DEF ProcType
<1>3. s.job = j /\ Same(r, s) BY <1>2 DEF ProcType, Same
<1>4. proc' = [proc EXCEPT ![p] = s] BY <1>1, <1>2 DEF TypeInv
<1>5. proc'[p] = s /\ \A q \in Procs \ {p} : proc'[q] = proc[q] BY <1>4 DEF TypeInv
<1>6. proc' \in [Procs -> ProcType] BY <1>4 DEF TypeInv
<1>7. \A q \in Procs \ {p} : JobStep(q) BY <1>5 DEF JobStep, Same, SameJob
<1> QED BY <1>1, <1>3, <1>5, <1>6, <1>7

\* A process puts its job down.
LEMMA JobDone ==
    ASSUME TypeInv, Inv, NEW p \in Procs, proc' = [proc EXCEPT ![p].job = NoJob]
    PROVE  proc' \in [Procs -> ProcType] /\ \A q \in Procs : JobStep(q)
<1>1. /\ proc' \in [Procs -> ProcType]
      /\ proc'[p].job = NoJob /\ Same(proc[p], proc'[p])
      /\ \A q \in Procs \ {p} : JobStep(q)
  BY NoJobTyped, JobSet
<1>2. JobKept(p)' BY <1>1, RecoveryAssumption DEF JobKept, NoJob, Observing
<1>3. JobStep(p) BY <1>1, <1>2 DEF JobStep, NoJob, Observing
<1> QED BY <1>1, <1>3

\* A bound that is counted down.
LEMMA LeftOne ==
    ASSUME TypeInv, NEW f \in {"backups", "restores", "entries", "crashes", "releases", "plans"},
           left[f] > 0, left' = [left EXCEPT ![f] = @ - 1]
    PROVE  /\ left' \in LimitType /\ Counted'
           /\ f # "restores" => left'.restores = left.restores
           /\ f = "restores" => left'.restores = left.restores - 1
<1>1. PICK l \in LimitType : l = left BY DEF TypeInv
<1>2. l[f] - 1 \in Nat /\ l[f] \in Nat BY <1>1 DEF LimitType
<1>3. PICK k \in LimitType : k = [l EXCEPT ![f] = l[f] - 1] BY <1>2 DEF LimitType
<1>4. left' = k BY <1>1, <1>3
<1>5. /\ k.backups <= l.backups /\ k.restores <= l.restores /\ k.entries <= l.entries
      /\ k.crashes <= l.crashes /\ k.releases <= l.releases /\ k.plans <= l.plans
  BY <1>2, <1>3 DEF LimitType
<1>6. PICK z \in Limits : /\ l.backups <= z.backups /\ l.restores <= z.restores
                          /\ l.entries <= z.entries /\ l.crashes <= z.crashes
                          /\ l.releases <= z.releases /\ l.plans <= z.plans
  BY <1>1 DEF TypeInv, Counted
<1>7. z \in LimitType BY <1>6, RecoveryAssumption DEF LimitType
<1>8. /\ k.backups <= z.backups /\ k.restores <= z.restores /\ k.entries <= z.entries
      /\ k.crashes <= z.crashes /\ k.releases <= z.releases /\ k.plans <= z.plans
  BY <1>5, <1>6, <1>7, <1>1, <1>3 DEF LimitType
<1>9. Counted' BY <1>4, <1>6, <1>8 DEF Counted
<1>10. (f # "restores" => k.restores = l.restores) /\ (f = "restores" => k.restores = l.restores - 1)
  BY <1>2, <1>3 DEF LimitType
<1> QED BY <1>1, <1>3, <1>4, <1>9, <1>10

\* One machine's row changes, its scope and its settle do not.
LEMMA KeepFrame ==
    ASSUME TypeInv, Inv, NEW m \in Machines, NEW r \in MachType, mach' = [mach EXCEPT ![m] = r],
           UNCHANGED <<inst, entry, flight, stage, backup, used, entered, checked, pending>>,
           left' \in LimitType, left'.restores = left.restores, Counted',
           proc' \in [Procs -> ProcType], \A q \in Procs : JobStep(q),
           r.scope = mach[m].scope, r.settle = mach[m].settle, r.marked = mach[m].marked,
           r.plan.adopted => r.plan.state = "committed" /\ ~r.plan.refused,
           Holds(m) /\ mach[m].op.tried = "unaccounted" /\ flight[m] # {} =>
               r.op.state \in Holding /\ r.op.tried = "unaccounted"
    PROVE  TypeInv' /\ Inv'
<1>1. mach'[m] = r BY DEF TypeInv
<1>2. MachKept(m) BY DEF Inv
<1>3. MachKept(m)' BY <1>1, <1>2 DEF MachKept, Holds
<1>4. r.scope # "absent" => (r.scope = "normal") = ~inst.recovery BY DEF Inv, Kept, RowsGood
<1>5. Calm \/ r.settle = "none" BY DEF Inv, StopKept, Calm
<1> QED BY <1>3, <1>4, <1>5, RowFrame

\* The operation of a machine changes.
LEMMA OpFrame ==
    ASSUME TypeInv, Inv, NEW m \in Machines, NEW o \in OpType, SetOp(m, o),
           NEW ev \in SUBSET Since, proc' = Note(m, ev),
           UNCHANGED <<inst, entry, flight, stage, backup, history, pending, left>>,
           Holds(m) /\ mach[m].op.tried = "unaccounted" /\ flight[m] # {} =>
               o.state \in Holding /\ o.tried = "unaccounted"
    PROVE  TypeInv' /\ Inv'
<1>1. PICK x \in MachType : x = mach[m] BY DEF TypeInv
<1>2. PICK r \in MachType : r = [x EXCEPT !.op = o] BY DEF MachType
<1>3. r.op = o /\ r.scope = x.scope /\ r.settle = x.settle /\ r.marked = x.marked /\ r.plan = x.plan
  BY <1>2 DEF MachType
<1>4. mach' = [mach EXCEPT ![m] = r] BY <1>1, <1>2 DEF SetOp, TypeInv
<1>5. r.plan.adopted => r.plan.state = "committed" /\ ~r.plan.refused
  BY <1>1, <1>3 DEF Inv, Kept, RowsGood
<1>6. left' \in LimitType /\ left'.restores = left.restores /\ Counted' BY DEF TypeInv, Counted
<1>7. proc' \in [Procs -> ProcType] /\ \A q \in Procs : JobStep(q) BY Noted
<1>8. UNCHANGED <<inst, entry, flight, stage, backup, used, entered, checked, pending>> BY DEF history
<1> QED BY <1>1, <1>3, <1>4, <1>5, <1>6, <1>7, <1>8, KeepFrame

LEMMA CommitKeeps ==
    ASSUME TypeInv, Inv, NEW p \in Procs, NEW m \in Machines, Commit(p, m)
    PROVE  TypeInv' /\ Inv'
<1>1. PICK o \in OpType : o = [state |-> "committed", owner |-> p, epoch |-> inst.epoch, tried |-> "never"]
  BY DEF TypeInv, OpType, Holding
<1>2. {"operation"} \in SUBSET Since BY DEF Since
<1> QED BY <1>1, <1>2, OpFrame DEF Commit

LEMMA RecordResponseKeeps ==
    ASSUME TypeInv, Inv, NEW p \in Procs, NEW m \in Machines, RecordResponse(p, m)
    PROVE  TypeInv' /\ Inv'
<1>1. NoOp \in OpType /\ {"operation"} \in SUBSET Since BY DEF OpType, Since
<1> QED BY <1>1, OpFrame DEF RecordResponse

LEMMA EndOperationKeeps ==
    ASSUME TypeInv, Inv, NEW p \in Procs, NEW m \in Machines, EndOperation(p, m)
    PROVE  TypeInv' /\ Inv'
<1>1. NoOp \in OpType /\ {"operation"} \in SUBSET Since BY DEF OpType, Since
<1> QED BY <1>1, OpFrame DEF EndOperation

LEMMA TakeOverKeeps ==
    ASSUME TypeInv, Inv, NEW p \in Procs, NEW m \in Machines, TakeOver(p, m)
    PROVE  TypeInv' /\ Inv'
<1>1. PICK x \in OpType : x = mach[m].op BY DEF TypeInv, MachType
<1>2. x # NoOp BY <1>1 DEF TakeOver, Holds, Holding, NoOp
<1>3. PICK o \in OpType : o = [x EXCEPT !.state = "unresolved", !.owner = p, !.epoch = inst.epoch]
  BY <1>2 DEF TypeInv, OpType, Holding
<1>4. o.state = "unresolved" /\ o.tried = x.tried BY <1>2, <1>3 DEF OpType
<1>5. PICK ev \in SUBSET Since : ev = IF x.state = "unresolved" THEN {} ELSE {"operation"} BY DEF Since
<1>6. SetOp(m, o) /\ proc' = Note(m, ev)
      /\ UNCHANGED <<inst, entry, flight, stage, backup, history, pending, left>>
  BY <1>1, <1>3, <1>5 DEF TakeOver
<1>7. o.state \in Holding BY <1>4 DEF Holding
<1> QED BY <1>1, <1>4, <1>6, <1>7, OpFrame

LEMMA PublishKeeps ==
    ASSUME TypeInv, Inv, NEW m \in Machines, Publish(m)
    PROVE  TypeInv' /\ Inv'
<1>1. PICK d \in Releases : mach' = [mach EXCEPT ![m].desired = d] BY DEF Publish
<1>2. PICK x \in MachType : x = mach[m] BY DEF TypeInv
<1>3. PICK r \in MachType : r = [x EXCEPT !.desired = d] BY DEF MachType
<1>4. r.op = x.op /\ r.scope = x.scope /\ r.settle = x.settle /\ r.marked = x.marked /\ r.plan = x.plan
  BY <1>3 DEF MachType
<1>5. mach' = [mach EXCEPT ![m] = r] BY <1>1, <1>2, <1>3 DEF TypeInv
<1>6. r.plan.adopted => r.plan.state = "committed" /\ ~r.plan.refused
  BY <1>2, <1>4 DEF Inv, Kept, RowsGood
<1>7. left' \in LimitType /\ left'.restores = left.restores /\ Counted' BY LeftOne DEF Publish
<1>8. proc' \in [Procs -> ProcType] /\ \A q \in Procs : JobStep(q) BY StillProcs DEF Publish
<1>9. UNCHANGED <<inst, entry, flight, stage, backup, used, entered, checked, pending>>
  BY DEF Publish, history
<1> QED BY <1>2, <1>4, <1>5, <1>6, <1>7, <1>8, <1>9, KeepFrame DEF Holds

\* The plan of a machine changes, and perhaps its Desired release and what was last observed.
LEMMA PlanFrame ==
    ASSUME TypeInv, Inv, NEW m \in Machines, NEW r \in MachType, mach' = [mach EXCEPT ![m] = r],
           r.scope = mach[m].scope, r.settle = mach[m].settle, r.marked = mach[m].marked,
           r.op = mach[m].op,
           r.plan.adopted => r.plan.state = "committed" /\ ~r.plan.refused,
           UNCHANGED <<inst, entry, flight, stage, backup, history, pending>>,
           left' \in LimitType, left'.restores = left.restores, Counted',
           proc' \in [Procs -> ProcType], \A q \in Procs : JobStep(q)
    PROVE  TypeInv' /\ Inv'
<1>1. UNCHANGED <<inst, entry, flight, stage, backup, used, entered, checked, pending>> BY DEF history
<1> QED BY <1>1, KeepFrame DEF Holds

LEMMA ApproveAdoptKeeps ==
    ASSUME TypeInv, Inv, NEW p \in Procs, NEW m \in Machines, ApproveAdopt(p, m)
    PROVE  TypeInv' /\ Inv'
<1>1. PICK x \in MachType : x = mach[m] BY DEF TypeInv
<1>2. PICK d \in Releases :
         mach' = [mach EXCEPT ![m].latest.fresh = FALSE,
                              ![m].plan = [state |-> "approved", number |-> Plan(m).number + 1,
                                           epoch |-> inst.epoch, desired |-> mach[m].desired,
                                           release |-> d, refused |-> FALSE, adopted |-> FALSE]]
  BY DEF ApproveAdopt
<1>3. PICK pl \in PlanType : pl = [state |-> "approved", number |-> x.plan.number + 1,
                                   epoch |-> inst.epoch, desired |-> x.desired,
                                   release |-> d, refused |-> FALSE, adopted |-> FALSE]
  <2>1. x.plan.number + 1 \in Nat /\ x.desired \in Releases \cup {NoRelease} BY DEF MachType, PlanType
  <2> QED BY <2>1 DEF PlanType, TypeInv
<1>4. PICK lt \in [seen : {"own", "other", "unread"}, fresh : BOOLEAN] : lt = [x.latest EXCEPT !.fresh = FALSE]
  BY DEF MachType
<1>5. PICK r \in MachType : r = [x EXCEPT !.latest = lt, !.plan = pl] BY DEF MachType
<1>6. r.op = x.op /\ r.scope = x.scope /\ r.settle = x.settle /\ r.marked = x.marked /\ r.plan = pl
  BY <1>5 DEF MachType
<1>7. mach' = [mach EXCEPT ![m] = r] BY <1>1, <1>2, <1>3, <1>4, <1>5 DEF TypeInv, Plan
<1>8. left' \in LimitType /\ left'.restores = left.restores /\ Counted' BY LeftOne DEF ApproveAdopt
<1>9. {"approval"} \in SUBSET Since BY DEF Since
<1>10. proc' \in [Procs -> ProcType] /\ \A q \in Procs : JobStep(q) BY <1>9, Noted DEF ApproveAdopt
<1>11. ~r.plan.adopted BY <1>3, <1>6
<1> QED BY <1>1, <1>6, <1>7, <1>8, <1>10, <1>11, PlanFrame DEF ApproveAdopt

LEMMA PlanEndsKeeps ==
    ASSUME TypeInv, Inv, NEW m \in Machines, PlanEnds(m)
    PROVE  TypeInv' /\ Inv'
<1>1. PICK x \in MachType : x = mach[m] BY DEF TypeInv
<1>2. PICK pl \in PlanType : pl = [x.plan EXCEPT !.state = "ended"] BY DEF MachType, PlanType
<1>3. PICK r \in MachType : r = [x EXCEPT !.plan = pl] BY DEF MachType
<1>4. r.op = x.op /\ r.scope = x.scope /\ r.settle = x.settle /\ r.marked = x.marked /\ r.plan = pl
  BY <1>3 DEF MachType
<1>5. mach' = [mach EXCEPT ![m] = r] BY <1>1, <1>2, <1>3 DEF PlanEnds, SetPlan, TypeInv, Plan
<1>6. ~x.plan.adopted BY <1>1 DEF PlanEnds, Plan, Inv, Kept, RowsGood
<1>7. ~r.plan.adopted BY <1>2, <1>4, <1>6 DEF MachType, PlanType
<1>8. proc' \in [Procs -> ProcType] /\ \A q \in Procs : JobStep(q) BY StillProcs DEF PlanEnds
<1>9. left' \in LimitType /\ left'.restores = left.restores /\ Counted' BY DEF PlanEnds, TypeInv, Counted
<1> QED BY <1>1, <1>4, <1>5, <1>7, <1>8, <1>9, PlanFrame DEF PlanEnds

LEMMA CommitAdoptionKeeps ==
    ASSUME TypeInv, Inv, NEW p \in Procs, CommitAdoption(p)
    PROVE  TypeInv' /\ Inv'
<1>1. PICK m \in Machines : m = proc[p].job.on
  BY DEF CommitAdoption, AtAdoption, Inv, JobKept, TypeInv, ProcType, JobType
<1>2. PICK x \in MachType : x = mach[m] BY DEF TypeInv
<1>3. PICK pl \in PlanType : pl = [x.plan EXCEPT !.state = "committed", !.adopted = TRUE]
  BY DEF MachType, PlanType
<1>4. PICK r \in MachType : r = [x EXCEPT !.plan = pl, !.desired = x.plan.release] BY DEF MachType, PlanType
<1>5. r.op = x.op /\ r.scope = x.scope /\ r.settle = x.settle /\ r.marked = x.marked /\ r.plan = pl
  BY <1>4 DEF MachType
<1>6. mach' = [mach EXCEPT ![m] = r] BY <1>1, <1>2, <1>3, <1>4 DEF CommitAdoption, TypeInv, Plan
<1>7. ~x.plan.refused BY <1>1, <1>2 DEF CommitAdoption, AtAdoption, Plan
<1>8. r.plan.state = "committed" /\ ~r.plan.refused BY <1>3, <1>5, <1>7 DEF MachType, PlanType
<1>9. proc' \in [Procs -> ProcType] /\ \A q \in Procs : JobStep(q) BY JobDone DEF CommitAdoption
<1>10. left' \in LimitType /\ left'.restores = left.restores /\ Counted'
  BY DEF CommitAdoption, TypeInv, Counted
<1> QED BY <1>2, <1>5, <1>6, <1>8, <1>9, <1>10, PlanFrame DEF CommitAdoption

LEMMA RecordRefusalKeeps ==
    ASSUME TypeInv, Inv, NEW p \in Procs, RecordRefusal(p)
    PROVE  TypeInv' /\ Inv'
<1>1. PICK m \in Machines : m = proc[p].job.on
  BY DEF RecordRefusal, Inv, JobKept, TypeInv, ProcType, JobType
<1>2. PICK x \in MachType : x = mach[m] BY DEF TypeInv
<1>3. PICK pl \in PlanType : pl = [x.plan EXCEPT !.refused = TRUE] BY DEF MachType, PlanType
<1>4. PICK r \in MachType : r = [x EXCEPT !.plan = pl] BY DEF MachType
<1>5. r.op = x.op /\ r.scope = x.scope /\ r.settle = x.settle /\ r.marked = x.marked /\ r.plan = pl
  BY <1>4 DEF MachType
<1>6. mach' = [mach EXCEPT ![m] = r] BY <1>1, <1>2, <1>3, <1>4 DEF RecordRefusal, TypeInv
<1>7. ~x.plan.adopted BY <1>1, <1>2 DEF RecordRefusal, RefusalStands, Plan, Inv, Kept, RowsGood
<1>8. ~r.plan.adopted BY <1>3, <1>5, <1>7 DEF MachType, PlanType
<1>9. proc' \in [Procs -> ProcType] /\ \A q \in Procs : JobStep(q) BY JobDone DEF RecordRefusal
<1>10. left' \in LimitType /\ left'.restores = left.restores /\ Counted'
  BY DEF RecordRefusal, TypeInv, Counted
<1> QED BY <1>2, <1>5, <1>6, <1>8, <1>9, <1>10, PlanFrame DEF RecordRefusal

-----------------------------------------------------------------------------
(* Scopes. *)

LEMMA MarkScopeKeeps ==
    ASSUME TypeInv, Inv, NEW p \in Procs, MarkScope(p)
    PROVE  TypeInv' /\ Inv'
<1>1. PICK m \in Machines : m = proc[p].job.on
  BY DEF MarkScope, Inv, JobKept, TypeInv, ProcType, JobType
<1>2. PICK x \in MachType : x = mach[m] BY DEF TypeInv
<1>3. PICK j \in JobType : j = proc[p].job BY DEF TypeInv, ProcType
<1>4. inst.recovery /\ x.scope \in Markable /\ Current(p) /\ j.kind = "restoration"
  BY <1>1, <1>2, <1>3 DEF MarkScope
<1>5. Calm /\ ~pending
  <2>1. x.scope \notin {"absent", "pre-restore-unaccounted"} BY <1>4 DEF Markable
  <2> QED BY <1>2, <1>4, <2>1, ActsCalm DEF Current
<1>6. PICK r \in MachType :
         /\ mach' = [mach EXCEPT ![m] = r] /\ r.op = x.op /\ r.settle = x.settle /\ r.plan = x.plan
         /\ r.scope \in Markable
         /\ r.scope = "ready" => j.passed /\ r.marked = j.release
  <2>1. CASE Holds(m)
    <3>1. PICK r \in MachType : r = [x EXCEPT !.scope = "unresolved"] BY DEF MachType, Scopes
    <3>2. mach' = [mach EXCEPT ![m] = r] BY <1>1, <1>2, <2>1, <3>1 DEF MarkScope
    <3> QED BY <3>1, <3>2 DEF MachType, Markable
  <2>2. CASE ~Holds(m) /\ Missing(p)
    <3>1. PICK r \in MachType : r = [x EXCEPT !.scope = "blocked"] BY DEF MachType, Scopes
    <3>2. mach' = [mach EXCEPT ![m] = r] BY <1>1, <1>2, <2>2, <3>1 DEF MarkScope
    <3> QED BY <3>1, <3>2 DEF MachType, Markable
  <2>3. CASE ~Holds(m) /\ ~Missing(p)
    <3>1. j.release \in Releases \cup {NoRelease} BY DEF JobType
    <3>2. PICK r \in MachType : r = [x EXCEPT !.scope = "ready", !.ready = TRUE, !.marked = j.release]
      BY <3>1 DEF MachType, Scopes
    <3>3. mach' = [mach EXCEPT ![m].scope = "ready", ![m].ready = TRUE, ![m].marked = j.release]
      BY <1>1, <1>3, <2>3 DEF MarkScope
    <3>4. mach' = [mach EXCEPT ![m] = r] BY <1>2, <3>2, <3>3 DEF TypeInv
    <3>5. j.passed BY <1>3, <2>3 DEF Missing
    <3> QED BY <3>2, <3>4, <3>5 DEF MachType, Markable
  <2> QED BY <2>1, <2>2, <2>3
<1>7. mach'[m] = r BY <1>6 DEF TypeInv
<1>8. r.scope = "ready" => r.marked \in checked[m]
  BY <1>1, <1>3, <1>4, <1>6 DEF Inv, JobKept, Current
<1>9. UNCHANGED <<inst, entry, flight, stage, backup, used, entered, checked, pending>>
  BY DEF MarkScope, history
<1>10. MachKept(m) /\ x.scope # "pre-restore-unaccounted" /\ r.scope \notin {"absent", "normal"}
  BY <1>4, <1>6 DEF Inv, Markable
<1>11. MachKept(m)' BY <1>2, <1>5, <1>6, <1>7, <1>8, <1>9, <1>10 DEF MachKept, Holds
<1>12. proc' \in [Procs -> ProcType] /\ \A q \in Procs : JobStep(q) BY JobDone DEF MarkScope
<1>13. left' \in LimitType /\ left'.restores = left.restores /\ Counted' BY DEF MarkScope, TypeInv, Counted
<1>14. r.plan.adopted => r.plan.state = "committed" /\ ~r.plan.refused
  BY <1>2, <1>6 DEF Inv, Kept, RowsGood
<1>15. (r.scope = "normal") = ~inst.recovery BY <1>4, <1>10
<1> QED BY <1>5, <1>6, <1>9, <1>11, <1>12, <1>13, <1>14, <1>15, RowFrame

LEMMA ReleaseScopeKeeps ==
    ASSUME TypeInv, Inv, NEW p \in Procs, NEW m \in Machines, ReleaseScope(p, m)
    PROVE  TypeInv' /\ Inv'
<1>1. PICK x \in MachType : x = mach[m] BY DEF TypeInv
<1>2. PICK r \in MachType : r = [x EXCEPT !.scope = "released"] BY DEF MachType, Scopes
<1>3. r.scope = "released" /\ r.op = x.op /\ r.settle = x.settle /\ r.plan = x.plan BY <1>2 DEF MachType
<1>4. mach' = [mach EXCEPT ![m] = r] BY <1>1, <1>2 DEF ReleaseScope
<1>5. mach'[m] = r BY <1>4 DEF TypeInv
<1>6. inst.recovery /\ x.scope = "ready" /\ Current(p) BY <1>1 DEF ReleaseScope, Serves
<1>7. Calm /\ ~pending BY <1>1, <1>6, ActsCalm DEF Current
<1>8. UNCHANGED <<inst, entry, flight, stage, backup, used, entered, checked, pending>>
  BY DEF ReleaseScope, history
<1>9. MachKept(m) BY DEF Inv
<1>10. MachKept(m)' BY <1>1, <1>3, <1>5, <1>6, <1>7, <1>8, <1>9 DEF MachKept, Holds
<1>11. proc' \in [Procs -> ProcType] /\ \A q \in Procs : JobStep(q) BY StillProcs DEF ReleaseScope
<1>12. left' \in LimitType /\ left'.restores = left.restores /\ Counted' BY DEF ReleaseScope, TypeInv, Counted
<1>13. r.plan.adopted => r.plan.state = "committed" /\ ~r.plan.refused
  BY <1>1, <1>3 DEF Inv, Kept, RowsGood
<1>14. (r.scope = "normal") = ~inst.recovery BY <1>3, <1>6
<1> QED BY <1>4, <1>7, <1>8, <1>10, <1>11, <1>12, <1>13, <1>14, RowFrame

LEMMA InventoryMachineKeeps ==
    ASSUME TypeInv, Inv, NEW p \in Procs, InventoryMachine(p)
    PROVE  TypeInv' /\ Inv'
<1>1. PICK j \in JobType : j = proc[p].job BY DEF TypeInv, ProcType
<1>2. j.kind \in {"inventory", "inventory-recovery"} /\ proc[p].up BY <1>1 DEF InventoryMachine
<1>3. PICK m \in Machines : m = j.on BY <1>1, <1>2 DEF Inv, JobKept, JobType
<1>4. PICK x \in MachType : x = mach[m] BY DEF TypeInv
<1>5. x.scope = "absent" BY <1>1, <1>3, <1>4 DEF InventoryMachine, Present
<1>6. PICK s \in {"normal", "pre-restore-unaccounted"} :
         s = IF j.kind = "inventory" THEN "normal" ELSE "pre-restore-unaccounted"
  OBVIOUS
<1>7. PICK r \in MachType : r = [x EXCEPT !.scope = s] BY DEF MachType, Scopes
<1>8. r.scope = s /\ r.op = x.op /\ r.settle = x.settle /\ r.plan = x.plan BY <1>7 DEF MachType
<1>9. mach' = [mach EXCEPT ![m] = r] BY <1>1, <1>3, <1>4, <1>6, <1>7 DEF InventoryMachine
<1>10. mach'[m] = r BY <1>9 DEF TypeInv
<1>11. ~pending BY <1>1, <1>2 DEF Inv, StartKept
<1>12. (s = "normal") = ~inst.recovery
  BY <1>1, <1>2, <1>6 DEF Inv, JobKept, TypeInv
<1>13. Calm \/ (r.settle = "none" /\ s = "pre-restore-unaccounted")
  BY <1>4, <1>6, <1>8, <1>11, <1>12 DEF Inv, StopKept, Calm
<1>14. UNCHANGED <<inst, entry, flight, stage, backup, used, entered, checked, pending>>
  BY DEF InventoryMachine, history
<1>15. MachKept(m) BY DEF Inv
<1>16. MachKept(m)' BY <1>4, <1>5, <1>6, <1>8, <1>10, <1>11, <1>14, <1>15 DEF MachKept, Holds
<1>17. proc' \in [Procs -> ProcType] /\ \A q \in Procs : JobStep(q) BY JobDone DEF InventoryMachine
<1>18. left' \in LimitType /\ left'.restores = left.restores /\ Counted'
  BY DEF InventoryMachine, TypeInv, Counted
<1>19. r.plan.adopted => r.plan.state = "committed" /\ ~r.plan.refused
  BY <1>4, <1>8 DEF Inv, Kept, RowsGood
<1> QED BY <1>8, <1>9, <1>12, <1>13, <1>14, <1>16, <1>17, <1>18, <1>19, RowFrame

-----------------------------------------------------------------------------
(* Jobs. *)

\* An observation begins, no stop deadline awaited.
LEMMA ObservationStarts ==
    ASSUME TypeInv, Inv, Calm, NEW p \in Procs, NEW m \in Machines, NEW kind \in Observing,
           proc[p].up, ~proc[p].gate, proc[p].job.kind = "none", StartObservation(p, kind, m),
           UNCHANGED <<inst, stage, checked>>
    PROVE  proc' \in [Procs -> ProcType] /\ \A q \in Procs : JobStep(q)
<1>1. proc[p].job.on # m BY RecoveryAssumption DEF Inv, JobKept
<1>2. PICK n : n = Note(m, {p}) OBVIOUS
<1>3. PICK j \in JobType :
         j = [NoJob EXCEPT !.kind = kind, !.on = m, !.stage = stage[m], !.release = mach[m].desired,
                           !.plan = IF kind = "evidence" THEN mach[m].plan.number ELSE 0]
  <2>1. PICK st \in Stages : st = stage[m] BY DEF TypeInv
  <2>2. PICK d \in Releases \cup {NoRelease} : d = mach[m].desired BY DEF TypeInv, MachType
  <2>3. PICK n0 \in Nat : n0 = IF kind = "evidence" THEN mach[m].plan.number ELSE 0
    BY DEF TypeInv, MachType, PlanType
  <2>4. PICK i \in JobType : i = NoJob BY NoJobTyped
  <2>5. [i EXCEPT !.kind = kind, !.on = m, !.stage = st, !.release = d, !.plan = n0] \in JobType
    BY DEF JobType, Observing
  <2> QED BY <2>1, <2>2, <2>3, <2>4, <2>5
<1>4. j.kind = kind /\ j.on = m /\ j.stage = stage[m] /\ j.passed = FALSE BY <1>3 DEF NoJob
<1>5. \A q \in Procs : n[q] \in ProcType /\ Same(proc[q], n[q]) /\ SameJob(proc[q].job, n[q].job)
  <2> SUFFICES ASSUME NEW q \in Procs
               PROVE  n[q] \in ProcType /\ Same(proc[q], n[q]) /\ SameJob(proc[q].job, n[q].job)
    OBVIOUS
  <2>1. PICK r \in ProcType : r = proc[q] BY DEF TypeInv
  <2>2. CASE proc[q].job.on = m
    <3>1. n[q] = [r EXCEPT !.job.since = @ \cup {p}] BY <1>2, <2>1, <2>2 DEF Note
    <3>2. {p} \in SUBSET Since BY DEF Since
    <3> QED BY <2>1, <3>1, <3>2, NotedOne
  <2>3. CASE proc[q].job.on # m
    <3>1. n[q] = r BY <1>2, <2>1, <2>3 DEF Note
    <3> QED BY <2>1, <3>1 DEF Same, SameJob
  <2> QED BY <2>2, <2>3
<1>6. n \in [Procs -> ProcType] BY <1>2, <1>5 DEF Note
<1>7. PICK s \in ProcType : s = [n[p] EXCEPT !.job = j] BY <1>5 DEF ProcType
<1>8. s.job = j /\ Same(n[p], s) BY <1>5, <1>7 DEF ProcType, Same
<1>9. proc' = [n EXCEPT ![p] = s] BY <1>2, <1>3, <1>6, <1>7 DEF StartObservation
<1>10. proc' \in [Procs -> ProcType] /\ proc'[p] = s /\ \A q \in Procs \ {p} : proc'[q] = n[q]
  BY <1>6, <1>9
<1>11. Same(proc[p], proc'[p]) BY <1>5, <1>8, <1>10 DEF Same
<1>12. kind \notin {"none", "inventory", "inventory-recovery"} /\ m # NoMachine
  BY RecoveryAssumption DEF Observing
<1>13. JobKept(p)' BY <1>4, <1>8, <1>10, <1>12 DEF JobKept
<1>14. JobStep(p) BY <1>11, <1>13 DEF JobStep
<1>15. \A q \in Procs \ {p} : JobStep(q) BY <1>5, <1>10 DEF JobStep
<1> QED BY <1>10, <1>14, <1>15

LEMMA StartRecoveryReadKeeps ==
    ASSUME TypeInv, Inv, NEW p \in Procs, NEW m \in Machines, StartRecoveryRead(p, m)
    PROVE  TypeInv' /\ Inv'
<1>1. Calm BY DEF StartRecoveryRead, Past, Calm, Inv, StopKept
<1>2. "recovery" \in Observing BY DEF Observing
<1>3. proc' \in [Procs -> ProcType] /\ \A q \in Procs : JobStep(q)
  BY <1>1, <1>2, ObservationStarts DEF StartRecoveryRead, Serves, Current, history
<1> QED BY <1>3, JobFrame DEF StartRecoveryRead, history

LEMMA PrepareMarkKeeps ==
    ASSUME TypeInv, Inv, NEW p \in Procs, NEW m \in Machines, PrepareMark(p, m)
    PROVE  TypeInv' /\ Inv'
<1>1. Calm BY ActsCalm DEF PrepareMark, Markable, Serves, Current
<1>2. "restoration" \in Observing BY DEF Observing
<1>3. proc' \in [Procs -> ProcType] /\ \A q \in Procs : JobStep(q)
  BY <1>1, <1>2, ObservationStarts DEF PrepareMark, Serves, Current, history
<1> QED BY <1>3, JobFrame DEF PrepareMark, history

LEMMA AdoptOneKeeps ==
    ASSUME TypeInv, Inv, NEW p \in Procs, NEW m \in Machines, AdoptOne(p, m)
    PROVE  TypeInv' /\ Inv'
<1>1. Calm BY ActsCalm DEF AdoptOne, GateOpen, Executes, Serves, Current
<1>2. "evidence" \in Observing BY DEF Observing
<1>3. proc' \in [Procs -> ProcType] /\ \A q \in Procs : JobStep(q)
  BY <1>1, <1>2, ObservationStarts DEF AdoptOne, Executes, Serves, Current, history
<1> QED BY <1>3, JobFrame DEF AdoptOne, history

LEMMA GiveUpKeeps ==
    ASSUME TypeInv, Inv, NEW p \in Procs, GiveUp(p)
    PROVE  TypeInv' /\ Inv'
<1>1. proc' \in [Procs -> ProcType] /\ \A q \in Procs : JobStep(q) BY JobDone DEF GiveUp
<1> QED BY <1>1, JobFrame DEF GiveUp, history

LEMMA BeginInventoryKeeps ==
    ASSUME TypeInv, Inv, NEW p \in Procs, NEW m \in Machines, BeginInventory(p, m)
    PROVE  TypeInv' /\ Inv'
<1>1. PICK k \in {"inventory", "inventory-recovery"} :
         k = IF inst.recovery THEN "inventory-recovery" ELSE "inventory"
  OBVIOUS
<1>2. PICK j \in JobType : j = [NoJob EXCEPT !.on = m, !.kind = k] BY NoJobTyped DEF JobType
<1>3. j.on = m /\ j.kind = k BY <1>2 DEF NoJob
<1>4. proc' = [proc EXCEPT ![p].job = j] BY <1>1, <1>2 DEF BeginInventory
<1>5. /\ proc' \in [Procs -> ProcType]
      /\ proc'[p].job = j /\ Same(proc[p], proc'[p])
      /\ \A q \in Procs \ {p} : JobStep(q)
  BY <1>4, JobSet
<1>6. k \notin Observing /\ m # NoMachine /\ k # "none" BY RecoveryAssumption DEF Observing
<1>7. (k = "inventory") = ~inst.recovery /\ k # "restoration" BY <1>1 DEF TypeInv
<1>8. JobKept(p)' BY <1>3, <1>5, <1>6, <1>7 DEF JobKept, BeginInventory
<1>9. JobStep(p) BY <1>3, <1>5, <1>6, <1>8 DEF JobStep, BeginInventory
<1> QED BY <1>5, <1>9, JobFrame DEF BeginInventory, history

LEMMA AdoptionRefusedKeeps ==
    ASSUME TypeInv, Inv, NEW p \in Procs, AdoptionRefused(p)
    PROVE  TypeInv' /\ Inv'
<1>1. PICK i \in JobType : i = proc[p].job BY DEF TypeInv, ProcType
<1>2. PICK j \in JobType : j = [i EXCEPT !.kind = "refusal"] BY DEF JobType
<1>3. j.kind = "refusal" /\ j.on = i.on BY <1>2 DEF JobType
<1>4. proc' = [proc EXCEPT ![p].job = j]
  <2>1. PICK r \in ProcType : r = proc[p] BY DEF TypeInv
  <2>2. [r EXCEPT !.job.kind = "refusal"] = [r EXCEPT !.job = j] BY <1>1, <1>2, <2>1 DEF ProcType
  <2>3. proc' = [proc EXCEPT ![p] = [r EXCEPT !.job.kind = "refusal"]] BY <2>1 DEF AdoptionRefused
  <2>4. proc' = [proc EXCEPT ![p] = [r EXCEPT !.job = j]] BY <2>2, <2>3
  <2> QED BY <2>1, <2>4
<1>5. /\ proc' \in [Procs -> ProcType]
      /\ proc'[p].job = j /\ Same(proc[p], proc'[p])
      /\ \A q \in Procs \ {p} : JobStep(q)
  BY <1>4, JobSet
<1>6. i.kind = "evidence" /\ proc[p].up /\ ~proc[p].gate BY <1>1 DEF AdoptionRefused, AtAdoption, Current
<1>7. i.on # NoMachine BY <1>1, <1>6 DEF Inv, JobKept
<1>8. JobKept(p)' BY <1>3, <1>5, <1>7 DEF JobKept, Observing
<1>9. JobStep(p) BY <1>3, <1>5, <1>6, <1>8 DEF JobStep, Observing
<1> QED BY <1>5, <1>9, JobFrame DEF AdoptionRefused, history

-----------------------------------------------------------------------------
(* The start, processes and the clock. *)

LEMMA Initial == Init => TypeInv /\ Inv
<1> SUFFICES ASSUME Init PROVE TypeInv /\ Inv OBVIOUS
<1>1. left \in LimitType BY RecoveryAssumption DEF Init, LimitType
<1>2. Counted
  <2>1. PICK l \in LimitType : l = left /\ l \in Limits BY <1>1 DEF Init
  <2>2. /\ l.backups <= l.backups /\ l.restores <= l.restores /\ l.entries <= l.entries
        /\ l.crashes <= l.crashes /\ l.releases <= l.releases /\ l.plans <= l.plans
    BY DEF LimitType
  <2> QED BY <2>1, <2>2 DEF Counted
<1>3. NoPlan \in PlanType /\ NoOp \in OpType BY DEF NoPlan, PlanType, OpType
<1>4. \A s \in {"normal", "absent"} :
         /\ Row(s) \in MachType /\ Row(s).scope = s /\ Row(s).settle = "none" /\ Row(s).plan = NoPlan
  BY <1>3 DEF Row, MachType, Scopes
<1>5. \A m \in Machines :
         /\ mach[m] \in MachType /\ mach[m].scope \in {"normal", "absent"} /\ mach[m].settle = "none"
         /\ ~mach[m].plan.adopted
  BY <1>4 DEF Init, NoPlan
<1>6. Down \in ProcType BY NoJobTyped DEF Down, ProcType
<1>7. RowsOK(rows)
  <2>1. rows[1] = inst /\ rows[2] = mach /\ rows[3] = entry BY DEF rows
  <2>2. inst \in [epoch : Epochs, recovery : BOOLEAN] /\ mach \in [Machines -> MachType]
        /\ entry \in [Keys -> Epochs \cup {NoEpoch}]
    BY <1>5, RecoveryAssumption DEF Init
  <2> QED BY <2>1, <2>2 DEF RowsOK
<1>8. TypeInv
  BY <1>1, <1>2, <1>5, <1>6, <1>7, RecoveryAssumption DEF TypeInv, Init, Stages
<1>9. RowsGood(inst, mach) /\ RowsGood(backup[1], backup[2]) /\ backup[1].epoch \in used
  <2>1. RowsGood(inst, mach) BY <1>5 DEF RowsGood, Init
  <2>2. backup[1] = inst /\ backup[2] = mach BY DEF Init, rows
  <2> QED BY <2>1, <2>2 DEF Init
<1>10. EpochsKept BY DEF EpochsKept, Init
<1>11. StopKept BY DEF StopKept, Init
<1>12. \A p \in Procs : StartKept(p) /\ JobKept(p)
  <2>1. \A p \in Procs : proc[p] = Down BY DEF Init
  <2> QED BY <2>1, RecoveryAssumption DEF StartKept, JobKept, Down, NoJob, Init, Observing
<1>13. \A m \in Machines : MachKept(m) BY <1>5 DEF MachKept, Init, Past
<1> QED BY <1>8, <1>9, <1>10, <1>11, <1>12, <1>13 DEF Inv, Kept

LEMMA DownTyped == Down \in ProcType
BY NoJobTyped DEF Down, ProcType

\* A process that starts, stops or enters disturbs no other state.
LEMMA ProcOnly ==
    ASSUME TypeInv, Inv, NEW p \in Procs, NEW s \in ProcType, proc' = [proc EXCEPT ![p] = s],
           UNCHANGED <<inst, mach, entry, flight, stage, backup, used, checked, pending>>,
           entered' \in [Epochs -> Procs \cup {NoProc}],
           left' \in LimitType, left'.restores = left.restores, Counted',
           EpochsKept', s.job.kind = "none", s.job.on = NoMachine, StartKept(p)',
           \A q \in Procs \ {p} : \A e \in Epochs : (entered'[e] = q) = (entered[e] = q)
    PROVE  TypeInv' /\ Inv'
<1>1. proc'[p] = s /\ \A q \in Procs \ {p} : proc'[q] = proc[q] BY DEF TypeInv
<1>2. TypeInv'
  <2>1. proc' \in [Procs -> ProcType] BY DEF TypeInv
  <2> QED BY <2>1 DEF TypeInv, RowsOK
<1>3. Kept' BY DEF Inv, Kept, RowsGood
<1>4. \A m \in Machines : MachKept(m)' BY DEF Inv, MachKept, Holds
<1>5. ASSUME NEW q \in Procs \ {p} PROVE StartKept(q)' /\ JobKept(q)'
  <2>1. proc'[q] = proc[q] BY <1>1
  <2>2. PICK r \in ProcType : r = proc[q] BY DEF TypeInv
  <2>3. StartKept(q) /\ JobKept(q) BY DEF Inv
  <2>4. JobKept(q)' BY <2>1, <2>3 DEF JobKept
  <2>5. r.up => r.epoch \in Epochs BY <2>2, <2>3 DEF StartKept, TypeInv
  <2>6. r.minted # NoEpoch => r.minted \in Epochs BY DEF ProcType
  <2>7. inst.epoch \in Epochs BY DEF TypeInv
  <2>8. StartKept(q)' BY <2>1, <2>2, <2>3, <2>5, <2>6, <2>7 DEF StartKept
  <2> QED BY <2>4, <2>8
<1>6. JobKept(p)' BY <1>1 DEF JobKept, Observing
<1>7. StopKept'
  <2>1. CASE Calm BY <2>1 DEF Calm, StopKept
  <2>2. CASE ~Calm
    <3>1. \A q \in Procs : proc'[q].job.kind \notin Observing
      BY <1>1, <2>2 DEF Inv, StopKept, Calm, Observing
    <3> QED BY <2>2, <3>1 DEF Inv, StopKept, Calm, Present
  <2> QED BY <2>1, <2>2
<1> QED BY <1>2, <1>3, <1>4, <1>5, <1>6, <1>7 DEF Inv

LEMMA StartKeeps ==
    ASSUME TypeInv, Inv, NEW p \in Procs, Start(p)
    PROVE  TypeInv' /\ Inv'
<1>1. PICK flag \in BOOLEAN :
         /\ pending => flag
         /\ proc' = [proc EXCEPT ![p] = [Down EXCEPT !.up = TRUE, !.flag = flag, !.gate = flag,
                                          !.start = inst.epoch, !.epoch = inst.epoch]]
  BY DEF Start
<1>2. PICK ep \in Epochs : ep = inst.epoch BY DEF TypeInv
<1>3. PICK d \in ProcType : d = Down BY DownTyped
<1>4. PICK s \in ProcType : s = [d EXCEPT !.up = TRUE, !.flag = flag, !.gate = flag, !.start = ep, !.epoch = ep]
  BY DEF ProcType
<1>5. /\ s.up /\ s.flag = flag /\ s.gate = flag /\ s.start = ep /\ s.epoch = ep
      /\ s.minted = d.minted /\ s.job = d.job
  BY <1>4 DEF ProcType
<1>6. s.minted = NoEpoch /\ s.job.kind = "none" /\ s.job.on = NoMachine BY <1>3, <1>5 DEF Down, NoJob
<1>7. proc' = [proc EXCEPT ![p] = s] BY <1>1, <1>2, <1>3, <1>4
<1>8. proc'[p] = s /\ \A q \in Procs \ {p} : proc'[q] = proc[q] BY <1>7 DEF TypeInv
<1>9. UNCHANGED <<inst, mach, entry, flight, stage, backup, used, entered, checked, pending, left>>
  BY DEF Start, history
<1>10. entered[ep] # p BY <1>2, RecoveryAssumption DEF Start, Inv, EpochsKept
<1>11. StartKept(p)'
  <2>1. ep \in used BY <1>2 DEF Inv, EpochsKept
  <2>2. (s.gate <=> s.flag) /\ (pending => s.gate) BY <1>1, <1>5
  <2>3. s.up /\ s.epoch = ep /\ s.start = ep /\ s.minted = NoEpoch /\ s.job.kind = "none" BY <1>5, <1>6
  <2>4. inst'.epoch = ep /\ used' = used /\ entered' = entered /\ pending' = pending BY <1>2, <1>9
  <2> QED BY <1>8, <1>10, <2>1, <2>2, <2>3, <2>4 DEF StartKept
<1>12. EpochsKept' BY <1>5, <1>8, <1>9 DEF Inv, EpochsKept, TypeInv
<1>13. Counted' BY <1>9 DEF TypeInv, Counted
<1> QED BY <1>6, <1>7, <1>9, <1>11, <1>12, <1>13, ProcOnly DEF TypeInv

LEMMA CrashKeeps ==
    ASSUME TypeInv, Inv, NEW p \in Procs, Crash(p)
    PROVE  TypeInv' /\ Inv'
<1>1. PICK s \in ProcType : s = Down BY DownTyped
<1>2. /\ ~s.up /\ ~s.gate /\ s.minted = NoEpoch /\ s.job.kind = "none" /\ s.job.on = NoMachine
  BY <1>1 DEF Down, NoJob
<1>3. proc' = [proc EXCEPT ![p] = s] BY <1>1 DEF Crash
<1>4. proc'[p] = s /\ \A q \in Procs \ {p} : proc'[q] = proc[q] BY <1>3 DEF TypeInv
<1>5. UNCHANGED <<inst, mach, entry, flight, stage, backup, used, checked, pending>> BY DEF Crash
<1>6. \A e \in Epochs : entered'[e] = IF entered[e] = p THEN NoProc ELSE entered[e] BY DEF Crash
<1>7. entered' \in [Epochs -> Procs \cup {NoProc}] BY DEF Crash, TypeInv
<1>8. left' \in LimitType /\ left'.restores = left.restores /\ Counted' BY LeftOne DEF Crash
<1>9. inst.epoch \in Epochs BY DEF TypeInv
<1>10. StartKept(p)' BY <1>2, <1>4, <1>5, <1>6, <1>9, RecoveryAssumption DEF StartKept
<1>11. EpochsKept' BY <1>4, <1>5, <1>6, <1>7 DEF Inv, EpochsKept
<1>12. \A q \in Procs \ {p} : \A e \in Epochs : (entered'[e] = q) = (entered[e] = q)
  BY <1>6, RecoveryAssumption
<1> QED BY <1>2, <1>3, <1>5, <1>7, <1>8, <1>10, <1>11, <1>12, ProcOnly

LEMMA ReplayEntryKeeps ==
    ASSUME TypeInv, Inv, NEW p \in Procs, NEW k \in Keys, ReplayEntry(p, k)
    PROVE  TypeInv' /\ Inv'
<1>1. PICK r \in ProcType : r = proc[p] BY DEF TypeInv
<1>2. PICK ep \in Epochs : ep = inst.epoch BY DEF TypeInv
<1>3. ep = entry[k] /\ ep = r.minted /\ r.up /\ r.flag /\ r.gate BY <1>1, <1>2 DEF ReplayEntry, OwnEntry
<1>4. PICK s \in ProcType : s = [r EXCEPT !.minted = ep, !.epoch = ep, !.gate = FALSE] BY DEF ProcType
<1>5. /\ s.up /\ s.flag /\ s.start = r.start /\ s.job = r.job
      /\ s.minted = ep /\ s.epoch = ep /\ s.gate = FALSE
  BY <1>3, <1>4 DEF ProcType
<1>6. proc' = [proc EXCEPT ![p] = s] BY <1>1, <1>3, <1>4 DEF ReplayEntry, Entered
<1>7. proc'[p] = s /\ \A q \in Procs \ {p} : proc'[q] = proc[q] BY <1>6 DEF TypeInv
<1>8. UNCHANGED <<inst, mach, entry, flight, stage, backup, used, entered, checked, pending, left>>
  BY DEF ReplayEntry, history
<1>9. StartKept(p) /\ JobKept(p) BY DEF Inv
<1>10. ep # NoEpoch BY RecoveryAssumption
<1>11. /\ r.start \in used /\ r.start # ep /\ entered[ep] = p /\ r.job.kind = "none" /\ ~pending
       /\ r.job.on = NoMachine
  BY <1>1, <1>3, <1>9, <1>10 DEF StartKept, JobKept
<1>12. StartKept(p)' BY <1>2, <1>5, <1>7, <1>8, <1>11 DEF StartKept, Inv, EpochsKept
<1>13. EpochsKept' BY <1>5, <1>7, <1>8 DEF Inv, EpochsKept, TypeInv
<1>14. Counted' BY <1>8 DEF TypeInv, Counted
<1> QED BY <1>5, <1>6, <1>8, <1>11, <1>12, <1>13, <1>14, ProcOnly DEF TypeInv

\* Only the clock and the requests under way change.
LEMMA ClockFrame ==
    ASSUME TypeInv, Inv, UNCHANGED <<inst, mach, entry, proc, backup, used, entered, checked, pending, left>>,
           stage' \in [Machines -> Stages], flight' \in [Machines -> SUBSET Epochs],
           \A m \in Machines : stage[m] \in Past => stage'[m] \in Past,
           \A m \in Machines : MachKept(m)', StopKept'
    PROVE  TypeInv' /\ Inv'
<1>1. TypeInv' BY DEF TypeInv, RowsOK, Counted
<1>2. Kept' BY DEF Inv, Kept, RowsGood
<1>3. \A q \in Procs : JobStep(q) BY StillProcs
<1>4. EpochsKept' /\ \A q \in Procs : StartKept(q)' /\ JobKept(q)' BY <1>3, ProcFrame
<1> QED BY <1>1, <1>2, <1>4 DEF Inv

LEMMA DeadlinePassesKeeps ==
    ASSUME TypeInv, Inv, NEW m \in Machines, DeadlinePasses(m)
    PROVE  TypeInv' /\ Inv'
<1>1. stage'[m] = "deadline" /\ flight'[m] = {}
      /\ \A k \in Machines \ {m} : stage'[k] = stage[k] /\ flight'[k] = flight[k]
  BY DEF DeadlinePasses, TypeInv
<1>2. stage' \in [Machines -> Stages] /\ flight' \in [Machines -> SUBSET Epochs]
  BY DEF DeadlinePasses, TypeInv, Stages
<1>3. UNCHANGED <<inst, mach, entry, proc, backup, used, entered, checked, pending, left>>
  BY DEF DeadlinePasses, history
<1>4. \A k \in Machines : stage[k] \in Past => stage'[k] \in Past BY <1>1 DEF Past
<1>5. \A k \in Machines : MachKept(k)'
  <2>1. MachKept(m)' BY <1>1, <1>3, RecoveryAssumption DEF Inv, MachKept, Past
  <2>2. ASSUME NEW k \in Machines \ {m} PROVE MachKept(k)'
    <3>1. MachKept(k) BY DEF Inv
    <3> QED BY <1>1, <1>3, <3>1 DEF MachKept, Holds
  <2> QED BY <2>1, <2>2
<1>6. StopKept'
  <2>1. Calm BY DEF DeadlinePasses, Calm, Inv, StopKept
  <2> QED BY <1>1, <2>1 DEF Calm, StopKept
<1> QED BY <1>2, <1>3, <1>4, <1>5, <1>6, ClockFrame

LEMMA FloorPassesKeeps ==
    ASSUME TypeInv, Inv, NEW m \in Machines, FloorPasses(m)
    PROVE  TypeInv' /\ Inv'
<1>1. stage[m] = "deadline" /\ stage'[m] = "floor" /\ \A k \in Machines \ {m} : stage'[k] = stage[k]
  BY DEF FloorPasses, TypeInv
<1>2. stage' \in [Machines -> Stages] /\ flight' \in [Machines -> SUBSET Epochs]
  BY DEF FloorPasses, TypeInv, Stages
<1>3. UNCHANGED <<inst, mach, entry, proc, flight, backup, used, entered, checked, pending, left>>
  BY DEF FloorPasses, history
<1>4. \A k \in Machines : stage[k] \in Past => stage'[k] \in Past BY <1>1 DEF Past
<1>5. \A k \in Machines : MachKept(k)'
  <2>1. MachKept(m)' BY <1>1, <1>3 DEF Inv, MachKept, Past, Holds
  <2>2. ASSUME NEW k \in Machines \ {m} PROVE MachKept(k)'
    <3>1. MachKept(k) BY DEF Inv
    <3> QED BY <1>1, <1>3, <3>1 DEF MachKept, Holds
  <2> QED BY <2>1, <2>2
<1>6. StopKept'
  <2>1. Calm BY <1>1 DEF Calm, Inv, StopKept
  <2> QED BY <1>1, <2>1 DEF Calm, StopKept
<1> QED BY <1>2, <1>3, <1>4, <1>5, <1>6, ClockFrame

LEMMA ArrivesKeeps ==
    ASSUME TypeInv, Inv, NEW m \in Machines, Arrives(m)
    PROVE  TypeInv' /\ Inv'
<1>1. \A k \in Machines : flight'[k] \subseteq flight[k] BY DEF Arrives, TypeInv
<1>2. stage' \in [Machines -> Stages] /\ flight' \in [Machines -> SUBSET Epochs]
  BY DEF Arrives, TypeInv
<1>3. UNCHANGED <<inst, mach, entry, proc, stage, backup, used, entered, checked, pending, left>>
  BY DEF Arrives, history
<1>4. ASSUME NEW k \in Machines PROVE MachKept(k)'
  <2>1. MachKept(k) BY DEF Inv
  <2> QED BY <1>1, <1>3, <2>1 DEF MachKept, Holds
<1>5. StopKept' BY <1>3 DEF Inv, StopKept, Present
<1> QED BY <1>2, <1>3, <1>4, <1>5, ClockFrame

LEMMA StopDeadlinePassesKeeps ==
    ASSUME TypeInv, Inv, StopDeadlinePasses
    PROVE  TypeInv' /\ Inv'
<1>1. ~Calm BY DEF StopDeadlinePasses, Calm
<1>2. \A k \in Machines : stage[k] = "stopped" BY <1>1 DEF Calm, Inv, StopKept
<1>3. \A k \in Machines : stage'[k] = "deadline" /\ flight'[k] = {} BY <1>2 DEF StopDeadlinePasses
<1>4. stage' \in [Machines -> Stages] /\ flight' \in [Machines -> SUBSET Epochs]
  BY <1>3 DEF StopDeadlinePasses, Stages
<1>5. UNCHANGED <<inst, mach, entry, proc, backup, used, entered, checked, pending, left>>
  BY DEF StopDeadlinePasses, history
<1>6. ASSUME NEW k \in Machines PROVE MachKept(k)'
  <2>1. MachKept(k) BY DEF Inv
  <2> QED BY <1>3, <1>5, <2>1 DEF MachKept, Past
<1>7. StopKept' BY <1>3 DEF StopKept
<1>8. \A k \in Machines : stage'[k] \in Past BY <1>3 DEF Past
<1> QED BY <1>4, <1>5, <1>6, <1>7, <1>8, ClockFrame

LEMMA TakeBackupKeeps ==
    ASSUME TypeInv, Inv, TakeBackup
    PROVE  TypeInv' /\ Inv'
<1>1. left' \in LimitType /\ left'.restores = left.restores /\ Counted' BY LeftOne DEF TakeBackup
<1>2. backup'[1] = inst /\ backup'[2] = mach /\ backup'[3] = entry BY DEF TakeBackup, rows
<1>3. UNCHANGED <<inst, mach, entry, proc, flight, stage, used, entered, checked, pending>>
  BY DEF TakeBackup, history
<1>4. RowsOK(backup') BY <1>2 DEF TypeInv, RowsOK
<1>5. TypeInv' BY <1>1, <1>3, <1>4 DEF TypeInv, RowsOK
<1>6. Kept'
  <2>1. RowsGood(inst, mach) /\ inst.epoch \in used BY DEF Inv, Kept, EpochsKept
  <2>2. RowsGood(inst', mach') BY <1>3, <2>1
  <2>3. RowsGood(backup'[1], backup'[2]) /\ backup'[1].epoch \in used' BY <1>2, <1>3, <2>1
  <2> QED BY <2>2, <2>3 DEF Kept
<1>7. EpochsKept' /\ StopKept' BY <1>3 DEF Inv, EpochsKept, StopKept, Present
<1>8. \A p \in Procs : StartKept(p)' /\ JobKept(p)' BY <1>3 DEF Inv, StartKept, JobKept
<1>9. \A m \in Machines : MachKept(m)' BY <1>3 DEF Inv, MachKept, Holds
<1> QED BY <1>5, <1>6, <1>7, <1>8, <1>9 DEF Inv

-----------------------------------------------------------------------------
(* The restore and recovery mode. *)

LEMMA RestoreKeeps ==
    ASSUME TypeInv, Inv, Restore
    PROVE  TypeInv' /\ Inv'
<1>1. RowsOK(backup) /\ RowsGood(backup[1], backup[2]) /\ backup[1].epoch \in used
  BY DEF Restore, TypeInv, Inv, Kept
<1>2. left' \in LimitType /\ Counted' /\ left'.restores = left.restores - 1 BY LeftOne DEF Restore
<1>3. ASSUME NEW m \in Machines
      PROVE  /\ mach'[m] \in MachType /\ mach'[m].settle = "none"
             /\ mach'[m].scope = backup[2][m].scope /\ mach'[m].plan = backup[2][m].plan
  <2>1. PICK x \in MachType : x = backup[2][m] BY <1>1 DEF RowsOK
  <2>2. PICK r \in MachType : r = [x EXCEPT !.settle = "none"] BY DEF MachType
  <2>3. mach'[m] = r BY <2>1, <2>2 DEF Restore
  <2> QED BY <2>1, <2>2, <2>3 DEF MachType
<1>4. \A p \in Procs : proc'[p] = Down BY DEF Restore
<1>5. \A e \in Epochs : entered'[e] = NoProc BY DEF Restore
<1>6. \A m \in Machines : stage'[m] = "stopped" BY DEF Restore
<1>7. inst' = backup[1] /\ entry' = backup[3] /\ pending' /\ UNCHANGED <<flight, used, checked>>
  BY DEF Restore
<1>8. backup' = backup \/ (backup' = NoBackup /\ ~(left'.restores > 0)) BY DEF Restore
<1>9. TypeInv'
  <2>1. mach' \in [Machines -> MachType] BY <1>3 DEF Restore
  <2>2. proc' \in [Procs -> ProcType] BY DownTyped DEF Restore
  <2>3. stage' \in [Machines -> Stages] BY DEF Restore, Stages
  <2>4. entered' \in [Epochs -> Procs \cup {NoProc}] BY DEF Restore
  <2>5. inst' \in [epoch : Epochs, recovery : BOOLEAN] /\ entry' \in [Keys -> Epochs \cup {NoEpoch}]
    BY <1>1, <1>7 DEF RowsOK
  <2>6. (backup' = NoBackup \/ RowsOK(backup')) /\ (left'.restores > 0 => RowsOK(backup')) BY <1>1, <1>8
  <2>7. pending' \in BOOLEAN BY DEF Restore
  <2> QED BY <1>2, <1>7, <2>1, <2>2, <2>3, <2>4, <2>5, <2>6, <2>7 DEF TypeInv, RowsOK
<1>10. Kept'
  <2>1. RowsGood(inst', mach') BY <1>1, <1>3, <1>7 DEF RowsGood
  <2>2. left'.restores > 0 => RowsGood(backup'[1], backup'[2]) /\ backup'[1].epoch \in used'
    BY <1>1, <1>7, <1>8
  <2> QED BY <2>1, <2>2 DEF Kept
<1>11. EpochsKept' BY <1>1, <1>5, <1>7 DEF EpochsKept
<1>12. inst'.epoch \in Epochs BY <1>1, <1>7 DEF RowsOK
<1>13. \A p \in Procs : StartKept(p)' BY <1>4, <1>5, <1>12, RecoveryAssumption DEF StartKept, Down, NoJob
<1>14. \A p \in Procs : JobKept(p)' BY <1>4 DEF JobKept, Down, NoJob, Observing
<1>15. ASSUME NEW m \in Machines PROVE MachKept(m)'
  <2>1. MachKept(m) BY DEF Inv
  <2> QED BY <1>3, <1>6, <1>7, <2>1 DEF MachKept, Past
<1>16. StopKept'
  <2>1. Present' # {}
    <3>1. PICK m \in Machines : backup[2][m].scope # "absent" BY DEF Restore
    <3> QED BY <1>3, <3>1 DEF Present
  <2>2. \A p \in Procs : proc'[p].job.kind \notin Observing BY <1>4 DEF Down, NoJob, Observing
  <2> QED BY <1>3, <1>6, <1>7, <2>1, <2>2 DEF StopKept
<1> QED BY <1>9, <1>10, <1>11, <1>13, <1>14, <1>15, <1>16 DEF Inv

LEMMA EnterRecoveryKeeps ==
    ASSUME TypeInv, Inv, NEW p \in Procs, NEW k \in Keys, EnterRecovery(p, k)
    PROVE  TypeInv' /\ Inv'
<1>1. PICK e \in Epochs \ used, replied \in BOOLEAN :
        /\ inst' = [epoch |-> e, recovery |-> TRUE]
        /\ mach' = [m \in Machines |->
                     IF m \notin Present THEN mach[m]
                     ELSE [mach[m] EXCEPT !.scope = "pre-restore-unaccounted", !.accounted = FALSE,
                                          !.op = IF Holds(m) THEN TakenOnEntry(mach[m].op, p, e) ELSE @]]
        /\ entry' = [entry EXCEPT ![k] = e]
        /\ proc' = [proc EXCEPT ![p] = IF replied THEN Entered(@, e) ELSE [@ EXCEPT !.minted = e]]
        /\ used' = used \cup {e} /\ entered' = [entered EXCEPT ![e] = p]
  BY DEF EnterRecovery
<1>2. /\ checked' = [m \in Machines |-> {}] /\ ~pending' /\ pending' = FALSE
      /\ UNCHANGED <<flight, stage, backup>> /\ Unshared
  BY DEF EnterRecovery
<1>3. left' \in LimitType /\ left'.restores = left.restores /\ Counted' BY LeftOne DEF EnterRecovery
<1>4. PICK r \in ProcType : r = proc[p] BY DEF TypeInv
<1>5. StartKept(p) /\ JobKept(p) BY DEF Inv
<1>6. r.up /\ r.flag /\ r.gate /\ r.job.kind = "none" /\ r.start \in used /\ r.epoch \in used
  BY <1>4, <1>5 DEF EnterRecovery, StartKept
<1>7. PICK s \in ProcType :
         /\ proc' = [proc EXCEPT ![p] = s] /\ s.up /\ s.flag /\ s.start = r.start /\ s.job = r.job
         /\ s.minted = e
         /\ (s.epoch = e /\ ~s.gate) \/ (s.epoch = r.epoch /\ s.gate)
  <2>1. CASE replied
    <3>1. PICK s \in ProcType : s = [r EXCEPT !.minted = e, !.epoch = e, !.gate = FALSE] BY DEF ProcType
    <3>2. proc' = [proc EXCEPT ![p] = s] BY <1>1, <1>4, <2>1, <3>1 DEF Entered
    <3> QED BY <1>6, <3>1, <3>2 DEF ProcType
  <2>2. CASE ~replied
    <3>1. PICK s \in ProcType : s = [r EXCEPT !.minted = e] BY DEF ProcType
    <3>2. proc' = [proc EXCEPT ![p] = s] BY <1>1, <1>4, <2>2, <3>1
    <3> QED BY <1>6, <3>1, <3>2 DEF ProcType
  <2> QED BY <2>1, <2>2
<1>8. proc'[p] = s /\ \A q \in Procs \ {p} : proc'[q] = proc[q] BY <1>7 DEF TypeInv
<1>9. ASSUME NEW m \in Machines
      PROVE  /\ mach'[m] \in MachType /\ mach'[m].settle = mach[m].settle /\ mach'[m].plan = mach[m].plan
             /\ mach[m].scope = "absent" => mach'[m].scope = "absent"
             /\ mach[m].scope # "absent" => mach'[m].scope = "pre-restore-unaccounted"
  <2>1. PICK x \in MachType : x = mach[m] BY DEF TypeInv
  <2>2. CASE m \notin Present
    <3>1. mach'[m] = x BY <1>1, <2>1, <2>2
    <3> QED BY <2>1, <2>2, <3>1 DEF Present
  <2>3. CASE m \in Present
    <3>1. PICK o \in OpType : o = IF Holds(m) THEN TakenOnEntry(x.op, p, e) ELSE x.op
      <4>1. x.op \in OpType BY DEF MachType
      <4>2. CASE Holds(m)
        <5>1. x.op # NoOp BY <2>1, <4>2 DEF Holds, Holding, NoOp
        <5>2. TakenOnEntry(x.op, p, e) \in OpType BY <4>1, <5>1 DEF OpType, TakenOnEntry, Holding
        <5> QED BY <4>2, <5>2
      <4> QED BY <4>1, <4>2
    <3>2. PICK y \in MachType :
             y = [x EXCEPT !.scope = "pre-restore-unaccounted", !.accounted = FALSE, !.op = o]
      BY DEF MachType, Scopes
    <3>3. mach'[m] = y BY <1>1, <2>1, <2>3, <3>1, <3>2
    <3> QED BY <2>1, <2>3, <3>2, <3>3 DEF MachType, Present
  <2> QED BY <2>2, <2>3
<1>10. e # NoEpoch /\ p # NoProc BY RecoveryAssumption
<1>11. /\ entered'[e] = p /\ \A d \in Epochs : d # e => entered'[d] = entered[d]
       /\ entered' \in [Epochs -> Procs \cup {NoProc}]
  BY <1>1 DEF TypeInv
<1>12. TypeInv'
  <2>1. mach' \in [Machines -> MachType] BY <1>1, <1>9
  <2>2. proc' \in [Procs -> ProcType] BY <1>7 DEF TypeInv
  <2>3. inst' \in [epoch : Epochs, recovery : BOOLEAN] /\ entry' \in [Keys -> Epochs \cup {NoEpoch}]
        /\ used' \subseteq Epochs
    BY <1>1 DEF TypeInv
  <2>4. checked' \in [Machines -> SUBSET (Releases \cup {NoRelease})] /\ pending' \in BOOLEAN BY <1>2
  <2> QED BY <1>2, <1>3, <1>11, <2>1, <2>2, <2>3, <2>4 DEF TypeInv, RowsOK
<1>13. inst'.epoch = e /\ inst'.recovery /\ used' = used \cup {e} BY <1>1
<1>14. Kept'
  <2>1. RowsGood(inst', mach') BY <1>9, <1>13 DEF Inv, Kept, RowsGood
  <2>2. left'.restores > 0 => RowsGood(backup'[1], backup'[2]) /\ backup'[1].epoch \in used'
    BY <1>2, <1>3, <1>13 DEF Inv, Kept
  <2> QED BY <2>1, <2>2 DEF Kept
<1>15. EpochsKept'
  <2>1. ASSUME NEW d \in Epochs, entered'[d] # NoProc PROVE d \in used' /\ proc'[entered'[d]].up
    <3>1. CASE d = e BY <1>7, <1>8, <1>11, <1>13, <3>1
    <3>2. CASE d # e
      <4>1. entered'[d] = entered[d] /\ entered[d] \in Procs BY <1>11, <2>1, <3>2 DEF TypeInv
      <4>2. d \in used /\ proc[entered[d]].up BY <2>1, <4>1 DEF Inv, EpochsKept
      <4> QED BY <1>7, <1>8, <1>13, <4>1, <4>2
    <3> QED BY <3>1, <3>2
  <2> QED BY <1>13, <2>1 DEF EpochsKept
<1>16. StartKept(p)' BY <1>1, <1>2, <1>6, <1>7, <1>8, <1>11, <1>13 DEF StartKept
<1>17. ASSUME NEW q \in Procs \ {p} PROVE StartKept(q)'
  <2>1. StartKept(q) BY DEF Inv
  <2>2. PICK t \in ProcType : t = proc[q] /\ t = proc'[q] BY <1>8 DEF TypeInv
  <2>3. t.minted # NoEpoch => t.minted \in Epochs /\ entered'[t.minted] = q
    <3>1. SUFFICES ASSUME t.minted # NoEpoch PROVE t.minted \in Epochs /\ entered'[t.minted] = q OBVIOUS
    <3>2. t.minted \in Epochs /\ entered[t.minted] = q BY <2>1, <2>2, <3>1 DEF StartKept, ProcType
    <3>3. t.minted \in used BY <3>2, RecoveryAssumption DEF Inv, EpochsKept
    <3> QED BY <1>1, <1>11, <3>2, <3>3
  <2>4. t.up => t.epoch \in used /\ t.epoch \in Epochs /\ t.epoch # e /\ t.start # e /\ t.start \in used
    BY <1>1, <2>1, <2>2 DEF StartKept, TypeInv
  <2>5. t.up => entered'[t.epoch] = entered[t.epoch] BY <1>11, <2>4
  <2>6. entered'[e] # q BY <1>11
  <2> QED BY <1>2, <1>13, <2>1, <2>2, <2>3, <2>4, <2>5, <2>6 DEF StartKept
<1>18. ASSUME NEW q \in Procs PROVE JobKept(q)'
  <2>1. JobKept(q) /\ StartKept(q) BY DEF Inv
  <2>2. proc'[q].job = proc[q].job BY <1>4, <1>7, <1>8
  <2>3. proc[q].job.kind \notin {"inventory", "inventory-recovery"} BY <1>2 DEF Unshared
  <2>4. proc[q].job.kind = "restoration" => proc'[q].epoch # e
    <3>1. SUFFICES ASSUME proc[q].job.kind = "restoration" PROVE proc'[q].epoch # e OBVIOUS
    <3>2. q # p /\ proc[q].up BY <1>4, <1>6, <2>1, <3>1 DEF StartKept
    <3>3. proc[q].epoch \in used BY <2>1, <3>2 DEF StartKept
    <3> QED BY <1>1, <1>8, <3>2, <3>3
  <2> QED BY <1>2, <1>13, <2>1, <2>2, <2>3, <2>4 DEF JobKept
<1>19. ASSUME NEW m \in Machines PROVE MachKept(m)'
  <2>1. MachKept(m) BY DEF Inv
  <2> QED BY <1>2, <1>9, <2>1 DEF MachKept
<1>20. StopKept'
  <2>1. \A q \in Procs : proc'[q].job = proc[q].job BY <1>4, <1>7, <1>8
  <2>2. Present' = Present BY <1>9 DEF Present
  <2>3. \A m \in Present' : mach'[m].scope = "pre-restore-unaccounted" BY <1>9, <2>2 DEF Present
  <2> QED BY <1>2, <1>9, <1>13, <2>1, <2>2, <2>3 DEF Inv, StopKept
<1> QED BY <1>12, <1>14, <1>15, <1>16, <1>17, <1>18, <1>19, <1>20 DEF Inv

LEMMA LeaveRecoveryKeeps ==
    ASSUME TypeInv, Inv, NEW p \in Procs, LeaveRecovery(p)
    PROVE  TypeInv' /\ Inv'
<1>1. Unshared /\ UNCHANGED <<entry, proc, flight, stage, backup, used, entered, checked, pending, left>>
  BY DEF LeaveRecovery, history
<1>2. \A m \in Machines : mach[m].scope \in {"absent", "released"} BY DEF LeaveRecovery, Present
<1>3. inst' = [inst EXCEPT !.recovery = FALSE] BY DEF LeaveRecovery
<1>4. inst' \in [epoch : Epochs, recovery : BOOLEAN] /\ inst'.epoch = inst.epoch /\ ~inst'.recovery
  BY <1>3 DEF TypeInv
<1>5. ASSUME NEW m \in Machines
      PROVE  /\ mach'[m] \in MachType /\ mach'[m].settle = mach[m].settle /\ mach'[m].plan = mach[m].plan
             /\ mach'[m].op = mach[m].op
             /\ mach'[m].scope = IF mach[m].scope = "absent" THEN "absent" ELSE "normal"
  <2>1. PICK x \in MachType : x = mach[m] BY DEF TypeInv
  <2>2. CASE m \notin Present
    <3>1. mach'[m] = x BY <2>1, <2>2 DEF LeaveRecovery
    <3> QED BY <2>1, <2>2, <3>1 DEF Present
  <2>3. CASE m \in Present
    <3>1. PICK y \in MachType : y = [x EXCEPT !.scope = "normal"] BY DEF MachType, Scopes
    <3>2. mach'[m] = y BY <2>1, <2>3, <3>1 DEF LeaveRecovery
    <3> QED BY <2>1, <2>3, <3>1, <3>2 DEF MachType, Present
  <2> QED BY <2>2, <2>3
<1>6. Calm /\ ~pending
  <2>1. ~pending BY DEF LeaveRecovery, Serves, Current, Inv, StartKept
  <2>2. \A m \in Present : mach[m].scope # "pre-restore-unaccounted" BY <1>2 DEF Present
  <2> QED BY <2>1, <2>2 DEF Inv, StopKept, Calm
<1>7. TypeInv'
  <2>1. mach' \in [Machines -> MachType] BY <1>5 DEF LeaveRecovery
  <2> QED BY <1>1, <1>4, <2>1 DEF TypeInv, RowsOK, Counted
<1>8. Kept'
  <2>1. RowsGood(inst', mach') BY <1>4, <1>5 DEF Inv, Kept, RowsGood
  <2>2. left'.restores > 0 => RowsGood(backup'[1], backup'[2]) /\ backup'[1].epoch \in used'
    BY <1>1 DEF Inv, Kept
  <2> QED BY <2>1, <2>2 DEF Kept
<1>9. EpochsKept' BY <1>1, <1>4 DEF Inv, EpochsKept
<1>10. \A q \in Procs : StartKept(q)' BY <1>1, <1>4 DEF Inv, StartKept
<1>11. \A q \in Procs : JobKept(q)' BY <1>1, <1>4 DEF Inv, JobKept, Unshared
<1>12. ASSUME NEW m \in Machines PROVE MachKept(m)'
  <2>1. MachKept(m) BY DEF Inv
  <2> QED BY <1>1, <1>2, <1>4, <1>5, <1>6, <2>1 DEF MachKept, Holds
<1>13. StopKept' BY <1>1, <1>6 DEF Calm, StopKept
<1> QED BY <1>7, <1>8, <1>9, <1>10, <1>11, <1>12, <1>13 DEF Inv

LEMMA AccountScopesKeeps ==
    ASSUME TypeInv, Inv, NEW p \in Procs, NEW S \in SUBSET Machines, AccountScopes(p, S)
    PROVE  TypeInv' /\ Inv'
<1>1. UNCHANGED <<inst, entry, flight, stage, backup, used, entered, checked, pending, left>>
  BY DEF AccountScopes, history
<1>2. inst.recovery /\ \A m \in S : mach[m].settle = "end" /\ mach[m].scope = "pre-restore-unaccounted"
  BY DEF AccountScopes, ScopeSettled
<1>3. \A m \in S : stage[m] \in Past /\ flight[m] = {} BY <1>2 DEF Inv, MachKept
<1>4. Calm
  <2>1. PICK m \in S : TRUE BY DEF AccountScopes
  <2> QED BY <1>3, <2>1 DEF Past, Inv, StopKept, Calm
<1>5. ASSUME NEW m \in Machines
      PROVE  /\ mach'[m] \in MachType
             /\ m \notin S => mach'[m] = mach[m]
             /\ m \in S => /\ mach'[m].scope \in {"unresolved", "blocked"}
                           /\ mach'[m].plan = mach[m].plan /\ mach'[m].settle = mach[m].settle
  <2>1. PICK x \in MachType : x = mach[m] BY DEF TypeInv
  <2>2. CASE m \notin S BY <2>1, <2>2 DEF AccountScopes
  <2>3. CASE m \in S
    <3>1. PICK sc \in {"unresolved", "blocked"} : sc = IF Holds(m) THEN "unresolved" ELSE "blocked" OBVIOUS
    <3>2. PICK t : t = IF x.op.tried = "unaccounted" THEN "accounted" ELSE x.op.tried OBVIOUS
    <3>3. PICK o \in OpType : o = [x.op EXCEPT !.tried = t]
      <4>1. x.op \in OpType BY DEF MachType
      <4>2. CASE x.op = NoOp
        <5>1. t = "never" BY <3>2, <4>2 DEF NoOp
        <5>2. [x.op EXCEPT !.tried = t] = NoOp BY <4>2, <5>1 DEF NoOp
        <5> QED BY <5>2 DEF OpType
      <4>3. CASE x.op # NoOp
        <5>1. t \in {"never", "unaccounted", "accounted"} BY <3>2, <4>1, <4>3 DEF OpType
        <5> QED BY <4>1, <4>3, <5>1 DEF OpType
      <4> QED BY <4>2, <4>3
    <3>4. PICK y \in MachType : y = [x EXCEPT !.scope = sc, !.accounted = TRUE, !.op = o]
      BY DEF MachType, Scopes
    <3>5. mach'[m] = y
      <4>1. mach'[m] = [x EXCEPT !.scope = sc, !.accounted = TRUE,
                                 !.op.tried = IF @ = "unaccounted" THEN "accounted" ELSE @]
        BY <2>1, <2>3, <3>1 DEF AccountScopes
      <4> QED BY <3>2, <3>3, <3>4, <4>1 DEF MachType
    <3> QED BY <2>1, <2>3, <3>4, <3>5 DEF MachType
  <2> QED BY <2>2, <2>3
<1>6. proc' \in [Procs -> ProcType] /\ \A q \in Procs : JobStep(q)
  <2>1. ASSUME NEW q \in Procs
        PROVE  proc'[q] \in ProcType /\ Same(proc[q], proc'[q]) /\ SameJob(proc[q].job, proc'[q].job)
    <3>1. PICK r \in ProcType : r = proc[q] BY DEF TypeInv
    <3>2. CASE proc[q].job.on \in S
      <4>1. proc'[q] = [r EXCEPT !.job.since = @ \cup {"accounting"}] BY <3>1, <3>2 DEF AccountScopes
      <4>2. {"accounting"} \in SUBSET Since BY DEF Since
      <4> QED BY <3>1, <4>1, <4>2, NotedOne
    <3>3. CASE proc[q].job.on \notin S
      <4>1. proc'[q] = r BY <3>1, <3>3 DEF AccountScopes
      <4> QED BY <3>1, <4>1 DEF Same, SameJob
    <3> QED BY <3>2, <3>3
  <2>2. proc' \in [Procs -> ProcType] BY <2>1 DEF AccountScopes
  <2> QED BY <2>1, <2>2 DEF JobStep
<1>7. TypeInv'
  <2>1. mach' \in [Machines -> MachType] BY <1>5 DEF AccountScopes
  <2> QED BY <1>1, <1>6, <2>1 DEF TypeInv, RowsOK, Counted
<1>8. Kept'
  <2>1. RowsGood(inst, mach') BY <1>2, <1>5 DEF Inv, Kept, RowsGood
  <2>2. RowsGood(inst', mach') BY <1>1, <2>1
  <2>3. left'.restores > 0 => RowsGood(backup'[1], backup'[2]) /\ backup'[1].epoch \in used'
    BY <1>1 DEF Inv, Kept
  <2> QED BY <2>2, <2>3 DEF Kept
<1>9. EpochsKept' /\ \A q \in Procs : StartKept(q)' /\ JobKept(q)' BY <1>1, <1>6, ProcFrame
<1>10. ASSUME NEW m \in Machines PROVE MachKept(m)'
  <2>1. MachKept(m) BY DEF Inv
  <2>2. CASE m \notin S BY <1>1, <1>5, <2>1, <2>2 DEF MachKept, Holds
  <2>3. CASE m \in S BY <1>1, <1>3, <1>5, <2>1, <2>3 DEF MachKept
  <2> QED BY <2>2, <2>3
<1>11. StopKept' BY <1>1, <1>4 DEF Calm, StopKept
<1> QED BY <1>7, <1>8, <1>9, <1>10, <1>11 DEF Inv

-----------------------------------------------------------------------------
(* Observations and attempts. *)

LEMMA AttemptKeeps ==
    ASSUME TypeInv, Inv, NEW p \in Procs, NEW m \in Machines, Attempt(p, m)
    PROVE  TypeInv' /\ Inv'
<1>1. UNCHANGED <<inst, entry, backup, used, entered, checked, pending, left>> BY DEF Attempt, history
<1>2. PICK x \in MachType : x = mach[m] BY DEF TypeInv
<1>3. x.scope \in {"normal", "released"} /\ Current(p) /\ x.op.state = "committed"
  BY <1>2 DEF Attempt, GateOpen, Executes, Serves
<1>4. Calm /\ ~pending BY <1>2, <1>3, ActsCalm DEF Current
<1>5. PICK o \in OpType : o = [x.op EXCEPT !.state = "sending", !.tried = "unaccounted"]
                          /\ o.state = "sending" /\ o.tried = "unaccounted"
  <2>1. x.op \in OpType /\ x.op # NoOp BY <1>3 DEF MachType, NoOp
  <2>2. PICK y \in OpType \ {NoOp} : y = x.op BY <2>1
  <2>3. PICK o \in OpType : o = [y EXCEPT !.state = "sending", !.tried = "unaccounted"]
    BY <2>2 DEF OpType, Holding
  <2>4. o.state = "sending" /\ o.tried = "unaccounted" BY <2>2, <2>3 DEF OpType
  <2> QED BY <2>2, <2>3, <2>4
<1>6. PICK r \in MachType : r = [x EXCEPT !.op = o, !.settle = "none"] BY DEF MachType
<1>7. r.op = o /\ r.settle = "none" /\ r.scope = x.scope /\ r.plan = x.plan BY <1>6 DEF MachType
<1>8. mach' = [mach EXCEPT ![m] = r] BY <1>2, <1>5, <1>6 DEF Attempt, TypeInv
<1>9. mach'[m] = r /\ \A k \in Machines \ {m} : mach'[k] = mach[k] BY <1>8 DEF TypeInv
<1>10. /\ stage'[m] = "flight" /\ flight'[m] = flight[m] \cup {inst.epoch}
       /\ \A k \in Machines \ {m} : stage'[k] = stage[k] /\ flight'[k] = flight[k]
  BY DEF Attempt, TypeInv
<1>11. ASSUME NEW q \in Procs
       PROVE  /\ proc'[q] \in ProcType /\ Same(proc[q], proc'[q]) /\ JobKept(q)'
              /\ proc'[q].job.kind = proc[q].job.kind
  <2>1. PICK t \in ProcType : t = proc[q] BY DEF TypeInv
  <2>2. PICK j \in JobType : j = t.job BY DEF ProcType
  <2>3. JobKept(q) BY DEF Inv
  <2>4. CASE j.on = m
    <3>1. PICK k \in JobType : k = [j EXCEPT !.since = @ \cup {"operation"}, !.stage = "flight"]
      <4>1. PICK si \in SUBSET Since : si = j.since \cup {"operation"} BY DEF JobType, Since
      <4>2. [j EXCEPT !.since = si, !.stage = "flight"] \in JobType BY DEF JobType, Stages
      <4> QED BY <4>1, <4>2
    <3>2. /\ k.kind = j.kind /\ k.on = j.on /\ k.stage = "flight" /\ k.release = j.release
          /\ k.passed = j.passed
      BY <3>1 DEF JobType
    <3>3. PICK s \in ProcType : s = [t EXCEPT !.job = k] BY DEF ProcType
    <3>4. s.job = k /\ Same(t, s) BY <3>3 DEF ProcType, Same
    <3>5. proc'[q] = s
      <4>1. proc'[q] = [t EXCEPT !.job.since = @ \cup {"operation"}, !.job.stage = "flight"]
        BY <2>1, <2>2, <2>4 DEF Attempt
      <4>2. [t EXCEPT !.job.since = @ \cup {"operation"}, !.job.stage = "flight"] = s
        BY <2>2, <3>1, <3>3 DEF ProcType
      <4> QED BY <4>1, <4>2
    <3>6. JobKept(q)' BY <1>1, <2>1, <2>2, <2>3, <3>2, <3>4, <3>5 DEF JobKept, Past, Same
    <3> QED BY <2>1, <2>2, <3>2, <3>4, <3>5, <3>6
  <2>5. CASE j.on # m
    <3>1. proc'[q] = t BY <2>1, <2>2, <2>5 DEF Attempt
    <3>2. j.kind # "none" => j.on \in Machines \ {m} BY <2>1, <2>2, <2>3, <2>5 DEF JobKept, JobType
    <3>3. JobKept(q)' BY <1>1, <1>10, <2>1, <2>2, <2>3, <3>1, <3>2 DEF JobKept, Observing
    <3> QED BY <2>1, <3>1, <3>3 DEF Same
  <2> QED BY <2>4, <2>5
<1>12. TypeInv'
  <2>1. proc' \in [Procs -> ProcType] BY <1>11 DEF Attempt
  <2>2. mach' \in [Machines -> MachType] BY <1>8 DEF TypeInv
  <2>3. stage' \in [Machines -> Stages] /\ flight' \in [Machines -> SUBSET Epochs]
    BY DEF Attempt, TypeInv, Stages
  <2> QED BY <1>1, <2>1, <2>2, <2>3 DEF TypeInv, RowsOK, Counted
<1>13. Kept'
  <2>1. RowsGood(inst, mach') BY <1>2, <1>7, <1>9 DEF Inv, Kept, RowsGood
  <2>2. RowsGood(inst', mach') BY <1>1, <2>1
  <2>3. left'.restores > 0 => RowsGood(backup'[1], backup'[2]) /\ backup'[1].epoch \in used'
    BY <1>1 DEF Inv, Kept
  <2> QED BY <2>2, <2>3 DEF Kept
<1>14. EpochsKept'
  <2>1. \A q \in Procs : proc'[q].up = proc[q].up BY <1>11 DEF Same
  <2> QED BY <1>1, <2>1 DEF Inv, EpochsKept, TypeInv
<1>15. ASSUME NEW q \in Procs PROVE StartKept(q)'
  <2>1. StartKept(q) BY DEF Inv
  <2>2. JobStep(q) BY <1>4, <1>11, <2>1 DEF JobStep, StartKept, TypeInv
  <2> QED BY <1>1, <2>1, <2>2, StartStays
<1>16. MachKept(m)'
  <2>1. MachKept(m) BY DEF Inv
  <2>2. flight[m] \subseteq {inst.epoch} BY <1>2, <1>3, <1>4, <2>1 DEF MachKept, Calm
  <2>3. flight'[m] \subseteq {inst'.epoch} BY <1>1, <1>10, <2>2
  <2>4. mach'[m].op.state \in Holding /\ mach'[m].op.tried = "unaccounted" BY <1>5, <1>7, <1>9 DEF Holding
  <2> QED BY <1>1, <1>2, <1>3, <1>4, <1>7, <1>9, <1>10, <2>3, <2>4 DEF MachKept, Holds, Past
<1>17. ASSUME NEW k \in Machines \ {m} PROVE MachKept(k)'
  <2>1. MachKept(k) BY DEF Inv
  <2> QED BY <1>1, <1>9, <1>10, <2>1 DEF MachKept, Holds
<1>18. StopKept' BY <1>4, <1>10 DEF Calm, StopKept
<1> QED BY <1>11, <1>12, <1>13, <1>14, <1>15, <1>16, <1>17, <1>18 DEF Inv

LEMMA RecordObservationKeeps ==
    ASSUME TypeInv, Inv, NEW p \in Procs, RecordObservation(p)
    PROVE  TypeInv' /\ Inv'
<1>1. PICK j \in JobType : j = proc[p].job BY DEF TypeInv, ProcType
<1>2. j.kind \in Observing /\ Current(p) BY <1>1 DEF RecordObservation, Observing
<1>3. PICK m \in Machines : m = j.on BY <1>1, <1>2 DEF Inv, JobKept, JobType, Observing
<1>4. Calm BY <1>1, <1>2 DEF Inv, StopKept, Calm
<1>5. UNCHANGED <<inst, entry, flight, backup, used, entered, pending, left>> BY DEF RecordObservation
<1>6. PICK seen \in {"own", "other", "unread"}, passed \in BOOLEAN :
        /\ mach' = [mach EXCEPT ![m].settle = SettleAfter(p, seen),
                                ![m].latest = IF "overtaken" \in j.since THEN @
                                              ELSE [seen |-> seen, fresh |-> "approval" \notin j.since]]
        /\ stage' = [stage EXCEPT ![m] = IF seen # "unread" /\ FirstRead(p) THEN "deadline" ELSE @]
        /\ checked' = [checked EXCEPT ![m] = IF passed THEN @ \cup {j.release} ELSE @]
        /\ \E ov \in [Procs -> SUBSET Since] :
             proc' = [q \in Procs |->
                     IF q = p
                     THEN [proc[p] EXCEPT !.job = IF j.kind = "recovery" THEN NoJob
                                                  ELSE [j EXCEPT !.recorded = TRUE, !.seen = seen,
                                                                 !.passed = passed]]
                     ELSE [proc[q] EXCEPT !.job.since = @ \cup ov[q]]]
  <2> DEFINE job == proc[p].job
             over(q, seen) == IF q # p /\ proc[q].job.on = job.on /\ p \in proc[q].job.since
                              THEN {"overtaken"} \cup (IF seen = "other" THEN {"other"} ELSE {})
                                     \cup (IF seen # "unread" /\ FirstRead(p) THEN {"first"} ELSE {})
                              ELSE {}
  <2>1. PICK seen \in {"own", "other", "unread"}, passed \in BOOLEAN :
        /\ passed => job.kind = "restoration"
        /\ mach' = [mach EXCEPT ![job.on].settle = SettleAfter(p, seen),
                                ![job.on].latest = IF "overtaken" \in job.since THEN @
                                              ELSE [seen |-> seen, fresh |-> "approval" \notin job.since]]
        /\ stage' = [stage EXCEPT ![job.on] = IF seen # "unread" /\ FirstRead(p) THEN "deadline" ELSE @]
        /\ checked' = [checked EXCEPT ![job.on] = IF passed THEN @ \cup {job.release} ELSE @]
        /\ proc' = [q \in Procs |->
                     IF q = p
                     THEN [proc[p] EXCEPT !.job = IF job.kind = "recovery" THEN NoJob
                                                  ELSE [job EXCEPT !.recorded = TRUE, !.seen = seen,
                                                                 !.passed = passed]]
                     ELSE [proc[q] EXCEPT !.job.since = @ \cup over(q, seen)]]
    BY Zenon DEF RecordObservation
  <2>2. \A q \in Procs : over(q, seen) \in SUBSET Since BY DEF Since
  <2>3. PICK ov \in [Procs -> SUBSET Since] : ov = [q \in Procs |-> over(q, seen)] BY <2>2
  <2>4. \A q \in Procs : ov[q] = over(q, seen) BY <2>3
  <2>5. job = j /\ job.on = m BY <1>1, <1>3
  <2> HIDE DEF over, job
  <2>6. mach' = [mach EXCEPT ![m].settle = SettleAfter(p, seen),
                             ![m].latest = IF "overtaken" \in j.since THEN @
                                           ELSE [seen |-> seen, fresh |-> "approval" \notin j.since]]
    BY <2>1, <2>5
  <2>7. stage' = [stage EXCEPT ![m] = IF seen # "unread" /\ FirstRead(p) THEN "deadline" ELSE @] BY <2>1, <2>5
  <2>8. checked' = [checked EXCEPT ![m] = IF passed THEN @ \cup {j.release} ELSE @] BY <2>1, <2>5
  <2>9. proc' = [q \in Procs |->
                     IF q = p
                     THEN [proc[p] EXCEPT !.job = IF j.kind = "recovery" THEN NoJob
                                                  ELSE [j EXCEPT !.recorded = TRUE, !.seen = seen,
                                                                 !.passed = passed]]
                     ELSE [proc[q] EXCEPT !.job.since = @ \cup ov[q]]]
    BY <2>1, <2>4, <2>5
  <2>10. \E z \in [Procs -> SUBSET Since] :
           proc' = [q \in Procs |->
                     IF q = p
                     THEN [proc[p] EXCEPT !.job = IF j.kind = "recovery" THEN NoJob
                                                  ELSE [j EXCEPT !.recorded = TRUE, !.seen = seen,
                                                                 !.passed = passed]]
                     ELSE [proc[q] EXCEPT !.job.since = @ \cup z[q]]]
    BY <2>9
  <2> QED BY <2>6, <2>7, <2>8, <2>10, Zenon
<1>7. PICK ov \in [Procs -> SUBSET Since] :
         proc' = [q \in Procs |->
                     IF q = p
                     THEN [proc[p] EXCEPT !.job = IF j.kind = "recovery" THEN NoJob
                                                  ELSE [j EXCEPT !.recorded = TRUE, !.seen = seen,
                                                                 !.passed = passed]]
                     ELSE [proc[q] EXCEPT !.job.since = @ \cup ov[q]]]
  BY <1>6
<1>8. PICK x \in MachType : x = mach[m] BY DEF TypeInv
<1>9. PICK st \in {"none", "start", "end"} :
         st = SettleAfter(p, seen) /\ (st = x.settle \/ (seen # "unread" /\ FirstRead(p)) \/ x.settle # "none")
  <2>1. x.settle \in {"none", "start", "end"} BY DEF MachType
  <2> QED BY <1>1, <1>3, <1>8, <2>1 DEF SettleAfter
<1>10. PICK lt \in [seen : {"own", "other", "unread"}, fresh : BOOLEAN] :
          lt = IF "overtaken" \in j.since THEN x.latest
               ELSE [seen |-> seen, fresh |-> "approval" \notin j.since]
  BY DEF MachType
<1>11. PICK r \in MachType : r = [x EXCEPT !.settle = st, !.latest = lt] BY DEF MachType
<1>12. /\ r.settle = st /\ r.scope = x.scope /\ r.op = x.op /\ r.plan = x.plan /\ r.marked = x.marked
  BY <1>11 DEF MachType
<1>13. mach' = [mach EXCEPT ![m] = r] BY <1>6, <1>8, <1>9, <1>10, <1>11 DEF TypeInv
<1>14. mach'[m] = r /\ \A k \in Machines \ {m} : mach'[k] = mach[k] BY <1>13 DEF TypeInv
<1>15. seen # "unread" /\ FirstRead(p) => stage[m] \in Past
  BY <1>1, <1>2, <1>3 DEF FirstRead, Inv, JobKept
<1>16. /\ stage'[m] = IF seen # "unread" /\ FirstRead(p) THEN "deadline" ELSE stage[m]
       /\ \A k \in Machines \ {m} : stage'[k] = stage[k]
  BY <1>6 DEF TypeInv
<1>17. \A k \in Machines : (stage'[k] \in Past) = (stage[k] \in Past) /\ stage'[k] # "stopped"
  BY <1>4, <1>15, <1>16 DEF Past, Calm
<1>18. /\ \A k \in Machines : checked[k] \subseteq checked'[k]
       /\ passed => j.release \in checked'[m]
       /\ checked' \in [Machines -> SUBSET (Releases \cup {NoRelease})]
  <2>1. j.release \in Releases \cup {NoRelease} BY DEF JobType
  <2> QED BY <1>6, <2>1 DEF TypeInv
<1>19. ASSUME NEW q \in Procs \ {p} PROVE proc'[q] \in ProcType /\ JobStep(q)
  <2>1. PICK t \in ProcType : t = proc[q] BY DEF TypeInv
  <2>2. proc'[q] = [t EXCEPT !.job.since = @ \cup ov[q]] BY <1>7, <2>1
  <2> QED BY <2>1, <2>2, NotedOne DEF JobStep
<1>20. proc'[p] \in ProcType /\ JobStep(p)
  <2>1. PICK t \in ProcType : t = proc[p] BY DEF TypeInv
  <2>2. PICK i \in JobType : /\ i = IF j.kind = "recovery" THEN NoJob
                                    ELSE [j EXCEPT !.recorded = TRUE, !.seen = seen, !.passed = passed]
                             /\ \/ i = NoJob
                                \/ /\ i.kind = j.kind /\ i.on = j.on /\ i.stage = j.stage
                                   /\ i.release = j.release /\ i.passed = passed
    <3>1. CASE j.kind = "recovery" BY <3>1, NoJobTyped
    <3>2. CASE j.kind # "recovery"
      <4>1. PICK i \in JobType : i = [j EXCEPT !.recorded = TRUE, !.seen = seen, !.passed = passed]
        BY DEF JobType
      <4>2. /\ i.kind = j.kind /\ i.on = j.on /\ i.stage = j.stage
            /\ i.release = j.release /\ i.passed = passed
        BY <4>1 DEF JobType
      <4> QED BY <3>2, <4>1, <4>2
    <3> QED BY <3>1, <3>2
  <2>3. PICK s \in ProcType : s = [t EXCEPT !.job = i] BY DEF ProcType
  <2>4. s.job = i /\ Same(t, s) BY <2>3 DEF ProcType, Same
  <2>5. proc'[p] = s BY <1>7, <2>1, <2>2, <2>3
  <2>6. JobKept(p) BY DEF Inv
  <2>7. JobKept(p)'
    <3>1. CASE i = NoJob BY <2>4, <2>5, <3>1 DEF JobKept, NoJob, Observing
    <3>2. CASE i # NoJob
      <4>1. /\ i.kind = j.kind /\ i.on = m /\ i.stage = j.stage /\ i.release = j.release
            /\ i.passed = passed
        BY <1>3, <2>2, <3>2
      <4>2. j.kind \notin {"none", "inventory", "inventory-recovery"} /\ m # NoMachine
        BY <1>2, RecoveryAssumption DEF Observing
      <4>3. j.stage \in Past => stage'[m] \in Past BY <1>1, <1>2, <1>3, <1>17, <2>6 DEF JobKept
      <4> QED BY <1>18, <2>4, <2>5, <4>1, <4>2, <4>3 DEF JobKept
    <3> QED BY <3>1, <3>2
  <2>8. proc[p].up /\ ~proc[p].gate BY <1>2 DEF Current
  <2> QED BY <1>4, <2>1, <2>4, <2>5, <2>7, <2>8 DEF JobStep
<1>21. \A q \in Procs : proc'[q] \in ProcType /\ JobStep(q) BY <1>19, <1>20
<1>22. TypeInv'
  <2>1. proc' \in [Procs -> ProcType] BY <1>7, <1>21
  <2>2. mach' \in [Machines -> MachType] BY <1>13 DEF TypeInv
  <2>3. stage' \in [Machines -> Stages] BY <1>6 DEF TypeInv, Stages
  <2> QED BY <1>5, <1>18, <2>1, <2>2, <2>3 DEF TypeInv, RowsOK, Counted
<1>23. Kept'
  <2>1. RowsGood(inst, mach') BY <1>8, <1>12, <1>14 DEF Inv, Kept, RowsGood
  <2>2. RowsGood(inst', mach') BY <1>5, <2>1
  <2>3. left'.restores > 0 => RowsGood(backup'[1], backup'[2]) /\ backup'[1].epoch \in used'
    BY <1>5 DEF Inv, Kept
  <2> QED BY <2>2, <2>3 DEF Kept
<1>24. EpochsKept' /\ \A q \in Procs : StartKept(q)' /\ JobKept(q)'
  BY <1>5, <1>17, <1>18, <1>21, ProcFrame
<1>25. MachKept(m)'
  <2>1. MachKept(m) /\ stage[m] # "stopped" BY <1>4 DEF Inv, Calm
  <2>2. st # "none" => stage'[m] \in Past BY <1>8, <1>9, <1>15, <1>17, <2>1 DEF MachKept
  <2> QED BY <1>5, <1>8, <1>12, <1>14, <1>17, <1>18, <2>1, <2>2 DEF MachKept, Holds
<1>26. ASSUME NEW k \in Machines \ {m} PROVE MachKept(k)'
  <2>1. MachKept(k) /\ stage'[k] = stage[k] BY <1>16 DEF Inv
  <2> QED BY <1>5, <1>14, <1>18, <2>1 DEF MachKept, Holds
<1>27. StopKept' BY <1>17 DEF StopKept
<1> QED BY <1>22, <1>23, <1>24, <1>25, <1>26, <1>27 DEF Inv

-----------------------------------------------------------------------------
(* Every step. *)

LEMMA NextKeeps ==
    ASSUME TypeInv, Inv, [RecoveryNext \/ AdoptionNext]_recoveryVars
    PROVE  TypeInv' /\ Inv'
<1>1. CASE UNCHANGED recoveryVars
  <2>1. UNCHANGED <<inst, mach, entry, proc, flight, stage, backup, used, entered, checked, pending, left>>
    BY <1>1 DEF recoveryVars
  <2>2. proc' \in [Procs -> ProcType] /\ \A q \in Procs : JobStep(q) BY <2>1, StillProcs
  <2> QED BY <2>1, <2>2, JobFrame
<1>2. CASE RecoveryNext
  <2>1. CASE TakeBackup \/ Restore \/ StopDeadlinePasses
    BY <2>1, TakeBackupKeeps, RestoreKeeps, StopDeadlinePassesKeeps
  <2>2. ASSUME NEW m \in Machines, DeadlinePasses(m) \/ FloorPasses(m) \/ Arrives(m) \/ Publish(m)
        PROVE  TypeInv' /\ Inv'
    BY <2>2, DeadlinePassesKeeps, FloorPassesKeeps, ArrivesKeeps, PublishKeeps
  <2>3. ASSUME NEW p \in Procs, ProcessStep(p) PROVE TypeInv' /\ Inv'
    <3>1. CASE Start(p) \/ Crash(p) \/ RecordObservation(p) \/ GiveUp(p) \/ MarkScope(p)
               \/ LeaveRecovery(p) \/ InventoryMachine(p)
      BY <3>1, StartKeeps, CrashKeeps, RecordObservationKeeps, GiveUpKeeps, MarkScopeKeeps,
         LeaveRecoveryKeeps, InventoryMachineKeeps
    <3>2. CASE \E k \in Keys : EnterRecovery(p, k) \/ ReplayEntry(p, k)
      BY <3>2, EnterRecoveryKeeps, ReplayEntryKeeps
    <3>3. CASE \E S \in SUBSET Machines : AccountScopes(p, S) BY <3>3, AccountScopesKeeps
    <3> QED BY <2>3, <3>1, <3>2, <3>3 DEF ProcessStep
  <2>4. ASSUME NEW p \in Procs, NEW m \in Machines, MachineStep(p, m) PROVE TypeInv' /\ Inv'
    BY <2>4, StartRecoveryReadKeeps, CommitKeeps, AttemptKeeps, RecordResponseKeeps, TakeOverKeeps,
       EndOperationKeeps, PrepareMarkKeeps, ReleaseScopeKeeps, BeginInventoryKeeps DEF MachineStep
  <2> QED BY <1>2, <2>1, <2>2, <2>3, <2>4 DEF RecoveryNext
<1>3. CASE AdoptionNext
  BY <1>3, PlanEndsKeeps, CommitAdoptionKeeps, AdoptionRefusedKeeps, RecordRefusalKeeps,
     ApproveAdoptKeeps, AdoptOneKeeps DEF AdoptionNext
<1> QED BY <1>1, <1>2, <1>3

LEMMA Keeps == Spec => [](TypeInv /\ Inv)
<1>1. Init => TypeInv /\ Inv BY Initial
<1>2. TypeInv /\ Inv /\ [RecoveryNext \/ AdoptionNext]_recoveryVars => (TypeInv /\ Inv)' BY NextKeeps
<1> QED BY <1>1, <1>2, PTL DEF Spec

\* A step that releases no scope and adopts by no plan.
Quiet == \A m \in Machines : /\ mach'[m].scope = "released" => mach[m].scope = "released"
                             /\ mach'[m].plan.adopted => mach[m].plan.adopted

LEMMA QuietRow ==
    ASSUME TypeInv, NEW m \in Machines, NEW r, mach' = [mach EXCEPT ![m] = r],
           r.scope = mach[m].scope \/ r.scope # "released",
           r.plan.adopted => mach[m].plan.adopted
    PROVE  Quiet
BY DEF TypeInv, Quiet

\* Scopes are released by releaseScope and plans adopted by adoptionTx, and by nothing else but
\* the restore of a backup.
LEMMA QuietSteps ==
    ASSUME TypeInv, Inv, [RecoveryNext \/ AdoptionNext]_recoveryVars
    PROVE  \/ Quiet
           \/ pending'
           \/ \E p \in Procs, m \in Machines : ReleaseScope(p, m)
           \/ \E p \in Procs : CommitAdoption(p)
<1>1. CASE UNCHANGED mach BY <1>1 DEF Quiet
<1>2. ASSUME NEW p \in Procs, NEW m \in Machines,
             Commit(p, m) \/ RecordResponse(p, m) \/ TakeOver(p, m) \/ EndOperation(p, m)
      PROVE  Quiet
  <2>1. PICK o : mach' = [mach EXCEPT ![m].op = o]
    BY <1>2 DEF Commit, RecordResponse, TakeOver, EndOperation, SetOp
  <2>2. PICK x \in MachType : x = mach[m] BY DEF TypeInv
  <2>3. PICK r : r = [x EXCEPT !.op = o] OBVIOUS
  <2>4. mach' = [mach EXCEPT ![m] = r] BY <2>1, <2>2, <2>3
  <2>5. r.scope = x.scope /\ r.plan = x.plan BY <2>3 DEF MachType
  <2> QED BY <2>2, <2>4, <2>5, QuietRow
<1>3. ASSUME NEW p \in Procs, NEW m \in Machines, Attempt(p, m) PROVE Quiet
  <2>1. PICK x \in MachType : x = mach[m] BY DEF TypeInv
  <2>2. PICK o : o = [x.op EXCEPT !.state = "sending", !.tried = "unaccounted"] OBVIOUS
  <2>3. PICK r : r = [x EXCEPT !.op = o, !.settle = "none"] OBVIOUS
  <2>4. mach' = [mach EXCEPT ![m] = r] BY <1>3, <2>1, <2>2, <2>3 DEF Attempt, TypeInv
  <2>5. r.scope = x.scope /\ r.plan = x.plan BY <2>3 DEF MachType
  <2> QED BY <2>1, <2>4, <2>5, QuietRow
<1>4. ASSUME NEW m \in Machines, Publish(m) PROVE Quiet
  <2>1. PICK d \in Releases : mach' = [mach EXCEPT ![m].desired = d] BY <1>4 DEF Publish
  <2>2. PICK x \in MachType : x = mach[m] BY DEF TypeInv
  <2>3. PICK r : r = [x EXCEPT !.desired = d] OBVIOUS
  <2>4. mach' = [mach EXCEPT ![m] = r] BY <2>1, <2>2, <2>3
  <2>5. r.scope = x.scope /\ r.plan = x.plan BY <2>3 DEF MachType
  <2> QED BY <2>2, <2>4, <2>5, QuietRow
<1>5. ASSUME NEW p \in Procs, RecordObservation(p) PROVE Quiet
  <2>1. PICK m \in Machines : m = proc[p].job.on
    BY <1>5 DEF RecordObservation, Inv, JobKept, TypeInv, ProcType, JobType
  <2>2. PICK x \in MachType : x = mach[m] BY DEF TypeInv
  <2>3. PICK seen \in {"own", "other", "unread"} :
           mach' = [mach EXCEPT ![m].settle = SettleAfter(p, seen),
                                ![m].latest = IF "overtaken" \in proc[p].job.since THEN @
                                              ELSE [seen |-> seen, fresh |-> "approval" \notin proc[p].job.since]]
    BY <1>5, <2>1 DEF RecordObservation
  <2>4. PICK st : st = SettleAfter(p, seen) OBVIOUS
  <2>5. PICK lt : lt = IF "overtaken" \in proc[p].job.since THEN x.latest
                       ELSE [seen |-> seen, fresh |-> "approval" \notin proc[p].job.since]
    OBVIOUS
  <2>6. PICK r : r = [x EXCEPT !.settle = st, !.latest = lt] OBVIOUS
  <2>7. mach' = [mach EXCEPT ![m] = r] BY <2>2, <2>3, <2>4, <2>5, <2>6 DEF TypeInv
  <2>8. r.scope = x.scope /\ r.plan = x.plan BY <2>6 DEF MachType
  <2> QED BY <2>2, <2>7, <2>8, QuietRow
<1>6. ASSUME NEW p \in Procs, MarkScope(p) PROVE Quiet
  <2>1. PICK m \in Machines : m = proc[p].job.on
    BY <1>6 DEF MarkScope, Inv, JobKept, TypeInv, ProcType, JobType
  <2>2. PICK x \in MachType : x = mach[m] BY DEF TypeInv
  <2>3. CASE \E s \in {"unresolved", "blocked"} : mach' = [mach EXCEPT ![m].scope = s]
    <3>1. PICK s \in {"unresolved", "blocked"} : mach' = [mach EXCEPT ![m].scope = s] BY <2>3
    <3>2. PICK r : r = [x EXCEPT !.scope = s] OBVIOUS
    <3>3. mach' = [mach EXCEPT ![m] = r] BY <2>2, <3>1, <3>2
    <3>4. r.scope # "released" /\ r.plan = x.plan BY <3>1, <3>2 DEF MachType
    <3> QED BY <2>2, <3>3, <3>4, QuietRow
  <2>4. CASE mach' = [mach EXCEPT ![m].scope = "ready", ![m].ready = TRUE, ![m].marked = proc[p].job.release]
    <3>1. PICK d : d = proc[p].job.release OBVIOUS
    <3>2. PICK r : r = [x EXCEPT !.scope = "ready", !.ready = TRUE, !.marked = d] OBVIOUS
    <3>3. mach' = [mach EXCEPT ![m] = r] BY <2>2, <2>4, <3>1, <3>2 DEF TypeInv
    <3>4. r.scope # "released" /\ r.plan = x.plan BY <3>2 DEF MachType
    <3> QED BY <2>2, <3>3, <3>4, QuietRow
  <2> QED BY <1>6, <2>1, <2>3, <2>4 DEF MarkScope
<1>7. ASSUME NEW p \in Procs, InventoryMachine(p) PROVE Quiet
  <2>1. PICK m \in Machines : m = proc[p].job.on
    BY <1>7 DEF InventoryMachine, Inv, JobKept, TypeInv, ProcType, JobType
  <2>2. PICK x \in MachType : x = mach[m] BY DEF TypeInv
  <2>3. PICK s \in {"normal", "pre-restore-unaccounted"} : mach' = [mach EXCEPT ![m].scope = s]
    BY <1>7, <2>1 DEF InventoryMachine
  <2>4. PICK r : r = [x EXCEPT !.scope = s] OBVIOUS
  <2>5. mach' = [mach EXCEPT ![m] = r] BY <2>2, <2>3, <2>4
  <2>6. r.scope # "released" /\ r.plan = x.plan BY <2>3, <2>4 DEF MachType
  <2> QED BY <2>2, <2>5, <2>6, QuietRow
<1>8. ASSUME NEW p \in Procs, LeaveRecovery(p) PROVE Quiet
  <2>1. ASSUME NEW m \in Machines
        PROVE  /\ mach'[m].scope = "released" => mach[m].scope = "released"
               /\ mach'[m].plan.adopted => mach[m].plan.adopted
    <3>1. PICK x \in MachType : x = mach[m] BY DEF TypeInv
    <3>2. mach'[m] = x \/ mach'[m] = [x EXCEPT !.scope = "normal"] BY <1>8, <3>1 DEF LeaveRecovery
    <3>3. CASE mach'[m] = x BY <3>1, <3>3
    <3>4. CASE mach'[m] = [x EXCEPT !.scope = "normal"]
      <4>1. mach'[m].scope = "normal" /\ mach'[m].plan = x.plan BY <3>4 DEF MachType
      <4> QED BY <3>1, <4>1
    <3> QED BY <3>2, <3>3, <3>4
  <2> QED BY <2>1 DEF Quiet
<1>9. ASSUME NEW p \in Procs, NEW S \in SUBSET Machines, AccountScopes(p, S) PROVE Quiet
  <2>1. ASSUME NEW m \in Machines
        PROVE  /\ mach'[m].scope = "released" => mach[m].scope = "released"
               /\ mach'[m].plan.adopted => mach[m].plan.adopted
    <3>1. CASE m \notin S
      <4>1. mach'[m] = mach[m] BY <1>9, <3>1 DEF AccountScopes
      <4> QED BY <4>1
    <3>2. CASE m \in S
      <4>1. PICK sc \in {"unresolved", "blocked"} : sc = IF Holds(m) THEN "unresolved" ELSE "blocked" OBVIOUS
      <4>2. PICK x \in MachType : x = mach[m] BY DEF TypeInv
      <4>3. mach'[m] = [x EXCEPT !.scope = sc, !.accounted = TRUE,
                                 !.op.tried = IF @ = "unaccounted" THEN "accounted" ELSE @]
        BY <1>9, <3>2, <4>1, <4>2 DEF AccountScopes
      <4>4. mach'[m].scope = sc /\ mach'[m].plan = x.plan BY <4>3 DEF MachType
      <4> QED BY <4>1, <4>2, <4>4
    <3> QED BY <3>1, <3>2
  <2> QED BY <2>1 DEF Quiet
<1>10. ASSUME NEW p \in Procs, NEW k \in Keys, EnterRecovery(p, k) PROVE Quiet
  <2>1. ASSUME NEW m \in Machines
        PROVE  /\ mach'[m].scope = "released" => mach[m].scope = "released"
               /\ mach'[m].plan.adopted => mach[m].plan.adopted
    <3>1. PICK x \in MachType : x = mach[m] BY DEF TypeInv
    <3>2. PICK e \in Epochs :
             mach' = [n \in Machines |->
                     IF n \notin Present THEN mach[n]
                     ELSE [mach[n] EXCEPT !.scope = "pre-restore-unaccounted", !.accounted = FALSE,
                                          !.op = IF Holds(n) THEN TakenOnEntry(mach[n].op, p, e) ELSE @]]
      BY <1>10 DEF EnterRecovery
    <3>3. PICK o : o = IF Holds(m) THEN TakenOnEntry(x.op, p, e) ELSE x.op OBVIOUS
    <3>4. mach'[m] = x
          \/ mach'[m] = [x EXCEPT !.scope = "pre-restore-unaccounted", !.accounted = FALSE, !.op = o]
      BY <3>1, <3>2, <3>3
    <3>5. CASE mach'[m] = x BY <3>1, <3>5
    <3>6. CASE mach'[m] = [x EXCEPT !.scope = "pre-restore-unaccounted", !.accounted = FALSE, !.op = o]
      <4>1. mach'[m].scope = "pre-restore-unaccounted" /\ mach'[m].plan = x.plan BY <3>6 DEF MachType
      <4> QED BY <3>1, <4>1
    <3> QED BY <3>4, <3>5, <3>6
  <2> QED BY <2>1 DEF Quiet
<1>11. ASSUME NEW m \in Machines, PlanEnds(m) PROVE Quiet
  <2>1. PICK x \in MachType : x = mach[m] BY DEF TypeInv
  <2>2. PICK pl : pl = [x.plan EXCEPT !.state = "ended"] OBVIOUS
  <2>3. PICK r : r = [x EXCEPT !.plan = pl] OBVIOUS
  <2>4. mach' = [mach EXCEPT ![m] = r] BY <1>11, <2>1, <2>2, <2>3 DEF PlanEnds, SetPlan, Plan
  <2>5. r.scope = x.scope /\ r.plan.adopted = x.plan.adopted BY <2>2, <2>3 DEF MachType, PlanType
  <2> QED BY <2>1, <2>4, <2>5, QuietRow
<1>12. ASSUME NEW p \in Procs, NEW m \in Machines, ApproveAdopt(p, m) PROVE Quiet
  <2>1. PICK x \in MachType : x = mach[m] BY DEF TypeInv
  <2>2. PICK d \in Releases :
           mach' = [mach EXCEPT ![m].latest.fresh = FALSE,
                                ![m].plan = [state |-> "approved", number |-> Plan(m).number + 1,
                                             epoch |-> inst.epoch, desired |-> mach[m].desired,
                                             release |-> d, refused |-> FALSE, adopted |-> FALSE]]
    BY <1>12 DEF ApproveAdopt
  <2>3. PICK pl : pl = [state |-> "approved", number |-> x.plan.number + 1, epoch |-> inst.epoch,
                        desired |-> x.desired, release |-> d, refused |-> FALSE, adopted |-> FALSE]
    OBVIOUS
  <2>4. PICK lt : lt = [x.latest EXCEPT !.fresh = FALSE] OBVIOUS
  <2>5. PICK r : r = [x EXCEPT !.latest = lt, !.plan = pl] OBVIOUS
  <2>6. mach' = [mach EXCEPT ![m] = r] BY <2>1, <2>2, <2>3, <2>4, <2>5 DEF TypeInv, Plan
  <2>7. r.scope = x.scope /\ r.plan = pl BY <2>5 DEF MachType
  <2>8. ~r.plan.adopted BY <2>3, <2>7
  <2> QED BY <2>1, <2>6, <2>7, <2>8, QuietRow
<1>13. ASSUME NEW p \in Procs, RecordRefusal(p) PROVE Quiet
  <2>1. PICK m \in Machines : m = proc[p].job.on
    BY <1>13 DEF RecordRefusal, Inv, JobKept, TypeInv, ProcType, JobType
  <2>2. PICK x \in MachType : x = mach[m] BY DEF TypeInv
  <2>3. PICK pl : pl = [x.plan EXCEPT !.refused = TRUE] OBVIOUS
  <2>4. PICK r : r = [x EXCEPT !.plan = pl] OBVIOUS
  <2>5. mach' = [mach EXCEPT ![m] = r] BY <1>13, <2>1, <2>2, <2>3, <2>4 DEF RecordRefusal
  <2>6. r.scope = x.scope /\ r.plan.adopted = x.plan.adopted BY <2>3, <2>4 DEF MachType, PlanType
  <2> QED BY <2>2, <2>5, <2>6, QuietRow
<1>14. CASE Restore BY <1>14 DEF Restore
<1>15. ASSUME NEW p \in Procs, ProcessStep(p) PROVE Quiet
  <2>1. CASE Start(p) \/ Crash(p) \/ GiveUp(p) BY <2>1 DEF Start, Crash, GiveUp, Quiet
  <2>2. CASE \E k \in Keys : EnterRecovery(p, k) \/ ReplayEntry(p, k) BY <1>1, <1>10, <2>2 DEF ReplayEntry, Quiet
  <2> QED BY <1>5, <1>6, <1>7, <1>8, <1>9, <1>15, <2>1, <2>2 DEF ProcessStep
<1>16. ASSUME NEW p \in Procs, NEW m \in Machines, MachineStep(p, m) PROVE Quiet \/ ReleaseScope(p, m)
  <2>1. CASE StartRecoveryRead(p, m) \/ PrepareMark(p, m) \/ BeginInventory(p, m)
    BY <2>1 DEF StartRecoveryRead, PrepareMark, BeginInventory, Quiet
  <2> QED BY <1>2, <1>3, <1>16, <2>1 DEF MachineStep
<1>17. CASE RecoveryNext
  <2>1. CASE TakeBackup \/ StopDeadlinePasses \/ \E m \in Machines : DeadlinePasses(m) \/ FloorPasses(m) \/ Arrives(m)
    BY <2>1 DEF TakeBackup, StopDeadlinePasses, DeadlinePasses, FloorPasses, Arrives, Quiet
  <2> QED BY <1>4, <1>14, <1>15, <1>16, <1>17, <2>1 DEF RecoveryNext
<1>18. CASE AdoptionNext
  <2>1. ASSUME NEW p \in Procs, NEW m \in Machines, AdoptOne(p, m) PROVE Quiet BY <2>1 DEF AdoptOne, Quiet
  <2>2. ASSUME NEW p \in Procs, AdoptionRefused(p) PROVE Quiet BY <2>2 DEF AdoptionRefused, Quiet
  <2> QED BY <1>11, <1>12, <1>13, <1>18, <2>1, <2>2 DEF AdoptionNext
<1>19. CASE UNCHANGED recoveryVars BY <1>19 DEF recoveryVars, Quiet
<1> QED BY <1>17, <1>18, <1>19

-----------------------------------------------------------------------------

\* No request is sent to a machine while another, one a restore erased from the database included,
\* can still arrive, for any number of machines, processes, backups and restores (accountScopes
\* waits for the transport deadline, scopeGate for the accounting); and every row keeps its type.
THEOREM NoSecondRequest == Spec => []OneInFlight
<1>1. TypeInv /\ Inv => OneInFlight
  <2> SUFFICES ASSUME TypeInv, Inv PROVE OneInFlight OBVIOUS
  <2>1. RecoveryTypeOK
    <3>1. RowsOK(rows)
      <4>1. rows[1] = inst /\ rows[2] = mach /\ rows[3] = entry BY DEF rows
      <4> QED BY <4>1 DEF TypeInv, RowsOK
    <3>2. \E l \in Limits :
             \A f \in {"backups", "restores", "entries", "crashes", "releases", "plans"} : left[f] \in 0 .. l[f]
      <4>1. PICK k \in LimitType : k = left BY DEF TypeInv
      <4>2. PICK l \in Limits : /\ k.backups <= l.backups /\ k.restores <= l.restores
                                /\ k.entries <= l.entries /\ k.crashes <= l.crashes
                                /\ k.releases <= l.releases /\ k.plans <= l.plans
        BY <4>1 DEF TypeInv, Counted
      <4>3. l \in LimitType BY <4>2, RecoveryAssumption DEF LimitType
      <4>4. \A f \in {"backups", "restores", "entries", "crashes", "releases", "plans"} :
               k[f] \in Nat /\ l[f] \in Nat /\ k[f] <= l[f]
        BY <4>2, <4>3 DEF LimitType
      <4> QED BY <4>1, <4>2, <4>4
    <3> QED BY <3>1, <3>2 DEF RecoveryTypeOK, TypeInv
  <2>2. ASSUME NEW m \in Machines PROVE Cardinality(flight[m]) <= 1
    <3>1. CASE flight[m] = {} BY <3>1, FS_EmptySet
    <3>2. CASE flight[m] # {}
      <4>1. PICK e \in flight[m] : flight[m] = {e} BY <3>2 DEF Inv, MachKept
      <4>2. Cardinality({e}) = 1 BY FS_Singleton
      <4> QED BY <4>1, <4>2
    <3> QED BY <3>1, <3>2
  <2> QED BY <2>1, <2>2 DEF OneInFlight
<1> QED BY <1>1, Keeps, PTL

\* Recovery mode and the scopes of the machines agree, whatever inventory requests the entry and
\* the exit meet (leaveRecovery's FOR UPDATE of the installation row).
THEOREM ModeAndScopes == Spec => []ScopesFollowMode
<1>1. Inv => ScopesFollowMode BY DEF Inv, Kept, RowsGood, ScopesFollowMode, Present
<1> QED BY <1>1, Keeps, PTL

\* A recovery start serves only in an epoch that its own entry minted, and can complete an entry
\* that committed without its knowing (entryReplay).
THEOREM OwnEntries == Spec => []GateIsOwnEntry
<1>1. Inv => GateIsOwnEntry BY DEF Inv, StartKept, GateIsOwnEntry
<1> QED BY <1>1, Keeps, PTL

\* An adopt plan is never both adopted and refused, though two loops attempt it and a refusal is
\* recorded after its attempt rolled back (recordRefusalEntry).
THEOREM PlanOutcome == Spec => []OneOutcome
<1>1. Inv => OneOutcome BY DEF Inv, Kept, RowsGood, OneOutcome, Plan
<1> QED BY <1>1, Keeps, PTL

\* A scope is released only while its Desired release passed a check in the epoch (releaseScope,
\* whatever publications and marks crossed).
THEOREM ChecksRelease == Spec => ReleasedIsChecked
<1> DEFINE Step == \A m \in Machines :
                     mach'[m].scope = "released" /\ mach[m].scope # "released" /\ ~pending'
                       => mach[m].desired \in checked[m]
<1>1. TypeInv /\ Inv /\ [RecoveryNext \/ AdoptionNext]_recoveryVars => [Step]_recoveryVars
  <2> SUFFICES ASSUME TypeInv, Inv, [RecoveryNext \/ AdoptionNext]_recoveryVars PROVE Step OBVIOUS
  <2>1. CASE Quiet BY <2>1 DEF Quiet
  <2>2. ASSUME NEW p \in Procs, NEW n \in Machines, ReleaseScope(p, n) PROVE Step
    <3>1. ~pending BY <2>2 DEF ReleaseScope, Serves, Current, Inv, StartKept
    <3>2. mach[n].desired \in checked[n]
      BY <2>2, <3>1 DEF ReleaseScope, StandsMarked, Inv, MachKept
    <3>3. \A m \in Machines \ {n} : mach'[m] = mach[m] BY <2>2 DEF ReleaseScope, TypeInv
    <3> QED BY <3>2, <3>3
  <2>3. ASSUME NEW p \in Procs, CommitAdoption(p) PROVE Step
    <3>1. PICK n \in Machines : n = proc[p].job.on
      BY <2>3 DEF CommitAdoption, AtAdoption, Inv, JobKept, TypeInv, ProcType, JobType
    <3>2. PICK x \in MachType : x = mach[n] BY DEF TypeInv
    <3>3. PICK pl : pl = [Plan(n) EXCEPT !.state = "committed", !.adopted = TRUE] OBVIOUS
    <3>4. PICK d : d = Plan(n).release OBVIOUS
    <3>5. PICK r : r = [x EXCEPT !.plan = pl, !.desired = d] OBVIOUS
    <3>6. mach' = [mach EXCEPT ![n] = r] BY <2>3, <3>1, <3>2, <3>3, <3>4, <3>5 DEF CommitAdoption, TypeInv
    <3>7. r.scope = x.scope BY <3>5 DEF MachType
    <3> QED BY <3>2, <3>6, <3>7 DEF TypeInv
  <2> QED BY <2>1, <2>2, <2>3, QuietSteps
<1>2. Spec => [][Step]_recoveryVars BY <1>1, Keeps, PTL DEF Spec
<1> QED BY <1>2 DEF ReleasedIsChecked

\* An adoption records what the machine runs only while no request sent to it can arrive, one a
\* restore erased included (requirement 4.5).
THEOREM AdoptsAlone == Spec => AdoptsUndisturbed
<1> DEFINE Step == \A m \in Machines :
                     mach'[m].plan.adopted /\ ~mach[m].plan.adopted /\ ~pending' => flight[m] = {}
<1>1. TypeInv /\ Inv /\ [RecoveryNext \/ AdoptionNext]_recoveryVars => [Step]_recoveryVars
  <2> SUFFICES ASSUME TypeInv, Inv, [RecoveryNext \/ AdoptionNext]_recoveryVars PROVE Step OBVIOUS
  <2>1. CASE Quiet BY <2>1 DEF Quiet
  <2>2. ASSUME NEW p \in Procs, NEW n \in Machines, ReleaseScope(p, n) PROVE Step
    <3>1. PICK x \in MachType : x = mach[n] BY DEF TypeInv
    <3>2. PICK r : r = [x EXCEPT !.scope = "released"] OBVIOUS
    <3>3. mach' = [mach EXCEPT ![n] = r] BY <2>2, <3>1, <3>2 DEF ReleaseScope
    <3>4. r.plan = x.plan BY <3>2 DEF MachType
    <3> QED BY <3>1, <3>3, <3>4 DEF TypeInv
  <2>3. ASSUME NEW p \in Procs, CommitAdoption(p) PROVE Step
    <3>1. PICK n \in Machines : n = proc[p].job.on
      BY <2>3 DEF CommitAdoption, AtAdoption, Inv, JobKept, TypeInv, ProcType, JobType
    <3>2. /\ proc[p].up /\ ~proc[p].gate /\ ~Holds(n)
          /\ mach[n].scope \notin {"absent", "pre-restore-unaccounted"}
      BY <2>3, <3>1 DEF CommitAdoption, AtAdoption, Current, AdoptGate, GateOpen
    <3>3. Calm BY <3>2, ActsCalm
    <3>4. flight[n] = {} BY <3>2, <3>3 DEF Calm, Inv, MachKept
    <3>5. \A m \in Machines \ {n} : mach'[m] = mach[m] BY <2>3, <3>1 DEF CommitAdoption, TypeInv
    <3> QED BY <3>4, <3>5
  <2> QED BY <2>1, <2>2, <2>3, QuietSteps
<1>2. Spec => [][Step]_recoveryVars BY <1>1, Keeps, PTL DEF Spec
<1> QED BY <1>2 DEF AdoptsUndisturbed
=============================================================================
