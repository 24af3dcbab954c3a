------------------------------ MODULE Recovery ------------------------------
(***************************************************************************)
(* Recovery mode after a restore (internal/api recovery_entries.go,        *)
(* recovery_accountings.go, recovery_marks.go, recovery_releases.go,       *)
(* recovery_exits.go, recovery_reads.go, and the pre-entry gate of         *)
(* api.go), over the database rows it governs and the requests that were   *)
(* on their way to the machines when the database was restored.            *)
(*                                                                         *)
(* Every transaction is one action, except an inventory request, which     *)
(* holds the installation row FOR SHARE between its two. The operation of  *)
(* a machine is the Dispatch module's, cut down to what recovery tells     *)
(* apart: who owns it, in which epoch, and whether an attempt of it is     *)
(* unaccounted. A machine's clock is its stage: "flight" while a request   *)
(* sent to it can still arrive, "deadline" once none can, "floor" once the *)
(* settle floor has passed since the first read after that. Timeline       *)
(* revisions are compared only with the basis of an observation, so a      *)
(* running observation carries what its machine's timeline recorded since. *)
(***************************************************************************)
EXTENDS Integers, FiniteSets

CONSTANTS
    Machines,
    NoMachine,
    Procs,       \* server processes
    NoProc,
    Epochs,      \* epoch identifiers, each minted at most once
    FirstEpoch,  \* the installation's
    NoEpoch,     \* no epoch: none minted, or one whose entry rolled back
    Keys,        \* idempotency keys of entry requests
    Releases,
    NoRelease,
    Limits       \* bounds of an instance, one chosen at the start: the processes and machines
                 \* used, those inventoried from the start, and how many backups, restores,
                 \* entries, crashes, publications and adopt plans there may be

ASSUME RecoveryAssumption ==
    /\ NoMachine \notin Machines /\ NoProc \notin Procs
    /\ FirstEpoch \in Epochs /\ NoEpoch \notin Epochs /\ NoRelease \notin Releases
    /\ Limits \subseteq [procs : SUBSET Procs, machines : SUBSET Machines, stock : SUBSET Machines,
                      backups : Nat, restores : Nat, entries : Nat, crashes : Nat, releases : Nat, plans : Nat]

VARIABLES
    inst,      \* installation_state: the epoch and whether recovery mode is in effect
    mach,      \* machine, machine_state, and what its timeline and operation rows say
    entry,     \* the epoch that the entry recorded under each key minted
    proc,      \* server processes
    flight,    \* the epochs whose requests to the machine may still arrive
    stage,     \* each machine's clock
    backup,    \* the rows of the latest backup
    used,      \* epochs minted so far, in databases since lost too
    entered,   \* history: the running process whose committed entry minted the epoch
    checked,   \* history: the releases whose dependencies passed a check in the epoch
    pending,   \* the database was restored and no entry has committed since
    left       \* what is left of the chosen limits

rows == <<inst, mach, entry>>   \* what a backup holds
history == <<used, entered, checked>>
recoveryVars == <<inst, mach, entry, proc, flight, stage, backup, used, entered, checked, pending,
                  left>>

Stages == {"flight", "stopped", "deadline", "floor"}
Past == {"deadline", "floor"}   \* the transport deadline has passed
Scopes == {"absent", "normal", "pre-restore-unaccounted", "blocked", "unresolved", "ready",
           "released"}
Holding == {"committed", "sending", "unresolved"}
NoOp == [state |-> "none", owner |-> NoProc, epoch |-> NoEpoch, tried |-> "never"]
\* tried: the operation has no attempt, one unaccounted, or only accounted ones.
OpType == {NoOp} \cup [state : Holding, owner : Procs, epoch : Epochs,
                       tried : {"never", "unaccounted", "accounted"}]

\* An adopt plan binds the Desired release it found and names the one it adopts; its epoch is
\* its approval's; refused and adopted: its refusal entry and its adoption record.
NoPlan == [state |-> "none", number |-> 0, epoch |-> NoEpoch, desired |-> NoRelease,
           release |-> NoRelease, refused |-> FALSE, adopted |-> FALSE]
PlanType == [state : {"none", "approved", "ended", "committed"}, number : Nat,
             epoch : Epochs \cup {NoEpoch}, desired : Releases \cup {NoRelease},
             release : Releases \cup {NoRelease}, refused : BOOLEAN, adopted : BOOLEAN]

\* accounted: a scope_accounting row of the current epoch; ready and marked: the last mark to
\* ready and the Desired release it checked; settle: the ends of a settle recorded so far;
\* latest: the recorded observation with the highest basis, and whether it began after the
\* adopt plan's approval.
Row(scope) == [scope |-> scope, desired |-> NoRelease, accounted |-> FALSE, ready |-> FALSE,
               marked |-> NoRelease, settle |-> "none", op |-> NoOp, plan |-> NoPlan,
               latest |-> [seen |-> "unread", fresh |-> FALSE]]
MachType == [scope : Scopes, desired : Releases \cup {NoRelease}, accounted : BOOLEAN,
             ready : BOOLEAN, marked : Releases \cup {NoRelease},
             settle : {"none", "start", "end"}, op : OpType, plan : PlanType,
             latest : [seen : {"own", "other", "unread"}, fresh : BOOLEAN]]

\* What a process does on a machine: take an observation for a purpose, begun at a stage, with
\* what the machine's timeline recorded since it began; or hold an inventory request open.
Since == {"accounting", "operation", "approval", "overtaken", "other", "first"} \cup Procs
NoJob == [kind |-> "none", on |-> NoMachine, stage |-> "flight", since |-> {},
          release |-> NoRelease, seen |-> "unread", passed |-> FALSE, recorded |-> FALSE,
          plan |-> 0]
JobType == [kind : {"none", "recovery", "restoration", "evidence", "refusal", "inventory",
                    "inventory-recovery"},
            on : Machines \cup {NoMachine}, stage : Stages,
            since : SUBSET Since, release : Releases \cup {NoRelease},
            seen : {"own", "other", "unread"}, passed : BOOLEAN, recorded : BOOLEAN,
            plan : Nat]

\* flag: started with the recovery-start flag; gate: preEntry; start and epoch: the epoch it
\* read at its start, and the one it owns in.
Down == [up |-> FALSE, flag |-> FALSE, start |-> NoEpoch, epoch |-> NoEpoch, gate |-> FALSE,
         minted |-> NoEpoch, job |-> NoJob]
ProcType == [up : BOOLEAN, flag : BOOLEAN, start : Epochs \cup {NoEpoch},
             epoch : Epochs \cup {NoEpoch}, gate : BOOLEAN, minted : Epochs \cup {NoEpoch},
             job : JobType]

NoBackup == <<>>   \* no restore is left to bring one back

Init ==
    /\ left \in Limits
    /\ inst = [epoch |-> FirstEpoch, recovery |-> FALSE]
    /\ mach = [m \in Machines |-> Row(IF m \in left.stock THEN "normal" ELSE "absent")]
    /\ entry = [k \in Keys |-> NoEpoch]
    /\ proc = [p \in Procs |-> Down]
    /\ flight = [m \in Machines |-> {}] /\ stage = [m \in Machines |-> "floor"]
    /\ backup = rows /\ used = {FirstEpoch} /\ entered = [e \in Epochs |-> NoProc]
    /\ checked = [m \in Machines |-> {}] /\ pending = FALSE

Present == {m \in Machines : mach[m].scope # "absent"}
Holds(m) == mach[m].op.state \in Holding
\* A process whose requests and loops pass the comparison of its epoch with the current one.
Current(p) == proc[p].up /\ ~proc[p].gate /\ proc[p].epoch = inst.epoch
\* The current process p, idle, and its loops of a normal start.
Serves(p) == Current(p) /\ proc[p].job.kind = "none"
Executes(p) == Serves(p) /\ ~proc[p].flag
\* No transaction holds the installation row, so one FOR UPDATE need not wait.
Unshared == \A p \in Procs : proc[p].job.kind \notin {"inventory", "inventory-recovery"}
\* scopeGate: outside recovery mode a normal scope, within it a released one.
GateOpen(m) ==
    /\ mach[m].scope \in {"normal", "released"}
    /\ inst.recovery => mach[m].scope = "released"

\* Observations running on m have ev recorded after their basis.
Note(m, ev) == [p \in Procs |-> IF proc[p].job.on = m
                                THEN [proc[p] EXCEPT !.job.since = @ \cup ev] ELSE proc[p]]

-----------------------------------------------------------------------------
(* Processes: New, and what a crash loses.                                 *)

\* A recovery start serves nothing but the entry until its entry commits; a normal start on a
\* restored database waits for one, by the operator's procedure (execution-recovery.md 7.2).
Start(p) ==
    /\ ~proc[p].up /\ p \in left.procs
    /\ \E flag \in BOOLEAN :
        /\ pending => flag
        /\ proc' = [proc EXCEPT ![p] = [Down EXCEPT !.up = TRUE, !.flag = flag, !.gate = flag,
                                          !.start = inst.epoch, !.epoch = inst.epoch]]
    /\ UNCHANGED <<inst, mach, entry, flight, stage, backup, history, pending, left>>

Crash(p) ==
    /\ proc[p].up /\ left.crashes > 0
    /\ proc' = [proc EXCEPT ![p] = Down]
    /\ entered' = [e \in Epochs |-> IF entered[e] = p THEN NoProc ELSE entered[e]]
    /\ left' = [left EXCEPT !.crashes = @ - 1]
    /\ UNCHANGED <<inst, mach, entry, flight, stage, backup, used, checked, pending>>

\* Backups are taken outside the program; one brings every row back and nothing else.
TakeBackup ==
    /\ left.backups > 0 /\ left.restores > 0 /\ backup # rows
    /\ backup' = rows /\ left' = [left EXCEPT !.backups = @ - 1]
    /\ UNCHANGED <<inst, mach, entry, proc, flight, stage, history, pending>>

\* Every instance is stopped before the restore: its time is the entry's stoppedAt, from which
\* the transport deadline of requests the restore erases counts. A backup that holds no machine
\* is left out: recovery mode has no scope to account for, and can be left at once.
Restore ==
    /\ left.restores > 0 /\ \E m \in Machines : backup[2][m].scope # "absent"
    /\ inst' = backup[1] /\ entry' = backup[3]
    /\ mach' = [m \in Machines |-> [backup[2][m] EXCEPT !.settle = "none"]]
    /\ proc' = [p \in Procs |-> Down] /\ entered' = [e \in Epochs |-> NoProc]
    /\ stage' = [m \in Machines |-> "stopped"] /\ pending' = TRUE
    /\ left' = [left EXCEPT !.restores = @ - 1]
    /\ backup' = IF left'.restores > 0 THEN backup ELSE NoBackup
    /\ UNCHANGED <<flight, used, checked>>

-----------------------------------------------------------------------------
(* The entry: enterRecovery, its replay and the gate.                      *)

\* Step 5 on one operation.
TakenOnEntry(o, p, e) == [o EXCEPT !.state = "unresolved", !.owner = p, !.epoch = e]

\* entered: the process owns in the epoch it minted, and its gate opens.
Entered(r, e) == [r EXCEPT !.minted = e, !.epoch = e, !.gate = FALSE]

\* The entry's transaction waits for every inventory request; with the COMMIT reply lost the
\* process has minted the epoch and still serves nothing else.
EnterRecovery(p, k) ==
    /\ proc[p].up /\ proc[p].flag /\ entry[k] = NoEpoch /\ Unshared
    /\ inst.epoch = proc[p].start /\ left.entries > 0
    /\ \E e \in Epochs \ used, replied \in BOOLEAN :
        /\ inst' = [epoch |-> e, recovery |-> TRUE]
        /\ mach' = [m \in Machines |->
                     IF m \notin Present THEN mach[m]
                     ELSE [mach[m] EXCEPT !.scope = "pre-restore-unaccounted", !.accounted = FALSE,
                                          !.op = IF Holds(m) THEN TakenOnEntry(mach[m].op, p, e) ELSE @]]
        /\ entry' = [entry EXCEPT ![k] = e]
        /\ proc' = [proc EXCEPT ![p] = IF replied THEN Entered(@, e) ELSE [@ EXCEPT !.minted = e]]
        /\ used' = used \cup {e} /\ entered' = [entered EXCEPT ![e] = p]
    /\ checked' = [m \in Machines |-> {}] /\ pending' = FALSE
    /\ left' = [left EXCEPT !.entries = @ - 1]
    /\ UNCHANGED <<flight, stage, backup>>

\* Defect: any record under the key is taken for this process's entry.
OwnEntryAny(p, k) == entry[k] # NoEpoch

\* entryReplay answers only a record in the epoch this process minted.
OwnEntry(p, k) == entry[k] # NoEpoch /\ entry[k] = proc[p].minted

\* A retry that meets its entry's record, still current, completes the entry.
ReplayEntry(p, k) ==
    /\ proc[p].up /\ proc[p].flag /\ proc[p].gate
    /\ OwnEntry(p, k) /\ entry[k] = inst.epoch
    /\ proc' = [proc EXCEPT ![p] = Entered(@, entry[k])]
    /\ UNCHANGED <<inst, mach, entry, flight, stage, backup, history, pending, left>>

-----------------------------------------------------------------------------
(* Observations, the clock and requests under way.                         *)

\* startObservation. Every observation running on m has this one begin after it.
StartObservation(p, kind, m) ==
    proc' = [Note(m, {p}) EXCEPT ![p].job = [NoJob EXCEPT !.kind = kind, !.on = m, !.stage = stage[m],
                                               !.release = mach[m].desired,
                                               !.plan = IF kind = "evidence" THEN mach[m].plan.number ELSE 0]]

\* recoveryReadPass: a paced read of an unaccounted scope past its transport deadline.
StartRecoveryRead(p, m) ==
    /\ Serves(p) /\ inst.recovery /\ mach[m].scope = "pre-restore-unaccounted"
    /\ stage[m] \in Past /\ \A q \in Procs : proc[q].job.on # m \/ proc[q].job.kind # "recovery"
    /\ stage[m] = "deadline" => mach[m].settle = "none"
    /\ StartObservation(p, "recovery", m)
    /\ UNCHANGED <<inst, mach, entry, flight, stage, backup, history, pending, left>>

\* The job of p is the first successful read of its machine after the transport deadline.
FirstRead(p) ==
    LET j == proc[p].job IN
    /\ j.stage \in Past
    /\ mach[j.on].settle = "none" \/ "first" \in j.since

\* settled, of the observation p records: it is the settle's start, or an end that began once
\* the floor had passed since the start was recorded.
SettleAfter(p, seen) ==
    LET j == proc[p].job IN
    CASE seen = "unread" -> mach[j.on].settle
      [] seen # "unread" /\ FirstRead(p) -> "start"
      [] seen # "unread" /\ ~FirstRead(p) /\ j.kind = "recovery" /\ j.stage = "floor"
           /\ mach[j.on].settle # "none" -> "end"
      [] OTHER -> mach[j.on].settle

\* recordObservation, and for a mark the check of the dependencies that follows it. Each
\* observation begun before this one is overtaken by it.
RecordObservation(p) ==
    LET j == proc[p].job
        overtaken(q, seen) == IF q # p /\ proc[q].job.on = j.on /\ p \in proc[q].job.since
                              THEN {"overtaken"} \cup (IF seen = "other" THEN {"other"} ELSE {})
                                     \cup (IF seen # "unread" /\ FirstRead(p) THEN {"first"} ELSE {})
                              ELSE {} IN
    /\ Current(p) /\ j.kind \in {"recovery", "restoration", "evidence"} /\ ~j.recorded
    /\ \E seen \in {"own", "other", "unread"}, passed \in BOOLEAN :
        /\ passed => j.kind = "restoration"
        /\ mach' = [mach EXCEPT ![j.on].settle = SettleAfter(p, seen),
                                ![j.on].latest = IF "overtaken" \in j.since THEN @
                                                 ELSE [seen |-> seen, fresh |-> "approval" \notin j.since]]
        /\ stage' = [stage EXCEPT ![j.on] = IF seen # "unread" /\ FirstRead(p) THEN "deadline" ELSE @]
        /\ checked' = [checked EXCEPT ![j.on] = IF passed THEN @ \cup {j.release} ELSE @]
        /\ proc' = [q \in Procs |->
                     IF q = p
                     THEN [proc[p] EXCEPT !.job = IF j.kind = "recovery" THEN NoJob
                                                  ELSE [j EXCEPT !.recorded = TRUE, !.seen = seen,
                                                                 !.passed = passed]]
                     ELSE [proc[q] EXCEPT !.job.since = @ \cup overtaken(q, seen)]]
    /\ UNCHANGED <<inst, entry, flight, backup, used, entered, pending, left>>

\* An observation, a mark or an adoption given up: its epoch superseded, a read failed.
GiveUp(p) ==
    /\ proc[p].up /\ proc[p].job.kind # "none"
    /\ proc' = [proc EXCEPT ![p].job = NoJob]
    /\ UNCHANGED <<inst, mach, entry, flight, stage, backup, history, pending, left>>

\* No request sent to m before its latest transport deadline can arrive any more.
DeadlinePasses(m) ==
    /\ stage[m] = "flight"
    /\ stage' = [stage EXCEPT ![m] = "deadline"] /\ flight' = [flight EXCEPT ![m] = {}]
    /\ UNCHANGED <<inst, mach, entry, proc, backup, history, pending, left>>

\* The maximum transport deadline has passed since every instance was stopped.
StopDeadlinePasses ==
    LET S == {m \in Machines : stage[m] = "stopped"} IN
    /\ S # {}
    /\ stage' = [m \in Machines |-> IF m \in S THEN "deadline" ELSE stage[m]]
    /\ flight' = [m \in Machines |-> IF m \in S THEN {} ELSE flight[m]]
    /\ UNCHANGED <<inst, mach, entry, proc, backup, history, pending, left>>

FloorPasses(m) ==
    /\ stage[m] = "deadline" /\ mach[m].settle # "none"
    /\ stage' = [stage EXCEPT ![m] = "floor"]
    /\ UNCHANGED <<inst, mach, entry, proc, flight, backup, history, pending, left>>

\* A request under way reaches the machine or is lost.
Arrives(m) ==
    /\ flight[m] # {}
    /\ \E e \in flight[m] : flight' = [flight EXCEPT ![m] = @ \ {e}]
    /\ UNCHANGED <<inst, mach, entry, proc, stage, backup, history, pending, left>>

-----------------------------------------------------------------------------
(* Operations, as far as recovery tells them apart (the Dispatch module    *)
(* has them in full). A restored operation is never attempted again: its   *)
(* approval is of an earlier epoch.                                        *)

SetOp(m, o) == mach' = [mach EXCEPT ![m].op = o]

\* commitTx, of a plan approved in the current epoch.
Commit(p, m) ==
    /\ Executes(p) /\ GateOpen(m) /\ ~Holds(m)
    /\ SetOp(m, [state |-> "committed", owner |-> p, epoch |-> inst.epoch, tried |-> "never"])
    /\ proc' = Note(m, {"operation"})
    /\ UNCHANGED <<inst, entry, flight, stage, backup, history, pending, left>>

\* recordAttemptTx and the request it allows, sent before its transport deadline, which every
\* observation under way began before.
Attempt(p, m) ==
    LET o == mach[m].op IN
    /\ Executes(p) /\ GateOpen(m) /\ o.state = "committed" /\ o.owner = p /\ o.epoch = inst.epoch
    /\ mach' = [mach EXCEPT ![m].op = [o EXCEPT !.state = "sending", !.tried = "unaccounted"],
                            ![m].settle = "none"]
    /\ flight' = [flight EXCEPT ![m] = @ \cup {inst.epoch}] /\ stage' = [stage EXCEPT ![m] = "flight"]
    /\ proc' = [q \in Procs |-> IF proc[q].job.on = m
                                THEN [proc[q] EXCEPT !.job.since = @ \cup {"operation"}, !.job.stage = "flight"]
                                ELSE proc[q]]
    /\ UNCHANGED <<inst, entry, backup, history, pending, left>>

\* recordResponse: the target's answer accounts for the attempt and ends the operation.
RecordResponse(p, m) ==
    LET o == mach[m].op IN
    /\ Executes(p) /\ o.state = "sending" /\ o.owner = p /\ o.epoch = inst.epoch
    /\ flight[m] = {}
    /\ SetOp(m, NoOp) /\ proc' = Note(m, {"operation"})
    /\ UNCHANGED <<inst, entry, flight, stage, backup, history, pending, left>>

\* takeOverTx, by the loop of a normal start or a request.
TakeOver(p, m) ==
    LET o == mach[m].op IN
    /\ Executes(p) /\ Holds(m) /\ o.owner # p
    /\ SetOp(m, [o EXCEPT !.state = "unresolved", !.owner = p, !.epoch = inst.epoch])
    /\ proc' = Note(m, IF o.state = "unresolved" THEN {} ELSE {"operation"})
    /\ UNCHANGED <<inst, entry, flight, stage, backup, history, pending, left>>

\* The executor of a normal start settles an unresolved operation with nothing unaccounted; a
\* recovery start ends only what was never attempted, once its scope is accounted for
\* (reclassifyRestored).
EndOperation(p, m) ==
    LET o == mach[m].op IN
    /\ Serves(p) /\ o.state = "unresolved" /\ o.owner = p /\ o.epoch = inst.epoch
    /\ o.tried # "unaccounted"
    /\ proc[p].flag => o.tried = "never" /\ mach[m].scope # "pre-restore-unaccounted"
    /\ SetOp(m, NoOp) /\ proc' = Note(m, {"operation"})
    /\ UNCHANGED <<inst, entry, flight, stage, backup, history, pending, left>>

\* A publication moves the machine's Desired release, in recovery mode too.
Publish(m) ==
    /\ m \in Present /\ left.releases > 0
    /\ \E r \in Releases \ {mach[m].desired} : mach' = [mach EXCEPT ![m].desired = r]
    /\ left' = [left EXCEPT !.releases = @ - 1]
    /\ UNCHANGED <<inst, entry, proc, flight, stage, backup, history, pending>>

-----------------------------------------------------------------------------
(* The acts of recovery mode: accounting, mark, release, exit; inventory.  *)

\* Defect: a scope is accounted on its reads, whatever its transport deadline.
ScopeSettledEarly(m) == mach[m].settle # "none" \/ stage[m] = "stopped"

\* 5.2's conditions on one scope: its settle has both ends.
ScopeSettled(m) == mach[m].settle = "end"

\* accountScopes: one decision over several scopes, refused whole if one of them is refused.
AccountScopes(p, S) ==
    /\ Serves(p) /\ inst.recovery /\ S # {} /\ S \subseteq Present
    /\ \A m \in S : mach[m].scope = "pre-restore-unaccounted" /\ ScopeSettled(m)
    /\ mach' = [m \in Machines |->
                 IF m \notin S THEN mach[m]
                 ELSE [mach[m] EXCEPT !.scope = IF Holds(m) THEN "unresolved" ELSE "blocked",
                                      !.accounted = TRUE,
                                      !.op.tried = IF @ = "unaccounted" THEN "accounted" ELSE @]]
    /\ proc' = [q \in Procs |-> IF proc[q].job.on \in S
                                THEN [proc[q] EXCEPT !.job.since = @ \cup {"accounting"}] ELSE proc[q]]
    /\ UNCHANGED <<inst, entry, flight, stage, backup, history, pending, left>>

Markable == {"blocked", "unresolved", "ready"}

\* prepareMark: refused early as the transaction would, then the restoration observation.
PrepareMark(p, m) ==
    /\ Serves(p) /\ inst.recovery /\ mach[m].scope \in Markable
    /\ StartObservation(p, "restoration", m)
    /\ UNCHANGED <<inst, mach, entry, flight, stage, backup, history, pending, left>>

\* What markScope finds missing: the observation read nothing, or began before the accounting
\* decision or an operation change; another identity, read by it or since; a dependency.
Missing(p) ==
    LET j == proc[p].job IN
    \/ j.seen = "unread" \/ ~mach[j.on].accounted \/ j.since \cap {"accounting", "operation"} # {}
    \/ j.seen = "other" \/ "other" \in j.since
    \/ ~j.passed

\* markScope: nothing is marked once Desired has moved since the dependencies were checked.
MarkScope(p) ==
    LET j == proc[p].job
        m == j.on IN
    /\ Current(p) /\ j.kind = "restoration" /\ j.recorded
    /\ inst.recovery /\ mach[m].scope \in Markable /\ mach[m].desired = j.release
    /\ mach' = IF Holds(m) THEN [mach EXCEPT ![m].scope = "unresolved"]
               ELSE IF Missing(p) THEN [mach EXCEPT ![m].scope = "blocked"]
               ELSE [mach EXCEPT ![m].scope = "ready", ![m].ready = TRUE, ![m].marked = j.release]
    /\ proc' = [proc EXCEPT ![p].job = NoJob]
    /\ UNCHANGED <<inst, entry, flight, stage, backup, history, pending, left>>

\* Defect: the Desired release is not compared with the one the mark checked.
StandsMarkedAny(m) == mach[m].ready

\* The Desired release is the one the scope's last ready mark checked.
StandsMarked(m) == mach[m].ready /\ mach[m].desired = mach[m].marked

\* releaseScope.
ReleaseScope(p, m) ==
    /\ Serves(p) /\ inst.recovery /\ mach[m].scope = "ready" /\ StandsMarked(m)
    /\ mach' = [mach EXCEPT ![m].scope = "released"]
    /\ UNCHANGED <<inst, entry, proc, flight, stage, backup, history, pending, left>>

\* Defect: the exit holds the installation row only FOR SHARE.
LeaveRecoveryShared(p) ==
    /\ Serves(p) /\ inst.recovery
    /\ \A m \in Present : mach[m].scope = "released"
    /\ inst' = [inst EXCEPT !.recovery = FALSE]
    /\ mach' = [m \in Machines |-> IF m \in Present THEN [mach[m] EXCEPT !.scope = "normal"] ELSE mach[m]]
    /\ UNCHANGED <<entry, proc, flight, stage, backup, history, pending, left>>

\* leaveRecovery: it waits for every inventory request, then reads the scopes.
LeaveRecovery(p) ==
    /\ Serves(p) /\ inst.recovery /\ Unshared
    /\ \A m \in Present : mach[m].scope = "released"
    /\ inst' = [inst EXCEPT !.recovery = FALSE]
    /\ mach' = [m \in Machines |-> IF m \in Present THEN [mach[m] EXCEPT !.scope = "normal"] ELSE mach[m]]
    /\ UNCHANGED <<entry, proc, flight, stage, backup, history, pending, left>>

\* An inventory request, from the read of the installation row to its commit; any process whose
\* gate is open serves it.
BeginInventory(p, m) ==
    /\ proc[p].up /\ ~proc[p].gate /\ proc[p].job.kind = "none" /\ m \in left.machines \ Present
    /\ proc' = [proc EXCEPT ![p].job = [NoJob EXCEPT !.on = m,
                              !.kind = IF inst.recovery THEN "inventory-recovery" ELSE "inventory"]]
    /\ UNCHANGED <<inst, mach, entry, flight, stage, backup, history, pending, left>>

InventoryMachine(p) ==
    LET j == proc[p].job IN
    /\ proc[p].up /\ j.kind \in {"inventory", "inventory-recovery"} /\ j.on \notin Present
    /\ mach' = [mach EXCEPT ![j.on].scope = IF j.kind = "inventory" THEN "normal"
                                            ELSE "pre-restore-unaccounted"]
    /\ proc' = [proc EXCEPT ![p].job = NoJob]
    /\ UNCHANGED <<inst, entry, flight, stage, backup, history, pending, left>>

ProcessStep(p) ==
    \/ Start(p) \/ Crash(p) \/ RecordObservation(p) \/ GiveUp(p) \/ MarkScope(p)
    \/ LeaveRecovery(p) \/ InventoryMachine(p)
    \/ \E k \in Keys : EnterRecovery(p, k) \/ ReplayEntry(p, k)
    \/ \E S \in SUBSET Machines : AccountScopes(p, S)

MachineStep(p, m) ==
    \/ StartRecoveryRead(p, m) \/ Commit(p, m) \/ Attempt(p, m) \/ RecordResponse(p, m)
    \/ TakeOver(p, m) \/ EndOperation(p, m) \/ PrepareMark(p, m) \/ ReleaseScope(p, m)
    \/ BeginInventory(p, m)

RecoveryNext ==
    \/ TakeBackup \/ Restore \/ StopDeadlinePasses
    \/ \E m \in Machines : DeadlinePasses(m) \/ FloorPasses(m) \/ Arrives(m) \/ Publish(m)
    \/ \E p \in Procs : ProcessStep(p) \/ \E m \in Machines : MachineStep(p, m)

-----------------------------------------------------------------------------

RowsOK(r) == /\ r[1] \in [epoch : Epochs, recovery : BOOLEAN] /\ r[2] \in [Machines -> MachType]
             /\ r[3] \in [Keys -> Epochs \cup {NoEpoch}]

\* The rows have the forms the schema allows, a holding operation an owner among them
\* (operation's owner check), and so has the latest backup of them.
RecoveryTypeOK ==
    /\ RowsOK(rows) /\ (backup = NoBackup \/ RowsOK(backup))
    /\ proc \in [Procs -> ProcType] /\ flight \in [Machines -> SUBSET Epochs]
    /\ stage \in [Machines -> Stages] /\ used \subseteq Epochs
    /\ entered \in [Epochs -> Procs \cup {NoProc}] /\ pending \in BOOLEAN
    /\ checked \in [Machines -> SUBSET (Releases \cup {NoRelease})]
    /\ \E l \in Limits :
         \A f \in {"backups", "restores", "entries", "crashes", "releases", "plans"} : left[f] \in 0 .. l[f]

\* No request is sent to a machine while one sent before a restore, which the database no longer
\* records, can still arrive: the accounting of its scope waits for that (accountScopes,
\* scopeGate).
OneInFlight == RecoveryTypeOK /\ \A m \in Machines : Cardinality(flight[m]) <= 1

\* Recovery mode and the scopes agree: none is normal within it and all are outside it, whatever
\* inventory requests the entry and the exit meet (leaveRecovery's FOR UPDATE).
ScopesFollowMode ==
    \A m \in Present : (mach[m].scope = "normal") = ~inst.recovery

\* A recovery start serves only in an epoch its own entry minted, and one whose entry committed
\* can always complete it, its COMMIT reply lost or not (entryReplay).
GateIsOwnEntry ==
    \A p \in Procs : proc[p].up /\ proc[p].flag =>
        /\ ~proc[p].gate => entered[proc[p].epoch] = p
        /\ entered[inst.epoch] = p => proc[p].minted = inst.epoch

\* A scope is released only while its Desired release is one whose dependencies passed a check
\* in the epoch (releaseScope, whatever publications and marks crossed).
ReleasedIsChecked ==
    [][\A m \in Machines : mach'[m].scope = "released" /\ mach[m].scope # "released" /\ ~pending'
          => mach[m].desired \in checked[m]]_recoveryVars

=============================================================================
