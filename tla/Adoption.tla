------------------------------ MODULE Adoption ------------------------------
(***************************************************************************)
(* Adopt plans and the adoption loop of each normal start (internal/api    *)
(* adoption.go, adopter.go, and the adopt plans of plans.go and            *)
(* approvals.go), composed with recovery mode: both act on the rows,       *)
(* processes and epochs of the Recovery module.                            *)
(*                                                                         *)
(* A machine has at most one adopt plan at a time. What requirement 4.3    *)
(* compares (assignment head, Desired, baseline, drift record) moves with  *)
(* the Desired release here, and what 4.4 compares (identity, digest,      *)
(* assignment evidence) is seen to be the plan's ("own") or not.           *)
(***************************************************************************)
EXTENDS Recovery

Plan(m) == mach[m].plan
SetPlan(m, pl) == mach' = [mach EXCEPT ![m].plan = pl]

\* createPlan and approvePlan of an adopt plan, which only a normal start serves.
ApproveAdopt(p, m) ==
    /\ proc[p].up /\ ~proc[p].flag /\ m \in Present /\ left.plans > 0
    /\ mach[m].scope # "pre-restore-unaccounted" /\ Plan(m).state # "approved"
    /\ \E r \in Releases :
         mach' = [mach EXCEPT ![m].latest.fresh = FALSE,
                              ![m].plan = [state |-> "approved", number |-> Plan(m).number + 1,
                                           epoch |-> inst.epoch, desired |-> mach[m].desired,
                                           release |-> r, refused |-> FALSE, adopted |-> FALSE]]
    /\ proc' = Note(m, {"approval"}) /\ left' = [left EXCEPT !.plans = @ - 1]
    /\ UNCHANGED <<inst, entry, flight, stage, backup, history, pending>>

\* The plan expires, is cancelled, or its approver is revoked.
PlanEnds(m) ==
    /\ Plan(m).state = "approved"
    /\ SetPlan(m, [Plan(m) EXCEPT !.state = "ended"])
    /\ UNCHANGED <<inst, entry, proc, flight, stage, backup, history, pending, left>>

\* adoptCandidates, and the start of the evidence observation that adoptOne takes.
AdoptOne(p, m) ==
    /\ Executes(p) /\ Plan(m).state = "approved" /\ Plan(m).epoch = inst.epoch
    /\ GateOpen(m) /\ ~Holds(m) /\ ~Plan(m).refused
    /\ StartObservation(p, "evidence", m)
    /\ UNCHANGED <<inst, mach, entry, flight, stage, backup, history, pending, left>>

\* Requirement 4.2, the approval; and 4.3, the plan's binding.
PlanStands(m) ==
    /\ Plan(m).state = "approved" /\ Plan(m).epoch = inst.epoch
    /\ Plan(m).desired = mach[m].desired

\* Requirement 4.4: the latest observation, of any purpose, counts; and what it shows.
HasEvidence(m) == mach[m].latest.fresh /\ mach[m].latest.seen # "unread"

\* Defect: an operation that took the scope since the attempt began is not looked for.
AdoptGateHeld(m) == GateOpen(m)

\* Requirement 4.5.
AdoptGate(m) == ~Holds(m) /\ GateOpen(m)

\* The attempt p is at reaches T6 with its plan neither adopted nor refused (4.1).
AtAdoption(p) ==
    LET j == proc[p].job IN
    /\ Current(p) /\ j.kind = "evidence" /\ j.recorded /\ j.plan = Plan(j.on).number
    /\ Plan(j.on).state # "committed" /\ ~Plan(j.on).refused

\* adoptionTx.
CommitAdoption(p) ==
    LET m == proc[p].job.on IN
    /\ AtAdoption(p) /\ PlanStands(m) /\ HasEvidence(m)
    /\ mach[m].latest.seen = "own" /\ AdoptGate(m)
    /\ mach' = [mach EXCEPT ![m].plan = [Plan(m) EXCEPT !.state = "committed", !.adopted = TRUE],
                            ![m].desired = Plan(m).release]
    /\ proc' = [proc EXCEPT ![p].job = NoJob]
    /\ UNCHANGED <<inst, entry, flight, stage, backup, history, pending, left>>

\* A refused T6 rolls back; its refusal entry is another transaction's. Without evidence nothing
\* is refused (GiveUp).
AdoptionRefused(p) ==
    LET m == proc[p].job.on IN
    /\ AtAdoption(p)
    /\ \/ ~PlanStands(m)
       \/ HasEvidence(m) /\ (mach[m].latest.seen = "other" \/ ~AdoptGate(m))
    /\ proc' = [proc EXCEPT ![p].job.kind = "refusal"]
    /\ UNCHANGED <<inst, mach, entry, flight, stage, backup, history, pending, left>>

\* Defect: the refusal is recorded whatever happened since the attempt rolled back.
RefusalStandsAlways(m) == ~Plan(m).refused

\* recordRefusalEntry's reads under the machine's lock: the plan not committed since, nor refused.
RefusalStands(m) == Plan(m).state # "committed" /\ ~Plan(m).refused

RecordRefusal(p) ==
    LET j == proc[p].job IN
    /\ Current(p) /\ j.kind = "refusal" /\ j.plan = Plan(j.on).number /\ RefusalStands(j.on)
    /\ mach' = [mach EXCEPT ![j.on].plan.refused = TRUE]
    /\ proc' = [proc EXCEPT ![p].job = NoJob]
    /\ UNCHANGED <<inst, entry, flight, stage, backup, history, pending, left>>

AdoptionNext ==
    \/ \E m \in Machines : PlanEnds(m)
    \/ \E p \in Procs : \/ CommitAdoption(p) \/ AdoptionRefused(p) \/ RecordRefusal(p)
                        \/ \E m \in Machines : ApproveAdopt(p, m) \/ AdoptOne(p, m)

Spec == Init /\ [][RecoveryNext \/ AdoptionNext]_recoveryVars

-----------------------------------------------------------------------------

\* An adopt plan has one outcome: it is not both adopted and refused, though two loops attempt it
\* and a refusal is recorded after its attempt rolled back (recordRefusalEntry).
OneOutcome == \A m \in Machines : ~(Plan(m).adopted /\ Plan(m).refused)

\* An adoption records what the machine runs only while no request sent to it can arrive, one a
\* restore erased from the database included (requirement 4.5).
AdoptsUndisturbed ==
    [][\A m \in Machines : mach'[m].plan.adopted /\ ~mach[m].plan.adopted /\ ~pending'
          => flight[m] = {}]_recoveryVars

=============================================================================
