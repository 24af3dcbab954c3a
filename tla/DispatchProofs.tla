--------------------------- MODULE DispatchProofs ---------------------------
(***************************************************************************)
(* Theorems about Dispatch, for every set of plans, machines, clusters and  *)
(* processes, every attempt bound and every bound of the model: the types,  *)
(* then one attempt outstanding and one writer per cluster, requests made   *)
(* in time and responses that tell the truth, and what drift records say.   *)
(***************************************************************************)
EXTENDS Dispatch, SequenceTheorems, TLAPS

\* What a loop carries between two transactions names rows that exist: a plan or a machine, and an
\* observation already started on that machine.
JobFits(j, o) ==
  /\ j \in JobType
  /\ j.pc # "idle" => j.plan \in Plans
  /\ j.pc \in {"reading", "record", "commit", "refuse", "settle"} => j.n \in 1..Len(o[M(j.plan)])
ScanFits(s, o) ==
  /\ s \in ScanType
  /\ s.pc # "idle" => s.m \in Machines
  /\ s.pc \in {"reading", "record"} => s.n \in 1..Len(o[s.m])
LoopsFit == \A c \in Controllers : JobFits(job[c], obs) /\ ScanFits(scan[c], obs)

TypeInv == TypeOK /\ LoopsFit

-----------------------------------------------------------------------------
(* What the helpers return and the small effects preserve. *)

LEMMA MachineTyped == ASSUME NEW p \in Plans PROVE M(p) \in Machines
  BY ConstantsAssumption DEF M

LEMMA NowTyped == ASSUME TypeOK, NEW m \in Machines PROVE Now(m) \in Nat
  BY LenProperties DEF Now, TypeOK

LEMMA ObsTyped ==
  ASSUME TypeOK, NEW m \in Machines, NEW b \in 1..Len(obs[m])
  PROVE  obs[m][b] \in ObsType
  BY ElementOfSeq DEF TypeOK

LEMMA NoJobFits == ASSUME NEW o PROVE JobFits(NoJob, o)
  BY DEF JobFits, NoJob, JobType, Unread, ReadType

LEMMA NoScanFits == ASSUME NEW o PROVE ScanFits(NoScan, o)
  BY DEF ScanFits, NoScan, ScanType, Unread, ReadType

LEMMA ObserveJobFits ==
  ASSUME NEW o, NEW p \in Plans, NEW g \in Nat, NEW u \in {"evidence", "completion", "recovery"},
         NEW x \in {"idle", "commit", "settle"}
  PROVE  JobFits(ObserveJob(p, g, u, x), o)
  BY DEF JobFits, ObserveJob, NoJob, JobType, Unread, ReadType

LEMMA AttemptJobFits ==
  ASSUME NEW o, NEW p \in Plans, NEW g \in Nat
  PROVE  JobFits(AttemptJob(p, g), o)
  BY DEF JobFits, AttemptJob, NoJob, JobType, Unread, ReadType

\* The observations of a machine are never fewer than they were.
Grows(o, q) == \A m \in Machines : Len(o[m]) \in Nat /\ Len(q[m]) \in Nat /\ Len(o[m]) <= Len(q[m])

LEMMA JobStillFits ==
  ASSUME NEW o, NEW q, Grows(o, q), NEW j, JobFits(j, o)
  PROVE  JobFits(j, q)
  BY MachineTyped DEF JobFits, Grows

LEMMA ScanStillFits ==
  ASSUME NEW o, NEW q, Grows(o, q), NEW s, ScanFits(s, o)
  PROVE  ScanFits(s, q)
  BY DEF ScanFits, Grows

LEMMA SameObservations == ASSUME TypeOK, UNCHANGED obs PROVE Grows(obs, obs')
  BY LenProperties DEF TypeOK, Grows

\* One executor loop moves on, and every loop's record still fits.
LEMMA JobStep ==
  ASSUME TypeInv, NEW c \in Controllers, NEW j, SetJob(c, j), UNCHANGED scan,
         Grows(obs, obs'), JobFits(j, obs')
  PROVE  LoopsFit' /\ job' \in [Controllers -> JobType]
<1>1. \A d \in Controllers : JobFits(job[d], obs') /\ ScanFits(scan[d], obs')
  BY JobStillFits, ScanStillFits DEF TypeInv, LoopsFit
<1>2. \A d \in Controllers : job'[d] = IF d = c THEN j ELSE job[d]
  BY DEF TypeInv, TypeOK, SetJob
<1>3. LoopsFit' BY <1>1, <1>2 DEF LoopsFit
<1>4. j \in JobType BY DEF JobFits
<1> QED BY <1>3, <1>4 DEF TypeInv, TypeOK, SetJob

LEMMA ScanStep ==
  ASSUME TypeInv, NEW c \in Controllers, NEW s, scan' = [scan EXCEPT ![c] = s], UNCHANGED job,
         Grows(obs, obs'), ScanFits(s, obs')
  PROVE  LoopsFit' /\ scan' \in [Controllers -> ScanType]
<1>1. \A d \in Controllers : JobFits(job[d], obs') /\ ScanFits(scan[d], obs')
  BY JobStillFits, ScanStillFits DEF TypeInv, LoopsFit
<1>2. \A d \in Controllers : scan'[d] = IF d = c THEN s ELSE scan[d]
  BY DEF TypeInv, TypeOK
<1>3. LoopsFit' BY <1>1, <1>2 DEF LoopsFit
<1>4. s \in ScanType BY DEF ScanFits
<1> QED BY <1>3, <1>4 DEF TypeInv, TypeOK

LEMMA LoopsStill ==
  ASSUME TypeInv, UNCHANGED <<obs, job, scan>>
  PROVE  LoopsFit'
  BY DEF TypeInv, LoopsFit

LEMMA ScopeEntryTyped ==
  ASSUME TypeOK, NEW m \in Machines, ScopeEntry(m)
  PROVE  mach' \in [Machines -> MachType]
<1>1. Now(m) \in Nat BY NowTyped
<1>2. mach \in [Machines -> MachType] BY DEF TypeOK
<1> QED BY <1>1, <1>2 DEF ScopeEntry, MachType

LEMMA MoveTyped ==
  ASSUME TypeOK, NEW p \in Plans, NEW s \in Holding \cup Ended, MoveOperation(p, s)
  PROVE  op' \in [Plans -> OpType] /\ mach' \in [Machines -> MachType]
<1>1. mach' \in [Machines -> MachType] BY MachineTyped, ScopeEntryTyped DEF MoveOperation
<1>2. op \in [Plans -> OpType] BY DEF TypeOK
<1>3. op' \in [Plans -> OpType] BY <1>2 DEF MoveOperation, OpType
<1> QED BY <1>1, <1>3

LEMMA FollowTyped ==
  ASSUME TypeOK, NEW p \in Plans, Follow(p)
  PROVE  cls' \in [Plans -> ClsType]
<1>1. cls \in [Plans -> ClsType] BY DEF TypeOK
<1> QED BY <1>1 DEF Follow, ClsType

LEMMA DriftTyped ==
  ASSUME TypeOK, NEW m \in Machines, NEW b, NEW x \in Configs \cup {"unread"}, NEW f \in BOOLEAN,
         ApplyDrift(m, b, x, f)
  PROVE  drift' \in [Machines -> DriftType]
<1>1. drift \in [Machines -> DriftType] /\ drift[m] \in DriftType BY DEF TypeOK
<1>2. [drift[m] EXCEPT !.open = FALSE] \in DriftType BY <1>1 DEF DriftType
<1>3. ASSUME x # "unread" PROVE [drift[m] EXCEPT !.digest = x] \in DriftType BY <1>1, <1>3 DEF DriftType
<1>4. ASSUME x # "unread" PROVE [id |-> drift[m].id + 1, open |-> TRUE, digest |-> x] \in DriftType
  BY <1>1, <1>4 DEF DriftType
<1>5. DriftAfter(m, b, x, f) \in DriftType
  BY <1>1, <1>2, <1>3, <1>4 DEF DriftAfter
<1> QED BY <1>1, <1>5 DEF ApplyDrift

LEMMA OpenDriftTyped == ASSUME TypeOK, NEW m \in Machines PROVE OpenDrift(m) \in Nat
  BY DEF TypeOK, DriftType, OpenDrift

LEMMA StartTyped ==
  ASSUME TypeOK, NEW c \in Controllers, NEW m \in Machines, NEW p \in Plans \cup {"none"},
         NEW u \in {"evidence", "completion", "recovery", "drift", "none"}, StartEntry(c, m, u, p)
  PROVE  /\ obs' \in [Machines -> Seq(ObsType)]
         /\ Grows(obs, obs')
         /\ Now(m) + 1 \in 1..Len(obs'[m])
<1> DEFINE e == [by |-> c, purpose |-> u, plan |-> p, head |-> mach[m].head, ident |-> "unread",
                 minor |-> "unread", cfg |-> "unread", done |-> 0]
<1>1. e \in ObsType BY DEF TypeOK, MachType, ObsType
<1>2. obs \in [Machines -> Seq(ObsType)] BY DEF TypeOK
<1>3. obs' = [obs EXCEPT ![m] = Append(obs[m], e)] BY DEF StartEntry
<1> HIDE DEF e
<1>4. /\ Append(obs[m], e) \in Seq(ObsType)
      /\ Len(Append(obs[m], e)) = Len(obs[m]) + 1
  BY <1>1, <1>2, AppendProperties
<1>5. \A x \in Machines : Len(obs[x]) \in Nat BY <1>2, LenProperties
<1> QED BY <1>2, <1>3, <1>4, <1>5 DEF Grows, Now

LEMMA RecordTyped ==
  ASSUME TypeOK, NEW m \in Machines, NEW b \in 1..Len(obs[m]), NEW r \in ReadType, RecordEntry(m, b, r)
  PROVE  /\ obs' \in [Machines -> Seq(ObsType)]
         /\ Grows(obs, obs')
<1> DEFINE o == obs[m][b]
           e == [o EXCEPT !.ident = r.ident, !.minor = r.minor, !.cfg = r.cfg,
                          !.head = IF r.access THEN o.head ELSE 0, !.done = Now(m)]
<1>1. e \in ObsType
  <2>1. o \in ObsType BY ObsTyped
  <2>2. Now(m) \in Nat BY NowTyped
  <2> QED BY <2>1, <2>2 DEF ObsType, ReadType
<1>2. obs \in [Machines -> Seq(ObsType)] BY DEF TypeOK
<1>3. obs' = [obs EXCEPT ![m] = [obs[m] EXCEPT ![b] = e]] BY DEF RecordEntry
<1> HIDE DEF e
<1>4. /\ [obs[m] EXCEPT ![b] = e] \in Seq(ObsType)
      /\ Len([obs[m] EXCEPT ![b] = e]) = Len(obs[m])
  BY <1>1, <1>2, ExceptSeq
<1>5. \A x \in Machines : Len(obs[x]) \in Nat BY <1>2, LenProperties
<1> QED BY <1>2, <1>3, <1>4, <1>5 DEF Grows

LEMMA ReadsTyped ==
  ASSUME TypeOK, NEW m \in Machines
  PROVE  Reads(m) \subseteq ReadType
<1>1. node[m] \in NodeType BY DEF TypeOK
<1>2. Unread \in ReadType BY DEF Unread, ReadType
<1>3. \A v : [ident  |-> IF "ident" \in v THEN node[m].ident ELSE "unread",
             minor  |-> IF "minor" \in v THEN node[m].minor ELSE "unread",
             cfg    |-> IF "cfg" \in v THEN node[m].cfg ELSE "unread",
             access |-> TRUE] \in ReadType
  BY <1>1 DEF NodeType, ReadType
<1> QED BY <1>2, <1>3 DEF Reads

LEMMA TakenOverTyped ==
  ASSUME TypeOK, NEW c \in Controllers, NEW p \in Plans, TakenOver(c, p)
  PROVE  op' \in [Plans -> OpType] /\ cls' \in [Plans -> ClsType] /\ mach' \in [Machines -> MachType]
<1>1. M(p) \in Machines /\ Now(M(p)) \in Nat BY MachineTyped, NowTyped
<1>2. op \in [Plans -> OpType] /\ op[p] \in OpType /\ mach \in [Machines -> MachType] BY DEF TypeOK
<1>3. [op[p] EXCEPT !.state = "unresolved", !.owner = c, !.gen = op[p].gen + 1, !.took = Now(M(p))] \in OpType
  <2>1. "unresolved" \in Holding BY DEF Holding
  <2>2. op[p].gen + 1 \in Nat BY <1>2 DEF OpType
  <2> QED BY <1>1, <1>2, <2>1, <2>2 DEF OpType
<1>4. op' \in [Plans -> OpType] BY <1>2, <1>3 DEF TakenOver
<1>5. cls' \in [Plans -> ClsType] BY FollowTyped DEF TakenOver
<1>6. mach' \in [Machines -> MachType] BY <1>1, <1>2, ScopeEntryTyped DEF TakenOver
<1> QED BY <1>4, <1>5, <1>6

-----------------------------------------------------------------------------
(* Every step keeps the types. *)

LEMMA InitTypes == Init => TypeInv
<1> SUFFICES ASSUME Init PROVE TypeInv OBVIOUS
<1>0. left \in LimitType BY ConstantsAssumption DEF Init
<1>1. LoopsFit BY NoJobFits, NoScanFits DEF Init, LoopsFit
<1>2. NoPlan \in PlanType /\ NoOp \in OpType /\ NoClass \in ClsType /\ NoAttempt \in AttType
  BY ConstantsAssumption
     DEF NoPlan, PlanType, NoOp, OpType, NoClass, ClsType, NoAttempt, AttType, Configs
<1>3. NoJob \in JobType /\ NoScan \in ScanType BY NoJobFits, NoScanFits DEF JobFits, ScanFits
<1>4. /\ plan \in [Plans -> PlanType] /\ op \in [Plans -> OpType] /\ cls \in [Plans -> ClsType]
      /\ att \in [Plans -> [Numbers -> AttType]]
      /\ job \in [Controllers -> JobType] /\ scan \in [Controllers -> ScanType]
  BY <1>2, <1>3 DEF Init
<1>5. mach \in [Machines -> MachType] BY ConstantsAssumption DEF Init, MachType
<1>6. drift \in [Machines -> DriftType] /\ node \in [Machines -> NodeType]
  BY ConstantsAssumption DEF Init, DriftType, NodeType, Configs, Reports
<1>7. obs \in [Machines -> Seq(ObsType)] BY EmptySeq DEF Init
<1>8. TypeOK BY <1>4, <1>5, <1>6, <1>7, <1>0 DEF Init, TypeOK
<1> QED BY <1>1, <1>8 DEF TypeInv

LEMMA PlanTypes ==
  ASSUME TypeInv, NEW p \in Plans,
         CreatePlan(p) \/ ApprovePlan(p) \/ CancelPlan(p) \/ RevokeApproval(p) \/ Lapse(p)
  PROVE  TypeInv'
<1>1. TypeOK BY DEF TypeInv
<1>2. M(p) \in Machines /\ Now(M(p)) \in Nat /\ OpenDrift(M(p)) \in Nat
  BY <1>1, MachineTyped, NowTyped, OpenDriftTyped
<1>3. plan \in [Plans -> PlanType] /\ plan[p] \in PlanType BY <1>1 DEF TypeOK
<1>4. LoopsFit'
  BY LoopsStill DEF CreatePlan, ApprovePlan, CancelPlan, RevokeApproval, Lapse, loops
<1>5. dead' \in [Plans -> BOOLEAN]
  BY <1>1 DEF TypeOK, CreatePlan, ApprovePlan, CancelPlan, RevokeApproval, Lapse
<1>6. plan' \in [Plans -> PlanType]
  <2>1. CASE CreatePlan(p)
    <3>1. mach[M(p)] \in MachType /\ drift[M(p)] \in DriftType BY <1>1, <1>2 DEF TypeOK
    <3>2. plan'[p] \in PlanType BY <1>2, <1>3, <3>1, <2>1 DEF CreatePlan, PlanType, MachType, DriftType, Configs
    <3> QED BY <1>3, <2>1, <3>2 DEF CreatePlan
  <2>2. CASE ApprovePlan(p)
    <3>1. [plan[p] EXCEPT !.state = "approved", !.approvedAt = Now(M(p))] \in PlanType
      BY <1>2, <1>3 DEF PlanType
    <3>2. plan' = [plan EXCEPT ![p] = [plan[p] EXCEPT !.state = "approved", !.approvedAt = Now(M(p))]]
      BY <1>3, <2>2 DEF ApprovePlan
    <3> QED BY <1>3, <3>1, <3>2
  <2>3. ASSUME NEW s \in {"committed", "approved", "cancelled", "revoked"}
        PROVE  [plan EXCEPT ![p].state = s] \in [Plans -> PlanType]
    BY <1>3 DEF PlanType
  <2>4. CASE CancelPlan(p) \/ RevokeApproval(p)
    <3>1. \E s \in {"committed", "approved", "cancelled", "revoked"} : plan' = [plan EXCEPT ![p].state = s]
      BY <2>4 DEF CancelPlan, RevokeApproval
    <3> QED BY <2>3, <3>1
  <2>5. CASE Lapse(p) BY <1>3, <2>5 DEF Lapse
  <2> QED BY <2>1, <2>2, <2>4, <2>5
<1>7. UNCHANGED <<op, cls, att, wire, mach, drift, obs, node, loops, left>>
  BY DEF CreatePlan, ApprovePlan, CancelPlan, RevokeApproval, Lapse
<1>8. TypeOK' BY <1>1, <1>5, <1>6, <1>7 DEF TypeOK, loops
<1> QED BY <1>4, <1>8 DEF TypeInv

LEMMA ProcessTypes ==
  ASSUME TypeInv, NEW c \in Controllers, StartController(c) \/ Crash(c) \/ Drop(c)
  PROVE  TypeInv'
<1>1. TypeOK BY DEF TypeInv
<1>2. CASE StartController(c)
  <2>1. LoopsFit' BY <1>2, LoopsStill DEF StartController
  <2>2. owed' \in [Controllers -> [Plans -> Nat]]
    <3>1. [p \in Plans |-> IF op[p].state \in Holding /\ op[p].owner # c THEN op[p].gen ELSE 0] \in [Plans -> Nat]
      BY <1>1 DEF TypeOK, OpType
    <3> QED BY <1>1, <1>2, <3>1 DEF StartController, TypeOK
  <2>3. TypeOK' BY <1>1, <1>2, <2>2 DEF StartController, TypeOK, rows
  <2> QED BY <2>1, <2>3 DEF TypeInv
<1>3. CASE Crash(c)
  <2>1. \A d \in Controllers : /\ job'[d] = IF d = c THEN NoJob ELSE job[d]
                               /\ scan'[d] = IF d = c THEN NoScan ELSE scan[d]
    BY <1>1, <1>3 DEF Crash, TypeOK
  <2>2. UNCHANGED obs BY <1>3 DEF Crash
  <2>3. LoopsFit' BY <2>1, <2>2, NoJobFits, NoScanFits DEF TypeInv, LoopsFit
  <2>4. NoJob \in JobType /\ NoScan \in ScanType BY NoJobFits, NoScanFits DEF JobFits, ScanFits
  <2>5. job' \in [Controllers -> JobType] /\ scan' \in [Controllers -> ScanType]
    BY <1>1, <1>3, <2>4 DEF Crash, TypeOK
  <2>6. TypeOK' BY <1>1, <1>3, <2>5 DEF Crash, TypeOK, rows
  <2> QED BY <2>3, <2>6 DEF TypeInv
<1>4. CASE Drop(c)
  <2>1. Grows(obs, obs') BY <1>1, <1>4, SameObservations DEF Drop
  <2>2. LoopsFit' /\ job' \in [Controllers -> JobType]
    BY <1>4, <2>1, NoJobFits, JobStep DEF Drop
  <2>3. TypeOK' BY <1>1, <1>4, <2>2 DEF Drop, TypeOK, rows
  <2> QED BY <2>2, <2>3 DEF TypeInv
<1> QED BY <1>2, <1>3, <1>4

LEMMA TakeoverTypes ==
  ASSUME TypeInv, NEW c \in Controllers, NEW p \in Plans, TakeOver(c, p) \/ RequestTakeover(c, p)
  PROVE  TypeInv'
<1>1. TypeOK BY DEF TypeInv
<1>2. LoopsFit' BY LoopsStill DEF TakeOver, RequestTakeover, loops
<1>3. op' \in [Plans -> OpType] /\ cls' \in [Plans -> ClsType] /\ mach' \in [Machines -> MachType]
  BY <1>1, TakenOverTyped DEF TakeOver, RequestTakeover, TypeOK
<1>4. owed' \in [Controllers -> [Plans -> Nat]]
  <2>1. owed \in [Controllers -> [Plans -> Nat]] BY <1>1 DEF TypeOK
  <2>2. owed' = owed \/ owed' = [owed EXCEPT ![c][p] = 0] BY DEF TakeOver, RequestTakeover, loops
  <2> QED BY <2>1, <2>2
<1>5. UNCHANGED <<plan, dead, att, wire, drift, obs, node, proc, ended, job, scan, left>>
  BY DEF TakeOver, RequestTakeover, loops
<1>6. TypeOK' BY <1>1, <1>3, <1>4, <1>5 DEF TypeOK
<1> QED BY <1>2, <1>6 DEF TypeInv

\* An executor loop that only moves on.
LEMMA LoopTypes ==
  ASSUME TypeInv, NEW c \in Controllers, NEW j, SetJob(c, j), JobFits(j, obs),
         UNCHANGED <<rows, wire, mach, drift, obs, node, proc, owed, ended, scan, left>>
  PROVE  TypeInv'
<1>1. TypeOK BY DEF TypeInv
<1>2. Grows(obs, obs') BY <1>1, SameObservations
<1>3. LoopsFit' /\ job' \in [Controllers -> JobType] BY <1>2, JobStep
<1>4. TypeOK' BY <1>1, <1>3 DEF TypeOK, rows
<1> QED BY <1>3, <1>4 DEF TypeInv

LEMMA NextJobsFit ==
  ASSUME TypeOK, NEW p \in Plans, NEW j \in NextJobs(p)
  PROVE  JobFits(j, obs)
<1>1. op[p].gen \in Nat BY DEF TypeOK, OpType
<1>2. JobFits([NoJob EXCEPT !.pc = "refused", !.plan = p, !.gen = op[p].gen], obs)
  BY <1>1 DEF JobFits, NoJob, JobType, Unread, ReadType
<1>3. JobFits(AttemptJob(p, op[p].gen), obs) BY <1>1, AttemptJobFits
<1>4. /\ JobFits(ObserveJob(p, op[p].gen, "completion", "settle"), obs)
      /\ JobFits(ObserveJob(p, op[p].gen, "recovery", "settle"), obs)
      /\ JobFits(ObserveJob(p, op[p].gen, "recovery", "idle"), obs)
  BY <1>1, ObserveJobFits
<1>5. \/ j = [NoJob EXCEPT !.pc = "refused", !.plan = p, !.gen = op[p].gen]
      \/ j = AttemptJob(p, op[p].gen)
      \/ j = ObserveJob(p, op[p].gen, "completion", "settle")
      \/ j = ObserveJob(p, op[p].gen, "recovery", "settle")
      \/ j = ObserveJob(p, op[p].gen, "recovery", "idle")
  BY Zenon DEF NextJobs
<1> QED BY <1>2, <1>3, <1>4, <1>5

LEMMA TakeUpTypes ==
  ASSUME TypeInv, NEW c \in Controllers, NEW p \in Plans, DispatchPlan(c, p) \/ Advance(c, p)
  PROVE  TypeInv'
<1>1. CASE DispatchPlan(c, p)
  BY <1>1, LoopTypes, ObserveJobFits DEF DispatchPlan
<1>2. CASE Advance(c, p)
  <2>1. PICK j \in NextJobs(p) : SetJob(c, j) BY <1>2 DEF Advance
  <2>2. JobFits(j, obs) BY NextJobsFit DEF TypeInv
  <2> QED BY <1>2, <2>1, <2>2, LoopTypes DEF Advance
<1> QED BY <1>1, <1>2

LEMMA ObservationTypes ==
  ASSUME TypeInv, NEW c \in Controllers, StartObservation(c) \/ ReadNode(c) \/ RecordObservation(c)
  PROVE  TypeInv'
<1>1. TypeOK BY DEF TypeInv
<1>2. JobFits(job[c], obs) BY DEF TypeInv, LoopsFit
<1>3. job[c].plan \in Plans /\ job[c] \in JobType
  BY <1>2 DEF StartObservation, ReadNode, RecordObservation, JobFits
<1>4. M(job[c].plan) \in Machines BY <1>3, MachineTyped
<1>5. Now(M(job[c].plan)) \in Nat BY <1>1, <1>4, NowTyped
<1>6. CASE StartObservation(c)
  <2>1. /\ obs' \in [Machines -> Seq(ObsType)] /\ Grows(obs, obs')
        /\ Now(M(job[c].plan)) + 1 \in 1..Len(obs'[M(job[c].plan)])
    <3>1. job[c].purpose \in {"evidence", "completion", "recovery", "drift", "none"} BY <1>3 DEF JobType
    <3> QED BY <1>1, <1>3, <1>4, <1>6, <3>1, StartTyped DEF StartObservation
  <2> DEFINE k == Now(M(job[c].plan)) + 1
             j == [job[c] EXCEPT !.pc = "reading", !.n = k]
  <2>2. JobFits(j, obs')
    <3>1. k \in Nat BY <1>5
    <3> HIDE DEF k
    <3>2. j \in JobType BY <1>3, <3>1 DEF JobType
    <3>3. j.pc = "reading" /\ j.n = k /\ j.plan = job[c].plan BY <1>3 DEF JobType
    <3>4. k \in 1..Len(obs'[M(job[c].plan)]) BY <2>1 DEF k
    <3> HIDE DEF j
    <3> QED BY <1>3, <3>2, <3>3, <3>4 DEF JobFits
  <2>3. LoopsFit' /\ job' \in [Controllers -> JobType]
    BY <1>6, <2>1, <2>2, JobStep DEF StartObservation
  <2>4. TypeOK' BY <1>1, <1>6, <2>1, <2>3 DEF StartObservation, TypeOK, rows
  <2> QED BY <2>3, <2>4 DEF TypeInv
<1>7. CASE ReadNode(c)
  <2>1. PICK r \in Reads(M(job[c].plan)) : SetJob(c, [job[c] EXCEPT !.pc = "record", !.read = r])
    BY <1>7 DEF ReadNode
  <2>2. r \in ReadType BY <1>1, <1>4, ReadsTyped
  <2>3. job[c].n \in 1..Len(obs[M(job[c].plan)]) BY <1>2, <1>7 DEF JobFits, ReadNode
  <2>4. JobFits([job[c] EXCEPT !.pc = "record", !.read = r], obs)
    BY <1>3, <2>2, <2>3 DEF JobFits, JobType
  <2> QED BY <1>7, <2>1, <2>4, LoopTypes DEF ReadNode
<1>8. CASE RecordObservation(c)
  <2>1. job[c].n \in 1..Len(obs[M(job[c].plan)]) /\ job[c].read \in ReadType
    BY <1>2, <1>8 DEF JobFits, JobType, RecordObservation
  <2>2. obs' \in [Machines -> Seq(ObsType)] /\ Grows(obs, obs')
    BY <1>1, <1>4, <1>8, <2>1, RecordTyped DEF RecordObservation
  <2>3. job[c].n \in 1..Len(obs'[M(job[c].plan)]) BY <1>4, <2>1, <2>2 DEF Grows
  <2>4. JobFits([job[c] EXCEPT !.pc = job[c].next, !.read = Unread], obs')
    BY <1>3, <2>3 DEF JobFits, JobType, Unread, ReadType
  <2>5. LoopsFit' /\ job' \in [Controllers -> JobType]
    BY <1>8, <2>2, <2>4, NoJobFits, JobStep DEF RecordObservation
  <2>6. TypeOK' BY <1>1, <1>8, <2>2, <2>5 DEF RecordObservation, TypeOK, rows
  <2> QED BY <2>5, <2>6 DEF TypeInv
<1> QED BY <1>6, <1>7, <1>8

LEMMA ScanTypes ==
  ASSUME TypeInv, NEW c \in Controllers,
         (\E m \in Machines : ScanPick(c, m)) \/ ScanStart(c) \/ ScanRead(c) \/ ScanRecord(c)
  PROVE  TypeInv'
<1>1. TypeOK BY DEF TypeInv
<1>2. ScanFits(scan[c], obs) /\ scan[c] \in ScanType /\ scan \in [Controllers -> ScanType]
  BY <1>1 DEF TypeInv, LoopsFit, ScanFits, TypeOK
<1>3. ASSUME NEW m \in Machines, ScanPick(c, m) PROVE TypeInv'
  <2>1. Grows(obs, obs') BY <1>1, <1>3, SameObservations DEF ScanPick
  <2>2. ScanFits([NoScan EXCEPT !.pc = "observe", !.m = m], obs')
    BY DEF ScanFits, NoScan, ScanType, Unread, ReadType
  <2>3. LoopsFit' /\ scan' \in [Controllers -> ScanType] BY <1>3, <2>1, <2>2, ScanStep DEF ScanPick
  <2>4. TypeOK' BY <1>1, <1>3, <2>3 DEF ScanPick, TypeOK, rows
  <2> QED BY <2>3, <2>4 DEF TypeInv
<1>4. CASE ScanStart(c)
  <2> DEFINE m == scan[c].m
             s == [scan[c] EXCEPT !.pc = "reading", !.n = Now(m) + 1]
  <2>1. m \in Machines /\ Now(m) \in Nat BY <1>1, <1>2, <1>4, NowTyped DEF ScanFits, ScanStart
  <2>2. obs' \in [Machines -> Seq(ObsType)] /\ Grows(obs, obs') /\ Now(m) + 1 \in 1..Len(obs'[m])
    BY <1>1, <1>4, <2>1, StartTyped DEF ScanStart
  <2>3. ScanFits(s, obs')
    <3>1. s \in ScanType
      <4>1. Now(m) + 1 \in Nat BY <2>1
      <4> QED BY <1>2, <4>1 DEF ScanType
    <3>2. s.pc = "reading" /\ s.n = Now(m) + 1 /\ s.m = m BY <1>2 DEF ScanType
    <3> HIDE DEF s
    <3> QED BY <2>1, <2>2, <3>1, <3>2 DEF ScanFits
  <2>4. scan' = [scan EXCEPT ![c] = s] BY <1>2, <1>4 DEF ScanStart
  <2>5. LoopsFit' /\ scan' \in [Controllers -> ScanType]
    BY <1>4, <2>2, <2>3, <2>4, ScanStep DEF ScanStart
  <2>6. TypeOK' BY <1>1, <1>4, <2>2, <2>5 DEF ScanStart, TypeOK, rows
  <2> QED BY <2>5, <2>6 DEF TypeInv
<1>5. CASE ScanRead(c)
  <2>1. scan[c].m \in Machines /\ scan[c].n \in 1..Len(obs[scan[c].m])
    BY <1>2, <1>5 DEF ScanFits, ScanRead
  <2>2. PICK r \in Reads(scan[c].m) : scan' = [scan EXCEPT ![c].pc = "record", ![c].read = r]
    BY <1>5 DEF ScanRead
  <2>3. r \in ReadType BY <1>1, <2>1, ReadsTyped
  <2>4. Grows(obs, obs') /\ UNCHANGED obs BY <1>1, <1>5, SameObservations DEF ScanRead
  <2>5. ScanFits([scan[c] EXCEPT !.pc = "record", !.read = r], obs')
    BY <1>2, <2>1, <2>3, <2>4 DEF ScanFits, ScanType
  <2>6. scan' = [scan EXCEPT ![c] = [scan[c] EXCEPT !.pc = "record", !.read = r]] BY <1>2, <2>2
  <2>7. LoopsFit' /\ scan' \in [Controllers -> ScanType]
    BY <1>5, <2>4, <2>5, <2>6, ScanStep DEF ScanRead
  <2>8. TypeOK' BY <1>1, <1>5, <2>7 DEF ScanRead, TypeOK, rows
  <2> QED BY <2>7, <2>8 DEF TypeInv
<1>6. CASE ScanRecord(c)
  <2>1. scan[c].m \in Machines /\ scan[c].n \in 1..Len(obs[scan[c].m]) /\ scan[c].read \in ReadType
    BY <1>2, <1>6 DEF ScanFits, ScanRecord, ScanType
  <2>2. obs' \in [Machines -> Seq(ObsType)] /\ Grows(obs, obs')
    BY <1>1, <1>6, <2>1, RecordTyped DEF ScanRecord
  <2>3. drift' \in [Machines -> DriftType]
    <3>1. scan[c].read.cfg \in Configs \cup {"unread"} BY <2>1 DEF ReadType
    <3> QED BY <1>1, <1>6, <2>1, <3>1, DriftTyped DEF ScanRecord
  <2>4. LoopsFit' /\ scan' \in [Controllers -> ScanType]
    BY <1>6, <2>2, NoScanFits, ScanStep DEF ScanRecord
  <2>5. TypeOK' BY <1>1, <1>6, <2>2, <2>3, <2>4 DEF ScanRecord, TypeOK, rows
  <2> QED BY <2>4, <2>5 DEF TypeInv
<1> QED BY <1>3, <1>4, <1>5, <1>6

LEMMA CommitTypes ==
  ASSUME TypeInv, NEW c \in Controllers, CommitPlan(c) \/ CommitRefused(c) \/ RecordCommitRefusal(c)
  PROVE  TypeInv'
<1> DEFINE p == job[c].plan
<1>1. TypeOK BY DEF TypeInv
<1>2. JobFits(job[c], obs) BY DEF TypeInv, LoopsFit
<1>3. p \in Plans /\ job[c] \in JobType
  BY <1>2 DEF CommitPlan, CommitRefused, RecordCommitRefusal, JobFits
<1>4. M(p) \in Machines BY <1>3, MachineTyped
<1>5. obs[M(p)] \in Seq(ObsType) BY <1>1, <1>4 DEF TypeOK
<1>6. DOMAIN obs[M(p)] = 1..Len(obs[M(p)]) /\ Len(obs[M(p)]) \in Nat BY <1>5, LenProperties
<1>7. CASE CommitPlan(c)
  <2>1. PICK b \in 1..Len(obs[M(p)]) :
          op' = [op EXCEPT ![p] = [NoOp EXCEPT !.state = "committed", !.owner = c, !.gen = 1, !.ev = b]]
    BY <1>6, <1>7 DEF CommitPlan
  <2>2. [NoOp EXCEPT !.state = "committed", !.owner = c, !.gen = 1, !.ev = b] \in OpType
    <3>1. "committed" \in Holding BY DEF Holding
    <3>2. b \in Nat BY <1>6
    <3>3. NoOp \in OpType BY ConstantsAssumption DEF NoOp, OpType
    <3> QED BY <3>1, <3>2, <3>3 DEF OpType
  <2>3. op' \in [Plans -> OpType] BY <1>1, <2>1, <2>2 DEF TypeOK
  <2>4. plan' \in [Plans -> PlanType]
    <3>1. plan \in [Plans -> PlanType] BY <1>1 DEF TypeOK
    <3>2. plan' = [plan EXCEPT ![p].state = "committed"] BY <1>7 DEF CommitPlan
    <3> QED BY <1>3, <3>1, <3>2 DEF PlanType
  <2>5. mach' \in [Machines -> MachType] BY <1>1, <1>4, <1>7, ScopeEntryTyped DEF CommitPlan
  <2>6. Grows(obs, obs') BY <1>1, <1>7, SameObservations DEF CommitPlan
  <2>7. LoopsFit' /\ job' \in [Controllers -> JobType]
    BY <1>3, <1>7, <2>6, AttemptJobFits, JobStep DEF CommitPlan
  <2>8. TypeOK' BY <1>1, <1>7, <2>3, <2>4, <2>5, <2>7 DEF CommitPlan, TypeOK
  <2> QED BY <2>7, <2>8 DEF TypeInv
<1>8. CASE CommitRefused(c)
  <2>1. ended' \in [Controllers -> SUBSET Plans]
    <3>1. ended \in [Controllers -> SUBSET Plans] BY <1>1 DEF TypeOK
    <3>2. ended' = ended \/ ended' = [ended EXCEPT ![c] = ended[c] \cup {p}] BY <1>8 DEF CommitRefused
    <3> QED BY <1>3, <3>1, <3>2
  <2>2. Grows(obs, obs') /\ UNCHANGED obs BY <1>1, <1>8, SameObservations DEF CommitRefused
  <2>3. ASSUME NEW b \in 1..Len(obs[M(p)]) PROVE JobFits([job[c] EXCEPT !.pc = "refuse", !.n = b], obs)
    <3> DEFINE j == [job[c] EXCEPT !.pc = "refuse", !.n = b]
    <3>1. b \in Nat BY <1>6
    <3>2. j \in JobType BY <1>3, <3>1 DEF JobType
    <3>3. j.pc = "refuse" /\ j.n = b /\ j.plan = p BY <1>3 DEF JobType
    <3> HIDE DEF j
    <3>4. JobFits(j, obs) BY <1>3, <3>2, <3>3 DEF JobFits
    <3> QED BY <3>4 DEF j
  <2>4. \/ SetJob(c, NoJob)
        \/ \E b \in 1..Len(obs[M(p)]) : SetJob(c, [job[c] EXCEPT !.pc = "refuse", !.n = b])
    BY <1>6, <1>8 DEF CommitRefused
  <2>5. LoopsFit' /\ job' \in [Controllers -> JobType]
    BY <1>8, <2>2, <2>3, <2>4, NoJobFits, JobStep DEF CommitRefused
  <2>6. TypeOK' BY <1>1, <1>8, <2>1, <2>5 DEF CommitRefused, TypeOK, rows
  <2> QED BY <2>5, <2>6 DEF TypeInv
<1>9. CASE RecordCommitRefusal(c)
  <2>1. job[c].n \in 1..Len(obs[M(p)]) BY <1>2, <1>9 DEF JobFits, RecordCommitRefusal
  <2>2. obs[M(p)][job[c].n].cfg \in Configs \cup {"unread"} BY <1>1, <1>4, <2>1, ObsTyped DEF ObsType
  <2>3. drift' \in [Machines -> DriftType]
    BY <1>1, <1>4, <1>9, <2>2, DriftTyped DEF RecordCommitRefusal, TypeOK
  <2>4. ended' \in [Controllers -> SUBSET Plans]
    <3>1. ended \in [Controllers -> SUBSET Plans] BY <1>1 DEF TypeOK
    <3>2. ended' = ended \/ ended' = [ended EXCEPT ![c] = ended[c] \cup {p}] BY <1>9 DEF RecordCommitRefusal
    <3> QED BY <1>3, <3>1, <3>2
  <2>5. Grows(obs, obs') BY <1>1, <1>9, SameObservations DEF RecordCommitRefusal
  <2>6. LoopsFit' /\ job' \in [Controllers -> JobType]
    BY <1>9, <2>5, NoJobFits, JobStep DEF RecordCommitRefusal
  <2>7. TypeOK' BY <1>1, <1>9, <2>3, <2>4, <2>6 DEF RecordCommitRefusal, TypeOK, rows
  <2> QED BY <2>6, <2>7 DEF TypeInv
<1> QED BY <1>7, <1>8, <1>9

LEMMA AttemptTypes ==
  ASSUME TypeInv, NEW c \in Controllers, RecordAttempt(c) \/ AttemptRefused(c) \/ SettleAttemptRefusal(c)
  PROVE  TypeInv'
<1> DEFINE p == job[c].plan
<1>1. TypeOK BY DEF TypeInv
<1>2. JobFits(job[c], obs) BY DEF TypeInv, LoopsFit
<1>3. p \in Plans /\ job[c] \in JobType
  BY <1>2 DEF RecordAttempt, AttemptRefused, SettleAttemptRefusal, JobFits
<1>4. op \in [Plans -> OpType] /\ op[p] \in OpType BY <1>1, <1>3 DEF TypeOK
<1>5. CASE RecordAttempt(c)
  <2> DEFINE n == op[p].made + 1
  <2>1. n \in 0..MaxAttempts /\ n \in Nat
    BY <1>4, <1>5, ConstantsAssumption DEF RecordAttempt, AttemptsLeft, OpType
  <2>2. op' \in [Plans -> OpType]
    <3>1. op' = [op EXCEPT ![p] = [op[p] EXCEPT !.state = "sending", !.made = n]]
      BY <1>4, <1>5 DEF RecordAttempt
    <3>2. "sending" \in Holding BY DEF Holding
    <3> HIDE DEF n
    <3>3. [op[p] EXCEPT !.state = "sending", !.made = n] \in OpType BY <1>4, <2>1, <3>2 DEF OpType
    <3> QED BY <1>4, <3>1, <3>3
  <2>3. att' \in [Plans -> [Numbers -> AttType]]
    <3> DEFINE a == [NoAttempt EXCEPT !.owner = c, !.gen = job[c].gen]
    <3>1. a \in AttType BY <1>3 DEF NoAttempt, AttType, JobType
    <3>2. att \in [Plans -> [Numbers -> AttType]] BY <1>1 DEF TypeOK
    <3>3. att' = [att EXCEPT ![p][n] = a] BY <1>5 DEF RecordAttempt
    <3> HIDE DEF a, n
    <3> QED BY <1>3, <3>1, <3>2, <3>3
  <2>4. cls' \in [Plans -> ClsType] BY <1>1, <1>3, <1>5, FollowTyped DEF RecordAttempt
  <2>5. JobFits([job[c] EXCEPT !.pc = "send", !.n = n], obs')
    <3> HIDE DEF n
    <3> QED BY <1>3, <2>1 DEF JobFits, JobType
  <2>6. Grows(obs, obs') BY <1>1, <1>5, SameObservations DEF RecordAttempt
  <2>7. LoopsFit' /\ job' \in [Controllers -> JobType]
    BY <1>5, <2>5, <2>6, JobStep DEF RecordAttempt
  <2>8. TypeOK' BY <1>1, <1>5, <2>2, <2>3, <2>4, <2>7 DEF RecordAttempt, TypeOK
  <2> QED BY <2>7, <2>8 DEF TypeInv
<1>6. CASE AttemptRefused(c)
  <2>1. JobFits([job[c] EXCEPT !.pc = "refused"], obs) BY <1>3 DEF JobFits, JobType
  <2> QED BY <1>6, <2>1, LoopTypes DEF AttemptRefused
<1>7. CASE SettleAttemptRefusal(c)
  <2>1. "cancelled" \in Holding \cup Ended /\ "unresolved" \in Holding \cup Ended BY DEF Holding, Ended
  <2>2. op' \in [Plans -> OpType] /\ mach' \in [Machines -> MachType]
    BY <1>1, <1>3, <1>7, <2>1, MoveTyped DEF SettleAttemptRefusal, TypeOK
  <2>3. Grows(obs, obs') BY <1>1, <1>7, SameObservations DEF SettleAttemptRefusal
  <2>4. LoopsFit' /\ job' \in [Controllers -> JobType]
    BY <1>7, <2>3, NoJobFits, JobStep DEF SettleAttemptRefusal
  <2>5. TypeOK' BY <1>1, <1>7, <2>2, <2>4 DEF SettleAttemptRefusal, TypeOK
  <2> QED BY <2>4, <2>5 DEF TypeInv
<1> QED BY <1>5, <1>6, <1>7

LEMMA ResponseState ==
  ASSUME TypeOK, NEW p \in Plans, NEW n, NEW r
  PROVE  StateAfterResponse(p, n, r) \in {"none"} \cup Holding \cup Ended
  BY DEF TypeOK, OpType, StateAfterResponse, Holding, Ended

LEMMA RequestTypes ==
  ASSUME TypeInv, NEW c \in Controllers,
         SendRequest(c) \/ SendFails(c) \/ ReceiveAnswer(c) \/ RecordResponse(c)
  PROVE  TypeInv'
<1> DEFINE p == job[c].plan
           n == job[c].n
<1>1. TypeOK BY DEF TypeInv
<1>2. JobFits(job[c], obs) BY DEF TypeInv, LoopsFit
<1>3. p \in Plans /\ job[c] \in JobType
  BY <1>2 DEF SendRequest, SendFails, ReceiveAnswer, RecordResponse, JobFits
<1>4. ASSUME NEW r \in Classes PROVE JobFits([job[c] EXCEPT !.pc = "respond", !.resp = r], obs)
  BY <1>3 DEF JobFits, JobType
<1>5. CASE SendRequest(c)
  <2>1. JobFits([job[c] EXCEPT !.pc = "wait"], obs') BY <1>3 DEF JobFits, JobType
  <2>2. Grows(obs, obs') BY <1>1, <1>5, SameObservations DEF SendRequest
  <2>3. LoopsFit' /\ job' \in [Controllers -> JobType] BY <1>5, <2>1, <2>2, JobStep DEF SendRequest
  <2>4. wire' \in [Plans -> [Numbers -> {"unsent", "flight", "applied", "refused"}]]
    BY <1>1, <1>3, <1>5 DEF SendRequest, TypeOK
  <2>5. TypeOK' BY <1>1, <1>5, <2>3, <2>4 DEF SendRequest, TypeOK, rows
  <2> QED BY <2>3, <2>5 DEF TypeInv
<1>6. CASE SendFails(c)
  <2>1. "transport" \in Classes BY DEF Classes
  <2> QED BY <1>4, <1>6, <2>1, LoopTypes DEF SendFails
<1>7. CASE ReceiveAnswer(c)
  <2>1. Answers(wire[p][n]) \subseteq Classes BY DEF Answers, Classes
  <2>2. PICK r \in Classes : SetJob(c, [job[c] EXCEPT !.pc = "respond", !.resp = r])
    BY <1>7, <2>1 DEF ReceiveAnswer
  <2> QED BY <1>4, <1>7, <2>2, LoopTypes DEF ReceiveAnswer
<1>8. CASE RecordResponse(c)
  <2> DEFINE r == job[c].resp
             by == Accounts(r) /\ att[p][n].acct = "none"
             to == StateAfterResponse(p, n, r)
  <2>1. M(p) \in Machines /\ Now(M(p)) \in Nat BY <1>1, <1>3, MachineTyped, NowTyped
  <2>2. att' \in [Plans -> [Numbers -> AttType]]
    <3>1. att \in [Plans -> [Numbers -> AttType]] BY <1>1 DEF TypeOK
    <3>2. att' = [att EXCEPT ![p][n].resp = r, ![p][n].acct = IF by THEN "response" ELSE att[p][n].acct]
      BY <1>8 DEF RecordResponse
    <3>3. r \in Classes \cup {"none"} BY <1>3 DEF JobType
    <3>4. CASE n \in Numbers
      <4>1. att[p][n] \in AttType BY <1>3, <3>1, <3>4
      <4>2. [att[p][n] EXCEPT !.resp = r, !.acct = IF by THEN "response" ELSE att[p][n].acct] \in AttType
        BY <3>3, <4>1 DEF AttType
      <4>3. att' = [att EXCEPT ![p][n] = [att[p][n] EXCEPT !.resp = r,
                                            !.acct = IF by THEN "response" ELSE att[p][n].acct]]
        BY <1>3, <3>1, <3>2, <3>4
      <4> QED BY <1>3, <3>1, <3>4, <4>2, <4>3
    <3>5. CASE n \notin Numbers
      <4>1. att' = att BY <1>3, <3>1, <3>2, <3>5
      <4> QED BY <3>1, <4>1
    <3> QED BY <3>4, <3>5
  <2>3. op' \in [Plans -> OpType]
    <3>1. op \in [Plans -> OpType] /\ op[p] \in OpType BY <1>1, <1>3 DEF TypeOK
    <3>2. to \in {"none"} \cup Holding \cup Ended BY <1>1, <1>3, ResponseState
    <3>3. op' = [op EXCEPT ![p] = [op[p] EXCEPT !.state = to, !.acctAt = IF by THEN Now(M(p)) ELSE op[p].acctAt]]
      BY <1>3, <1>8, <3>1 DEF RecordResponse
    <3> HIDE DEF to, by
    <3>4. [op[p] EXCEPT !.state = to, !.acctAt = IF by THEN Now(M(p)) ELSE op[p].acctAt] \in OpType
      BY <2>1, <3>1, <3>2 DEF OpType
    <3> QED BY <1>3, <3>1, <3>3, <3>4
  <2>4. mach' \in [Machines -> MachType]
    BY <1>1, <1>8, <2>1, ScopeEntryTyped DEF RecordResponse, TypeOK
  <2>5. cls' \in [Plans -> ClsType] BY <1>1, <1>3, <1>8, FollowTyped DEF RecordResponse
  <2>6. Grows(obs, obs') BY <1>1, <1>8, SameObservations DEF RecordResponse
  <2>7. LoopsFit' /\ job' \in [Controllers -> JobType]
    <3>1. JobFits(ObserveJob(p, job[c].gen, "completion", "settle"), obs')
      BY <1>3, ObserveJobFits DEF JobType
    <3>2. SetJob(c, NoJob) \/ SetJob(c, ObserveJob(p, job[c].gen, "completion", "settle"))
      BY <1>8 DEF RecordResponse
    <3> QED BY <1>8, <2>6, <3>1, <3>2, NoJobFits, JobStep DEF RecordResponse
  <2>8. TypeOK' BY <1>1, <1>8, <2>2, <2>3, <2>4, <2>5, <2>7 DEF RecordResponse, TypeOK
  <2> QED BY <2>7, <2>8 DEF TypeInv
<1> QED BY <1>5, <1>6, <1>7, <1>8

LEMMA AttemptRowTypes ==
  ASSUME TypeInv, NEW p \in Plans, NEW n \in Numbers,
         NodeHandles(p, n) \/ DeadlinePasses(p, n) \/ AccountByDecision(p, n)
  PROVE  TypeInv'
<1>1. TypeOK BY DEF TypeInv
<1>2. M(p) \in Machines /\ Now(M(p)) \in Nat BY <1>1, MachineTyped, NowTyped
<1>3. LoopsFit' BY LoopsStill DEF NodeHandles, DeadlinePasses, AccountByDecision, loops
<1>4. att \in [Plans -> [Numbers -> AttType]] /\ att[p][n] \in AttType BY <1>1 DEF TypeOK
<1>5. CASE NodeHandles(p, n)
  <2>1. plan[p].release \in Configs BY <1>1 DEF TypeOK, PlanType, Configs
  <2>2. node \in [Machines -> NodeType] BY <1>1 DEF TypeOK
  <2>3. node' \in [Machines -> NodeType]
    <3>1. node' = node \/ node' = [node EXCEPT ![M(p)].cfg = plan[p].release] BY <1>5 DEF NodeHandles
    <3> QED BY <1>2, <2>1, <2>2, <3>1 DEF NodeType
  <2>4. wire' \in [Plans -> [Numbers -> {"unsent", "flight", "applied", "refused"}]]
    <3>1. wire \in [Plans -> [Numbers -> {"unsent", "flight", "applied", "refused"}]] BY <1>1 DEF TypeOK
    <3>2. \E w \in {"applied", "refused"} : wire' = [wire EXCEPT ![p][n] = w] BY <1>5 DEF NodeHandles
    <3> QED BY <3>1, <3>2
  <2>5. TypeOK' BY <1>1, <1>5, <2>3, <2>4 DEF NodeHandles, TypeOK, rows, loops
  <2> QED BY <1>3, <2>5 DEF TypeInv
<1>6. CASE DeadlinePasses(p, n)
  <2>1. Now(M(p)) + 1 \in Nat BY <1>2
  <2>2. [att[p][n] EXCEPT !.dl = Now(M(p)) + 1] \in AttType BY <1>4, <2>1 DEF AttType
  <2>3. att' = [att EXCEPT ![p][n] = [att[p][n] EXCEPT !.dl = Now(M(p)) + 1]]
    BY <1>4, <1>6 DEF DeadlinePasses
  <2>4. att' \in [Plans -> [Numbers -> AttType]] BY <1>4, <2>2, <2>3
  <2>5. TypeOK' BY <1>1, <1>6, <2>4 DEF DeadlinePasses, TypeOK, loops
  <2> QED BY <1>3, <2>5 DEF TypeInv
<1>7. CASE AccountByDecision(p, n)
  <2>1. [att[p][n] EXCEPT !.acct = "decision"] \in AttType BY <1>4 DEF AttType
  <2>2. att' = [att EXCEPT ![p][n] = [att[p][n] EXCEPT !.acct = "decision"]]
    BY <1>4, <1>7 DEF AccountByDecision
  <2>3. att' \in [Plans -> [Numbers -> AttType]] BY <1>4, <2>1, <2>2
  <2>4. op \in [Plans -> OpType] BY <1>1 DEF TypeOK
  <2>5. op' \in [Plans -> OpType] BY <1>2, <1>7, <2>4 DEF AccountByDecision, OpType
  <2>6. TypeOK' BY <1>1, <1>7, <2>3, <2>5 DEF AccountByDecision, TypeOK, loops
  <2> QED BY <1>3, <2>6 DEF TypeInv
<1> QED BY <1>5, <1>6, <1>7

LEMMA ResolveTypes ==
  ASSUME TypeInv, NEW p \in Plans, ResolveByDecision(p)
  PROVE  TypeInv'
<1>1. TypeOK BY DEF TypeInv
<1>2. LoopsFit' BY LoopsStill DEF ResolveByDecision, loops
<1>3. "cancelled" \in Holding \cup Ended BY DEF Ended
<1>4. op' \in [Plans -> OpType] /\ mach' \in [Machines -> MachType]
  BY <1>1, <1>3, MoveTyped DEF ResolveByDecision
<1>5. TypeOK' BY <1>1, <1>4 DEF ResolveByDecision, TypeOK, loops
<1> QED BY <1>2, <1>5 DEF TypeInv

LEMMA SettleTypes ==
  ASSUME TypeInv, NEW c \in Controllers,
         \/ Complete(c) \/ VerificationLapses(c) \/ ClassifyRetry(c) \/ Fail(c)
  PROVE  TypeInv'
<1> DEFINE p == job[c].plan
           m == M(p)
<1>1. TypeOK BY DEF TypeInv
<1>2. JobFits(job[c], obs) BY DEF TypeInv, LoopsFit
<1>3. Settling(c) BY DEF Complete, VerificationLapses, ClassifyRetry, Fail
<1>4. p \in Plans /\ job[c] \in JobType /\ job[c].n \in 1..Len(obs[M(p)])
  BY <1>2, <1>3 DEF Settling, JobFits
<1>5. m \in Machines /\ Now(m) \in Nat BY <1>1, <1>4, MachineTyped, NowTyped
<1>6. UNCHANGED obs BY DEF Complete, VerificationLapses, ClassifyRetry, Fail
<1>7. Grows(obs, obs') BY <1>1, <1>6, SameObservations
<1>8. UNCHANGED scan BY DEF Complete, VerificationLapses, ClassifyRetry, Fail
<1>9. LoopsFit' /\ job' \in [Controllers -> JobType]
  <2>1. JobFits(AttemptJob(p, job[c].gen), obs') BY <1>4, AttemptJobFits DEF JobType
  <2>2. SetJob(c, NoJob) \/ SetJob(c, AttemptJob(p, job[c].gen))
    BY DEF Complete, VerificationLapses, ClassifyRetry, Fail
  <2> QED BY <1>7, <1>8, <2>1, <2>2, NoJobFits, JobStep
<1>10. ASSUME NEW s \in {"unresolved", "failed"}, MoveOperation(p, s)
       PROVE  op' \in [Plans -> OpType] /\ mach' \in [Machines -> MachType]
  <2>1. s \in Holding \cup Ended BY DEF Holding, Ended
  <2> QED BY <1>1, <1>4, <1>10, <2>1, MoveTyped
<1>11. CASE VerificationLapses(c)
  <2>1. op' \in [Plans -> OpType] /\ mach' \in [Machines -> MachType]
    BY <1>1, <1>10, <1>11 DEF VerificationLapses, TypeOK
  <2>2. UNCHANGED <<plan, dead, cls, att, wire, drift, obs, node, proc, owed, ended, scan, left>>
    BY <1>11 DEF VerificationLapses
  <2>3. TypeOK' BY <1>1, <1>9, <2>1, <2>2 DEF TypeOK
  <2> QED BY <1>9, <2>3 DEF TypeInv
<1>12. CASE Complete(c)
  <2>1. op' \in [Plans -> OpType]
    <3>1. op \in [Plans -> OpType] BY <1>1 DEF TypeOK
    <3>2. "completed" \in Ended BY DEF Ended
    <3> QED BY <1>4, <1>12, <3>1, <3>2 DEF Complete, OpType
  <2>2. cls' \in [Plans -> ClsType] BY <1>1, <1>4, <1>12, FollowTyped DEF Complete
  <2>3. mach' \in [Machines -> MachType]
    <3> DEFINE r == [mach[m] EXCEPT !.applied = plan[p].release, !.baseline = mach[m].baseline + 1,
                                    !.scopeAt = Now(m)]
    <3>1. mach \in [Machines -> MachType] /\ mach[m] \in MachType BY <1>1, <1>5 DEF TypeOK
    <3>2. plan[p].release \in Releases BY <1>1, <1>4 DEF TypeOK, PlanType
    <3>3. mach[m].baseline + 1 \in Nat BY <3>1 DEF MachType
    <3>4. r \in MachType BY <1>5, <3>1, <3>2, <3>3 DEF MachType
    <3>5. mach' = [mach EXCEPT ![m] = r] BY <1>12 DEF Complete
    <3> HIDE DEF r
    <3> QED BY <1>5, <3>1, <3>4, <3>5
  <2>4. drift' \in [Machines -> DriftType]
    <3>1. drift \in [Machines -> DriftType] /\ drift[m] \in DriftType BY <1>1, <1>5 DEF TypeOK
    <3>2. Reverted(p) \in DriftType BY <3>1 DEF Reverted, DriftType
    <3> QED BY <1>5, <1>12, <3>1, <3>2 DEF Complete
  <2>5. TypeOK' BY <1>1, <1>9, <1>12, <2>1, <2>2, <2>3, <2>4 DEF Complete, TypeOK
  <2> QED BY <1>9, <2>5 DEF TypeInv
<1>13. CASE ClassifyRetry(c)
  <2>1. op' \in [Plans -> OpType] /\ mach' \in [Machines -> MachType]
    BY <1>1, <1>10, <1>13 DEF ClassifyRetry, TypeOK
  <2>2. [obs |-> job[c].n, gen |-> job[c].gen, followed |-> FALSE] \in ClsType
    BY <1>4 DEF JobType, ClsType
  <2>3. cls' \in [Plans -> ClsType] BY <1>1, <1>4, <1>13, <2>2 DEF ClassifyRetry, TypeOK
  <2>4. TypeOK' BY <1>1, <1>9, <1>13, <2>1, <2>3 DEF ClassifyRetry, TypeOK
  <2> QED BY <1>9, <2>4 DEF TypeInv
<1>14. CASE Fail(c)
  <2>1. op' \in [Plans -> OpType] /\ mach' \in [Machines -> MachType] BY <1>10, <1>14 DEF Fail
  <2>2. cls' \in [Plans -> ClsType] BY <1>1, <1>4, <1>14, FollowTyped DEF Fail
  <2>3. drift' \in [Machines -> DriftType]
    <3>1. obs[m][job[c].n].cfg \in Configs \cup {"unread"} BY <1>1, <1>4, <1>5, ObsTyped DEF ObsType
    <3> QED BY <1>1, <1>5, <1>14, <3>1, DriftTyped DEF Fail
  <2>4. TypeOK' BY <1>1, <1>9, <1>14, <2>1, <2>2, <2>3 DEF Fail, TypeOK
  <2> QED BY <1>9, <2>4 DEF TypeInv
<1> QED BY <1>11, <1>12, <1>13, <1>14

LEMMA WorldTypes ==
  ASSUME TypeInv, NEW m \in Machines, SetFreeze(m) \/ Publish(m) \/ ChangeNode(m)
  PROVE  TypeInv'
<1>1. TypeOK BY DEF TypeInv
<1>2. LoopsFit' BY LoopsStill DEF SetFreeze, Publish, ChangeNode, loops
<1>3. left' \in LimitType
  <2>1. left.events > 0 /\ left' = [left EXCEPT !.events = left.events - 1]
    BY DEF SetFreeze, Publish, ChangeNode, Happens
  <2>2. left \in LimitType BY <1>1 DEF TypeOK
  <2> QED BY <2>1, <2>2 DEF LimitType
<1>4. mach \in [Machines -> MachType] /\ mach[m] \in MachType BY <1>1 DEF TypeOK
<1>5. node \in [Machines -> NodeType] /\ node[m] \in NodeType BY <1>1 DEF TypeOK
<1>6. mach' \in [Machines -> MachType]
  <2>1. CASE SetFreeze(m)
    <3>1. [mach[m] EXCEPT !.frozen = ~mach[m].frozen] \in MachType BY <1>4 DEF MachType
    <3>2. mach' = [mach EXCEPT ![m] = [mach[m] EXCEPT !.frozen = ~mach[m].frozen]] BY <1>4, <2>1 DEF SetFreeze
    <3> QED BY <1>4, <3>1, <3>2
  <2>2. CASE Publish(m)
    <3>1. PICK r \in Releases, moved \in {0, 1} :
            mach' = [mach EXCEPT ![m].desired = r, ![m].head = mach[m].head + moved]
      BY <2>2 DEF Publish
    <3>2. mach[m].head + moved \in Nat BY <1>4 DEF MachType
    <3>3. [mach[m] EXCEPT !.desired = r, !.head = mach[m].head + moved] \in MachType
      BY <1>4, <3>2 DEF MachType
    <3>4. mach' = [mach EXCEPT ![m] = [mach[m] EXCEPT !.desired = r, !.head = mach[m].head + moved]]
      BY <1>4, <3>1
    <3> QED BY <1>4, <3>3, <3>4
  <2>3. CASE ChangeNode(m) BY <1>4, <2>3 DEF ChangeNode
  <2> QED BY <2>1, <2>2, <2>3
<1>7. node' \in [Machines -> NodeType]
  <2>1. CASE SetFreeze(m) \/ Publish(m) BY <1>5, <2>1 DEF SetFreeze, Publish
  <2>2. CASE \E x \in Configs : node' = [node EXCEPT ![m].cfg = x] BY <1>5, <2>2 DEF NodeType
  <2>3. CASE \E i, v \in Reports : node' = [node EXCEPT ![m].ident = i, ![m].minor = v]
    <3>1. PICK i \in Reports, v \in Reports : node' = [node EXCEPT ![m].ident = i, ![m].minor = v] BY <2>3
    <3>2. [node[m] EXCEPT !.ident = i, !.minor = v] \in NodeType BY <1>5 DEF NodeType
    <3>3. node' = [node EXCEPT ![m] = [node[m] EXCEPT !.ident = i, !.minor = v]] BY <1>5, <3>1
    <3> QED BY <1>5, <3>2, <3>3
  <2> QED BY <2>1, <2>2, <2>3 DEF ChangeNode
<1>8. UNCHANGED <<rows, wire, drift, obs, loops>> BY DEF SetFreeze, Publish, ChangeNode
<1>9. TypeOK' BY <1>1, <1>3, <1>6, <1>7, <1>8 DEF TypeOK, rows, loops
<1> QED BY <1>2, <1>9 DEF TypeInv

LEMMA TypeStep == TypeInv /\ [Next]_vars => TypeInv'
<1> SUFFICES ASSUME TypeInv, [Next]_vars PROVE TypeInv' OBVIOUS
<1>1. CASE UNCHANGED vars
  <2>1. LoopsFit' BY <1>1, LoopsStill DEF vars
  <2> QED BY <1>1, <2>1 DEF vars, TypeInv, TypeOK
<1>2. ASSUME NEW c \in Controllers, StartController(c) \/ Crash(c) \/ Drop(c) PROVE TypeInv'
  BY <1>2, ProcessTypes
<1>3. ASSUME NEW c \in Controllers, ExecutorStep(c) PROVE TypeInv'
  BY <1>3, ObservationTypes, CommitTypes, AttemptTypes, RequestTypes, SettleTypes DEF ExecutorStep
<1>4. ASSUME NEW c \in Controllers,
             ScanStart(c) \/ ScanRead(c) \/ ScanRecord(c) \/ \E m \in Machines : ScanPick(c, m)
      PROVE  TypeInv'
  BY <1>4, ScanTypes
<1>5. ASSUME NEW c \in Controllers, NEW p \in Plans,
             TakeOver(c, p) \/ RequestTakeover(c, p) \/ DispatchPlan(c, p) \/ Advance(c, p)
      PROVE  TypeInv'
  BY <1>5, TakeoverTypes, TakeUpTypes
<1>6. ASSUME NEW p \in Plans, PlanStep(p) PROVE TypeInv'
  BY <1>6, PlanTypes, ResolveTypes, AttemptRowTypes DEF PlanStep
<1>7. ASSUME NEW m \in Machines, SetFreeze(m) \/ Publish(m) \/ ChangeNode(m) PROVE TypeInv'
  BY <1>7, WorldTypes
<1> QED BY <1>1, <1>2, <1>3, <1>4, <1>5, <1>6, <1>7 DEF Next

\* Every row of every behaviour keeps its type: in particular no operation ever has more attempts
\* than its plan's max_attempts, which recordAttemptTx checks under the machine's lock.  What the
\* loops carry is part of the argument: a transaction uses the number its process read earlier.
THEOREM TypeCorrect == Spec => []TypeOK
<1>1. Spec => []TypeInv BY InitTypes, TypeStep, PTL DEF Spec
<1>2. TypeInv => TypeOK BY DEF TypeInv
<1> QED BY <1>1, <1>2, PTL

-----------------------------------------------------------------------------
(* One attempt outstanding, and one writer per cluster. *)

\* What the transactions keep of one operation's attempts.  An attempt is recorded only when none
\* is unaccounted for, so an unaccounted one is the latest; that a standing classification implies
\* it is what lets comparison 8 stand in for a count the code never makes.
PlanAttempts(p) ==
  /\ op[p].state \in {"none", "committed"} => op[p].made = 0
  /\ \A n \in 1..op[p].made : att[p][n].acct = "none" =>
       n = op[p].made /\ op[p].state \in {"sending", "unresolved"}
  /\ \A n \in 1..op[p].made : att[p][n].resp = "rejected" => att[p][n].acct # "none"
  /\ cls[p].obs # 0 /\ ~cls[p].followed => \A n \in 1..op[p].made : att[p][n].acct # "none"

\* At most one operation of a cluster holds its scopes: comparisons 4 and 5.
OneHolder ==
  \A p, q \in Plans :
    SameCluster(p, q) /\ op[p].state \in Holding /\ op[q].state \in Holding => p = q

AttemptsInv == (\A p \in Plans : PlanAttempts(p)) /\ OneHolder

LEMMA AttemptsInit == Init => AttemptsInv
  BY DEF Init, AttemptsInv, PlanAttempts, OneHolder, NoOp, NoClass, Holding

LEMMA AttemptsImply == TypeOK /\ AttemptsInv => OneOutstandingAttempt
<1> SUFFICES ASSUME TypeOK, AttemptsInv, NEW p \in Plans, NEW q \in Plans,
                    NEW n \in Unaccounted(p), NEW k \in Unaccounted(q), SameCluster(p, q)
             PROVE  p = q /\ n = k /\ op[p].state \in Holding
  BY DEF OneOutstandingAttempt
<1>1. n = op[p].made /\ op[p].state \in Holding /\ k = op[q].made /\ op[q].state \in Holding
  BY DEF AttemptsInv, PlanAttempts, Unaccounted, Holding
<1> QED BY <1>1 DEF AttemptsInv, OneHolder

-----------------------------------------------------------------------------
(* Every step keeps the invariant. *)

LEMMA AttemptsStill ==
  ASSUME AttemptsInv, UNCHANGED <<op, cls, att>>
  PROVE  AttemptsInv'
  BY DEF AttemptsInv, PlanAttempts, OneHolder, Holding

\* A step of one operation that does not newly take the scopes.
LEMMA OnePlanStep ==
  ASSUME AttemptsInv, NEW p \in Plans,
         \A q \in Plans \ {p} : op'[q] = op[q] /\ att'[q] = att[q] /\ cls'[q] = cls[q],
         op[p].state \in Holding \/ op'[p].state \notin Holding,
         PlanAttempts(p)'
  PROVE  AttemptsInv'
<1>1. \A q \in Plans : PlanAttempts(q)' BY DEF AttemptsInv, PlanAttempts
<1>2. OneHolder' BY DEF AttemptsInv, OneHolder, SameCluster
<1> QED BY <1>1, <1>2 DEF AttemptsInv

\* A transition that touches no attempt.
LEMMA MoveKeeps ==
  ASSUME TypeOK, AttemptsInv, NEW p \in Plans, NEW s,
         op' = [op EXCEPT ![p].state = s], UNCHANGED att,
         cls' = cls \/ Follow(p),
         op[p].state \in Holding, s \notin {"none", "committed"},
         s \in {"sending", "unresolved"} \/ Unaccounted(p) = {}
  PROVE  AttemptsInv'
<1>1. \A q \in Plans \ {p} : op'[q] = op[q] /\ att'[q] = att[q] /\ cls'[q] = cls[q]
  BY DEF TypeOK, Follow
<1>2. op'[p].state = s /\ op'[p].made = op[p].made /\ att'[p] = att[p] BY DEF TypeOK, OpType
<1>3. cls'[p].obs = cls[p].obs /\ (cls[p].followed => cls'[p].followed) BY DEF TypeOK, ClsType, Follow
<1>4. PlanAttempts(p) BY DEF AttemptsInv
<1>5. PlanAttempts(p)' BY <1>2, <1>3, <1>4 DEF PlanAttempts, Unaccounted
<1> QED BY <1>1, <1>5, OnePlanStep

LEMMA TakenOverKeeps ==
  ASSUME TypeOK, AttemptsInv, NEW c \in Controllers, NEW p \in Plans,
         TakenOver(c, p), op[p].state \in Holding, UNCHANGED att
  PROVE  AttemptsInv'
<1>1. \A q \in Plans \ {p} : op'[q] = op[q] /\ att'[q] = att[q] /\ cls'[q] = cls[q]
  BY DEF TypeOK, TakenOver, Follow
<1>2. op'[p].state = "unresolved" /\ op'[p].made = op[p].made /\ att'[p] = att[p]
  BY DEF TypeOK, OpType, TakenOver
<1>3. cls'[p].obs = cls[p].obs /\ cls'[p].followed BY DEF TypeOK, ClsType, TakenOver, Follow
<1>4. PlanAttempts(p) BY DEF AttemptsInv
<1>5. PlanAttempts(p)' BY <1>2, <1>3, <1>4 DEF PlanAttempts
<1> QED BY <1>1, <1>5, OnePlanStep

LEMMA CommitKeeps ==
  ASSUME TypeOK, AttemptsInv, NEW c \in Controllers, NEW p \in Plans, job[c].plan = p, CommitPlan(c)
  PROVE  AttemptsInv'
<1>1. /\ \A q \in Plans \ {p} : op'[q] = op[q]
      /\ op'[p].state = "committed" /\ op'[p].made = 0
      /\ att' = att /\ cls' = cls
  BY DEF TypeOK, CommitPlan, NoOp
<1>2. \A q \in Plans : PlanAttempts(q)' BY <1>1 DEF AttemptsInv, PlanAttempts
<1>3. \A q \in Plans : SameCluster(p, q) => op[q].state \notin Holding
  BY DEF CommitPlan, RolloutHeld, SameCluster
<1>4. \A q \in Plans : SameCluster(q, p) => SameCluster(p, q) BY DEF SameCluster
<1>5. OneHolder' BY <1>1, <1>3, <1>4 DEF AttemptsInv, OneHolder, SameCluster
<1> QED BY <1>2, <1>5 DEF AttemptsInv

LEMMA RecordAttemptKeeps ==
  ASSUME TypeOK, AttemptsInv, NEW c \in Controllers, NEW p \in Plans, job[c].plan = p, RecordAttempt(c)
  PROVE  AttemptsInv'
<1> DEFINE n == op[p].made + 1
<1>1. PlanAttempts(p) BY DEF AttemptsInv
<1>2. op[p].made \in Nat /\ op[p].made < MaxAttempts /\ n \in Numbers
  BY ConstantsAssumption DEF TypeOK, OpType, RecordAttempt, AttemptsLeft, Numbers
<1>3. \A k \in 1..op[p].made : att[p][k].acct # "none"
  <2>1. op[p].state = "committed" \/ (cls[p].obs # 0 /\ ~cls[p].followed)
    BY DEF RecordAttempt, Movable, Follows
  <2> QED BY <1>1, <1>2, <2>1 DEF PlanAttempts
<1>4. \A q \in Plans \ {p} : op'[q] = op[q] /\ att'[q] = att[q] /\ cls'[q] = cls[q]
  BY DEF TypeOK, RecordAttempt, Follow
<1>5. op[p].state \in Holding BY DEF RecordAttempt, Movable, Holding
<1>6. op'[p].state = "sending" /\ op'[p].made = n BY DEF TypeOK, OpType, RecordAttempt
<1>7. cls'[p].followed BY DEF TypeOK, ClsType, RecordAttempt, Follow
<1>8. /\ \A k \in 1..op[p].made : att'[p][k] = att[p][k]
      /\ att'[p][n].resp = "none"
  <2>1. att \in [Plans -> [Numbers -> AttType]] BY DEF TypeOK
  <2>2. att' = [att EXCEPT ![p][n] = [NoAttempt EXCEPT !.owner = c, !.gen = job[c].gen]]
    BY DEF RecordAttempt
  <2>3. \A k \in 1..op[p].made : k # n BY <1>2
  <2>4. [NoAttempt EXCEPT !.owner = c, !.gen = job[c].gen].resp = "none" BY DEF NoAttempt
  <2> HIDE DEF n
  <2> QED BY <1>2, <2>1, <2>2, <2>3, <2>4
<1>9. PlanAttempts(p)' BY <1>1, <1>2, <1>3, <1>6, <1>7, <1>8 DEF PlanAttempts
<1> QED BY <1>4, <1>5, <1>9, OnePlanStep

LEMMA RefusalKeeps ==
  ASSUME TypeOK, AttemptsInv, NEW c \in Controllers, NEW p \in Plans, job[c].plan = p, SettleAttemptRefusal(c)
  PROVE  AttemptsInv'
<1>1. op[p].made = 0 => Unaccounted(p) = {} BY DEF Unaccounted
<1> QED BY <1>1, MoveKeeps, AttemptsStill DEF SettleAttemptRefusal, MoveOperation, Holding

\* A late response accounts for its own attempt, and ends the operation only when every other
\* attempt was rejected, hence accounted for.
LEMMA ResponseKeeps ==
  ASSUME TypeOK, AttemptsInv, NEW c \in Controllers, NEW p \in Plans, job[c].plan = p, RecordResponse(c)
  PROVE  AttemptsInv'
<1> DEFINE n == job[c].n
           r == job[c].resp
           to == StateAfterResponse(p, n, r)
<1>1. PlanAttempts(p) BY DEF AttemptsInv
<1>2. \A q \in Plans \ {p} : op'[q] = op[q] /\ att'[q] = att[q] /\ cls'[q] = cls[q]
  BY DEF TypeOK, RecordResponse, Follow
<1>3. op'[p].state = to /\ op'[p].made = op[p].made BY DEF TypeOK, OpType, RecordResponse
<1>4. cls'[p].followed BY DEF TypeOK, ClsType, RecordResponse, Follow
<1>5. \A k \in 1..op[p].made :
        /\ k # n => att'[p][k] = att[p][k]
        /\ k = n => /\ att'[p][k].resp = r
                    /\ att[p][k].acct # "none" => att'[p][k].acct # "none"
                    /\ r \in {"accepted", "rejected"} => att'[p][k].acct # "none"
  <2>1. att \in [Plans -> [Numbers -> AttType]] BY DEF TypeOK
  <2>2. \A k \in 1..op[p].made : k \in Numbers
    BY ConstantsAssumption DEF TypeOK, OpType, Numbers
  <2>3. att' = [att EXCEPT ![p][n].resp = r,
                           ![p][n].acct = IF Accounts(r) /\ att[p][n].acct = "none"
                                          THEN "response" ELSE att[p][n].acct]
    BY DEF RecordResponse
  <2> QED BY <2>1, <2>2, <2>3 DEF AttType, Accounts
<1>6. \/ to = op[p].state
      \/ to = "verifying" /\ op[p].state = "sending" /\ n = op[p].made /\ r = "accepted"
      \/ /\ to = "rejected" /\ op[p].state \in {"sending", "unresolved"} /\ r = "rejected"
         /\ \A k \in 1..op[p].made : k # n => att[p][k].resp = "rejected"
      \/ to = "unresolved" /\ op[p].state = "sending"
  BY DEF StateAfterResponse
<1> HIDE DEF to
<1>7. op[p].state \in Holding \/ op'[p].state \notin Holding BY <1>3, <1>6 DEF Holding
<1>8. PlanAttempts(p)' BY <1>1, <1>3, <1>4, <1>5, <1>6 DEF PlanAttempts
<1> QED BY <1>2, <1>7, <1>8, OnePlanStep

LEMMA AttemptRowKeeps ==
  ASSUME TypeOK, AttemptsInv, NEW p \in Plans, NEW n \in Numbers,
         DeadlinePasses(p, n) \/ AccountByDecision(p, n)
  PROVE  AttemptsInv'
<1>1. PlanAttempts(p) BY DEF AttemptsInv
<1>2. \A q \in Plans \ {p} : op'[q] = op[q] /\ att'[q] = att[q] /\ cls'[q] = cls[q]
  BY DEF TypeOK, DeadlinePasses, AccountByDecision
<1>3. op'[p].state = op[p].state /\ op'[p].made = op[p].made /\ cls'[p] = cls[p]
  BY DEF TypeOK, OpType, DeadlinePasses, AccountByDecision
<1>4. \A k \in Numbers : /\ att'[p][k].resp = att[p][k].resp
                         /\ att[p][k].acct # "none" => att'[p][k].acct # "none"
  <2>1. att \in [Plans -> [Numbers -> AttType]] /\ att[p][n] \in AttType BY DEF TypeOK
  <2>2. PICK v \in AttType : /\ att' = [att EXCEPT ![p][n] = v] /\ v.resp = att[p][n].resp
                             /\ att[p][n].acct # "none" => v.acct # "none"
    <3>1. CASE DeadlinePasses(p, n)
      <4>1. Now(M(p)) + 1 \in Nat BY MachineTyped, NowTyped
      <4>2. [att[p][n] EXCEPT !.dl = Now(M(p)) + 1] \in AttType BY <2>1, <4>1 DEF AttType
      <4> WITNESS [att[p][n] EXCEPT !.dl = Now(M(p)) + 1] \in AttType
      <4> QED BY <2>1, <3>1 DEF DeadlinePasses, AttType
    <3>2. CASE AccountByDecision(p, n)
      <4>1. [att[p][n] EXCEPT !.acct = "decision"] \in AttType BY <2>1 DEF AttType
      <4> WITNESS [att[p][n] EXCEPT !.acct = "decision"] \in AttType
      <4> QED BY <2>1, <3>2 DEF AccountByDecision, AttType
    <3> QED BY <3>1, <3>2
  <2> QED BY <2>1, <2>2
<1>5. \A k \in 1..op[p].made : k \in Numbers BY ConstantsAssumption DEF TypeOK, OpType, Numbers
<1>6. PlanAttempts(p)' BY <1>1, <1>3, <1>4, <1>5 DEF PlanAttempts
<1> QED BY <1>2, <1>3, <1>6, OnePlanStep

LEMMA ResolveKeeps ==
  ASSUME TypeOK, AttemptsInv, NEW p \in Plans, ResolveByDecision(p)
  PROVE  AttemptsInv'
<1>1. Unaccounted(p) = {} BY DEF ResolveByDecision, Unaccounted
<1>2. PICK s \in {"cancelled"} : op' = [op EXCEPT ![p].state = s] /\ UNCHANGED <<att, cls>>
  BY DEF ResolveByDecision, MoveOperation
<1>3. op[p].state \in Holding BY DEF ResolveByDecision, Holding
<1> QED BY <1>1, <1>2, <1>3, MoveKeeps

LEMMA SettleKeeps ==
  ASSUME TypeOK, AttemptsInv, NEW c \in Controllers, NEW p \in Plans, job[c].plan = p,
         \/ Complete(c) \/ VerificationLapses(c) \/ ClassifyRetry(c) \/ Fail(c)
  PROVE  AttemptsInv'
<1>1. op[p].state \in Holding
  BY DEF Complete, VerificationLapses, ClassifyRetry, Fail, Settling, Holding
<1>2. CASE VerificationLapses(c)
  <2>1. op' = [op EXCEPT ![p].state = "unresolved"] /\ UNCHANGED <<cls, att>>
    BY <1>2 DEF VerificationLapses, MoveOperation
  <2>2. PICK s \in {"unresolved"} : op' = [op EXCEPT ![p].state = s] BY <2>1
  <2> QED BY <1>1, <2>1, <2>2, MoveKeeps
<1>3. CASE Complete(c) \/ Fail(c)
  <2>1. Unaccounted(p) = {} BY <1>3 DEF Complete, Fail, Settles
  <2>2. PICK s \in {"completed", "failed"} : op' = [op EXCEPT ![p].state = s]
    BY <1>3 DEF Complete, Fail, MoveOperation
  <2>3. UNCHANGED att /\ Follow(p) BY <1>3 DEF Complete, Fail
  <2> QED BY <1>1, <2>1, <2>2, <2>3, MoveKeeps
<1>4. CASE ClassifyRetry(c)
  <2>1. \A k \in 1..op[p].made : att[p][k].acct # "none"
    BY <1>4 DEF ClassifyRetry, Settles, Unaccounted
  <2>2. \A q \in Plans \ {p} : op'[q] = op[q] /\ att'[q] = att[q] /\ cls'[q] = cls[q]
    BY <1>4 DEF TypeOK, ClassifyRetry, MoveOperation
  <2>3. op'[p].state = "unresolved" /\ op'[p].made = op[p].made /\ att'[p] = att[p]
    BY <1>4 DEF TypeOK, OpType, ClassifyRetry, Settling, MoveOperation
  <2>4. PlanAttempts(p) BY DEF AttemptsInv
  <2>5. PlanAttempts(p)' BY <2>1, <2>3, <2>4 DEF PlanAttempts
  <2> QED BY <1>1, <2>2, <2>5, OnePlanStep
<1> QED BY <1>2, <1>3, <1>4

LEMMA AttemptsStep == TypeInv /\ AttemptsInv /\ [Next]_vars => AttemptsInv'
<1> SUFFICES ASSUME TypeInv, AttemptsInv, [Next]_vars PROVE AttemptsInv' OBVIOUS
<1>1. TypeOK BY DEF TypeInv
<1>2. CASE UNCHANGED vars BY <1>2, AttemptsStill DEF vars
<1>3. ASSUME NEW c \in Controllers,
             \/ StartController(c) \/ Crash(c) \/ Drop(c)
             \/ ScanStart(c) \/ ScanRead(c) \/ ScanRecord(c) \/ \E m \in Machines : ScanPick(c, m)
             \/ \E p \in Plans : DispatchPlan(c, p) \/ Advance(c, p)
      PROVE  AttemptsInv'
  BY <1>3, AttemptsStill
     DEF StartController, Crash, Drop, ScanStart, ScanRead, ScanRecord, ScanPick, DispatchPlan, Advance, rows
<1>4. ASSUME NEW c \in Controllers, NEW p \in Plans, TakeOver(c, p) \/ RequestTakeover(c, p)
      PROVE  AttemptsInv'
  BY <1>1, <1>4, TakenOverKeeps, AttemptsStill DEF TakeOver, RequestTakeover
<1>5. ASSUME NEW c \in Controllers, ExecutorStep(c) PROVE AttemptsInv'
  <2>1. CASE \/ StartObservation(c) \/ ReadNode(c) \/ RecordObservation(c) \/ CommitRefused(c)
             \/ RecordCommitRefusal(c) \/ AttemptRefused(c) \/ SendRequest(c) \/ SendFails(c)
             \/ ReceiveAnswer(c)
    BY <2>1, AttemptsStill
       DEF StartObservation, ReadNode, RecordObservation, CommitRefused, RecordCommitRefusal,
           AttemptRefused, SendRequest, SendFails, ReceiveAnswer, rows
  <2>2. CASE \/ CommitPlan(c) \/ RecordAttempt(c) \/ SettleAttemptRefusal(c) \/ RecordResponse(c)
             \/ Complete(c) \/ VerificationLapses(c) \/ ClassifyRetry(c) \/ Fail(c)
    <3>1. job[c].pc # "idle"
      BY <2>2 DEF CommitPlan, RecordAttempt, SettleAttemptRefusal, RecordResponse,
                  Complete, VerificationLapses, ClassifyRetry, Fail, Settling
    <3>2. PICK p \in Plans : job[c].plan = p BY <3>1 DEF TypeInv, LoopsFit, JobFits
    <3> QED BY <1>1, <2>2, <3>2, CommitKeeps, RecordAttemptKeeps, RefusalKeeps, ResponseKeeps, SettleKeeps
  <2> QED BY <1>5, <2>1, <2>2 DEF ExecutorStep
<1>6. ASSUME NEW p \in Plans, PlanStep(p) PROVE AttemptsInv'
  <2>1. CASE CreatePlan(p) \/ ApprovePlan(p) \/ CancelPlan(p) \/ RevokeApproval(p) \/ Lapse(p)
    BY <2>1, AttemptsStill DEF CreatePlan, ApprovePlan, CancelPlan, RevokeApproval, Lapse
  <2>2. CASE ResolveByDecision(p) BY <1>1, <2>2, ResolveKeeps
  <2>3. ASSUME NEW n \in Numbers, NodeHandles(p, n) PROVE AttemptsInv'
    BY <2>3, AttemptsStill DEF NodeHandles, rows
  <2>4. ASSUME NEW n \in Numbers, DeadlinePasses(p, n) \/ AccountByDecision(p, n) PROVE AttemptsInv'
    BY <1>1, <2>4, AttemptRowKeeps
  <2> QED BY <1>6, <2>1, <2>2, <2>3, <2>4 DEF PlanStep
<1>7. ASSUME NEW m \in Machines, SetFreeze(m) \/ Publish(m) \/ ChangeNode(m) PROVE AttemptsInv'
  BY <1>7, AttemptsStill DEF SetFreeze, Publish, ChangeNode, rows
<1> QED BY <1>2, <1>3, <1>4, <1>5, <1>6, <1>7 DEF Next

\* Whatever the processes, takeovers, crashes, late responses and decisions, at most one attempt of
\* a cluster is unaccounted for, and its operation holds the scopes: recordAttemptTx, which counts no
\* unaccounted attempt itself, relies on commitTx's comparisons 4 and 5 and on comparison 8.
THEOREM OneOutstanding == Spec => []OneOutstandingAttempt
<1>1. Spec => []TypeInv BY InitTypes, TypeStep, PTL DEF Spec
<1>2. Spec => []AttemptsInv BY <1>1, AttemptsInit, AttemptsStep, PTL DEF Spec
<1>3. TypeInv /\ AttemptsInv => OneOutstandingAttempt BY AttemptsImply DEF TypeInv
<1> QED BY <1>1, <1>2, <1>3, PTL

-----------------------------------------------------------------------------
(* The request of an attempt: what its row and its process know of it. *)

\* A recorded or received response class tells what the node did.
Truly(r, w) ==
  /\ r = "accepted" => w = "applied"
  /\ r = "rejected" => w = "refused"
  /\ r = "code" => w \in {"applied", "refused"}

Sends(j)    == j.pc \in {"send", "wait", "respond"}
ToSettle(j) == j.pc = "settle" \/ (j.pc \in {"observe", "reading", "record"} /\ j.next = "settle")

\* The process that has a request to make or to answer for is the one that recorded the attempt,
\* and no other has it: an attempt's response is recorded once.
RequestFits(c, j) ==
  Sends(j) =>
    /\ j.n \in 1..op[j.plan].made
    /\ att[j.plan][j.n].owner = c /\ att[j.plan][j.n].gen = j.gen /\ att[j.plan][j.n].resp = "none"
    /\ j.pc = "send" => wire[j.plan][j.n] = "unsent"
    /\ j.pc = "respond" => Truly(j.resp, wire[j.plan][j.n])

\* A process on its way to settle an operation it still owns left no attempt unaccounted for: only
\* the owner records one, and it is busy.
SettleFits(c, j) ==
  ToSettle(j) =>
    /\ op[j.plan].state # "none" /\ j.gen <= op[j.plan].gen
    /\ Owns(c, j.plan, j.gen) => Unaccounted(j.plan) = {}

RowTrue(p, n) ==
  /\ n > op[p].made => wire[p][n] = "unsent"
  /\ n <= op[p].made =>
       /\ Truly(att[p][n].resp, wire[p][n])
       /\ att[p][n].acct = "response" => att[p][n].resp # "none" /\ wire[p][n] \in {"applied", "refused"}
       /\ att[p][n].acct = "decision" => att[p][n].dl # 0 /\ att[p][n].gen < op[p].gen
       /\ att[p][n].gen <= op[p].gen
       /\ att[p][n].gen = op[p].gen => att[p][n].owner = op[p].owner

OpTrue(p) ==
  /\ op[p].state = "cancelled" => op[p].made = 0
  /\ op[p].state = "rejected" => \A n \in 1..op[p].made : wire[p][n] = "refused"
  /\ \A n, k \in 1..op[p].made : n < k /\ att[p][n].acct = "decision" => att[p][n].gen < att[p][k].gen

PlanTrue(p) == OpTrue(p) /\ \A n \in Numbers : RowTrue(p, n)
JobsTrue    == \A c \in Controllers : RequestFits(c, job[c]) /\ SettleFits(c, job[c])
SendInv     == JobsTrue /\ \A p \in Plans : PlanTrue(p)

LEMMA SendInit == Init => SendInv
<1> SUFFICES ASSUME Init PROVE SendInv OBVIOUS
<1>1. JobsTrue BY DEF Init, JobsTrue, RequestFits, SettleFits, Sends, ToSettle, NoJob
<1>2. \A p \in Plans, n \in Numbers : op[p].made = 0 /\ op[p].state = "none" /\ wire[p][n] = "unsent"
  BY DEF Init, NoOp
<1>3. \A n \in Numbers : ~(n <= 0) BY ConstantsAssumption DEF Numbers
<1>4. \A p \in Plans : OpTrue(p) /\ \A n \in Numbers : RowTrue(p, n)
  BY <1>2, <1>3 DEF Init, OpTrue, RowTrue, NoOp
<1> QED BY <1>1, <1>4 DEF SendInv, PlanTrue

\* A request that can still reach its node belongs to an attempt nothing has accounted for.
LEMMA LandingUnaccounted ==
  ASSUME TypeInv, SendInv, NEW p \in Plans, NEW n \in Numbers, MayLand(p, n)
  PROVE  n \in Unaccounted(p)
<1>1. att[p][n].acct \in {"none", "response", "decision"} BY DEF TypeInv, TypeOK, AttType
<1>2. RowTrue(p, n) BY DEF SendInv, PlanTrue
<1>3. n \in Nat /\ n >= 1 /\ op[p].made \in Nat
  BY ConstantsAssumption DEF Numbers, TypeInv, TypeOK, OpType
<1>4. CASE wire[p][n] = "flight" /\ att[p][n].acct # "decision"
  BY <1>1, <1>2, <1>3, <1>4 DEF RowTrue, Unaccounted
<1>5. CASE \E c \in Controllers : job[c].pc = "send" /\ job[c].plan = p /\ job[c].n = n /\ att[p][n].dl = 0
  <2>1. PICK c \in Controllers : job[c].pc = "send" /\ job[c].plan = p /\ job[c].n = n /\ att[p][n].dl = 0
    BY <1>5
  <2>2. RequestFits(c, job[c]) BY DEF SendInv, JobsTrue
  <2>3. n <= op[p].made /\ att[p][n].resp = "none" BY <1>3, <2>1, <2>2 DEF RequestFits, Sends
  <2> QED BY <1>1, <1>2, <1>3, <2>1, <2>3 DEF RowTrue, Unaccounted
<1> QED BY <1>4, <1>5 DEF MayLand

LEMMA SendImplies ==
  ASSUME TypeInv, AttemptsInv, SendInv
  PROVE  OneWriter /\ UnchangedIsTrue /\ AccountingStands
<1>1. TypeOK BY DEF TypeInv
<1>2. OneOutstandingAttempt BY <1>1, AttemptsImply
<1>3. OneWriter BY <1>2, LandingUnaccounted DEF OneWriter, OneOutstandingAttempt
<1>4. UnchangedIsTrue
  <2> SUFFICES ASSUME NEW p \in Plans
               PROVE  /\ op[p].state = "rejected" => \A n \in 1..op[p].made : wire[p][n] = "refused"
                      /\ op[p].state = "cancelled" =>
                           /\ \A n \in Numbers : wire[p][n] = "unsent"
                           /\ \A c \in Controllers : job[c].plan = p =>
                                job[c].pc \notin {"send", "wait", "respond"}
    BY DEF UnchangedIsTrue
  <2>1. OpTrue(p) /\ \A n \in Numbers : RowTrue(p, n) BY DEF SendInv, PlanTrue
  <2>2. ASSUME op[p].state = "cancelled" PROVE \A n \in Numbers : wire[p][n] = "unsent"
    BY <2>1, <2>2, ConstantsAssumption DEF OpTrue, RowTrue, Numbers
  <2>3. ASSUME op[p].state = "cancelled", NEW c \in Controllers, job[c].plan = p
        PROVE  job[c].pc \notin {"send", "wait", "respond"}
    <3>1. RequestFits(c, job[c]) BY DEF SendInv, JobsTrue
    <3> QED BY <2>1, <2>3, <3>1 DEF OpTrue, RequestFits, Sends
  <2> QED BY <2>1, <2>2, <2>3 DEF OpTrue
<1>5. AccountingStands
  <2>1. \A c \in Controllers : Settling(c) => Unaccounted(job[c].plan) = {}
    BY DEF SendInv, JobsTrue, SettleFits, ToSettle, Settling
  <2> QED BY <2>1 DEF AccountingStands, SendInv, PlanTrue, OpTrue
<1> QED BY <1>3, <1>4, <1>5


-----------------------------------------------------------------------------
(* Every step keeps it. *)

SamePlan(q) == op'[q] = op[q] /\ att'[q] = att[q] /\ wire'[q] = wire[q]

\* What a step on plan q leaves to process d, whose own request and settling it is not.
Keeps(d, q) ==
  /\ op[q].made <= op'[q].made
  /\ \A n \in 1..op[q].made : att[q][n].owner = d =>
       /\ att'[q][n].owner = d /\ att'[q][n].gen = att[q][n].gen /\ att'[q][n].resp = att[q][n].resp
       /\ wire'[q][n] = wire[q][n] \/ wire[q][n] = "flight"
  /\ op[q].state # "none" =>
       /\ op'[q].state # "none"
       /\ \/ op'[q].gen = op[q].gen + 1
          \/ /\ op'[q].gen = op[q].gen /\ op'[q].owner = op[q].owner
             /\ \/ op'[q].owner # d
                \/ /\ op'[q].made = op[q].made
                   /\ \A n \in 1..op[q].made : att[q][n].acct # "none" => att'[q][n].acct # "none"

LEMMA SameKeeps ==
  ASSUME TypeOK, NEW q \in Plans, NEW d, SamePlan(q)
  PROVE  Keeps(d, q)
  BY DEF SamePlan, Keeps, TypeOK, OpType

LEMMA OtherKept ==
  ASSUME TypeOK, TypeOK', NEW d \in Controllers, NEW k \in JobType, k.pc # "idle" => k.plan \in Plans,
         RequestFits(d, k), SettleFits(d, k), k.plan \in Plans => Keeps(d, k.plan)
  PROVE  RequestFits(d, k)' /\ SettleFits(d, k)'
<1>1. CASE Sends(k)
  <2>1. k.plan \in Plans BY <1>1 DEF Sends
  <2> DEFINE q == k.plan
             n == k.n
  <2>2. n \in 1..op[q].made /\ att[q][n].owner = d /\ att[q][n].gen = k.gen /\ att[q][n].resp = "none"
    BY <1>1 DEF RequestFits
  <2>3. op[q].made \in Nat /\ op'[q].made \in Nat /\ op[q].made <= op'[q].made
    BY <2>1 DEF TypeOK, OpType, Keeps
  <2>4. /\ att'[q][n].owner = d /\ att'[q][n].gen = att[q][n].gen /\ att'[q][n].resp = att[q][n].resp
        /\ wire'[q][n] = wire[q][n] \/ wire[q][n] = "flight"
    BY <2>1, <2>2 DEF Keeps
  <2>5. n \in 1..op'[q].made BY <2>2, <2>3
  <2>6. RequestFits(d, k)' BY <1>1, <2>2, <2>4, <2>5 DEF RequestFits, Sends, Truly
  <2>7. ~ToSettle(k) BY <1>1 DEF Sends, ToSettle
  <2> QED BY <2>6, <2>7 DEF SettleFits, ToSettle
<1>2. CASE ToSettle(k)
  <2>1. k.plan \in Plans BY <1>2 DEF ToSettle
  <2> DEFINE q == k.plan
  <2>2. op[q].gen \in Nat /\ op'[q].gen \in Nat /\ k.gen \in Nat BY <2>1 DEF TypeOK, OpType, JobType
  <2>3. op[q].state # "none" /\ k.gen <= op[q].gen /\ (Owns(d, q, k.gen) => Unaccounted(q) = {})
    BY <1>2 DEF SettleFits
  <2>4. op'[q].state # "none" /\ k.gen <= op'[q].gen BY <2>1, <2>2, <2>3 DEF Keeps
  <2>5. ASSUME op'[q].owner = d, op'[q].gen = k.gen PROVE Unaccounted(q)' = {}
    <3>1. op'[q].gen = op[q].gen BY <2>1, <2>2, <2>3, <2>5 DEF Keeps
    <3>2. op[q].gen # op[q].gen + 1 BY <2>2
    <3>3. /\ op'[q].owner = op[q].owner /\ op'[q].made = op[q].made
          /\ \A n \in 1..op[q].made : att[q][n].acct # "none" => att'[q][n].acct # "none"
      BY <2>1, <2>3, <2>5, <3>1, <3>2 DEF Keeps
    <3>4. \A n \in 1..op[q].made : att[q][n].acct # "none" BY <2>3, <2>5, <3>1, <3>3 DEF Owns, Unaccounted
    <3> QED BY <3>3, <3>4 DEF Unaccounted
  <2>6. SettleFits(d, k)' BY <2>4, <2>5 DEF SettleFits, Owns
  <2>7. ~Sends(k) BY <1>2 DEF Sends, ToSettle
  <2> QED BY <2>6, <2>7 DEF RequestFits, Sends
<1>3. CASE ~Sends(k) /\ ~ToSettle(k) BY <1>3 DEF RequestFits, SettleFits, Sends, ToSettle
<1> QED BY <1>1, <1>2, <1>3

\* A step of one plan: its own rows stay true, and every process either keeps its job beside the
\* step or has a new one that fits.
LEMMA SendFrame ==
  ASSUME TypeInv, TypeInv', SendInv, NEW p \in Plans, \A q \in Plans \ {p} : SamePlan(q),
         PlanTrue(p)',
         \A d \in Controllers :
           \/ job'[d] = job[d] /\ Keeps(d, p)
           \/ \A k \in JobType : k = job'[d] => RequestFits(d, k)' /\ SettleFits(d, k)'
  PROVE  SendInv'
<1>1. TypeOK /\ TypeOK' BY DEF TypeInv
<1>2. ASSUME NEW q \in Plans PROVE PlanTrue(q)'
  <2>1. CASE q = p BY <2>1
  <2>2. CASE q # p
    <3>1. SamePlan(q) /\ PlanTrue(q) BY <2>2 DEF SendInv
    <3> QED BY <3>1 DEF SamePlan, PlanTrue, OpTrue, RowTrue
  <2> QED BY <2>1, <2>2
<1>3. ASSUME NEW d \in Controllers PROVE RequestFits(d, job[d])' /\ SettleFits(d, job[d])'
  <2>1. PICK k \in JobType : k = job'[d] BY <1>1 DEF TypeOK
  <2>2. RequestFits(d, k)' /\ SettleFits(d, k)'
    <3>1. CASE job'[d] = job[d] /\ Keeps(d, p)
      <4>1. k = job[d] BY <2>1, <3>1
      <4>2. k.pc # "idle" => k.plan \in Plans BY <4>1 DEF TypeInv, LoopsFit, JobFits
      <4>3. RequestFits(d, job[d]) /\ SettleFits(d, job[d]) BY DEF SendInv, JobsTrue
      <4>4. RequestFits(d, k) /\ SettleFits(d, k) BY <4>1, <4>3
      <4>5. k.plan \in Plans => Keeps(d, k.plan)
        <5>1. ASSUME k.plan \in Plans, k.plan # p PROVE Keeps(d, k.plan) BY <1>1, <5>1, SameKeeps
        <5>2. ASSUME k.plan = p PROVE Keeps(d, k.plan) BY <3>1, <5>2 DEF Keeps
        <5> QED BY <5>1, <5>2
      <4> QED BY <1>1, <4>2, <4>4, <4>5, OtherKept
    <3>2. CASE \A k2 \in JobType : k2 = job'[d] => RequestFits(d, k2)' /\ SettleFits(d, k2)'
      BY <2>1, <3>2 DEF RequestFits, SettleFits
    <3> HIDE <3>1
    <3> QED BY <3>1, <3>2
  <2> QED BY <2>1, <2>2 DEF RequestFits, SettleFits, Owns, Unaccounted
<1> QED BY <1>2, <1>3 DEF SendInv, JobsTrue

\* A step that touches no row: only the job of c changes.
LEMMA JobFrame ==
  ASSUME TypeInv, TypeInv', SendInv, UNCHANGED <<op, att, wire>>, NEW c \in Controllers,
         \A d \in Controllers \ {c} : job'[d] = job[d],
         \A k \in JobType : k = job'[c] => RequestFits(c, k) /\ SettleFits(c, k)
  PROVE  SendInv'
<1>1. TypeOK' BY DEF TypeInv
<1>2. \A q \in Plans : PlanTrue(q)' BY DEF SendInv, PlanTrue, OpTrue, RowTrue
<1>3. ASSUME NEW d \in Controllers PROVE RequestFits(d, job[d])' /\ SettleFits(d, job[d])'
  <2>1. PICK k \in JobType : k = job'[d] BY <1>1 DEF TypeOK
  <2>2. RequestFits(d, k) /\ SettleFits(d, k)
    <3>1. CASE d = c BY <2>1, <3>1
    <3>2. CASE d # c
      <4>1. k = job[d] BY <2>1, <3>2
      <4>2. RequestFits(d, job[d]) /\ SettleFits(d, job[d]) BY DEF SendInv, JobsTrue
      <4> QED BY <4>1, <4>2
    <3> QED BY <3>1, <3>2
  <2> QED BY <2>1, <2>2 DEF RequestFits, SettleFits, Owns, Unaccounted
<1> QED BY <1>2, <1>3 DEF SendInv, JobsTrue

\* Steps that change only what their own process is doing.
LEMMA JobSends ==
  ASSUME TypeInv, TypeInv', SendInv, NEW c \in Controllers,
         \/ Crash(c) \/ Drop(c) \/ StartObservation(c) \/ ReadNode(c) \/ RecordObservation(c)
         \/ CommitRefused(c) \/ RecordCommitRefusal(c) \/ AttemptRefused(c)
         \/ SendFails(c) \/ ReceiveAnswer(c)
  PROVE  SendInv'
<1>1. TypeOK BY DEF TypeInv
<1>2. UNCHANGED <<op, att, wire>>
  BY DEF Crash, Drop, StartObservation, ReadNode, RecordObservation, CommitRefused, RecordCommitRefusal,
         AttemptRefused, SendFails, ReceiveAnswer, rows
<1>3. PICK j \in JobType : j = job[c] BY <1>1 DEF TypeOK
<1>4. RequestFits(c, j) /\ SettleFits(c, j)
  <2>1. RequestFits(c, job[c]) /\ SettleFits(c, job[c]) BY DEF SendInv, JobsTrue
  <2> QED BY <1>3, <2>1
<1>5. job \in [Controllers -> JobType] BY <1>1 DEF TypeOK
<1>6. \A d \in Controllers \ {c} : job'[d] = job[d]
  BY <1>5 DEF Crash, Drop, StartObservation, ReadNode, RecordObservation, CommitRefused, RecordCommitRefusal,
         AttemptRefused, SendFails, ReceiveAnswer, SetJob
<1>7. ASSUME NEW k \in JobType, k = job'[c] PROVE RequestFits(c, k) /\ SettleFits(c, k)
  <2>1. CASE ~Sends(k) /\ ~ToSettle(k) BY <2>1 DEF RequestFits, SettleFits
  <2>2. CASE Crash(c) \/ Drop(c) \/ RecordCommitRefusal(c)
    <3>1. k = NoJob BY <1>5, <1>7, <2>2 DEF Crash, Drop, RecordCommitRefusal, SetJob
    <3> QED BY <3>1, <2>1 DEF NoJob, Sends, ToSettle
  <2>3. CASE CommitRefused(c)
    <3>1. \/ job' = [job EXCEPT ![c] = NoJob]
          \/ \E b : job' = [job EXCEPT ![c] = [j EXCEPT !.pc = "refuse", !.n = b]]
      BY <1>3, <2>3 DEF CommitRefused, SetJob
    <3>2. k = NoJob \/ \E b : k = [j EXCEPT !.pc = "refuse", !.n = b] BY <1>5, <1>7, <3>1
    <3>3. k.pc \in {"idle", "refuse"}
      <4>1. CASE k = NoJob BY <4>1 DEF NoJob
      <4>2. CASE \E b : k = [j EXCEPT !.pc = "refuse", !.n = b] BY <4>2 DEF JobType
      <4> QED BY <3>2, <4>1, <4>2
    <3> QED BY <3>3, <2>1 DEF Sends, ToSettle
  <2>4. CASE AttemptRefused(c)
    <3>1. k.pc = "refused" BY <1>3, <1>5, <1>7, <2>4 DEF AttemptRefused, SetJob, JobType
    <3> QED BY <3>1, <2>1 DEF Sends, ToSettle
  <2>5. CASE StartObservation(c) \/ ReadNode(c)
    <3>1. /\ k.pc \in {"reading", "record"} /\ k.plan = j.plan /\ k.gen = j.gen /\ k.next = j.next
          /\ j.pc \in {"observe", "reading"}
      <4>1. \/ /\ j.pc = "observe"
               /\ \E n : job' = [job EXCEPT ![c] = [j EXCEPT !.pc = "reading", !.n = n]]
            \/ /\ j.pc = "reading"
               /\ \E r : job' = [job EXCEPT ![c] = [j EXCEPT !.pc = "record", !.read = r]]
        BY <1>3, <2>5 DEF StartObservation, ReadNode, SetJob
      <4>2. \/ j.pc = "observe" /\ \E n : k = [j EXCEPT !.pc = "reading", !.n = n]
            \/ j.pc = "reading" /\ \E r : k = [j EXCEPT !.pc = "record", !.read = r]
        BY <1>5, <1>7, <4>1
      <4> QED BY <4>2 DEF JobType
    <3> QED BY <1>4, <3>1 DEF RequestFits, SettleFits, Sends, ToSettle
  <2>6. CASE RecordObservation(c)
    <3>1. \/ k.pc = "idle"
          \/ k.pc = j.next /\ k.plan = j.plan /\ k.gen = j.gen /\ k.next = j.next
      BY <1>3, <1>5, <1>7, <2>6 DEF RecordObservation, SetJob, JobType, NoJob
    <3>2. j.pc = "record" /\ j.next \in {"idle", "commit", "settle"} BY <1>3, <2>6 DEF RecordObservation, JobType
    <3> QED BY <1>4, <3>1, <3>2 DEF RequestFits, SettleFits, Sends, ToSettle
  <2>7. CASE SendFails(c)
    <3>1. /\ k.pc = "respond" /\ k.plan = j.plan /\ k.gen = j.gen /\ k.n = j.n /\ k.resp = "transport"
          /\ j.pc = "send"
      BY <1>3, <1>5, <1>7, <2>7 DEF SendFails, SetJob, JobType
    <3> QED BY <1>4, <3>1 DEF RequestFits, SettleFits, Sends, ToSettle, Truly
  <2>8. CASE ReceiveAnswer(c)
    <3>1. PICK r \in Answers(wire[j.plan][j.n]) : job' = [job EXCEPT ![c] = [job[c] EXCEPT !.pc = "respond", !.resp = r]]
      BY <1>3, <2>8 DEF ReceiveAnswer, SetJob
    <3>2. /\ k.pc = "respond" /\ k.plan = j.plan /\ k.gen = j.gen /\ k.n = j.n /\ k.resp = r
          /\ j.pc = "wait"
      <4>1. k = [j EXCEPT !.pc = "respond", !.resp = r] BY <1>3, <1>5, <1>7, <3>1
      <4>2. j.pc = "wait" BY <1>3, <2>8 DEF ReceiveAnswer
      <4> QED BY <4>1, <4>2 DEF JobType
    <3>3. Truly(r, wire[j.plan][j.n]) BY <3>1 DEF Answers, Truly
    <3> QED BY <1>4, <3>2, <3>3 DEF RequestFits, SettleFits, Sends, ToSettle
  <2> QED BY <2>2, <2>3, <2>4, <2>5, <2>6, <2>7, <2>8
<1> QED BY <1>2, <1>6, <1>7, JobFrame

\* What an owner takes up next: it goes on to settle only with every attempt accounted for.
LEMMA TakeUpSends ==
  ASSUME TypeInv, TypeInv', AttemptsInv, SendInv, NEW c \in Controllers, NEW p \in Plans,
         DispatchPlan(c, p) \/ Advance(c, p)
  PROVE  SendInv'
<1>1. TypeOK BY DEF TypeInv
<1>2. UNCHANGED <<op, att, wire>> BY DEF DispatchPlan, Advance, rows
<1>3. job \in [Controllers -> JobType] BY <1>1 DEF TypeOK
<1>4. \A d \in Controllers \ {c} : job'[d] = job[d] BY <1>3 DEF DispatchPlan, Advance, SetJob
<1>5. ASSUME NEW k \in JobType, k = job'[c] PROVE RequestFits(c, k) /\ SettleFits(c, k)
  <2>1. CASE DispatchPlan(c, p)
    <3>1. k.pc = "observe" /\ k.next = "commit"
      BY <1>3, <1>5, <2>1 DEF DispatchPlan, SetJob, ObserveJob, NoJob
    <3> QED BY <3>1 DEF RequestFits, SettleFits, Sends, ToSettle
  <2>2. CASE Advance(c, p)
    <3>1. k \in NextJobs(p) BY <1>3, <1>5, <2>2 DEF Advance, SetJob
    <3>2. op[p].state \in {"committed", "verifying", "unresolved"} /\ op[p].gen \in Nat
      BY <1>1, <2>2 DEF Advance, TypeOK, OpType
    <3>3. PlanAttempts(p) BY DEF AttemptsInv
    <3>4. \/ ~Sends(k) /\ ~ToSettle(k)
          \/ k.pc = "observe" /\ k.plan = p /\ k.gen = op[p].gen /\ Unaccounted(p) = {}
      <4>1. CASE op[p].made = 0 /\ op[p].state # "verifying" /\ dead[p]
        <5>1. Unaccounted(p) = {} BY <4>1 DEF Unaccounted
        <5>2. k = [NoJob EXCEPT !.pc = "refused", !.plan = p, !.gen = op[p].gen]
          BY <3>1, <4>1, <5>1 DEF NextJobs
        <5> QED BY <5>2 DEF NoJob, Sends, ToSettle
      <4>2. CASE op[p].state = "committed" /\ ~(op[p].made = 0 /\ dead[p])
        BY <3>1, <4>2 DEF NextJobs, AttemptJob, NoJob, Sends, ToSettle
      <4>3. CASE op[p].state = "verifying"
        <5>1. Unaccounted(p) = {} BY <3>3, <4>3 DEF PlanAttempts, Unaccounted
        <5> QED BY <3>1, <4>3, <5>1 DEF NextJobs, ObserveJob, NoJob
      <4>4. CASE op[p].state = "unresolved" /\ Unaccounted(p) # {} /\ ~(op[p].made = 0 /\ dead[p])
        BY <3>1, <4>4 DEF NextJobs, ObserveJob, NoJob, Sends, ToSettle
      <4>5. CASE op[p].state = "unresolved" /\ Unaccounted(p) = {} /\ ~(op[p].made = 0 /\ dead[p])
        <5>1. op[p].state # "verifying" /\ op[p].state # "committed" BY <4>5
        <5>2. k \in {ObserveJob(p, op[p].gen, IF op[p].made > 0 THEN "completion" ELSE "recovery", "settle")}
                     \cup (IF RetryStands(p) THEN {AttemptJob(p, op[p].gen)} ELSE {})
          BY <3>1, <4>5, <5>1 DEF NextJobs
        <5>3. \/ \E u : k = ObserveJob(p, op[p].gen, u, "settle")
              \/ k = AttemptJob(p, op[p].gen)
          BY <5>2
        <5> QED BY <4>5, <5>3 DEF ObserveJob, AttemptJob, NoJob, Sends, ToSettle
      <4> QED BY <3>2, <4>1, <4>2, <4>3, <4>4, <4>5
    <3> QED BY <3>2, <3>4 DEF RequestFits, SettleFits, Sends
  <2> QED BY <2>1, <2>2
<1> QED BY <1>2, <1>4, <1>5, JobFrame

\* A transition that makes and accounts for no attempt, by whichever process or decision.
LEMMA MoveSends ==
  ASSUME TypeInv, TypeInv', SendInv, NEW p \in Plans, NEW s, op' = [op EXCEPT ![p].state = s],
         UNCHANGED <<att, wire>>, op[p].state \in Holding, s \notin {"none", "rejected"},
         s = "cancelled" => op[p].made = 0,
         \A d \in Controllers : job'[d] = job[d] \/ (~Sends(job'[d]) /\ ~ToSettle(job'[d]))
  PROVE  SendInv'
<1>1. TypeOK BY DEF TypeInv
<1>2. \A q \in Plans \ {p} : SamePlan(q) BY <1>1 DEF TypeOK, SamePlan
<1>3. /\ op'[p].state = s /\ op'[p].made = op[p].made /\ op'[p].gen = op[p].gen
      /\ op'[p].owner = op[p].owner /\ att'[p] = att[p] /\ wire'[p] = wire[p]
  BY <1>1 DEF TypeOK, OpType
<1>4. PlanTrue(p) BY DEF SendInv
<1>5. PlanTrue(p)' BY <1>3, <1>4 DEF PlanTrue, OpTrue, RowTrue
<1>6. \A d \in Controllers : Keeps(d, p) BY <1>1, <1>3 DEF Keeps, TypeOK, OpType
<1>7. \A d \in Controllers : ~Sends(job'[d]) /\ ~ToSettle(job'[d]) =>
        \A k \in JobType : k = job'[d] => RequestFits(d, k)' /\ SettleFits(d, k)'
  BY DEF RequestFits, SettleFits
<1> QED BY <1>2, <1>5, <1>6, <1>7, SendFrame

LEMMA RefusalSends ==
  ASSUME TypeInv, TypeInv', SendInv, NEW c \in Controllers, NEW p \in Plans, job[c].plan = p,
         SettleAttemptRefusal(c)
  PROVE  SendInv'
<1>1. job \in [Controllers -> JobType] /\ UNCHANGED <<att, wire>>
  BY DEF TypeInv, TypeOK, SettleAttemptRefusal
<1>2. job' = [job EXCEPT ![c] = NoJob] BY DEF SettleAttemptRefusal, SetJob
<1>3. ~Sends(NoJob) /\ ~ToSettle(NoJob) BY DEF NoJob, Sends, ToSettle
<1>4. \A d \in Controllers : job'[d] = job[d] \/ (~Sends(job'[d]) /\ ~ToSettle(job'[d]))
  BY <1>1, <1>2, <1>3
<1>5. CASE UNCHANGED op
  <2>1. \A k \in JobType : k = job'[c] => RequestFits(c, k) /\ SettleFits(c, k)
    BY <1>1, <1>2, <1>3 DEF RequestFits, SettleFits
  <2>2. \A d \in Controllers \ {c} : job'[d] = job[d] BY <1>1, <1>2
  <2> QED BY <1>1, <1>5, <2>1, <2>2, JobFrame
<1>6. CASE ~UNCHANGED op
  <2>1. PICK s \in {"cancelled", "unresolved"} :
          op' = [op EXCEPT ![p].state = s] /\ (s = "cancelled" => op[p].made = 0)
    BY <1>6 DEF SettleAttemptRefusal, MoveOperation
  <2>2. op[p].state \in Holding BY <1>6 DEF SettleAttemptRefusal, Holding
  <2> QED BY <1>1, <1>4, <2>1, <2>2, MoveSends
<1> QED BY <1>5, <1>6

LEMMA ResolveSends ==
  ASSUME TypeInv, TypeInv', SendInv, NEW p \in Plans, ResolveByDecision(p)
  PROVE  SendInv'
<1>1. PICK s \in {"cancelled"} : op' = [op EXCEPT ![p].state = s]
  BY DEF ResolveByDecision, MoveOperation
<1>2. UNCHANGED <<att, wire, job>> /\ op[p].state \in Holding /\ op[p].made = 0
  BY DEF ResolveByDecision, Holding, loops
<1> QED BY <1>1, <1>2, MoveSends

LEMMA SettleSends ==
  ASSUME TypeInv, TypeInv', SendInv, NEW c \in Controllers, NEW p \in Plans, job[c].plan = p,
         \/ Complete(c) \/ VerificationLapses(c) \/ ClassifyRetry(c) \/ Fail(c)
  PROVE  SendInv'
<1>1. job \in [Controllers -> JobType] /\ UNCHANGED <<att, wire>>
  BY DEF TypeInv, TypeOK, Complete, VerificationLapses, ClassifyRetry, Fail
<1>2. job' = [job EXCEPT ![c] = NoJob] \/ job' = [job EXCEPT ![c] = AttemptJob(p, job[c].gen)]
  BY DEF Complete, VerificationLapses, ClassifyRetry, Fail, SetJob
<1>3. /\ ~Sends(NoJob) /\ ~ToSettle(NoJob)
      /\ ~Sends(AttemptJob(p, job[c].gen)) /\ ~ToSettle(AttemptJob(p, job[c].gen))
  BY DEF NoJob, AttemptJob, Sends, ToSettle
<1>4. \A d \in Controllers : job'[d] = job[d] \/ (~Sends(job'[d]) /\ ~ToSettle(job'[d]))
  BY <1>1, <1>2, <1>3
<1>5. op[p].state \in Holding
  BY DEF Complete, VerificationLapses, ClassifyRetry, Fail, Settling, Holding
<1>6. CASE UNCHANGED op
  <2>1. \A k \in JobType : k = job'[c] => RequestFits(c, k) /\ SettleFits(c, k)
    BY <1>1, <1>2, <1>3 DEF RequestFits, SettleFits
  <2>2. \A d \in Controllers \ {c} : job'[d] = job[d] BY <1>1, <1>2
  <2> QED BY <1>1, <1>6, <2>1, <2>2, JobFrame
<1>7. CASE ~UNCHANGED op
  <2>1. PICK s \in {"completed", "unresolved", "failed"} : op' = [op EXCEPT ![p].state = s]
    BY <1>7 DEF Complete, VerificationLapses, ClassifyRetry, Fail, MoveOperation
  <2> QED BY <1>1, <1>4, <1>5, <2>1, MoveSends
<1> QED BY <1>6, <1>7

LEMMA TakenOverSends ==
  ASSUME TypeInv, TypeInv', SendInv, NEW c \in Controllers, NEW p \in Plans,
         TakenOver(c, p), op[p].state \in Holding, UNCHANGED <<att, wire, job>>
  PROVE  SendInv'
<1>1. TypeOK BY DEF TypeInv
<1>2. \A q \in Plans \ {p} : SamePlan(q) BY <1>1 DEF TypeOK, SamePlan, TakenOver
<1>3. /\ op'[p].state = "unresolved" /\ op'[p].made = op[p].made /\ op'[p].gen = op[p].gen + 1
      /\ att'[p] = att[p] /\ wire'[p] = wire[p] /\ op[p].gen \in Nat /\ op[p].made \in Nat
  BY <1>1 DEF TypeOK, OpType, TakenOver
<1>4. PlanTrue(p) BY DEF SendInv
<1>5. \A n \in Numbers : att[p][n].gen \in Nat BY <1>1 DEF TypeOK, AttType
<1>6. PlanTrue(p)' BY <1>3, <1>4, <1>5 DEF PlanTrue, OpTrue, RowTrue
<1>7. \A d \in Controllers : Keeps(d, p) BY <1>3 DEF Keeps
<1> QED BY <1>2, <1>6, <1>7, SendFrame

LEMMA CommitSends ==
  ASSUME TypeInv, TypeInv', AttemptsInv, SendInv, NEW c \in Controllers, NEW p \in Plans, job[c].plan = p,
         CommitPlan(c)
  PROVE  SendInv'
<1>1. TypeOK /\ PlanAttempts(p) BY DEF TypeInv, AttemptsInv
<1>2. \A q \in Plans \ {p} : SamePlan(q) BY <1>1 DEF TypeOK, SamePlan, CommitPlan
<1>3. /\ op'[p].state = "committed" /\ op'[p].made = 0 /\ op[p].state = "none" /\ op[p].made = 0
      /\ att'[p] = att[p] /\ wire'[p] = wire[p]
  BY <1>1 DEF TypeOK, CommitPlan, NoOp, PlanAttempts
<1>4. PlanTrue(p) BY DEF SendInv
<1>5. \A n \in Numbers : n > 0 /\ ~(n <= 0) BY ConstantsAssumption DEF Numbers
<1>6. PlanTrue(p)' BY <1>3, <1>4, <1>5 DEF PlanTrue, OpTrue, RowTrue
<1>7. \A d \in Controllers : Keeps(d, p) BY <1>3 DEF Keeps
<1>8. job \in [Controllers -> JobType] /\ job' = [job EXCEPT ![c] = AttemptJob(p, 1)]
  BY <1>1 DEF TypeOK, CommitPlan, SetJob
<1>9. \A k \in JobType : k = job'[c] => RequestFits(c, k)' /\ SettleFits(c, k)'
  BY <1>8 DEF RequestFits, SettleFits, Sends, ToSettle, AttemptJob, NoJob
<1>10. \A d \in Controllers \ {c} : job'[d] = job[d] BY <1>8
<1> QED BY <1>2, <1>6, <1>7, <1>9, <1>10, SendFrame

LEMMA RecordAttemptSends ==
  ASSUME TypeInv, TypeInv', SendInv, NEW c \in Controllers, NEW p \in Plans, job[c].plan = p,
         RecordAttempt(c)
  PROVE  SendInv'
<1>1. TypeOK BY DEF TypeInv
<1>2. op[p].made \in Nat /\ op[p].gen \in Nat /\ op[p].made < MaxAttempts
  BY <1>1, ConstantsAssumption DEF TypeOK, OpType, RecordAttempt, AttemptsLeft
<1>3. PICK n \in Numbers : n = op[p].made + 1 BY <1>2, ConstantsAssumption DEF Numbers
<1>4. op[p].owner = c /\ op[p].gen = job[c].gen /\ op[p].state \in Holding
  BY DEF RecordAttempt, Movable, Owns, Holding
<1>5. \A q \in Plans \ {p} : SamePlan(q) BY <1>1 DEF TypeOK, SamePlan, RecordAttempt
<1>6. /\ op'[p].state = "sending" /\ op'[p].made = n /\ op'[p].gen = op[p].gen /\ op'[p].owner = c
      /\ wire'[p] = wire[p]
  BY <1>1, <1>3, <1>4 DEF TypeOK, OpType, RecordAttempt
<1>7. PICK a : a = [NoAttempt EXCEPT !.owner = c, !.gen = job[c].gen] OBVIOUS
<1>8. /\ a.owner = c /\ a.gen = op[p].gen /\ a.resp = "none" /\ a.acct = "none"
  BY <1>4, <1>7 DEF NoAttempt
<1>9. att'[p][n] = a /\ \A k \in Numbers \ {n} : att'[p][k] = att[p][k]
  <2>1. att \in [Plans -> [Numbers -> AttType]] BY <1>1 DEF TypeOK
  <2>2. att' = [att EXCEPT ![p][n] = a] BY <1>3, <1>7 DEF RecordAttempt
  <2> QED BY <2>1, <2>2
<1>10. PlanTrue(p) BY DEF SendInv
<1>11. \A k \in 1..op[p].made : k \in Numbers /\ k # n BY <1>2, <1>3, ConstantsAssumption DEF Numbers
<1>12. \A k \in Numbers : k <= n => k = n \/ k \in 1..op[p].made
  BY <1>2, <1>3, ConstantsAssumption DEF Numbers
<1>13. ASSUME NEW k \in Numbers PROVE RowTrue(p, k)'
  <2>1. CASE k = n
    <3>1. ~(k > n) BY <2>1, <1>2, <1>3
    <3> QED BY <1>2, <1>6, <1>8, <1>9, <2>1, <3>1 DEF RowTrue, Truly
  <2>2. CASE k # n
    <3>1. RowTrue(p, k) BY <1>10 DEF PlanTrue
    <3>2. k > n => k > op[p].made BY <1>2, <1>3, ConstantsAssumption DEF Numbers
    <3>3. k <= n => k <= op[p].made BY <1>2, <1>3, <1>12, <2>2
    <3>4. att'[p][k] = att[p][k] /\ op[p].owner = c BY <1>4, <1>9, <2>2
    <3> QED BY <1>6, <3>1, <3>2, <3>3, <3>4 DEF RowTrue
  <2> QED BY <2>1, <2>2
<1>14. OpTrue(p)'
  <2> SUFFICES ASSUME NEW i \in 1..n, NEW k \in 1..n, i < k, att'[p][i].acct = "decision"
               PROVE  att'[p][i].gen < att'[p][k].gen
    BY <1>6 DEF OpTrue
  <2>1. i \in 1..op[p].made /\ i \in Numbers /\ k \in Numbers /\ i # n
    BY <1>2, <1>3, ConstantsAssumption DEF Numbers
  <2>2. att'[p][i] = att[p][i] BY <1>9, <2>1
  <2>3. CASE k = n
    <3>1. RowTrue(p, i) BY <1>10, <2>1 DEF PlanTrue
    <3> QED BY <1>8, <1>9, <2>1, <2>2, <2>3, <3>1 DEF RowTrue
  <2>4. CASE k # n
    <3>1. k \in 1..op[p].made BY <1>2, <1>3, <2>4
    <3>2. att'[p][k] = att[p][k] BY <1>9, <2>1, <2>4
    <3> QED BY <1>10, <2>1, <2>2, <3>1, <3>2 DEF PlanTrue, OpTrue
  <2> QED BY <2>3, <2>4
<1>15. \A d \in Controllers \ {c} : Keeps(d, p)
  <2>1. \A k \in 1..op[p].made : att'[p][k] = att[p][k] BY <1>9, <1>11
  <2>2. op[p].made <= op'[p].made BY <1>2, <1>3, <1>6
  <2> QED BY <1>4, <1>6, <2>1, <2>2 DEF Keeps
<1>16. job \in [Controllers -> JobType] /\ job' = [job EXCEPT ![c] = [job[c] EXCEPT !.pc = "send", !.n = n]]
  BY <1>1, <1>3 DEF TypeOK, RecordAttempt, SetJob
<1>17. ASSUME NEW k \in JobType, k = job'[c] PROVE RequestFits(c, k)' /\ SettleFits(c, k)'
  <2>1. k = [job[c] EXCEPT !.pc = "send", !.n = n] BY <1>16, <1>17
  <2>2. k.pc = "send" /\ k.n = n /\ k.plan = p /\ k.gen = op[p].gen BY <1>4, <1>16, <2>1 DEF JobType
  <2>3. n \in 1..n BY <1>2, <1>3
  <2>4. wire[p][n] = "unsent"
    <3>1. RowTrue(p, n) /\ n > op[p].made BY <1>2, <1>3, <1>10 DEF PlanTrue
    <3> QED BY <3>1 DEF RowTrue
  <2> QED BY <1>6, <1>8, <1>9, <2>2, <2>3, <2>4 DEF RequestFits, SettleFits, Sends, ToSettle
<1>18. \A d \in Controllers \ {c} : job'[d] = job[d] BY <1>16
<1>19. PlanTrue(p)' BY <1>13, <1>14 DEF PlanTrue
<1> QED BY <1>5, <1>15, <1>17, <1>18, <1>19, SendFrame

\* The response of its own attempt, whoever owns the operation by now.
LEMMA ResponseSends ==
  ASSUME TypeInv, TypeInv', AttemptsInv', SendInv, NEW c \in Controllers, NEW p \in Plans, job[c].plan = p,
         RecordResponse(c)
  PROVE  SendInv'
<1>1. TypeOK BY DEF TypeInv
<1>2. PICK j \in JobType : j = job[c] BY <1>1 DEF TypeOK
<1>3. PICK n : n = j.n OBVIOUS
<1>4. PICK r : r = j.resp OBVIOUS
<1>5. PICK to : to = StateAfterResponse(p, n, r) OBVIOUS
<1>6. /\ n \in 1..op[p].made /\ att[p][n].owner = c /\ att[p][n].gen = j.gen /\ att[p][n].resp = "none"
      /\ Truly(r, wire[p][n])
  <2>1. RequestFits(c, job[c]) BY DEF SendInv, JobsTrue
  <2>2. j.pc = "respond" /\ j.plan = p BY <1>2 DEF RecordResponse
  <2> QED BY <1>2, <1>3, <1>4, <2>1, <2>2 DEF RequestFits, Sends
<1>7. op[p].made \in Nat /\ op[p].gen \in Nat /\ \A k \in 1..op[p].made : k \in Numbers /\ k <= op[p].made
  BY <1>1, ConstantsAssumption DEF TypeOK, OpType, Numbers
<1>8. \A q \in Plans \ {p} : SamePlan(q) BY <1>1 DEF TypeOK, SamePlan, RecordResponse
<1>9. /\ op'[p].state = to /\ op'[p].made = op[p].made /\ op'[p].gen = op[p].gen
      /\ op'[p].owner = op[p].owner /\ wire'[p] = wire[p]
  BY <1>1, <1>2, <1>3, <1>4, <1>5 DEF TypeOK, OpType, RecordResponse
<1>10. /\ \A k \in Numbers \ {n} : att'[p][k] = att[p][k]
       /\ att'[p][n].owner = c /\ att'[p][n].gen = att[p][n].gen /\ att'[p][n].dl = att[p][n].dl
       /\ att'[p][n].resp = r
       /\ att'[p][n].acct = IF Accounts(r) /\ att[p][n].acct = "none" THEN "response" ELSE att[p][n].acct
  <2>1. att \in [Plans -> [Numbers -> AttType]] BY <1>1 DEF TypeOK
  <2>2. att' = [att EXCEPT ![p][n].resp = r,
                           ![p][n].acct = IF Accounts(r) /\ att[p][n].acct = "none"
                                          THEN "response" ELSE att[p][n].acct]
    BY <1>2, <1>3, <1>4 DEF RecordResponse
  <2>3. n \in Numbers BY <1>6, <1>7
  <2>4. att[p][n] \in AttType BY <2>1, <2>3
  <2> QED BY <1>6, <2>1, <2>2, <2>3, <2>4 DEF AttType
<1>11. \/ to = op[p].state
       \/ to = "verifying" \/ to = "unresolved"
       \/ to = "rejected" /\ r = "rejected" /\ \A k \in 1..op[p].made : k # n => att[p][k].resp = "rejected"
  BY <1>5 DEF StateAfterResponse
<1>12. PlanTrue(p) BY DEF SendInv
<1>13. ASSUME NEW k \in Numbers PROVE RowTrue(p, k)'
  <2>1. RowTrue(p, k) BY <1>12 DEF PlanTrue
  <2>2. CASE k # n
    <3>1. att'[p][k] = att[p][k] BY <1>10, <2>2
    <3> QED BY <1>9, <2>1, <3>1 DEF RowTrue
  <2>3. CASE k = n
    <3>1. att[p][n].acct # "response" BY <1>6, <1>7, <2>1, <2>3 DEF RowTrue
    <3>2. Accounts(r) => r # "none" /\ wire[p][n] \in {"applied", "refused"} BY <1>6 DEF Accounts, Truly
    <3>3. k <= op[p].made /\ ~(k > op[p].made) BY <1>6, <1>7, <2>3
    <3>4. /\ att[p][n].acct = "decision" => att[p][n].dl # 0 /\ att[p][n].gen < op[p].gen
          /\ att[p][n].gen <= op[p].gen
          /\ att[p][n].gen = op[p].gen => c = op[p].owner
      BY <1>6, <2>1, <2>3, <3>3 DEF RowTrue
    <3>5. att'[p][n].acct = "response" \/ att'[p][n].acct = att[p][n].acct BY <1>10
    <3>6. att'[p][n].acct = "response" => Accounts(r) BY <1>10, <3>1
    <3> QED BY <1>6, <1>9, <1>10, <2>3, <3>2, <3>3, <3>4, <3>5, <3>6 DEF RowTrue
  <2> QED BY <2>2, <2>3
<1>14. OpTrue(p)'
  <2>1. to = "cancelled" => op[p].made = 0 BY <1>11, <1>12 DEF PlanTrue, OpTrue
  <2>2. ASSUME to = "rejected", NEW k \in 1..op[p].made PROVE wire[p][k] = "refused"
    <3>1. CASE op[p].state = "rejected" BY <1>12, <3>1 DEF PlanTrue, OpTrue
    <3>2. CASE op[p].state # "rejected"
      <4>1. r = "rejected" /\ (k # n => att[p][k].resp = "rejected") BY <1>11, <2>2, <3>2
      <4>2. RowTrue(p, k) BY <1>7, <1>12 DEF PlanTrue
      <4> QED BY <1>6, <1>7, <4>1, <4>2 DEF RowTrue, Truly
    <3> QED BY <3>1, <3>2
  <2>3. ASSUME NEW i \in 1..op[p].made, NEW k \in 1..op[p].made, i < k, att'[p][i].acct = "decision"
        PROVE  att'[p][i].gen < att'[p][k].gen
    <3>1. att'[p][i].gen = att[p][i].gen /\ att'[p][k].gen = att[p][k].gen BY <1>7, <1>10
    <3>2. att[p][i].acct = "decision" BY <1>7, <1>10, <2>3
    <3> QED BY <1>12, <2>3, <3>1, <3>2 DEF PlanTrue, OpTrue
  <2> QED BY <1>9, <2>1, <2>2, <2>3 DEF OpTrue
<1>15. \A d \in Controllers \ {c} : Keeps(d, p)
  <2>1. \A k \in 1..op[p].made : att[p][k].acct # "none" => att'[p][k].acct # "none"
    BY <1>7, <1>10
  <2>2. \A d \in Controllers \ {c}, k \in 1..op[p].made : att[p][k].owner = d => att'[p][k] = att[p][k]
    BY <1>6, <1>7, <1>10
  <2>3. op[p].state # "none" => to # "none" BY <1>11
  <2> QED BY <1>7, <1>9, <2>1, <2>2, <2>3 DEF Keeps
<1>16. /\ job \in [Controllers -> JobType]
       /\ job' = [job EXCEPT ![c] = IF to = "verifying" THEN ObserveJob(p, j.gen, "completion", "settle") ELSE NoJob]
  BY <1>1, <1>2, <1>3, <1>4, <1>5 DEF TypeOK, RecordResponse, SetJob
<1>17. ASSUME NEW k \in JobType, k = job'[c] PROVE RequestFits(c, k)' /\ SettleFits(c, k)'
  <2>1. k = IF to = "verifying" THEN ObserveJob(p, j.gen, "completion", "settle") ELSE NoJob BY <1>16, <1>17
  <2>2. CASE to # "verifying"
    <3>1. k = NoJob BY <2>1, <2>2
    <3> QED BY <3>1 DEF NoJob, RequestFits, SettleFits, Sends, ToSettle
  <2>3. CASE to = "verifying"
    <3>1. k.pc = "observe" /\ k.plan = p /\ k.gen = j.gen BY <2>1, <2>3 DEF ObserveJob, NoJob
    <3>2. j.gen <= op[p].gen
      <4>1. RowTrue(p, n) BY <1>6, <1>7, <1>12 DEF PlanTrue
      <4> QED BY <1>6, <1>7, <4>1 DEF RowTrue
    <3>3. Unaccounted(p)' = {} BY <1>9, <2>3 DEF AttemptsInv, PlanAttempts, Unaccounted
    <3> QED BY <1>9, <2>3, <3>1, <3>2, <3>3 DEF RequestFits, SettleFits, Sends
  <2> QED BY <2>2, <2>3
<1>18. \A d \in Controllers \ {c} : job'[d] = job[d] BY <1>16
<1>19. PlanTrue(p)' BY <1>13, <1>14 DEF PlanTrue
<1> QED BY <1>8, <1>15, <1>17, <1>18, <1>19, SendFrame

\* A deadline passes, or a decision accounts for the attempt of an executor that was taken over.
LEMMA AttemptRowSends ==
  ASSUME TypeInv, TypeInv', AttemptsInv, SendInv, NEW p \in Plans, NEW n \in Numbers,
         DeadlinePasses(p, n) \/ AccountByDecision(p, n)
  PROVE  SendInv'
<1>1. TypeOK /\ PlanAttempts(p) /\ PlanTrue(p) BY DEF TypeInv, AttemptsInv, SendInv
<1>2. UNCHANGED <<wire, job>> BY DEF DeadlinePasses, AccountByDecision, loops
<1>3. \A q \in Plans \ {p} : SamePlan(q) BY <1>1 DEF TypeOK, SamePlan, DeadlinePasses, AccountByDecision
<1>4. /\ op'[p].state = op[p].state /\ op'[p].made = op[p].made /\ op'[p].gen = op[p].gen
      /\ op'[p].owner = op[p].owner /\ op[p].made \in Nat /\ op[p].gen \in Nat
  BY <1>1 DEF TypeOK, OpType, DeadlinePasses, AccountByDecision
<1>5. n <= op[p].made /\ n \in 1..op[p].made
  BY <1>4, ConstantsAssumption DEF DeadlinePasses, AccountByDecision, Numbers
<1>6. att \in [Plans -> [Numbers -> AttType]] /\ att[p][n] \in AttType BY <1>1 DEF TypeOK
<1>7. \A k \in Numbers \ {n} : att'[p][k] = att[p][k]
  BY <1>6 DEF DeadlinePasses, AccountByDecision
<1>8. /\ att'[p][n].owner = att[p][n].owner /\ att'[p][n].gen = att[p][n].gen
      /\ att'[p][n].resp = att[p][n].resp
      /\ \/ att'[p][n].acct = att[p][n].acct /\ att'[p][n].dl # 0
         \/ /\ att'[p][n].acct = "decision" /\ att'[p][n].dl = att[p][n].dl
            /\ att[p][n].acct = "none" /\ ExecutorStopped(p, n) /\ att[p][n].dl # 0
  <2>1. CASE DeadlinePasses(p, n)
    <3>1. Now(M(p)) + 1 # 0 BY <1>1, MachineTyped, NowTyped
    <3> QED BY <1>6, <2>1, <3>1 DEF DeadlinePasses, AttType
  <2>2. CASE AccountByDecision(p, n)
    <3>1. att[p][n].dl # 0 BY <2>2 DEF AccountByDecision, Settled
    <3> QED BY <1>6, <2>2, <3>1 DEF AccountByDecision, AttType
  <2> QED BY <2>1, <2>2
<1>9. RowTrue(p, n) /\ att[p][n].gen \in Nat BY <1>1, <1>6 DEF PlanTrue, AttType
<1>10. ExecutorStopped(p, n) => att[p][n].gen < op[p].gen BY <1>4, <1>5, <1>9 DEF RowTrue, ExecutorStopped
<1>11. ASSUME NEW k \in Numbers PROVE RowTrue(p, k)'
  <2>1. CASE k # n
    <3>1. RowTrue(p, k) /\ att'[p][k] = att[p][k] BY <1>1, <1>7, <2>1 DEF PlanTrue
    <3> QED BY <1>2, <1>4, <3>1 DEF RowTrue
  <2>2. CASE k = n
    <3>1. ~(n > op[p].made) BY <1>4, <1>5, <1>9
    <3> QED BY <1>2, <1>4, <1>5, <1>8, <1>9, <1>10, <2>2, <3>1 DEF RowTrue
  <2> QED BY <2>1, <2>2
<1>12. \A k \in 1..op[p].made : k \in Numbers BY <1>1, ConstantsAssumption DEF TypeOK, OpType, Numbers
<1>13. OpTrue(p)'
  <2>1. ASSUME NEW i \in 1..op[p].made, NEW k \in 1..op[p].made, i < k, att'[p][i].acct = "decision"
        PROVE  att'[p][i].gen < att'[p][k].gen
    <3>1. att'[p][i].gen = att[p][i].gen /\ att'[p][k].gen = att[p][k].gen BY <1>7, <1>8, <1>12
    <3>2. att[p][i].acct = "decision"
      <4>1. CASE i # n BY <1>7, <1>12, <2>1, <4>1
      <4>2. CASE i = n
        <5>1. att[p][i].acct # "none"
          <6>1. SUFFICES ASSUME att[p][i].acct = "none" PROVE FALSE OBVIOUS
          <6>2. i = op[p].made BY <1>1, <6>1 DEF PlanAttempts
          <6> QED BY <1>4, <2>1, <6>2
        <5> QED BY <1>8, <2>1, <4>2, <5>1
      <4> QED BY <4>1, <4>2
    <3> QED BY <1>1, <2>1, <3>1, <3>2 DEF PlanTrue, OpTrue
  <2> QED BY <1>1, <1>2, <1>4, <2>1 DEF PlanTrue, OpTrue
<1>14. \A d \in Controllers : Keeps(d, p)
  <2>1. \A k \in 1..op[p].made : /\ att'[p][k].owner = att[p][k].owner /\ att'[p][k].gen = att[p][k].gen
                                 /\ att'[p][k].resp = att[p][k].resp
                                 /\ att[p][k].acct # "none" => att'[p][k].acct # "none"
    BY <1>7, <1>8, <1>12
  <2> QED BY <1>2, <1>4, <2>1 DEF Keeps
<1>15. PlanTrue(p)' BY <1>11, <1>13 DEF PlanTrue
<1> QED BY <1>2, <1>3, <1>14, <1>15, SendFrame

LEMMA SendRequestSends ==
  ASSUME TypeInv, TypeInv', SendInv, NEW c \in Controllers, NEW p \in Plans, job[c].plan = p,
         SendRequest(c)
  PROVE  SendInv'
<1>1. TypeOK /\ PlanTrue(p) BY DEF TypeInv, SendInv
<1>2. PICK j \in JobType : j = job[c] BY <1>1 DEF TypeOK
<1>3. PICK n : n = j.n OBVIOUS
<1>4. /\ n \in 1..op[p].made /\ att[p][n].owner = c /\ att[p][n].gen = j.gen /\ att[p][n].resp = "none"
      /\ wire[p][n] = "unsent"
  <2>1. RequestFits(c, job[c]) BY DEF SendInv, JobsTrue
  <2>2. j.pc = "send" /\ j.plan = p BY <1>2 DEF SendRequest
  <2> QED BY <1>2, <1>3, <2>1, <2>2 DEF RequestFits, Sends
<1>5. op[p].made \in Nat /\ op[p].gen \in Nat /\ \A k \in 1..op[p].made : k \in Numbers /\ k <= op[p].made
  BY <1>1, ConstantsAssumption DEF TypeOK, OpType, Numbers
<1>6. UNCHANGED <<op, att>> BY DEF SendRequest, rows
<1>7. wire'[p][n] = "flight" /\ \A k \in Numbers \ {n} : wire'[p][k] = wire[p][k]
  <2>1. wire' = [wire EXCEPT ![p][n] = "flight"] BY <1>2, <1>3 DEF SendRequest
  <2> QED BY <1>1, <1>4, <1>5, <2>1 DEF TypeOK
<1>8. \A q \in Plans \ {p} : SamePlan(q) BY <1>1, <1>6 DEF TypeOK, SamePlan, SendRequest
<1>9. ASSUME NEW k \in Numbers PROVE RowTrue(p, k)'
  <2>1. RowTrue(p, k) BY <1>1 DEF PlanTrue
  <2>2. CASE k # n BY <1>6, <1>7, <2>1, <2>2 DEF RowTrue
  <2>3. CASE k = n
    <3>1. k <= op[p].made /\ ~(k > op[p].made) BY <1>4, <1>5, <2>3
    <3> QED BY <1>4, <1>6, <1>7, <2>1, <2>3, <3>1 DEF RowTrue, Truly
  <2> QED BY <2>2, <2>3
<1>10. OpTrue(p)' BY <1>1, <1>4, <1>6 DEF PlanTrue, OpTrue
<1>11. \A d \in Controllers \ {c} : Keeps(d, p)
  <2>1. \A d \in Controllers \ {c}, k \in 1..op[p].made : att[p][k].owner = d => wire'[p][k] = wire[p][k]
    BY <1>4, <1>5, <1>7
  <2> QED BY <1>5, <1>6, <2>1 DEF Keeps
<1>12. job \in [Controllers -> JobType] /\ job' = [job EXCEPT ![c] = [job[c] EXCEPT !.pc = "wait"]]
  BY <1>1 DEF TypeOK, SendRequest, SetJob
<1>13. ASSUME NEW k \in JobType, k = job'[c] PROVE RequestFits(c, k)' /\ SettleFits(c, k)'
  <2>1. k = [j EXCEPT !.pc = "wait"] BY <1>2, <1>12, <1>13
  <2>2. k.pc = "wait" /\ k.n = n /\ k.plan = p /\ k.gen = j.gen BY <1>2, <1>3, <2>1 DEF JobType
  <2> QED BY <1>4, <1>6, <2>2 DEF RequestFits, SettleFits, Sends, ToSettle
<1>14. \A d \in Controllers \ {c} : job'[d] = job[d] BY <1>12
<1>15. PlanTrue(p)' BY <1>9, <1>10 DEF PlanTrue
<1> QED BY <1>8, <1>11, <1>13, <1>14, <1>15, SendFrame

LEMMA NodeSends ==
  ASSUME TypeInv, TypeInv', SendInv, NEW p \in Plans, NEW n \in Numbers, NodeHandles(p, n)
  PROVE  SendInv'
<1>1. TypeOK /\ PlanTrue(p) BY DEF TypeInv, SendInv
<1>2. UNCHANGED <<op, att, job>> /\ wire[p][n] = "flight" BY DEF NodeHandles, rows, loops
<1>3. \A k \in Numbers \ {n} : wire'[p][k] = wire[p][k] BY <1>1 DEF TypeOK, NodeHandles
<1>4. \A q \in Plans \ {p} : SamePlan(q) BY <1>1, <1>2 DEF TypeOK, SamePlan, NodeHandles
<1>5. op[p].made \in Nat /\ \A k \in 1..op[p].made : k \in Numbers
  BY <1>1, ConstantsAssumption DEF TypeOK, OpType, Numbers
<1>6. n \in Nat /\ n \in 1..op[p].made
  <2>1. RowTrue(p, n) BY <1>1 DEF PlanTrue
  <2> QED BY <1>2, <1>5, <2>1, ConstantsAssumption DEF RowTrue, Numbers
<1>7. ASSUME NEW k \in Numbers PROVE RowTrue(p, k)'
  <2>1. RowTrue(p, k) BY <1>1 DEF PlanTrue
  <2>2. CASE k # n BY <1>2, <1>3, <2>1, <2>2 DEF RowTrue
  <2>3. CASE k = n
    <3>1. k <= op[p].made /\ ~(k > op[p].made) BY <1>5, <1>6, <2>3
    <3> QED BY <1>2, <2>1, <2>3, <3>1 DEF RowTrue, Truly
  <2> QED BY <2>2, <2>3
<1>8. OpTrue(p)' BY <1>1, <1>2, <1>6 DEF PlanTrue, OpTrue
<1>9. \A d \in Controllers : Keeps(d, p)
  <2>1. \A k \in 1..op[p].made : wire'[p][k] = wire[p][k] \/ wire[p][k] = "flight" BY <1>2, <1>3, <1>5
  <2> QED BY <1>2, <1>5, <2>1 DEF Keeps
<1>10. PlanTrue(p)' BY <1>7, <1>8 DEF PlanTrue
<1> QED BY <1>2, <1>4, <1>9, <1>10, SendFrame

LEMMA SendStill ==
  ASSUME SendInv, UNCHANGED <<op, att, wire, job>>
  PROVE  SendInv'
  BY DEF SendInv, JobsTrue, PlanTrue, RequestFits, SettleFits, OpTrue, RowTrue, Owns, Unaccounted

LEMMA SendStep == TypeInv /\ AttemptsInv /\ SendInv /\ [Next]_vars => SendInv'
<1> SUFFICES ASSUME TypeInv, AttemptsInv, SendInv, [Next]_vars PROVE SendInv' OBVIOUS
<1>1. TypeInv' /\ AttemptsInv' BY TypeStep, AttemptsStep
<1>2. CASE UNCHANGED vars BY <1>2, SendStill DEF vars
<1>3. ASSUME NEW c \in Controllers,
             \/ StartController(c) \/ ScanStart(c) \/ ScanRead(c) \/ ScanRecord(c)
             \/ \E m \in Machines : ScanPick(c, m)
      PROVE  SendInv'
  BY <1>3, SendStill DEF StartController, ScanStart, ScanRead, ScanRecord, ScanPick, rows
<1>4. ASSUME NEW c \in Controllers, Crash(c) \/ Drop(c) PROVE SendInv' BY <1>1, <1>4, JobSends
<1>5. ASSUME NEW c \in Controllers, NEW p \in Plans,
             TakeOver(c, p) \/ RequestTakeover(c, p) \/ DispatchPlan(c, p) \/ Advance(c, p)
      PROVE  SendInv'
  <2>1. CASE DispatchPlan(c, p) \/ Advance(c, p) BY <1>1, <2>1, TakeUpSends
  <2>2. CASE RequestTakeover(c, p)
    <3>1. TakenOver(c, p) /\ op[p].state \in Holding /\ UNCHANGED <<att, wire, job>>
      BY <2>2 DEF RequestTakeover, loops
    <3> QED BY <1>1, <3>1, TakenOverSends
  <2>3. CASE TakeOver(c, p)
    <3>1. \/ TakenOver(c, p) /\ op[p].state \in Holding /\ UNCHANGED <<att, wire, job>>
          \/ UNCHANGED <<op, att, wire, job>>
      BY <2>3 DEF TakeOver
    <3> QED BY <1>1, <3>1, TakenOverSends, SendStill
  <2> QED BY <1>5, <2>1, <2>2, <2>3
<1>6. ASSUME NEW c \in Controllers, ExecutorStep(c) PROVE SendInv'
  <2>1. CASE \/ StartObservation(c) \/ ReadNode(c) \/ RecordObservation(c) \/ CommitRefused(c)
             \/ RecordCommitRefusal(c) \/ AttemptRefused(c) \/ SendFails(c) \/ ReceiveAnswer(c)
    BY <1>1, <2>1, JobSends
  <2>2. CASE \/ CommitPlan(c) \/ RecordAttempt(c) \/ SettleAttemptRefusal(c) \/ RecordResponse(c)
             \/ Complete(c) \/ VerificationLapses(c) \/ ClassifyRetry(c) \/ Fail(c) \/ SendRequest(c)
    <3>1. job[c].pc # "idle"
      BY <2>2 DEF CommitPlan, RecordAttempt, SettleAttemptRefusal, RecordResponse, SendRequest,
                  Complete, VerificationLapses, ClassifyRetry, Fail, Settling
    <3>2. PICK p \in Plans : job[c].plan = p BY <3>1 DEF TypeInv, LoopsFit, JobFits
    <3> QED BY <1>1, <2>2, <3>2, CommitSends, RecordAttemptSends, RefusalSends, ResponseSends,
               SettleSends, SendRequestSends
  <2> QED BY <1>6, <2>1, <2>2 DEF ExecutorStep
<1>7. ASSUME NEW p \in Plans, PlanStep(p) PROVE SendInv'
  <2>1. CASE CreatePlan(p) \/ ApprovePlan(p) \/ CancelPlan(p) \/ RevokeApproval(p) \/ Lapse(p)
    BY <2>1, SendStill DEF CreatePlan, ApprovePlan, CancelPlan, RevokeApproval, Lapse, loops
  <2>2. CASE ResolveByDecision(p) BY <1>1, <2>2, ResolveSends
  <2>3. ASSUME NEW n \in Numbers, NodeHandles(p, n) \/ DeadlinePasses(p, n) \/ AccountByDecision(p, n)
        PROVE  SendInv'
    BY <1>1, <2>3, NodeSends, AttemptRowSends
  <2> QED BY <1>7, <2>1, <2>2, <2>3 DEF PlanStep
<1>8. ASSUME NEW m \in Machines, SetFreeze(m) \/ Publish(m) \/ ChangeNode(m) PROVE SendInv'
  BY <1>8, SendStill DEF SetFreeze, Publish, ChangeNode, rows, loops
<1> QED BY <1>2, <1>3, <1>4, <1>5, <1>6, <1>7, <1>8 DEF Next

LEMMA DispatchInvariant == Spec => [](TypeInv /\ AttemptsInv /\ SendInv)
<1>1. Spec => []TypeInv BY InitTypes, TypeStep, PTL DEF Spec
<1>2. Spec => []AttemptsInv BY <1>1, AttemptsInit, AttemptsStep, PTL DEF Spec
<1>3. Spec => []SendInv BY <1>1, <1>2, SendInit, SendStep, PTL DEF Spec
<1> QED BY <1>1, <1>2, <1>3, PTL

\* Whatever the crashes, takeovers, late responses and accounting decisions, at most one request of a
\* cluster can still change a node, and only while its operation holds the scopes: the transport
\* deadline stops a taken-over sender, and comparison 8 the next one (dispatch.go, attempt.go).
THEOREM SingleWriter == Spec => []OneWriter
<1>1. TypeInv /\ AttemptsInv /\ SendInv => OneWriter BY SendImplies
<1> QED BY <1>1, DispatchInvariant, PTL

\* An operation recorded as rejected or cancelled changed nothing on its node (recordResponse,
\* settleAttemptRefusal, resolveByDecision): every response a row holds tells what the node did.
THEOREM NothingChanged == Spec => []UnchangedIsTrue
<1>1. TypeInv /\ AttemptsInv /\ SendInv => UnchangedIsTrue BY SendImplies
<1> QED BY <1>1, DispatchInvariant, PTL

\* A decision's accounting stands: later attempts are of later owner generations, and an owner that
\* comes to settle finds every attempt accounted for (accountByDecision, settleOperation).
THEOREM AccountingHolds == Spec => []AccountingStands
<1>1. TypeInv /\ AttemptsInv /\ SendInv => AccountingStands BY SendImplies
<1> QED BY <1>1, DispatchInvariant, PTL

\* A request is made only for a recorded attempt that nothing has accounted for (dispatch.go): only
\* the process that recorded it makes it, before its deadline, and a decision waits for that.
THEOREM SentInTime == Spec => NoSendAfterAccounting
<1> DEFINE A == \A p \in Plans : \A n \in Numbers :
              wire[p][n] = "unsent" /\ wire'[p][n] # "unsent" => att[p][n].acct = "none" /\ n <= op[p].made
<1>1. TypeInv /\ SendInv /\ [Next]_vars => [A]_vars
  <2> SUFFICES ASSUME TypeInv, SendInv, Next, NEW p \in Plans, NEW n \in Numbers,
                      wire[p][n] = "unsent", wire'[p][n] # "unsent"
               PROVE  att[p][n].acct = "none" /\ n <= op[p].made
    OBVIOUS
  <2>1. wire \in [Plans -> [Numbers -> {"unsent", "flight", "applied", "refused"}]] BY DEF TypeInv, TypeOK
  <2>2. ~UNCHANGED wire OBVIOUS
  <2>3. ASSUME NEW q \in Plans, NEW k \in Numbers, NodeHandles(q, k) PROVE FALSE
    BY <2>1, <2>3 DEF NodeHandles
  <2>4. ASSUME NEW q \in Plans, PlanStep(q) PROVE FALSE
    BY <2>2, <2>3, <2>4
       DEF PlanStep, CreatePlan, ApprovePlan, CancelPlan, RevokeApproval, Lapse, ResolveByDecision,
           DeadlinePasses, AccountByDecision
  <2>5. ASSUME NEW m \in Machines, SetFreeze(m) \/ Publish(m) \/ ChangeNode(m) PROVE FALSE
    BY <2>2, <2>5 DEF SetFreeze, Publish, ChangeNode
  <2>6. ASSUME NEW c \in Controllers, ExecutorStep(c), ~SendRequest(c) PROVE FALSE
    BY <2>2, <2>6
       DEF ExecutorStep, StartObservation, ReadNode, RecordObservation, CommitPlan, CommitRefused,
           RecordCommitRefusal, RecordAttempt, AttemptRefused, SettleAttemptRefusal, SendFails,
           ReceiveAnswer, RecordResponse, Complete, VerificationLapses, ClassifyRetry, Fail
  <2>7. ASSUME NEW c \in Controllers,
               \/ StartController(c) \/ Crash(c) \/ Drop(c) \/ ScanStart(c) \/ ScanRead(c) \/ ScanRecord(c)
               \/ \E m \in Machines : ScanPick(c, m)
               \/ \E q \in Plans : TakeOver(c, q) \/ RequestTakeover(c, q) \/ DispatchPlan(c, q) \/ Advance(c, q)
        PROVE  FALSE
    BY <2>2, <2>7
       DEF StartController, Crash, Drop, ScanStart, ScanRead, ScanRecord, ScanPick, TakeOver,
           RequestTakeover, DispatchPlan, Advance
  <2>8. PICK c \in Controllers : SendRequest(c) BY <2>4, <2>5, <2>6, <2>7 DEF Next
  <2>9. job[c].plan = p /\ job[c].n = n /\ job[c].pc = "send" /\ att[p][n].dl = 0
    <3>1. wire' = [wire EXCEPT ![job[c].plan][job[c].n] = "flight"] /\ job[c].pc = "send"
          /\ att[job[c].plan][job[c].n].dl = 0
      BY <2>8 DEF SendRequest
    <3> QED BY <2>1, <3>1
  <2>10. MayLand(p, n) BY <2>9 DEF MayLand
  <2>11. n \in Unaccounted(p) BY <2>10, LandingUnaccounted
  <2> QED BY <2>11 DEF Unaccounted
<1> QED BY <1>1, DispatchInvariant, PTL DEF Spec, NoSendAfterAccounting

-----------------------------------------------------------------------------
(***************************************************************************)
(* What drift records say of the machines, for every instance of Dispatch:  *)
(* the record an operation is bound to stays while the operation holds, and *)
(* what an observation read is still so when it opens or closes a record.   *)
(***************************************************************************)

\* A plan with an operation is committed, and stays what it was.
PlanKept == \A p \in Plans : op[p].state # "none" => plan[p].state = "committed"

-----------------------------------------------------------------------------
(* What one step may do to an operation and to its machine's scope. *)

\* The operation of p is committed by this step.
Commits(p) == \E c \in Controllers : job[c].plan = p /\ CommitPlan(c)

OpStep(p) ==
  /\ op[p].state = "none" => op'[p].state = "none" \/ Commits(p)
  /\ op[p].state # "none" =>
       /\ op'[p].state # "none"
       /\ plan'[p].state = plan[p].state /\ plan'[p].drift = plan[p].drift
       /\ op'[p].state \in Holding => op[p].state \in Holding
       /\ op[p].state \in Holding /\ op'[p].state \notin Holding => mach'[M(p)].scopeAt = Now(M(p))
       /\ op'[p].acctAt \in {op[p].acctAt, Now(M(p))}
       /\ \/ op'[p].gen = op[p].gen /\ op'[p].owner = op[p].owner
          \/ op'[p].gen = op[p].gen + 1

ScopeStep(m) == mach'[m].scopeAt \in {mach[m].scopeAt, Now(m)}

ScopeSteps == (\A p \in Plans : OpStep(p)) /\ \A m \in Machines : ScopeStep(m)

LEMMA ScopeStill == ASSUME UNCHANGED <<op, plan, mach>> PROVE ScopeSteps
  BY DEF ScopeSteps, OpStep, ScopeStep

LEMMA EntryScope ==
  ASSUME TypeOK, NEW k \in Machines, ScopeEntry(k)
  PROVE  mach'[k].scopeAt = Now(k) /\ \A m \in Machines : ScopeStep(m)
  BY DEF TypeOK, MachType, ScopeEntry, ScopeStep

\* A transition of p's operation with its entry on the machine's timeline.
LEMMA MoveScope ==
  ASSUME TypeOK, NEW p \in Plans, NEW s, s # "none", op[p].state \in Holding,
         op' = [op EXCEPT ![p].state = s], ScopeEntry(M(p)), UNCHANGED plan
  PROVE  ScopeSteps
<1>1. M(p) \in Machines BY MachineTyped
<1>2. mach'[M(p)].scopeAt = Now(M(p)) /\ \A m \in Machines : ScopeStep(m)
  BY <1>1 DEF TypeOK, MachType, ScopeEntry, ScopeStep
<1>3. /\ op'[p].state = s /\ op'[p].acctAt = op[p].acctAt /\ op'[p].gen = op[p].gen
      /\ op'[p].owner = op[p].owner
  BY DEF TypeOK, OpType
<1>4. \A q \in Plans \ {p} : op'[q] = op[q] BY DEF TypeOK
<1>5. OpStep(p) BY <1>2, <1>3 DEF OpStep, Holding
<1>6. \A q \in Plans \ {p} : OpStep(q) BY <1>4 DEF OpStep
<1> QED BY <1>2, <1>5, <1>6 DEF ScopeSteps

LEMMA PlanScope ==
  ASSUME TypeOK, PlanKept, NEW p \in Plans,
         CreatePlan(p) \/ ApprovePlan(p) \/ CancelPlan(p) \/ RevokeApproval(p) \/ Lapse(p)
  PROVE  ScopeSteps
<1>1. UNCHANGED <<op, mach>> BY DEF CreatePlan, ApprovePlan, CancelPlan, RevokeApproval, Lapse
<1>2. plan \in [Plans -> PlanType] /\ plan[p] \in PlanType BY DEF TypeOK
<1>3. \A q \in Plans \ {p} : plan'[q] = plan[q]
  BY <1>2 DEF CreatePlan, ApprovePlan, CancelPlan, RevokeApproval, Lapse
<1>4. ASSUME op[p].state # "none" PROVE plan'[p].state = plan[p].state /\ plan'[p].drift = plan[p].drift
  <2>1. plan[p].state = "committed" BY <1>4 DEF PlanKept
  <2> QED BY <1>2, <2>1 DEF CreatePlan, ApprovePlan, CancelPlan, RevokeApproval, Lapse, PlanType
<1> QED BY <1>1, <1>3, <1>4 DEF ScopeSteps, OpStep, ScopeStep

LEMMA TakenOverScope ==
  ASSUME TypeOK, NEW c \in Controllers, NEW p \in Plans, TakenOver(c, p), op[p].state \in Holding,
         UNCHANGED plan
  PROVE  ScopeSteps
<1>1. M(p) \in Machines BY MachineTyped
<1>2. \A m \in Machines : ScopeStep(m)
  <2>1. ScopeEntry(M(p)) \/ UNCHANGED mach BY DEF TakenOver
  <2>2. UNCHANGED mach => \A m \in Machines : ScopeStep(m) BY DEF ScopeStep
  <2> QED BY <1>1, <2>1, <2>2, EntryScope
<1>3. op'[p].state = "unresolved" /\ op'[p].acctAt = op[p].acctAt /\ op'[p].gen = op[p].gen + 1
  BY DEF TypeOK, OpType, TakenOver
<1>4. \A q \in Plans \ {p} : op'[q] = op[q] BY DEF TypeOK, TakenOver
<1>5. OpStep(p) BY <1>3 DEF OpStep, Holding
<1>6. \A q \in Plans \ {p} : OpStep(q) BY <1>4 DEF OpStep
<1> QED BY <1>2, <1>5, <1>6 DEF ScopeSteps

LEMMA CommitScope ==
  ASSUME TypeOK, NEW c \in Controllers, NEW p \in Plans, job[c].plan = p, CommitPlan(c)
  PROVE  ScopeSteps
<1>1. M(p) \in Machines BY MachineTyped
<1>2. \A m \in Machines : ScopeStep(m) BY <1>1, EntryScope DEF CommitPlan
<1>3. \A q \in Plans \ {p} : op'[q] = op[q] /\ plan'[q] = plan[q] BY DEF TypeOK, CommitPlan
<1>4. op[p].state = "none" /\ Commits(p) BY DEF CommitPlan, Commits
<1>5. OpStep(p) BY <1>4 DEF OpStep
<1>6. \A q \in Plans \ {p} : OpStep(q) BY <1>3 DEF OpStep
<1> QED BY <1>2, <1>5, <1>6 DEF ScopeSteps

LEMMA ResponseScope ==
  ASSUME TypeOK, NEW c \in Controllers, NEW p \in Plans, job[c].plan = p, RecordResponse(c)
  PROVE  ScopeSteps
<1>1. M(p) \in Machines BY MachineTyped
<1>2. PICK to : to = StateAfterResponse(p, job[c].n, job[c].resp) OBVIOUS
<1>3. to = op[p].state \/ (to \in {"verifying", "rejected", "unresolved"} /\ op[p].state \in Holding)
  BY <1>2 DEF StateAfterResponse, Holding
<1>4. /\ op'[p].state = to /\ op'[p].acctAt \in {op[p].acctAt, Now(M(p))} /\ op'[p].gen = op[p].gen
      /\ op'[p].owner = op[p].owner
  BY <1>2 DEF TypeOK, OpType, RecordResponse
<1>5. \A q \in Plans \ {p} : op'[q] = op[q] BY DEF TypeOK, RecordResponse
<1>6. (to # op[p].state /\ ScopeEntry(M(p))) \/ (to = op[p].state /\ UNCHANGED mach)
  BY <1>2 DEF RecordResponse
<1>7. \A m \in Machines : ScopeStep(m)
  <2>1. UNCHANGED mach => \A m \in Machines : ScopeStep(m) BY DEF ScopeStep
  <2> QED BY <1>1, <1>6, <2>1, EntryScope
<1>8. to # op[p].state => mach'[M(p)].scopeAt = Now(M(p)) BY <1>1, <1>6, EntryScope
<1>9. UNCHANGED plan BY DEF RecordResponse
<1>10. OpStep(p) BY <1>3, <1>4, <1>8, <1>9 DEF OpStep, Holding
<1>11. \A q \in Plans \ {p} : OpStep(q) BY <1>5, <1>9 DEF OpStep
<1> QED BY <1>7, <1>10, <1>11 DEF ScopeSteps

LEMMA AttemptScope ==
  ASSUME TypeOK, NEW p \in Plans,
         \/ \E c \in Controllers : job[c].plan = p /\ RecordAttempt(c)
         \/ \E n \in Numbers : AccountByDecision(p, n)
  PROVE  ScopeSteps
<1>1. UNCHANGED <<plan, mach>> BY DEF RecordAttempt, AccountByDecision
<1>2. \A q \in Plans \ {p} : op'[q] = op[q] BY DEF TypeOK, RecordAttempt, AccountByDecision
<1>3. /\ op'[p].gen = op[p].gen /\ op'[p].owner = op[p].owner
      /\ op'[p].acctAt \in {op[p].acctAt, Now(M(p))}
      /\ \/ op'[p].state = op[p].state
         \/ op'[p].state = "sending" /\ op[p].state \in Holding
  <2>1. op \in [Plans -> OpType] /\ op[p] \in OpType BY DEF TypeOK
  <2>2. CASE \E c \in Controllers : job[c].plan = p /\ RecordAttempt(c)
    <3>1. op' = [op EXCEPT ![p].state = "sending", ![p].made = op[p].made + 1] /\ op[p].state \in Holding
      BY <2>2 DEF RecordAttempt, Movable, Holding
    <3> QED BY <2>1, <3>1 DEF OpType
  <2>3. CASE \E n \in Numbers : AccountByDecision(p, n)
    <3>1. op' = [op EXCEPT ![p].acctAt = Now(M(p))] BY <2>3 DEF AccountByDecision
    <3> QED BY <2>1, <3>1 DEF OpType
  <2> QED BY <2>2, <2>3
<1>4. OpStep(p) BY <1>1, <1>3 DEF OpStep, Holding
<1>5. \A q \in Plans \ {p} : OpStep(q) BY <1>1, <1>2 DEF OpStep
<1> QED BY <1>1, <1>4, <1>5 DEF ScopeSteps, ScopeStep

LEMMA SettleScope ==
  ASSUME TypeOK, NEW c \in Controllers, NEW p \in Plans, job[c].plan = p,
         \/ Complete(c) \/ VerificationLapses(c) \/ ClassifyRetry(c) \/ Fail(c) \/ SettleAttemptRefusal(c)
  PROVE  ScopeSteps
<1>1. UNCHANGED plan BY DEF Complete, VerificationLapses, ClassifyRetry, Fail, SettleAttemptRefusal
<1>2. CASE UNCHANGED <<op, mach>> BY <1>1, <1>2, ScopeStill
<1>3. CASE Complete(c)
  <2>1. M(p) \in Machines BY MachineTyped
  <2>2. op[p].state \in Holding BY <1>3 DEF Complete, Settling, Holding
  <2>3. /\ op'[p].state = "completed" /\ op'[p].acctAt = op[p].acctAt /\ op'[p].gen = op[p].gen
        /\ op'[p].owner = op[p].owner
    BY <1>3 DEF TypeOK, OpType, Complete
  <2>4. \A q \in Plans \ {p} : op'[q] = op[q] BY <1>3 DEF TypeOK, Complete
  <2>5. PICK r : r = [mach[M(p)] EXCEPT !.applied = plan[p].release, !.baseline = mach[M(p)].baseline + 1,
                                        !.scopeAt = Now(M(p))]
    OBVIOUS
  <2>6. mach' = [mach EXCEPT ![M(p)] = r] BY <1>3, <2>5 DEF Complete
  <2>7. r.scopeAt = Now(M(p)) BY <2>1, <2>5 DEF TypeOK, MachType
  <2>8. mach'[M(p)].scopeAt = Now(M(p)) /\ \A m \in Machines \ {M(p)} : mach'[m] = mach[m]
    BY <2>1, <2>6, <2>7 DEF TypeOK
  <2>9. OpStep(p) BY <1>1, <2>2, <2>3, <2>8 DEF OpStep, Holding
  <2>10. \A q \in Plans \ {p} : OpStep(q) BY <1>1, <2>4 DEF OpStep
  <2>11. \A m \in Machines : ScopeStep(m) BY <2>8 DEF ScopeStep
  <2> QED BY <2>9, <2>10, <2>11 DEF ScopeSteps
<1>4. CASE ~UNCHANGED <<op, mach>> /\ ~Complete(c)
  <2>1. op[p].state \in Holding
    BY <1>4 DEF VerificationLapses, ClassifyRetry, Fail, SettleAttemptRefusal, Settling, Holding
  <2>2. PICK s \in {"unresolved", "failed", "cancelled"} :
          op' = [op EXCEPT ![p].state = s] /\ ScopeEntry(M(p))
    BY <1>4 DEF VerificationLapses, ClassifyRetry, Fail, SettleAttemptRefusal, MoveOperation
  <2> QED BY <1>1, <2>1, <2>2, MoveScope
<1> QED BY <1>2, <1>3, <1>4

LEMMA EveryStepScope ==
  ASSUME TypeInv, PlanKept, [Next]_vars
  PROVE  ScopeSteps
<1>1. TypeOK BY DEF TypeInv
<1>2. CASE UNCHANGED vars BY <1>2, ScopeStill DEF vars
<1>3. ASSUME NEW c \in Controllers,
             \/ StartController(c) \/ Crash(c) \/ Drop(c)
             \/ ScanStart(c) \/ ScanRead(c) \/ ScanRecord(c) \/ \E m \in Machines : ScanPick(c, m)
             \/ \E p \in Plans : DispatchPlan(c, p) \/ Advance(c, p)
      PROVE  ScopeSteps
  BY <1>3, ScopeStill
     DEF StartController, Crash, Drop, ScanStart, ScanRead, ScanRecord, ScanPick, DispatchPlan, Advance, rows
<1>4. ASSUME NEW c \in Controllers, NEW p \in Plans, TakeOver(c, p) \/ RequestTakeover(c, p)
      PROVE  ScopeSteps
  BY <1>1, <1>4, TakenOverScope, ScopeStill DEF TakeOver, RequestTakeover
<1>5. ASSUME NEW c \in Controllers, ExecutorStep(c) PROVE ScopeSteps
  <2>1. CASE \/ StartObservation(c) \/ ReadNode(c) \/ RecordObservation(c) \/ CommitRefused(c)
             \/ RecordCommitRefusal(c) \/ AttemptRefused(c) \/ SendRequest(c) \/ SendFails(c)
             \/ ReceiveAnswer(c)
    BY <2>1, ScopeStill
       DEF StartObservation, ReadNode, RecordObservation, CommitRefused, RecordCommitRefusal,
           AttemptRefused, SendRequest, SendFails, ReceiveAnswer, rows
  <2>2. CASE \/ CommitPlan(c) \/ RecordAttempt(c) \/ SettleAttemptRefusal(c) \/ RecordResponse(c)
             \/ Complete(c) \/ VerificationLapses(c) \/ ClassifyRetry(c) \/ Fail(c)
    <3>1. job[c].pc # "idle"
      BY <2>2 DEF CommitPlan, RecordAttempt, SettleAttemptRefusal, RecordResponse,
                  Complete, VerificationLapses, ClassifyRetry, Fail, Settling
    <3>2. PICK p \in Plans : job[c].plan = p BY <3>1 DEF TypeInv, LoopsFit, JobFits
    <3> QED BY <1>1, <2>2, <3>2, CommitScope, AttemptScope, SettleScope, ResponseScope
  <2> QED BY <1>5, <2>1, <2>2 DEF ExecutorStep
<1>6. ASSUME NEW p \in Plans, PlanStep(p) PROVE ScopeSteps
  <2>1. CASE CreatePlan(p) \/ ApprovePlan(p) \/ CancelPlan(p) \/ RevokeApproval(p) \/ Lapse(p)
    BY <1>1, <2>1, PlanScope
  <2>2. CASE ResolveByDecision(p)
    <3>1. PICK s \in {"cancelled"} : op' = [op EXCEPT ![p].state = s] /\ ScopeEntry(M(p)) /\ UNCHANGED plan
      BY <2>2 DEF ResolveByDecision, MoveOperation
    <3>2. op[p].state \in Holding BY <2>2 DEF ResolveByDecision, Holding
    <3> QED BY <1>1, <3>1, <3>2, MoveScope
  <2>3. ASSUME NEW n \in Numbers, NodeHandles(p, n) \/ DeadlinePasses(p, n) PROVE ScopeSteps
    BY <2>3, ScopeStill DEF NodeHandles, DeadlinePasses, rows
  <2>4. ASSUME NEW n \in Numbers, AccountByDecision(p, n) PROVE ScopeSteps BY <1>1, <2>4, AttemptScope
  <2> QED BY <1>6, <2>1, <2>2, <2>3, <2>4 DEF PlanStep
<1>7. ASSUME NEW m \in Machines, SetFreeze(m) \/ Publish(m) \/ ChangeNode(m) PROVE ScopeSteps
  <2>1. UNCHANGED <<op, plan>> BY <1>7 DEF SetFreeze, Publish, ChangeNode, rows
  <2>2. \A k \in Machines : mach'[k].scopeAt = mach[k].scopeAt
    <3>1. mach \in [Machines -> MachType] /\ mach[m] \in MachType BY <1>1 DEF TypeOK
    <3>2. CASE SetFreeze(m) BY <3>1, <3>2 DEF SetFreeze, MachType
    <3>3. CASE Publish(m)
      <4>1. PICK r \in Releases, moved \in {0, 1} :
              mach' = [mach EXCEPT ![m].desired = r, ![m].head = @ + moved]
        BY <3>3 DEF Publish
      <4> QED BY <3>1, <4>1 DEF MachType
    <3>4. CASE ChangeNode(m) BY <3>4 DEF ChangeNode
    <3> QED BY <1>7, <3>2, <3>3, <3>4
  <2> QED BY <2>1, <2>2 DEF ScopeSteps, OpStep, ScopeStep
<1> QED BY <1>2, <1>3, <1>4, <1>5, <1>6, <1>7 DEF Next

LEMMA PlanKeptStep ==
  ASSUME TypeInv, PlanKept, [Next]_vars
  PROVE  PlanKept'
<1>1. ScopeSteps BY EveryStepScope
<1>2. ASSUME NEW p \in Plans, op'[p].state # "none" PROVE plan'[p].state = "committed"
  <2>1. OpStep(p) BY <1>1 DEF ScopeSteps
  <2>2. CASE op[p].state # "none" BY <2>1, <2>2 DEF OpStep, PlanKept
  <2>3. CASE op[p].state = "none"
    <3>1. Commits(p) BY <1>2, <2>1, <2>3 DEF OpStep
    <3> QED BY <3>1 DEF Commits, CommitPlan, TypeInv, TypeOK, PlanType
  <2> QED BY <2>2, <2>3
<1> QED BY <1>2 DEF PlanKept

-----------------------------------------------------------------------------
(* The drift record an operation is bound to. *)

\* No drift record and no Applied changes.
SameDrift == UNCHANGED drift /\ \A m \in Machines : mach'[m].applied = mach[m].applied

LEMMA EntryApplied ==
  ASSUME TypeOK, NEW k \in Machines, ScopeEntry(k)
  PROVE  \A m \in Machines : mach'[m].applied = mach[m].applied
  BY DEF TypeOK, MachType, ScopeEntry

LEMMA DriftSteps ==
  ASSUME TypeInv, [Next]_vars
  PROVE  \/ SameDrift
         \/ \E c \in Controllers : ScanRecord(c) \/ RecordCommitRefusal(c) \/ Complete(c) \/ Fail(c)
<1>1. TypeOK BY DEF TypeInv
<1>2. UNCHANGED <<drift, mach>> => SameDrift BY DEF SameDrift
<1>3. ASSUME UNCHANGED drift, NEW p \in Plans, ScopeEntry(M(p)) PROVE SameDrift
  BY <1>1, <1>3, MachineTyped, EntryApplied DEF SameDrift
<1>4. CASE UNCHANGED vars BY <1>2, <1>4 DEF vars
<1>5. ASSUME NEW c \in Controllers,
             \/ StartController(c) \/ Crash(c) \/ Drop(c)
             \/ ScanStart(c) \/ ScanRead(c) \/ \E m \in Machines : ScanPick(c, m)
             \/ \E p \in Plans : DispatchPlan(c, p) \/ Advance(c, p)
      PROVE  SameDrift
  BY <1>2, <1>5 DEF StartController, Crash, Drop, ScanStart, ScanRead, ScanPick, DispatchPlan, Advance, rows
<1>6. ASSUME NEW c \in Controllers, NEW p \in Plans, TakeOver(c, p) \/ RequestTakeover(c, p)
      PROVE  SameDrift
  BY <1>2, <1>3, <1>6 DEF TakeOver, RequestTakeover, TakenOver
<1>7. ASSUME NEW c \in Controllers, ExecutorStep(c), ~RecordCommitRefusal(c), ~Complete(c), ~Fail(c)
      PROVE  SameDrift
  <2>1. CASE \/ StartObservation(c) \/ ReadNode(c) \/ RecordObservation(c) \/ CommitRefused(c)
             \/ AttemptRefused(c) \/ SendRequest(c) \/ SendFails(c) \/ ReceiveAnswer(c) \/ RecordAttempt(c)
    BY <1>2, <2>1
       DEF StartObservation, ReadNode, RecordObservation, CommitRefused, RecordAttempt,
           AttemptRefused, SendRequest, SendFails, ReceiveAnswer, rows
  <2>2. CASE \/ CommitPlan(c) \/ SettleAttemptRefusal(c) \/ RecordResponse(c)
             \/ VerificationLapses(c) \/ ClassifyRetry(c)
    <3>1. job[c].pc # "idle"
      BY <2>2 DEF CommitPlan, SettleAttemptRefusal, RecordResponse, VerificationLapses, ClassifyRetry, Settling
    <3>2. PICK p \in Plans : job[c].plan = p BY <3>1 DEF TypeInv, LoopsFit, JobFits
    <3>3. UNCHANGED drift /\ (UNCHANGED mach \/ ScopeEntry(M(p)))
      BY <2>2, <3>2 DEF CommitPlan, SettleAttemptRefusal, RecordResponse, VerificationLapses, ClassifyRetry,
                        MoveOperation
    <3> QED BY <1>2, <1>3, <3>3
  <2> QED BY <1>7, <2>1, <2>2 DEF ExecutorStep
<1>8. ASSUME NEW p \in Plans, PlanStep(p) PROVE SameDrift
  <2>1. CASE ResolveByDecision(p) BY <1>3, <2>1 DEF ResolveByDecision, MoveOperation
  <2>2. CASE ~ResolveByDecision(p)
    BY <1>2, <1>8, <2>2 DEF PlanStep, CreatePlan, ApprovePlan, CancelPlan, RevokeApproval, Lapse,
                       NodeHandles, DeadlinePasses, AccountByDecision
  <2> QED BY <2>1, <2>2
<1>9. ASSUME NEW m \in Machines, SetFreeze(m) \/ Publish(m) \/ ChangeNode(m) PROVE SameDrift
  <2>1. mach \in [Machines -> MachType] /\ mach[m] \in MachType BY <1>1 DEF TypeOK
  <2>2. CASE SetFreeze(m) BY <2>1, <2>2 DEF SetFreeze, MachType, SameDrift
  <2>3. CASE Publish(m)
    <3>1. PICK r \in Releases, moved \in {0, 1} :
            UNCHANGED drift /\ mach' = [mach EXCEPT ![m].desired = r, ![m].head = @ + moved]
      BY <2>3 DEF Publish
    <3> QED BY <2>1, <3>1 DEF MachType, SameDrift
  <2>4. CASE ChangeNode(m) BY <1>2, <2>4 DEF ChangeNode
  <2> QED BY <1>9, <2>2, <2>3, <2>4
<1> QED BY <1>4, <1>5, <1>6, <1>7, <1>8, <1>9 DEF Next

\* What the drift rules make of a record.
LEMMA DriftRules ==
  ASSUME TypeOK, NEW m \in Machines, NEW b, NEW cfg, NEW f \in BOOLEAN, NEW d, d = DriftAfter(m, b, cfg, f),
         drift[m].open => drift[m].digest # mach[m].applied
  PROVE  /\ d.open => d.digest # mach[m].applied
         /\ Held(m) /\ ~f => d = drift[m]
         /\ ~drift[m].open /\ d.open => cfg \notin {"unread", mach[m].applied} /\ (f \/ ~DriftExcluded(m, b))
         /\ drift[m].open /\ ~d.open => cfg = mach[m].applied /\ ~f /\ ~DriftExcluded(m, b)
         /\ f /\ cfg \notin {"unread", mach[m].applied} => d.open
<1>1. drift[m] \in DriftType BY DEF TypeOK
<1>2. mach[m].applied # "unread" BY ConstantsAssumption DEF TypeOK, MachType
<1>3. CASE cfg = "unread" \/ (~f /\ DriftExcluded(m, b))
  <2>1. d = drift[m] BY <1>3 DEF DriftAfter
  <2> QED BY <1>2, <1>3, <2>1
<1>4. CASE ~(cfg = "unread" \/ (~f /\ DriftExcluded(m, b)))
  <2>1. Held(m) => f BY <1>4 DEF DriftExcluded
  <2>2. CASE cfg # mach[m].applied
    <3>1. d.open /\ d.digest = cfg BY <1>1, <1>4, <2>2 DEF DriftAfter, DriftType
    <3> QED BY <1>4, <2>1, <2>2, <3>1
  <2>3. CASE cfg = mach[m].applied
    <3>1. IF drift[m].open /\ ~f THEN ~d.open ELSE d = drift[m] BY <1>1, <1>4, <2>3 DEF DriftAfter, DriftType
    <3> QED BY <1>4, <2>1, <2>3, <3>1
  <2> QED BY <2>2, <2>3
<1> QED BY <1>3, <1>4

BoundInv == PlanKept /\ DriftRecordBound

LEMMA BoundInit == Init => BoundInv
<1> SUFFICES ASSUME Init PROVE BoundInv OBVIOUS
<1>1. \A p \in Plans : op[p].state = "none" BY DEF Init, NoOp
<1>2. \A m \in Machines : ~drift[m].open BY DEF Init
<1> QED BY <1>1, <1>2 DEF BoundInv, PlanKept, DriftRecordBound, Holding

\* The drift rules on an observation that ends no operation leave a held machine's record alone.
LEMMA RulesKeep ==
  ASSUME TypeOK, BoundInv, NEW m \in Machines, NEW b, NEW cfg, ApplyDrift(m, b, cfg, FALSE),
         UNCHANGED <<op, plan, mach>>
  PROVE  DriftRecordBound'
<1>1. PICK d : d = DriftAfter(m, b, cfg, FALSE) OBVIOUS
<1>2. drift'[m] = d /\ \A k \in Machines \ {m} : drift'[k] = drift[k] BY <1>1 DEF TypeOK, ApplyDrift
<1>3. (d.open => d.digest # mach[m].applied) /\ (Held(m) => d = drift[m])
  BY <1>1, DriftRules DEF BoundInv, DriftRecordBound
<1>4. \A k \in Machines : drift'[k].open => drift'[k].digest # mach'[k].applied
  BY <1>2, <1>3 DEF BoundInv, DriftRecordBound
<1>5. ASSUME NEW p \in Plans, op[p].state \in Holding PROVE drift'[M(p)] = drift[M(p)]
  BY <1>2, <1>3, <1>5, MachineTyped DEF Held
<1>6. \A p \in Plans : op'[p].state \in Holding => OpenDrift(M(p))' = plan'[p].drift
  BY <1>5 DEF BoundInv, DriftRecordBound, OpenDrift
<1> QED BY <1>4, <1>6 DEF DriftRecordBound

\* The operation that settles is the only one on its machine.
LEMMA OneOnMachine ==
  ASSUME AttemptsInv, NEW p \in Plans, NEW q \in Plans, M(p) = M(q), op[p].state \in Holding, op[q].state \in Holding
  PROVE  p = q
  BY DEF AttemptsInv, OneHolder, SameCluster

LEMMA BoundStep ==
  ASSUME TypeInv, TypeInv', AttemptsInv, BoundInv, [Next]_vars
  PROVE  BoundInv'
<1>1. TypeOK /\ PlanKept BY DEF TypeInv, BoundInv
<1>2. PlanKept' /\ ScopeSteps BY <1>1, PlanKeptStep, EveryStepScope
<1>3. CASE SameDrift
  <2>1. \A m \in Machines : drift'[m].open => drift'[m].digest # mach'[m].applied
    BY <1>3 DEF SameDrift, BoundInv, DriftRecordBound
  <2>2. ASSUME NEW p \in Plans, op'[p].state \in Holding PROVE OpenDrift(M(p)) = plan'[p].drift
    <3>1. OpStep(p) BY <1>2 DEF ScopeSteps
    <3>2. CASE op[p].state # "none" BY <2>2, <3>1, <3>2 DEF OpStep, BoundInv, DriftRecordBound
    <3>3. CASE op[p].state = "none"
      <4>1. PICK c \in Controllers : job[c].plan = p /\ CommitPlan(c)
        BY <2>2, <3>1, <3>3 DEF OpStep, Commits, Holding
      <4>2. OpenDrift(M(p)) = plan[p].drift BY <4>1 DEF CommitPlan, ScopeGate
      <4>3. plan'[p].drift = plan[p].drift BY <1>1, <4>1 DEF CommitPlan, TypeOK, PlanType
      <4> QED BY <4>2, <4>3
    <3> QED BY <3>2, <3>3
  <2>3. \A p \in Plans : OpenDrift(M(p))' = OpenDrift(M(p)) BY <1>3 DEF SameDrift, OpenDrift
  <2> QED BY <1>2, <2>1, <2>2, <2>3 DEF BoundInv, DriftRecordBound
<1>4. ASSUME NEW c \in Controllers, ScanRecord(c) PROVE BoundInv'
  <2>1. scan[c].m \in Machines BY <1>4 DEF ScanRecord, TypeInv, LoopsFit, ScanFits
  <2>2. ApplyDrift(scan[c].m, scan[c].n, scan[c].read.cfg, FALSE) /\ UNCHANGED <<op, plan, mach>>
    BY <1>4 DEF ScanRecord, rows
  <2> QED BY <1>1, <1>2, <2>1, <2>2, RulesKeep DEF BoundInv
<1>5. ASSUME NEW c \in Controllers, RecordCommitRefusal(c) PROVE BoundInv'
  <2>1. job[c].plan \in Plans BY <1>5 DEF RecordCommitRefusal, TypeInv, LoopsFit, JobFits
  <2>2. /\ UNCHANGED <<op, plan, mach>>
        /\ \/ UNCHANGED drift
           \/ ApplyDrift(M(job[c].plan), job[c].n, obs[M(job[c].plan)][job[c].n].cfg, FALSE)
    BY <1>5 DEF RecordCommitRefusal, rows
  <2>3. UNCHANGED drift => SameDrift BY <2>2 DEF SameDrift
  <2> QED BY <1>1, <1>2, <1>3, <2>1, <2>2, <2>3, MachineTyped, RulesKeep DEF BoundInv
<1>6. ASSUME NEW c \in Controllers, Complete(c) \/ Fail(c) PROVE BoundInv'
  <2>1. PICK p \in Plans : job[c].plan = p
    BY <1>6 DEF Complete, Fail, Settling, TypeInv, LoopsFit, JobFits
  <2>2. PICK m \in Machines : m = M(p) BY MachineTyped
  <2>3. op[p].state \in Holding BY <1>6, <2>1 DEF Complete, Fail, Settling, Holding
  <2>4. op'[p].state \notin Holding /\ \A q \in Plans \ {p} : op'[q] = op[q]
    <3>1. PICK s \in {"completed", "failed"} : op' = [op EXCEPT ![p].state = s]
      BY <1>6, <2>1 DEF Complete, Fail, MoveOperation
    <3> QED BY <1>1, <3>1 DEF TypeOK, OpType, Holding
  <2>5. UNCHANGED plan BY <1>6 DEF Complete, Fail
  <2>6. \A q \in Plans : op'[q].state \in Holding => M(q) # m /\ op[q].state \in Holding
    BY <2>2, <2>3, <2>4, OneOnMachine
  <2>7. \A k \in Machines \ {m} : drift'[k] = drift[k] /\ mach'[k].applied = mach[k].applied
    BY <1>1, <1>6, <2>1, <2>2 DEF Complete, Fail, MoveOperation, ScopeEntry, ApplyDrift, TypeOK, MachType
  <2>8. drift'[m].open => drift'[m].digest # mach'[m].applied
    <3>1. CASE Complete(c)
      <4>1. drift'[m] = [drift[m] EXCEPT !.open = drift[m].open /\ drift[m].id # plan[p].drift]
        BY <1>1, <2>1, <2>2, <3>1 DEF Complete, Reverted, TypeOK
      <4>2. drift[m].open => drift[m].id = plan[p].drift
        BY <2>2, <2>3 DEF BoundInv, DriftRecordBound, OpenDrift
      <4>3. drift[m] \in DriftType BY <1>1 DEF TypeOK
      <4> QED BY <4>1, <4>2, <4>3 DEF DriftType
    <3>2. CASE Fail(c)
      <4>1. PICK cfg : cfg = obs[m][job[c].n].cfg OBVIOUS
      <4>2. PICK b, f, d : f = TRUE /\ b = job[c].n /\ d = DriftAfter(m, b, cfg, f) OBVIOUS
      <4>3. drift'[m] = d BY <1>1, <2>1, <2>2, <3>2, <4>1, <4>2 DEF Fail, ApplyDrift, TypeOK
      <4>4. mach'[m].applied = mach[m].applied
        BY <1>1, <2>1, <2>2, <3>2, EntryApplied DEF Fail, MoveOperation
      <4>5. d.open => d.digest # mach[m].applied
        <5>1. drift[m].open => drift[m].digest # mach[m].applied BY DEF BoundInv, DriftRecordBound
        <5> QED BY <1>1, <4>2, <5>1, DriftRules
      <4> QED BY <4>3, <4>4, <4>5
    <3> QED BY <1>6, <3>1, <3>2
  <2>9. \A k \in Machines : drift'[k].open => drift'[k].digest # mach'[k].applied
    BY <2>7, <2>8 DEF BoundInv, DriftRecordBound
  <2>10. \A q \in Plans : op'[q].state \in Holding => OpenDrift(M(q))' = plan'[q].drift
    BY <2>5, <2>6, <2>7, MachineTyped DEF BoundInv, DriftRecordBound, OpenDrift
  <2> QED BY <1>2, <2>9, <2>10 DEF BoundInv, DriftRecordBound
<1> QED BY <1>3, <1>4, <1>5, <1>6, DriftSteps

LEMMA BoundInvariant == Spec => []BoundInv
<1>1. TypeInv /\ AttemptsInv /\ BoundInv /\ [Next]_vars => BoundInv'
  <2> SUFFICES ASSUME TypeInv, AttemptsInv, BoundInv, [Next]_vars PROVE BoundInv' OBVIOUS
  <2>1. TypeInv' BY TypeStep
  <2> QED BY <2>1, BoundStep
<1> QED BY <1>1, BoundInit, DispatchInvariant, PTL DEF Spec

\* While an operation holds its machine no loop of any process opens, closes or replaces the drift
\* record its plan binds, and an open record names a configuration other than Applied's
\* (comparison 6 at commitment, the held exclusion of applyDrift, completeOperation's close).
THEOREM RecordBound == Spec => []DriftRecordBound
<1>1. BoundInv => DriftRecordBound BY DEF BoundInv
<1> QED BY <1>1, BoundInvariant, PTL

-----------------------------------------------------------------------------
(* What one step may do to observations and to the loops that make them. *)

\* A process records x as the configuration it read at basis b of machine m.
Records(m, b, x) ==
  \/ \E c \in Controllers : RecordObservation(c) /\ M(job[c].plan) = m /\ job[c].n = b /\ job[c].read.cfg = x
  \/ \E c \in Controllers : ScanRecord(c) /\ scan[c].m = m /\ scan[c].n = b /\ scan[c].read.cfg = x

EntryStep(m) ==
  /\ \A b \in 1..Len(obs[m]) :
       /\ b \in 1..Len(obs'[m])
       /\ obs'[m][b].by = obs[m][b].by /\ obs'[m][b].purpose = obs[m][b].purpose
       /\ obs'[m][b].cfg = obs[m][b].cfg \/ Records(m, b, obs'[m][b].cfg)
  /\ \A b \in 1..Len(obs'[m]) : b \in 1..Len(obs[m]) \/ obs'[m][b].cfg = "unread"

LEMMA StartEntries ==
  ASSUME TypeOK, NEW c \in Controllers, NEW k \in Machines, NEW u, NEW p, StartEntry(c, k, u, p)
  PROVE  /\ \A m \in Machines : EntryStep(m)
         /\ obs'[k][Now(k) + 1].by = c /\ obs'[k][Now(k) + 1].purpose = u
<1>1. PICK e : e = [by |-> c, purpose |-> u, plan |-> p, head |-> mach[k].head, ident |-> "unread",
                    minor |-> "unread", cfg |-> "unread", done |-> 0]
  OBVIOUS
<1>2. e.by = c /\ e.purpose = u /\ e.cfg = "unread" BY <1>1
<1>3. obs' = [obs EXCEPT ![k] = Append(obs[k], e)] BY <1>1 DEF StartEntry
<1>4. obs[k] \in Seq(ObsType) /\ Len(obs[k]) \in Nat BY LenProperties DEF TypeOK
<1>5. PICK s : s = Append(obs[k], e) OBVIOUS
<1>6. /\ Len(s) = Len(obs[k]) + 1 /\ s[Len(obs[k]) + 1] = e
      /\ \A i \in 1..Len(obs[k]) : s[i] = obs[k][i]
  BY <1>4, <1>5
<1>7. obs'[k] = s /\ \A m \in Machines \ {k} : obs'[m] = obs[m] BY <1>3, <1>5 DEF TypeOK
<1>8. EntryStep(k) BY <1>2, <1>4, <1>6, <1>7 DEF EntryStep
<1>9. \A m \in Machines \ {k} : EntryStep(m) BY <1>7 DEF EntryStep
<1> QED BY <1>2, <1>6, <1>7, <1>8, <1>9 DEF Now

LEMMA RecordEntries ==
  ASSUME TypeOK, NEW k \in Machines, NEW b \in 1..Len(obs[k]), NEW r, RecordEntry(k, b, r),
         Records(k, b, r.cfg)
  PROVE  (\A m \in Machines : EntryStep(m)) /\ obs'[k][b].cfg = r.cfg
<1>1. obs[k] \in Seq(ObsType) /\ obs[k][b] \in ObsType BY ObsTyped DEF TypeOK
<1>2. PICK e : e = [obs[k][b] EXCEPT !.ident = r.ident, !.minor = r.minor, !.cfg = r.cfg,
                                     !.head = IF r.access THEN obs[k][b].head ELSE 0, !.done = Now(k)]
  OBVIOUS
<1>3. e.by = obs[k][b].by /\ e.purpose = obs[k][b].purpose /\ e.cfg = r.cfg BY <1>1, <1>2 DEF ObsType
<1>4. obs' = [obs EXCEPT ![k] = [obs[k] EXCEPT ![b] = e]] BY <1>2 DEF RecordEntry
<1>5. PICK s : s = [obs[k] EXCEPT ![b] = e] OBVIOUS
<1>6. Len(s) = Len(obs[k]) /\ s[b] = e /\ \A i \in 1..Len(obs[k]) : i # b => s[i] = obs[k][i]
  BY <1>1, <1>5
<1>7. obs'[k] = s /\ \A m \in Machines \ {k} : obs'[m] = obs[m] BY <1>4, <1>5 DEF TypeOK
<1>8. EntryStep(k) BY <1>3, <1>6, <1>7 DEF EntryStep
<1>9. \A m \in Machines \ {k} : EntryStep(m) BY <1>7 DEF EntryStep
<1> QED BY <1>3, <1>6, <1>7, <1>8, <1>9

\* An observing loop of c: where it starts, what it reads, where it goes.
JobMove(c) ==
  LET j == job[c]
      k == job'[c] IN
  /\ k.pc \in {"reading", "record", "settle"} =>
       \/ k = j
       \/ k.pc = "reading" /\ StartObservation(c)
       \/ /\ k.plan = j.plan /\ k.n = j.n /\ k.purpose = j.purpose /\ k.gen = j.gen /\ k.next = j.next
          /\ \/ k.pc = "record" /\ ReadNode(c) /\ k.read \in Reads(M(j.plan))
             \/ k.pc = "settle" /\ j.next = "settle" /\ RecordObservation(c)
ScanMove(c) ==
  LET s == scan[c]
      t == scan'[c] IN
  /\ t.pc \in {"reading", "record"} =>
       \/ t = s
       \/ t.pc = "reading" /\ ScanStart(c)
       \/ t.pc = "record" /\ t.m = s.m /\ t.n = s.n /\ ScanRead(c) /\ t.read \in Reads(s.m)

LEMMA JobElsewhere ==
  ASSUME TypeOK, NEW c \in Controllers, NEW k, SetJob(c, k), k.pc \notin {"reading", "record", "settle"}
  PROVE  \A d \in Controllers : JobMove(d)
<1>1. job'[c] = k /\ \A d \in Controllers \ {c} : job'[d] = job[d] BY DEF TypeOK, SetJob
<1>2. JobMove(c) BY <1>1 DEF JobMove
<1>3. \A d \in Controllers \ {c} : JobMove(d) BY <1>1 DEF JobMove
<1> QED BY <1>2, <1>3

LoopSteps == /\ \A m \in Machines : EntryStep(m)
             /\ \A c \in Controllers : JobMove(c) /\ ScanMove(c)

LEMMA EntriesStill == ASSUME UNCHANGED obs PROVE \A m \in Machines : EntryStep(m)
  BY DEF EntryStep
LEMMA ScansStill == ASSUME UNCHANGED scan PROVE \A c \in Controllers : ScanMove(c)
  BY DEF ScanMove
LEMMA JobsStill == ASSUME UNCHANGED job PROVE \A c \in Controllers : JobMove(c)
  BY DEF JobMove

LEMMA ObserveLoops ==
  ASSUME TypeInv, NEW c \in Controllers, StartObservation(c) \/ ReadNode(c) \/ RecordObservation(c)
  PROVE  LoopSteps
<1>1. TypeOK BY DEF TypeInv
<1>2. PICK j \in JobType : j = job[c] BY <1>1 DEF TypeOK
<1>3. PICK p \in Plans : p = j.plan
  BY <1>2 DEF StartObservation, ReadNode, RecordObservation, TypeInv, LoopsFit, JobFits
<1>4. PICK m \in Machines : m = M(p) BY MachineTyped
<1>5. \A d \in Controllers : ScanMove(d)
  BY ScansStill DEF StartObservation, ReadNode, RecordObservation
<1>6. job \in [Controllers -> JobType] BY <1>1 DEF TypeOK
<1>7. \A d \in Controllers \ {c} : JobMove(d)
  <2>1. \A d \in Controllers \ {c} : job'[d] = job[d]
    BY <1>6 DEF StartObservation, ReadNode, RecordObservation, SetJob
  <2> QED BY <2>1 DEF JobMove
<1>8. CASE StartObservation(c)
  <2>1. \E k : job' = [job EXCEPT ![c] = k] /\ k = [j EXCEPT !.pc = "reading", !.n = Now(M(p)) + 1]
    BY <1>2, <1>3, <1>8 DEF StartObservation, SetJob
  <2>2. job'[c].pc = "reading" BY <1>6, <2>1 DEF JobType
  <2>3. JobMove(c) BY <1>8, <2>2 DEF JobMove
  <2>4. StartEntry(c, m, j.purpose, p) BY <1>2, <1>3, <1>4, <1>8 DEF StartObservation
  <2>5. \A k \in Machines : EntryStep(k) BY <1>1, <2>4, StartEntries
  <2> QED BY <1>5, <1>7, <2>3, <2>5 DEF LoopSteps
<1>9. CASE ReadNode(c)
  <2>1. PICK r \in Reads(M(p)) : job' = [job EXCEPT ![c] = [j EXCEPT !.pc = "record", !.read = r]]
    BY <1>2, <1>3, <1>9 DEF ReadNode, SetJob
  <2>2. /\ job'[c].pc = "record" /\ job'[c].plan = p /\ job'[c].n = j.n /\ job'[c].purpose = j.purpose
        /\ job'[c].gen = j.gen /\ job'[c].next = j.next /\ job'[c].read = r
    BY <1>3, <1>6, <2>1 DEF JobType
  <2>3. JobMove(c) BY <1>2, <1>3, <1>9, <2>1, <2>2 DEF JobMove
  <2>4. \A k \in Machines : EntryStep(k) BY <1>9, EntriesStill DEF ReadNode
  <2> QED BY <1>5, <1>7, <2>3, <2>4 DEF LoopSteps
<1>10. CASE RecordObservation(c)
  <2>1. PICK b \in 1..Len(obs[m]) : b = j.n
    BY <1>2, <1>3, <1>4, <1>10 DEF RecordObservation, TypeInv, LoopsFit, JobFits
  <2>2. PICK r : r = j.read OBVIOUS
  <2>3. RecordEntry(m, b, r) BY <1>2, <1>3, <1>4, <1>10, <2>1, <2>2 DEF RecordObservation
  <2>4. Records(m, b, r.cfg) BY <1>2, <1>3, <1>4, <1>10, <2>1, <2>2 DEF Records
  <2>5. \A k \in Machines : EntryStep(k) BY <1>1, <2>3, <2>4, RecordEntries
  <2>6. \/ job' = [job EXCEPT ![c] = NoJob]
        \/ job' = [job EXCEPT ![c] = [j EXCEPT !.pc = j.next, !.read = Unread]]
    BY <1>2, <1>10 DEF RecordObservation, SetJob
  <2>7. \/ job'[c].pc = "idle"
        \/ /\ job'[c].pc = j.next /\ job'[c].plan = j.plan /\ job'[c].n = j.n
           /\ job'[c].purpose = j.purpose /\ job'[c].gen = j.gen /\ job'[c].next = j.next
    <3>1. CASE job' = [job EXCEPT ![c] = NoJob] BY <1>6, <3>1 DEF NoJob
    <3>2. CASE job' = [job EXCEPT ![c] = [j EXCEPT !.pc = j.next, !.read = Unread]]
      BY <1>6, <3>2 DEF JobType
    <3> QED BY <2>6, <3>1, <3>2
  <2>8. j.next \in {"idle", "commit", "settle"} BY DEF JobType
  <2>9. JobMove(c) BY <1>2, <1>10, <2>7, <2>8 DEF JobMove
  <2> QED BY <1>5, <1>7, <2>5, <2>9 DEF LoopSteps
<1> QED BY <1>8, <1>9, <1>10

LEMMA ScanLoops ==
  ASSUME TypeInv, NEW c \in Controllers,
         ScanStart(c) \/ ScanRead(c) \/ ScanRecord(c) \/ \E m \in Machines : ScanPick(c, m)
  PROVE  LoopSteps
<1>1. TypeOK BY DEF TypeInv
<1>2. PICK s \in ScanType : s = scan[c] BY <1>1 DEF TypeOK
<1>3. \A d \in Controllers : JobMove(d)
  BY JobsStill DEF ScanStart, ScanRead, ScanRecord, ScanPick
<1>4. scan \in [Controllers -> ScanType] BY <1>1 DEF TypeOK
<1>5. \A d \in Controllers \ {c} : ScanMove(d)
  <2>1. \A d \in Controllers \ {c} : scan'[d] = scan[d]
    BY <1>4 DEF ScanStart, ScanRead, ScanRecord, ScanPick
  <2> QED BY <2>1 DEF ScanMove
<1>6. CASE \E m \in Machines : ScanPick(c, m)
  <2>1. scan'[c].pc = "observe" BY <1>4, <1>6 DEF ScanPick, NoScan
  <2>2. \A k \in Machines : EntryStep(k) BY <1>6, EntriesStill DEF ScanPick
  <2>3. ScanMove(c) BY <2>1 DEF ScanMove
  <2> QED BY <1>3, <1>5, <2>2, <2>3 DEF LoopSteps
<1>7. CASE ScanStart(c)
  <2>1. s.m \in Machines BY <1>2, <1>7 DEF ScanStart, TypeInv, LoopsFit, ScanFits
  <2>2. StartEntry(c, s.m, "drift", "none") BY <1>2, <1>7 DEF ScanStart
  <2>3. \A k \in Machines : EntryStep(k) BY <1>1, <2>1, <2>2, StartEntries
  <2>4. scan' = [scan EXCEPT ![c].pc = "reading", ![c].n = Now(s.m) + 1] BY <1>2, <1>7 DEF ScanStart
  <2>5. scan'[c].pc = "reading" BY <1>4, <2>4 DEF ScanType
  <2>6. ScanMove(c) BY <1>7, <2>5 DEF ScanMove
  <2> QED BY <1>3, <1>5, <2>3, <2>6 DEF LoopSteps
<1>8. CASE ScanRead(c)
  <2>1. PICK r \in Reads(s.m) : scan' = [scan EXCEPT ![c].pc = "record", ![c].read = r]
    BY <1>2, <1>8 DEF ScanRead
  <2>2. scan'[c].pc = "record" /\ scan'[c].m = s.m /\ scan'[c].n = s.n /\ scan'[c].read = r
    BY <1>2, <1>4, <2>1 DEF ScanType
  <2>3. ScanMove(c) BY <1>2, <1>8, <2>1, <2>2 DEF ScanMove
  <2>4. \A k \in Machines : EntryStep(k) BY <1>8, EntriesStill DEF ScanRead
  <2> QED BY <1>3, <1>5, <2>3, <2>4 DEF LoopSteps
<1>9. CASE ScanRecord(c)
  <2>1. PICK m \in Machines : m = s.m BY <1>2, <1>9 DEF ScanRecord, TypeInv, LoopsFit, ScanFits
  <2>2. PICK b \in 1..Len(obs[m]) : b = s.n
    BY <1>2, <1>9, <2>1 DEF ScanRecord, TypeInv, LoopsFit, ScanFits
  <2>3. PICK r : r = s.read OBVIOUS
  <2>4. RecordEntry(m, b, r) BY <1>2, <1>9, <2>1, <2>2, <2>3 DEF ScanRecord
  <2>5. Records(m, b, r.cfg) BY <1>2, <1>9, <2>1, <2>2, <2>3 DEF Records
  <2>6. \A k \in Machines : EntryStep(k) BY <1>1, <2>4, <2>5, RecordEntries
  <2>7. scan'[c] = NoScan BY <1>4, <1>9 DEF ScanRecord
  <2>8. ScanMove(c) BY <2>7 DEF ScanMove, NoScan
  <2> QED BY <1>3, <1>5, <2>6, <2>8 DEF LoopSteps
<1> QED BY <1>6, <1>7, <1>8, <1>9

LEMMA EveryStepLoops ==
  ASSUME TypeInv, [Next]_vars
  PROVE  LoopSteps
<1>1. TypeOK /\ job \in [Controllers -> JobType] /\ scan \in [Controllers -> ScanType] BY DEF TypeInv, TypeOK
<1>2. UNCHANGED <<obs, job, scan>> => LoopSteps BY EntriesStill, ScansStill, JobsStill DEF LoopSteps
<1>3. ASSUME NEW c \in Controllers, NEW k, SetJob(c, k), k.pc \notin {"reading", "record", "settle"},
             UNCHANGED <<obs, scan>>
      PROVE  LoopSteps
  BY <1>1, <1>3, EntriesStill, ScansStill, JobElsewhere DEF LoopSteps
<1>4. CASE UNCHANGED vars BY <1>2, <1>4 DEF vars
<1>5. ASSUME NEW c \in Controllers, StartController(c) \/ Drop(c) PROVE LoopSteps
  <2>1. CASE StartController(c) BY <1>2, <2>1 DEF StartController
  <2>2. CASE Drop(c)
    <3>1. SetJob(c, NoJob) /\ UNCHANGED <<obs, scan>> BY <2>2 DEF Drop
    <3> QED BY <1>3, <3>1 DEF NoJob
  <2> QED BY <1>5, <2>1, <2>2
<1>6. ASSUME NEW c \in Controllers, Crash(c) PROVE LoopSteps
  <2>1. SetJob(c, NoJob) /\ scan'[c] = NoScan /\ UNCHANGED obs
    BY <1>1, <1>6 DEF Crash, SetJob
  <2>2. \A d \in Controllers \ {c} : scan'[d] = scan[d] BY <1>1, <1>6 DEF Crash
  <2>3. NoJob.pc \notin {"reading", "record", "settle"} /\ NoScan.pc \notin {"reading", "record"}
    BY DEF NoJob, NoScan
  <2>4. \A d \in Controllers : JobMove(d) BY <1>1, <2>1, <2>3, JobElsewhere
  <2>5. \A d \in Controllers : ScanMove(d)
    <3>1. ScanMove(c) BY <2>1, <2>3 DEF ScanMove
    <3>2. \A d \in Controllers \ {c} : ScanMove(d) BY <2>2 DEF ScanMove
    <3> QED BY <3>1, <3>2
  <2> QED BY <2>1, <2>4, <2>5, EntriesStill DEF LoopSteps
<1>7. ASSUME NEW c \in Controllers, NEW p \in Plans,
             TakeOver(c, p) \/ RequestTakeover(c, p) \/ DispatchPlan(c, p) \/ Advance(c, p)
      PROVE  LoopSteps
  <2>1. CASE TakeOver(c, p) \/ RequestTakeover(c, p) BY <1>2, <2>1 DEF TakeOver, RequestTakeover, loops
  <2>2. CASE DispatchPlan(c, p)
    <3>1. PICK k : k = ObserveJob(p, 1, "evidence", "commit") OBVIOUS
    <3>2. SetJob(c, k) /\ UNCHANGED <<obs, scan>> BY <2>2, <3>1 DEF DispatchPlan
    <3>3. k.pc = "observe" BY <3>1 DEF ObserveJob, NoJob
    <3> QED BY <1>3, <3>2, <3>3
  <2>3. CASE Advance(c, p)
    <3>1. PICK k \in NextJobs(p) : SetJob(c, k) /\ UNCHANGED <<obs, scan>> BY <2>3 DEF Advance
    <3>2. \/ k = [NoJob EXCEPT !.pc = "refused", !.plan = p, !.gen = op[p].gen]
          \/ k = AttemptJob(p, op[p].gen)
          \/ k = ObserveJob(p, op[p].gen, "completion", "settle")
          \/ k = ObserveJob(p, op[p].gen, "recovery", "settle")
          \/ k = ObserveJob(p, op[p].gen, "recovery", "idle")
      BY Zenon DEF NextJobs
    <3>3. k.pc \in {"refused", "attempt", "observe"} BY <3>2 DEF ObserveJob, AttemptJob, NoJob
    <3> QED BY <1>3, <3>1, <3>3
  <2> QED BY <1>7, <2>1, <2>2, <2>3
<1>8. ASSUME NEW c \in Controllers, ExecutorStep(c) PROVE LoopSteps
  <2>1. CASE StartObservation(c) \/ ReadNode(c) \/ RecordObservation(c) BY <2>1, ObserveLoops
  <2>2. CASE ~(StartObservation(c) \/ ReadNode(c) \/ RecordObservation(c))
    <3>1. UNCHANGED <<obs, scan>>
      BY <1>8, <2>2
         DEF ExecutorStep, CommitPlan, CommitRefused, RecordCommitRefusal, RecordAttempt, AttemptRefused,
             SettleAttemptRefusal, SendRequest, SendFails, ReceiveAnswer, RecordResponse,
             Complete, VerificationLapses, ClassifyRetry, Fail
    <3>2. PICK j \in JobType : j = job[c] BY <1>1
    <3>3. ASSUME NEW x \in {"refuse", "send", "refused", "wait", "respond"}, NEW k, SetJob(c, k), k.pc = x
          PROVE  LoopSteps
      BY <1>3, <3>1, <3>3
    <3>4. ASSUME SetJob(c, NoJob) PROVE LoopSteps BY <1>3, <3>1, <3>4 DEF NoJob
    <3>5. ASSUME NEW p, NEW g, SetJob(c, AttemptJob(p, g)) \/ SetJob(c, ObserveJob(p, g, "completion", "settle"))
          PROVE  LoopSteps
      BY <1>3, <3>1, <3>5 DEF AttemptJob, ObserveJob, NoJob
    <3>6. CASE \/ CommitPlan(c) \/ RecordCommitRefusal(c) \/ SettleAttemptRefusal(c) \/ RecordResponse(c)
               \/ Complete(c) \/ VerificationLapses(c) \/ ClassifyRetry(c) \/ Fail(c)
      <4>1. \/ SetJob(c, NoJob)
            \/ \E p, g : SetJob(c, AttemptJob(p, g)) \/ SetJob(c, ObserveJob(p, g, "completion", "settle"))
        BY <3>6 DEF CommitPlan, RecordCommitRefusal, SettleAttemptRefusal, RecordResponse,
                    Complete, VerificationLapses, ClassifyRetry, Fail
      <4> QED BY <3>4, <3>5, <4>1
    <3>7. CASE CommitRefused(c)
      <4>1. SetJob(c, NoJob) \/ \E b : SetJob(c, [j EXCEPT !.pc = "refuse", !.n = b])
        BY <3>2, <3>7 DEF CommitRefused
      <4>2. ASSUME NEW b, SetJob(c, [j EXCEPT !.pc = "refuse", !.n = b]) PROVE LoopSteps
        <5>1. PICK k : k = [j EXCEPT !.pc = "refuse", !.n = b] OBVIOUS
        <5>2. k.pc = "refuse" BY <5>1 DEF JobType
        <5> QED BY <3>3, <4>2, <5>1, <5>2
      <4> QED BY <3>4, <4>1, <4>2
    <3>8. CASE RecordAttempt(c)
      <4>1. PICK k : k = [j EXCEPT !.pc = "send", !.n = op[job[c].plan].made + 1] OBVIOUS
      <4>2. k.pc = "send" BY <4>1 DEF JobType
      <4> QED BY <3>2, <3>3, <3>8, <4>1, <4>2 DEF RecordAttempt
    <3>9. CASE AttemptRefused(c) \/ SendRequest(c)
      <4>1. \E x \in {"refused", "wait"} : SetJob(c, [j EXCEPT !.pc = x])
        BY <3>2, <3>9 DEF AttemptRefused, SendRequest
      <4>2. PICK x \in {"refused", "wait"} : SetJob(c, [j EXCEPT !.pc = x]) BY <4>1
      <4>3. PICK k : k = [j EXCEPT !.pc = x] OBVIOUS
      <4>4. k.pc = x BY <4>3 DEF JobType
      <4> QED BY <3>3, <4>2, <4>3, <4>4
    <3>10. CASE SendFails(c) \/ ReceiveAnswer(c)
      <4>1. PICK r : SetJob(c, [j EXCEPT !.pc = "respond", !.resp = r])
        BY <3>2, <3>10 DEF SendFails, ReceiveAnswer
      <4>2. PICK k : k = [j EXCEPT !.pc = "respond", !.resp = r] OBVIOUS
      <4>3. k.pc = "respond" BY <4>2 DEF JobType
      <4> QED BY <3>3, <4>1, <4>2, <4>3
    <3> QED BY <1>8, <2>2, <3>6, <3>7, <3>8, <3>9, <3>10 DEF ExecutorStep
  <2> QED BY <2>1, <2>2
<1>9. ASSUME NEW p \in Plans, PlanStep(p) PROVE LoopSteps
  BY <1>2, <1>9 DEF PlanStep, CreatePlan, ApprovePlan, CancelPlan, RevokeApproval, Lapse,
                   ResolveByDecision, NodeHandles, DeadlinePasses, AccountByDecision, loops
<1>10. ASSUME NEW m \in Machines, SetFreeze(m) \/ Publish(m) \/ ChangeNode(m) PROVE LoopSteps
  BY <1>2, <1>10 DEF SetFreeze, Publish, ChangeNode, loops
<1>11. ASSUME NEW c \in Controllers,
              ScanStart(c) \/ ScanRead(c) \/ ScanRecord(c) \/ \E m \in Machines : ScanPick(c, m)
       PROVE  LoopSteps
  BY <1>11, ScanLoops
<1> QED BY <1>4, <1>5, <1>6, <1>7, <1>8, <1>9, <1>10, <1>11 DEF Next

\* The environment an instance chose stays, and a node changes only under an unaccounted attempt.
LEMMA WorldSteps ==
  ASSUME TypeInv, AttemptsInv, SendInv, [Next]_vars
  PROVE  /\ left'.kinds = left.kinds /\ left'.late = left.late
         /\ \/ ~Undisturbed
            \/ \A m \in Machines : node'[m].cfg = node[m].cfg
            \/ \E p \in Plans, n \in Numbers :
                 /\ NodeHandles(p, n) /\ n \in Unaccounted(p) /\ wire'[p][n] \in {"applied", "refused"}
                 /\ \A m \in Machines : m # M(p) => node'[m].cfg = node[m].cfg
                 /\ node'[M(p)].cfg = node[M(p)].cfg \/ wire'[p][n] = "applied"
<1>1. TypeOK BY DEF TypeInv
<1>2. CASE UNCHANGED vars BY <1>2 DEF vars
<1>3. ASSUME NEW c \in Controllers,
             \/ StartController(c) \/ Crash(c) \/ Drop(c) \/ ExecutorStep(c)
             \/ ScanStart(c) \/ ScanRead(c) \/ ScanRecord(c) \/ \E m \in Machines : ScanPick(c, m)
             \/ \E p \in Plans : TakeOver(c, p) \/ RequestTakeover(c, p) \/ DispatchPlan(c, p) \/ Advance(c, p)
      PROVE  UNCHANGED <<left, node>>
  <2>1. CASE ExecutorStep(c)
    BY <2>1 DEF ExecutorStep, StartObservation, ReadNode, RecordObservation, CommitPlan, CommitRefused,
                RecordCommitRefusal, RecordAttempt, AttemptRefused, SettleAttemptRefusal, SendRequest,
                SendFails, ReceiveAnswer, RecordResponse, Complete, VerificationLapses, ClassifyRetry, Fail
  <2>2. CASE ~ExecutorStep(c)
    BY <1>3, <2>2 DEF StartController, Crash, Drop, ScanStart, ScanRead, ScanRecord, ScanPick,
                      TakeOver, RequestTakeover, DispatchPlan, Advance
  <2> QED BY <2>1, <2>2
<1>4. ASSUME NEW p \in Plans, PlanStep(p), \A n \in Numbers : ~NodeHandles(p, n) PROVE UNCHANGED <<left, node>>
  BY <1>4 DEF PlanStep, CreatePlan, ApprovePlan, CancelPlan, RevokeApproval, Lapse,
              ResolveByDecision, DeadlinePasses, AccountByDecision
<1>5. ASSUME NEW p \in Plans, NEW n \in Numbers, NodeHandles(p, n)
      PROVE  /\ UNCHANGED left
             /\ \/ ~Undisturbed
                \/ /\ n \in Unaccounted(p) /\ wire'[p][n] \in {"applied", "refused"}
                   /\ \A m \in Machines : m # M(p) => node'[m].cfg = node[m].cfg
                   /\ node'[M(p)].cfg = node[M(p)].cfg \/ wire'[p][n] = "applied"
  <2>1. UNCHANGED left BY <1>5 DEF NodeHandles
  <2>2. ASSUME Undisturbed PROVE n \in Unaccounted(p)
    <3>1. MayLand(p, n) BY <1>5, <2>2 DEF NodeHandles, Undisturbed, MayLand
    <3> QED BY <3>1, LandingUnaccounted
  <2>3. wire'[p][n] \in {"applied", "refused"} BY <1>1, <1>5 DEF NodeHandles, TypeOK
  <2>4. \A m \in Machines : m # M(p) => node'[m].cfg = node[m].cfg BY <1>1, <1>5 DEF NodeHandles, TypeOK
  <2>5. UNCHANGED node \/ wire'[p][n] = "applied" BY <1>1, <1>5 DEF NodeHandles, TypeOK
  <2> QED BY <2>1, <2>2, <2>3, <2>4, <2>5
<1>6. ASSUME NEW m \in Machines, SetFreeze(m) \/ Publish(m) \/ ChangeNode(m)
      PROVE  /\ left'.kinds = left.kinds /\ left'.late = left.late
             /\ ~Undisturbed \/ \A k \in Machines : node'[k].cfg = node[k].cfg
  <2>1. PICK kind : Happens(kind) /\ (kind = "foreign" \/ UNCHANGED node \/
          \E i, v \in Reports : node' = [node EXCEPT ![m].ident = i, ![m].minor = v])
    BY <1>6 DEF SetFreeze, Publish, ChangeNode
  <2>2. left \in LimitType BY <1>1 DEF TypeOK
  <2>3. left'.kinds = left.kinds /\ left'.late = left.late BY <2>1, <2>2 DEF Happens, LimitType
  <2>4. kind \in left.kinds BY <2>1 DEF Happens
  <2>5. ASSUME NEW i \in Reports, NEW v \in Reports, node' = [node EXCEPT ![m].ident = i, ![m].minor = v]
        PROVE  \A k \in Machines : node'[k].cfg = node[k].cfg
    <3>1. node \in [Machines -> NodeType] /\ node[m] \in NodeType BY <1>1 DEF TypeOK
    <3> QED BY <2>5, <3>1 DEF NodeType
  <2> QED BY <2>1, <2>3, <2>4, <2>5 DEF Undisturbed
<1> QED BY <1>2, <1>3, <1>4, <1>5, <1>6 DEF Next

-----------------------------------------------------------------------------
(* What an observation read is still so when it is used. *)

\* Nothing has held the machine since basis b: no operation holds it, and none changed state after.
Steady(m, b) == b > mach[m].scopeAt /\ ~Held(m)

\* A process settles an operation it owns on an observation begun after the last accounting.
Owned(c, j) ==
  Owns(c, j.plan, j.gen) /\ op[j.plan].state \in Holding /\ j.n > op[j.plan].acctAt

Is(x, m) == x \in {"unread", node[m].cfg}

\* An observation under way is its process's own: nobody else writes its entry.
OwnEntries ==
  \A c \in Controllers :
    /\ job[c].pc \in {"reading", "record", "settle"} =>
         /\ obs[M(job[c].plan)][job[c].n].by = c
         /\ obs[M(job[c].plan)][job[c].n].purpose = job[c].purpose
    /\ scan[c].pc \in {"reading", "record"} =>
         obs[scan[c].m][scan[c].n].by = c /\ obs[scan[c].m][scan[c].n].purpose = "drift"

EntriesTrue == \A m \in Machines : \A b \in 1..Len(obs[m]) : Steady(m, b) => Is(obs[m][b].cfg, m)
ReadingsTrue ==
  \A c \in Controllers :
    /\ job[c].pc = "record" /\ Steady(M(job[c].plan), job[c].n) => Is(job[c].read.cfg, M(job[c].plan))
    /\ scan[c].pc = "record" /\ Steady(scan[c].m, scan[c].n) => Is(scan[c].read.cfg, scan[c].m)
SettlesTrue ==
  \A c \in Controllers :
    /\ job[c].pc = "record" /\ job[c].next = "settle" /\ Owned(c, job[c]) =>
         Is(job[c].read.cfg, M(job[c].plan))
    /\ job[c].pc = "settle" /\ Owned(c, job[c]) =>
         Is(obs[M(job[c].plan)][job[c].n].cfg, M(job[c].plan))
ReadsTrue == EntriesTrue /\ ReadingsTrue /\ SettlesTrue

\* Where no read fails, what a process recorded or is about to names a configuration.
AlwaysRead == "unread" \notin left.kinds
AllRead ==
  \A c \in Controllers :
    /\ job[c].pc = "record" => job[c].read.cfg # "unread"
    /\ scan[c].pc = "record" => scan[c].read.cfg # "unread"
    /\ job[c].pc = "settle" => obs[M(job[c].plan)][job[c].n].cfg # "unread"

\* A machine that runs something else than Applied names, with no drift record open, is held by the
\* operation whose request it applied.
Loud ==
  \A m \in Machines : node[m].cfg # mach[m].applied /\ ~drift[m].open =>
    \E p \in Plans : M(p) = m /\ op[p].state \in Holding /\ \E n \in Numbers : wire[p][n] = "applied"

DriftInv ==
  /\ OwnEntries
  /\ Undisturbed => ReadsTrue
  /\ AlwaysRead => AllRead
  /\ Undisturbed /\ AlwaysRead => Loud

LEMMA DriftInit == Init => DriftInv
<1> SUFFICES ASSUME Init PROVE DriftInv OBVIOUS
<1>1. \A c \in Controllers : job[c].pc = "idle" /\ scan[c].pc = "idle" BY DEF Init, NoJob, NoScan
<1>2. \A m \in Machines : Len(obs[m]) = 0 /\ node[m].cfg = Adopted /\ mach[m].applied = Adopted BY DEF Init
<1> QED BY <1>1, <1>2 DEF DriftInv, OwnEntries, ReadsTrue, EntriesTrue, ReadingsTrue, SettlesTrue, AllRead, Loud

LEMMA ReadsWhat ==
  ASSUME TypeOK, NEW m \in Machines, NEW r \in Reads(m)
  PROVE  Is(r.cfg, m) /\ (AlwaysRead => r.cfg # "unread")
<1>1. node[m].cfg # "unread" BY ConstantsAssumption DEF TypeOK, NodeType, Configs
<1>2. \/ AlwaysRead /\ r.cfg = node[m].cfg
      \/ ~AlwaysRead /\ r.cfg \in {"unread", node[m].cfg}
  BY DEF Reads, AlwaysRead, Unread
<1> QED BY <1>1, <1>2 DEF Is

LEMMA SteadyBack ==
  ASSUME TypeInv, ScopeSteps, NEW m \in Machines, NEW b \in 1..Len(obs[m]), Steady(m, b)'
  PROVE  Steady(m, b)
<1>1. TypeOK BY DEF TypeInv
<1>2. Now(m) \in Nat /\ mach[m].scopeAt \in Nat /\ b <= Now(m) /\ b \in Nat
  BY <1>1, NowTyped DEF TypeOK, MachType, Now
<1>3. b > mach'[m].scopeAt BY DEF Steady
<1>4. mach'[m].scopeAt = mach[m].scopeAt /\ mach'[m].scopeAt # Now(m)
  BY <1>2, <1>3 DEF ScopeSteps, ScopeStep
<1>5. ~Held(m)
  <2>1. SUFFICES ASSUME NEW p \in Plans, M(p) = m, op[p].state \in Holding PROVE FALSE BY DEF Held
  <2>2. op'[p].state \notin Holding BY <2>1 DEF Steady, Held
  <2>3. OpStep(p) /\ op[p].state # "none" BY <2>1 DEF ScopeSteps, Holding
  <2> QED BY <1>4, <2>1, <2>2, <2>3 DEF OpStep
<1> QED BY <1>3, <1>4, <1>5 DEF Steady

LEMMA UnheldNode ==
  ASSUME TypeInv, AttemptsInv, SendInv, [Next]_vars, Undisturbed, NEW m \in Machines, ~Held(m)
  PROVE  node'[m].cfg = node[m].cfg
<1>1. SUFFICES ASSUME NEW p \in Plans, NEW n \in Unaccounted(p), M(p) = m PROVE FALSE BY WorldSteps
<1>2. PlanAttempts(p) BY DEF AttemptsInv
<1>3. op[p].state \in Holding BY <1>1, <1>2 DEF PlanAttempts, Unaccounted, Holding
<1> QED BY <1>1, <1>3 DEF Held

LEMMA OwnedBack ==
  ASSUME TypeInv, TypeInv', ScopeSteps, NEW c \in Controllers, NEW j \in JobType, j.plan \in Plans,
         ToSettle(j), SettleFits(c, j), j.n \in 1..Len(obs[M(j.plan)]), Owned(c, j)'
  PROVE  Owned(c, j)
<1>1. TypeOK /\ TypeOK' BY DEF TypeInv
<1>2. PICK p \in Plans : p = j.plan OBVIOUS
<1>3. op[p].state # "none" /\ j.gen <= op[p].gen BY <1>2 DEF SettleFits
<1>4. OpStep(p) BY DEF ScopeSteps
<1>5. op'[p].owner = c /\ op'[p].gen = j.gen /\ op'[p].state \in Holding /\ j.n > op'[p].acctAt
  BY <1>2 DEF Owned, Owns
<1>6. op[p].gen \in Nat /\ j.gen \in Nat BY <1>1 DEF TypeOK, OpType, JobType
<1>7. op'[p].gen = op[p].gen /\ op'[p].owner = op[p].owner BY <1>3, <1>4, <1>5, <1>6 DEF OpStep
<1>8. op'[p].acctAt = op[p].acctAt
  <2>1. M(p) \in Machines /\ Now(M(p)) \in Nat /\ j.n \in Nat /\ j.n <= Now(M(p))
    BY <1>1, <1>2, MachineTyped, NowTyped DEF Now
  <2> QED BY <1>3, <1>4, <1>5, <2>1 DEF OpStep
<1>9. op[p].state \in Holding BY <1>3, <1>4, <1>5 DEF OpStep
<1> QED BY <1>2, <1>5, <1>7, <1>8, <1>9 DEF Owned, Owns

\* While its owner settles an operation, no attempt can change its node.
LEMMA OwnedNode ==
  ASSUME TypeInv, AttemptsInv, SendInv, [Next]_vars, Undisturbed, NEW c \in Controllers, NEW j \in JobType,
         j.plan \in Plans, ToSettle(j), SettleFits(c, j), Owned(c, j)
  PROVE  node'[M(j.plan)].cfg = node[M(j.plan)].cfg
<1>1. M(j.plan) \in Machines BY MachineTyped
<1>2. SUFFICES ASSUME NEW p \in Plans, NEW n \in Unaccounted(p), M(p) = M(j.plan) PROVE FALSE
  BY <1>1, WorldSteps
<1>3. PlanAttempts(p) BY DEF AttemptsInv
<1>4. op[p].state \in Holding BY <1>2, <1>3 DEF PlanAttempts, Unaccounted, Holding
<1>5. p = j.plan BY <1>2, <1>4, OneOnMachine DEF Owned
<1>6. Unaccounted(j.plan) = {} BY DEF SettleFits, Owned
<1> QED BY <1>2, <1>5, <1>6

\* Where an observing loop stands, in full.
LEMMA LoopsTyped ==
  ASSUME TypeInv, NEW c \in Controllers
  PROVE  /\ job[c].pc \in {"reading", "record", "settle"} =>
              /\ job[c].plan \in Plans /\ M(job[c].plan) \in Machines
              /\ job[c].n \in 1..Len(obs[M(job[c].plan)])
         /\ scan[c].pc \in {"reading", "record"} => scan[c].m \in Machines /\ scan[c].n \in 1..Len(obs[scan[c].m])
<1>1. JobFits(job[c], obs) /\ ScanFits(scan[c], obs) BY DEF TypeInv, LoopsFit
<1> QED BY <1>1, MachineTyped DEF JobFits, ScanFits

LEMMA OwnEntriesStep ==
  ASSUME TypeInv, OwnEntries, LoopSteps
  PROVE  OwnEntries'
<1>1. TypeOK BY DEF TypeInv
<1>2. ASSUME NEW c \in Controllers, job'[c].pc \in {"reading", "record", "settle"}
      PROVE  /\ obs'[M(job'[c].plan)][job'[c].n].by = c
             /\ obs'[M(job'[c].plan)][job'[c].n].purpose = job'[c].purpose
  <2>1. JobMove(c) BY DEF LoopSteps
  <2>2. PICK j \in JobType : j = job[c] BY <1>1 DEF TypeOK
  <2>3. CASE StartObservation(c)
    <3>1. PICK p \in Plans : p = j.plan BY <2>2, <2>3 DEF StartObservation, TypeInv, LoopsFit, JobFits
    <3>2. PICK m \in Machines : m = M(p) BY MachineTyped
    <3>3. StartEntry(c, m, j.purpose, p) BY <2>2, <2>3, <3>1, <3>2 DEF StartObservation
    <3>4. obs'[m][Now(m) + 1].by = c /\ obs'[m][Now(m) + 1].purpose = j.purpose BY <1>1, <3>3, StartEntries
    <3>5. job' = [job EXCEPT ![c] = [j EXCEPT !.pc = "reading", !.n = Now(m) + 1]]
      BY <2>2, <2>3, <3>1, <3>2 DEF StartObservation, SetJob
    <3>6. job \in [Controllers -> JobType] BY <1>1 DEF TypeOK
    <3>7. job'[c].plan = p /\ job'[c].n = Now(m) + 1 /\ job'[c].purpose = j.purpose
      BY <3>1, <3>5, <3>6 DEF JobType
    <3> QED BY <3>2, <3>4, <3>7
  <2>4. CASE ~StartObservation(c)
    <3>1. job'[c].plan = j.plan /\ job'[c].n = j.n /\ job'[c].purpose = j.purpose
      BY <1>2, <2>1, <2>2, <2>4 DEF JobMove
    <3>2. j.pc \in {"reading", "record", "settle"}
      BY <1>2, <2>1, <2>2, <2>4 DEF JobMove, ReadNode, RecordObservation
    <3>3. M(j.plan) \in Machines /\ j.n \in 1..Len(obs[M(j.plan)]) BY <2>2, <3>2, LoopsTyped
    <3>4. obs[M(j.plan)][j.n].by = c /\ obs[M(j.plan)][j.n].purpose = j.purpose
      BY <2>2, <3>2 DEF OwnEntries
    <3> QED BY <3>1, <3>3, <3>4 DEF LoopSteps, EntryStep
  <2> QED BY <2>3, <2>4
<1>3. ASSUME NEW c \in Controllers, scan'[c].pc \in {"reading", "record"}
      PROVE  obs'[scan'[c].m][scan'[c].n].by = c /\ obs'[scan'[c].m][scan'[c].n].purpose = "drift"
  <2>1. ScanMove(c) BY DEF LoopSteps
  <2>2. PICK s \in ScanType : s = scan[c] BY <1>1 DEF TypeOK
  <2>3. CASE ScanStart(c)
    <3>1. PICK m \in Machines : m = s.m BY <2>2, <2>3 DEF ScanStart, TypeInv, LoopsFit, ScanFits
    <3>2. StartEntry(c, m, "drift", "none") BY <2>2, <2>3, <3>1 DEF ScanStart
    <3>3. obs'[m][Now(m) + 1].by = c /\ obs'[m][Now(m) + 1].purpose = "drift" BY <1>1, <3>2, StartEntries
    <3>4. scan' = [scan EXCEPT ![c].pc = "reading", ![c].n = Now(m) + 1]
      BY <2>2, <2>3, <3>1 DEF ScanStart
    <3>5. scan \in [Controllers -> ScanType] BY <1>1 DEF TypeOK
    <3>6. scan'[c].m = m /\ scan'[c].n = Now(m) + 1 BY <2>2, <3>1, <3>4, <3>5 DEF ScanType
    <3> QED BY <3>3, <3>6
  <2>4. CASE ~ScanStart(c)
    <3>1. scan'[c].m = s.m /\ scan'[c].n = s.n BY <1>3, <2>1, <2>2, <2>4 DEF ScanMove
    <3>2. s.pc \in {"reading", "record"} BY <1>3, <2>1, <2>2, <2>4 DEF ScanMove, ScanRead
    <3>3. s.m \in Machines /\ s.n \in 1..Len(obs[s.m]) BY <2>2, <3>2, LoopsTyped
    <3>4. obs[s.m][s.n].by = c /\ obs[s.m][s.n].purpose = "drift" BY <2>2, <3>2 DEF OwnEntries
    <3> QED BY <3>1, <3>3, <3>4 DEF LoopSteps, EntryStep
  <2> QED BY <2>3, <2>4
<1> QED BY <1>2, <1>3 DEF OwnEntries

\* What a process records at an entry that has stayed steady is what the node runs.
LEMMA RecordsTrue ==
  ASSUME ReadingsTrue, NEW m \in Machines, NEW b, NEW x, Records(m, b, x), Steady(m, b)
  PROVE  Is(x, m)
  BY DEF Records, ReadingsTrue, RecordObservation, ScanRecord

LEMMA EntriesStep ==
  ASSUME TypeInv, AttemptsInv, SendInv, ScopeSteps, LoopSteps, [Next]_vars, Undisturbed, ReadsTrue
  PROVE  EntriesTrue'
<1> SUFFICES ASSUME NEW m \in Machines, NEW b \in 1..Len(obs'[m]), Steady(m, b)'
             PROVE  obs'[m][b].cfg \in {"unread", node'[m].cfg}
  BY DEF EntriesTrue, Is
<1>1. EntryStep(m) BY DEF LoopSteps
<1>2. CASE b \notin 1..Len(obs[m]) BY <1>1, <1>2 DEF EntryStep
<1>3. CASE b \in 1..Len(obs[m])
  <2>1. Steady(m, b) BY <1>3, SteadyBack
  <2>2. node'[m].cfg = node[m].cfg BY <2>1, UnheldNode DEF Steady
  <2>3. CASE obs'[m][b].cfg = obs[m][b].cfg
    <3>1. Is(obs[m][b].cfg, m) BY <1>3, <2>1 DEF ReadsTrue, EntriesTrue
    <3> QED BY <2>2, <2>3, <3>1 DEF Is
  <2>4. CASE Records(m, b, obs'[m][b].cfg)
    <3>1. PICK x : x = obs'[m][b].cfg OBVIOUS
    <3>2. Records(m, b, x) BY <2>4, <3>1
    <3>3. Is(x, m) BY <2>1, <3>2, RecordsTrue DEF ReadsTrue
    <3> QED BY <2>2, <3>1, <3>3 DEF Is
  <2> QED BY <1>1, <1>3, <2>3, <2>4 DEF EntryStep
<1> QED BY <1>2, <1>3

LEMMA ReadingsStep ==
  ASSUME TypeInv, AttemptsInv, SendInv, ScopeSteps, LoopSteps, [Next]_vars, Undisturbed, ReadsTrue
  PROVE  ReadingsTrue'
<1>1. TypeOK BY DEF TypeInv
<1>2. ASSUME NEW c \in Controllers, job'[c].pc = "record", Steady(M(job[c].plan), job[c].n)'
      PROVE  job'[c].read.cfg \in {"unread", node'[M(job'[c].plan)].cfg}
  <2>1. JobMove(c) BY DEF LoopSteps
  <2>2. PICK j \in JobType : j = job[c] BY <1>1 DEF TypeOK
  <2>3. job'[c].plan = j.plan /\ job'[c].n = j.n /\ j.pc \in {"reading", "record"}
    BY <1>2, <2>1, <2>2 DEF JobMove, ReadNode
  <2>4. PICK m \in Machines : m = M(j.plan) /\ j.n \in 1..Len(obs[m]) BY <2>2, <2>3, LoopsTyped
  <2>5. PICK b \in 1..Len(obs[m]) : b = j.n BY <2>4
  <2>6. Steady(m, b)' BY <1>2, <2>3, <2>4, <2>5 DEF Steady, Held
  <2>7. Steady(m, b) BY <2>6, SteadyBack
  <2>8. node'[m].cfg = node[m].cfg BY <2>7, UnheldNode DEF Steady
  <2>9. CASE job'[c] = job[c]
    <3>1. Is(j.read.cfg, m) BY <1>2, <2>2, <2>4, <2>5, <2>7, <2>9 DEF ReadsTrue, ReadingsTrue
    <3> QED BY <2>2, <2>3, <2>4, <2>8, <2>9, <3>1 DEF Is
  <2>10. CASE job'[c] # job[c]
    <3>1. PICK r \in Reads(m) : r = job'[c].read BY <1>2, <2>1, <2>2, <2>4, <2>10 DEF JobMove
    <3>2. Is(r.cfg, m) BY <1>1, ReadsWhat
    <3> QED BY <2>3, <2>4, <2>8, <3>1, <3>2 DEF Is
  <2> QED BY <2>9, <2>10
<1>3. ASSUME NEW c \in Controllers, scan'[c].pc = "record", Steady(scan[c].m, scan[c].n)'
      PROVE  scan'[c].read.cfg \in {"unread", node'[scan'[c].m].cfg}
  <2>1. ScanMove(c) BY DEF LoopSteps
  <2>2. PICK s \in ScanType : s = scan[c] BY <1>1 DEF TypeOK
  <2>3. scan'[c].m = s.m /\ scan'[c].n = s.n /\ s.pc \in {"reading", "record"}
    BY <1>3, <2>1, <2>2 DEF ScanMove, ScanRead
  <2>4. PICK m \in Machines : m = s.m /\ s.n \in 1..Len(obs[m]) BY <2>2, <2>3, LoopsTyped
  <2>5. PICK b \in 1..Len(obs[m]) : b = s.n BY <2>4
  <2>6. Steady(m, b)' BY <1>3, <2>3, <2>4, <2>5 DEF Steady, Held
  <2>7. Steady(m, b) BY <2>6, SteadyBack
  <2>8. node'[m].cfg = node[m].cfg BY <2>7, UnheldNode DEF Steady
  <2>9. CASE scan'[c] = scan[c]
    <3>1. Is(s.read.cfg, m) BY <1>3, <2>2, <2>4, <2>5, <2>7, <2>9 DEF ReadsTrue, ReadingsTrue
    <3> QED BY <2>2, <2>3, <2>4, <2>8, <2>9, <3>1 DEF Is
  <2>10. CASE scan'[c] # scan[c]
    <3>1. PICK r \in Reads(m) : r = scan'[c].read BY <1>3, <2>1, <2>2, <2>4, <2>10 DEF ScanMove
    <3>2. Is(r.cfg, m) BY <1>1, ReadsWhat
    <3> QED BY <2>3, <2>4, <2>8, <3>1, <3>2 DEF Is
  <2> QED BY <2>9, <2>10
<1> QED BY <1>2, <1>3 DEF ReadingsTrue, Is

\* The entry a process records is its own read.
LEMMA RecordedRead ==
  ASSUME TypeInv, NEW c \in Controllers, RecordObservation(c)
  PROVE  obs'[M(job[c].plan)][job[c].n].cfg = job[c].read.cfg
<1>1. TypeOK /\ job[c].pc = "record" BY DEF TypeInv, RecordObservation
<1>2. PICK m \in Machines : m = M(job[c].plan) /\ job[c].n \in 1..Len(obs[m]) BY <1>1, LoopsTyped
<1>3. PICK b \in 1..Len(obs[m]) : b = job[c].n BY <1>2
<1>4. PICK r : r = job[c].read OBVIOUS
<1>5. RecordEntry(m, b, r) BY <1>2, <1>3, <1>4 DEF RecordObservation
<1>6. Records(m, b, r.cfg) BY <1>2, <1>3, <1>4 DEF Records
<1>7. obs'[m][b].cfg = r.cfg BY <1>1, <1>5, <1>6, RecordEntries
<1> QED BY <1>2, <1>3, <1>4, <1>7

\* Nobody writes the entry a settling process rests on.
LEMMA SettledEntry ==
  ASSUME TypeInv, OwnEntries, LoopSteps, NEW c \in Controllers, job[c].pc = "settle"
  PROVE  obs'[M(job[c].plan)][job[c].n].cfg = obs[M(job[c].plan)][job[c].n].cfg
<1>1. PICK m \in Machines : m = M(job[c].plan) /\ job[c].n \in 1..Len(obs[m]) BY LoopsTyped
<1>2. PICK b \in 1..Len(obs[m]) : b = job[c].n BY <1>1
<1>3. obs[m][b].by = c /\ obs[m][b].purpose = job[c].purpose BY <1>1, <1>2 DEF OwnEntries
<1>4. job[c].purpose # "drift" BY DEF TypeInv, TypeOK, JobType
<1>5. ASSUME NEW x, Records(m, b, x) PROVE FALSE
  <2>1. CASE \E d \in Controllers : RecordObservation(d) /\ M(job[d].plan) = m /\ job[d].n = b
    <3>1. PICK d \in Controllers : RecordObservation(d) /\ M(job[d].plan) = m /\ job[d].n = b BY <2>1
    <3>2. job[d].pc = "record" BY <3>1 DEF RecordObservation
    <3>3. obs[m][b].by = d BY <3>1, <3>2 DEF OwnEntries
    <3> QED BY <1>3, <3>2, <3>3
  <2>2. CASE \E d \in Controllers : ScanRecord(d) /\ scan[d].m = m /\ scan[d].n = b
    <3>1. PICK d \in Controllers : ScanRecord(d) /\ scan[d].m = m /\ scan[d].n = b BY <2>2
    <3>2. scan[d].pc = "record" BY <3>1 DEF ScanRecord
    <3>3. obs[m][b].purpose = "drift" BY <3>1, <3>2 DEF OwnEntries
    <3> QED BY <1>3, <1>4, <3>3
  <2> QED BY <1>5, <2>1, <2>2 DEF Records
<1>6. PICK x : x = obs'[m][b].cfg OBVIOUS
<1>7. x = obs[m][b].cfg \/ Records(m, b, x) BY <1>6 DEF LoopSteps, EntryStep
<1> QED BY <1>1, <1>2, <1>5, <1>6, <1>7

LEMMA SettlesStep ==
  ASSUME TypeInv, TypeInv', AttemptsInv, SendInv, ScopeSteps, LoopSteps, [Next]_vars, Undisturbed,
         OwnEntries, ReadsTrue
  PROVE  SettlesTrue'
<1>1. TypeOK /\ TypeOK' BY DEF TypeInv
<1>2. ASSUME NEW c \in Controllers, ToSettle(job'[c]), job'[c].pc \in {"record", "settle"}, Owned(c, job[c])'
      PROVE  /\ job'[c].pc = "record" => job'[c].read.cfg \in {"unread", node'[M(job'[c].plan)].cfg}
             /\ job'[c].pc = "settle" =>
                  obs'[M(job'[c].plan)][job'[c].n].cfg \in {"unread", node'[M(job'[c].plan)].cfg}
  <2>1. JobMove(c) BY DEF LoopSteps
  <2>2. PICK j \in JobType : j = job[c] BY <1>1 DEF TypeOK
  <2>3. /\ job'[c].plan = j.plan /\ job'[c].n = j.n /\ job'[c].gen = j.gen /\ job'[c].next = j.next
        /\ j.pc \in {"reading", "record", "settle"}
    BY <1>2, <2>1, <2>2 DEF JobMove, ReadNode, RecordObservation
  <2>4. j.plan \in Plans /\ M(j.plan) \in Machines /\ j.n \in 1..Len(obs[M(j.plan)])
    BY <2>2, <2>3, LoopsTyped
  <2>5. PICK m \in Machines : m = M(j.plan) BY <2>4
  <2>6. ToSettle(j)
    BY <1>2, <2>1, <2>2, <2>3 DEF ToSettle, JobMove, ReadNode, RecordObservation
  <2>7. SettleFits(c, j)
    <3>1. SettleFits(c, job[c]) BY DEF SendInv, JobsTrue
    <3> QED BY <2>2, <3>1
  <2>8. Owned(c, j)' BY <1>2, <2>3 DEF Owned, Owns
  <2>9. Owned(c, j) BY <2>4, <2>6, <2>7, <2>8, OwnedBack
  <2>10. node'[m].cfg = node[m].cfg BY <2>4, <2>5, <2>6, <2>7, <2>9, OwnedNode
  <2>11. CASE job'[c] = job[c] /\ j.pc = "record"
    <3>1. j.next = "settle" BY <2>6, <2>11 DEF ToSettle
    <3>2. Is(j.read.cfg, m) BY <2>2, <2>5, <2>9, <2>11, <3>1 DEF ReadsTrue, SettlesTrue
    <3> QED BY <2>2, <2>5, <2>10, <2>11, <3>2 DEF Is
  <2>12. CASE job'[c] = job[c] /\ j.pc = "settle"
    <3>1. Is(obs[m][j.n].cfg, m) BY <2>2, <2>5, <2>9, <2>12 DEF ReadsTrue, SettlesTrue
    <3>2. obs'[m][j.n].cfg = obs[m][j.n].cfg BY <2>2, <2>5, <2>12, SettledEntry
    <3> QED BY <2>2, <2>5, <2>10, <2>12, <3>1, <3>2 DEF Is
  <2>13. CASE job'[c] # job[c] /\ job'[c].pc = "record"
    <3>1. PICK r \in Reads(m) : r = job'[c].read BY <2>1, <2>2, <2>5, <2>13 DEF JobMove
    <3>2. Is(r.cfg, m) BY <1>1, ReadsWhat
    <3> QED BY <2>3, <2>5, <2>10, <2>13, <3>1, <3>2 DEF Is
  <2>14. CASE job'[c] # job[c] /\ job'[c].pc = "settle"
    <3>1. RecordObservation(c) /\ j.next = "settle" BY <2>1, <2>2, <2>14 DEF JobMove
    <3>2. j.pc = "record" BY <2>2, <3>1 DEF RecordObservation
    <3>3. Is(j.read.cfg, m) BY <2>2, <2>5, <2>9, <3>1, <3>2 DEF ReadsTrue, SettlesTrue
    <3>4. obs'[m][j.n].cfg = j.read.cfg BY <2>2, <2>5, <3>1, RecordedRead
    <3> QED BY <2>3, <2>5, <2>10, <2>14, <3>3, <3>4 DEF Is
  <2>15. job'[c] = job[c] => j.pc = job'[c].pc BY <2>2
  <2> QED BY <1>2, <2>11, <2>12, <2>13, <2>14, <2>15
<1> QED BY <1>2 DEF SettlesTrue, Is, ToSettle

LEMMA AllReadStep ==
  ASSUME TypeInv, LoopSteps, OwnEntries, AlwaysRead, AllRead
  PROVE  AllRead'
<1>1. TypeOK BY DEF TypeInv
<1>2. ASSUME NEW c \in Controllers
      PROVE  /\ job'[c].pc = "record" => job'[c].read.cfg # "unread"
             /\ job'[c].pc = "settle" => obs'[M(job'[c].plan)][job'[c].n].cfg # "unread"
  <2>1. JobMove(c) BY DEF LoopSteps
  <2>2. ASSUME job'[c].pc = "record" PROVE job'[c].read.cfg # "unread"
    <3>1. CASE job'[c] = job[c] BY <2>2, <3>1 DEF AllRead
    <3>2. CASE job'[c] # job[c]
      <4>1. job[c].pc = "reading" BY <2>1, <2>2, <3>2 DEF JobMove, ReadNode
      <4>2. PICK m \in Machines : m = M(job[c].plan) BY <4>1, LoopsTyped
      <4>3. PICK r \in Reads(m) : r = job'[c].read BY <2>1, <2>2, <3>2, <4>2 DEF JobMove
      <4> QED BY <1>1, <4>3, ReadsWhat
    <3> QED BY <3>1, <3>2
  <2>3. ASSUME job'[c].pc = "settle" PROVE obs'[M(job'[c].plan)][job'[c].n].cfg # "unread"
    <3>1. CASE job'[c] = job[c] BY <2>3, <3>1, SettledEntry DEF AllRead
    <3>2. CASE job'[c] # job[c]
      <4>1. /\ RecordObservation(c) /\ job[c].pc = "record"
            /\ job'[c].plan = job[c].plan /\ job'[c].n = job[c].n
        BY <2>1, <2>3, <3>2 DEF JobMove, RecordObservation
      <4> QED BY <4>1, RecordedRead DEF AllRead
    <3> QED BY <3>1, <3>2
  <2> QED BY <2>2, <2>3
<1>3. ASSUME NEW c \in Controllers, scan'[c].pc = "record" PROVE scan'[c].read.cfg # "unread"
  <2>1. ScanMove(c) BY DEF LoopSteps
  <2>2. CASE scan'[c] = scan[c] BY <1>3, <2>2 DEF AllRead
  <2>3. CASE scan'[c] # scan[c]
    <3>1. scan[c].pc = "reading" BY <1>3, <2>1, <2>3 DEF ScanMove, ScanRead
    <3>2. PICK m \in Machines : m = scan[c].m BY <3>1, LoopsTyped
    <3>3. PICK r \in Reads(m) : r = scan'[c].read BY <1>3, <2>1, <2>3, <3>2 DEF ScanMove
    <3> QED BY <1>1, <3>3, ReadsWhat
  <2> QED BY <2>2, <2>3
<1> QED BY <1>2, <1>3 DEF AllRead

-----------------------------------------------------------------------------
(* What opens and what closes a drift record. *)

\* The drift rules, run on an observation that ends no operation, follow what the node runs.
LEMMA RulesTrue ==
  ASSUME TypeInv, BoundInv, ReadsTrue, NEW m \in Machines, NEW b \in Nat, NEW cfg, Steady(m, b) => Is(cfg, m),
         ApplyDrift(m, b, cfg, FALSE), NEW k \in Machines
  PROVE  /\ ~drift[k].open /\ drift'[k].open => node[k].cfg # mach[k].applied
         /\ drift[k].open /\ ~drift'[k].open => node[k].cfg = mach[k].applied
<1>1. TypeOK BY DEF TypeInv
<1>2. PICK d : d = DriftAfter(m, b, cfg, FALSE) OBVIOUS
<1>3. drift'[m] = d /\ (k # m => drift'[k] = drift[k]) BY <1>1, <1>2 DEF TypeOK, ApplyDrift
<1>4. /\ ~drift[m].open /\ d.open => cfg \notin {"unread", mach[m].applied} /\ ~DriftExcluded(m, b)
      /\ drift[m].open /\ ~d.open => cfg = mach[m].applied /\ ~DriftExcluded(m, b)
  <2>1. drift[m].open => drift[m].digest # mach[m].applied BY DEF BoundInv, DriftRecordBound
  <2> QED BY <1>1, <1>2, <2>1, DriftRules
<1>5. ~DriftExcluded(m, b) => cfg \in {"unread", node[m].cfg}
  <2>1. mach[m].scopeAt \in Nat BY <1>1 DEF TypeOK, MachType
  <2> QED BY <2>1 DEF DriftExcluded, Steady, Is
<1>6. mach[m].applied # "unread" BY <1>1, ConstantsAssumption DEF TypeOK, MachType
<1> QED BY <1>3, <1>4, <1>5, <1>6

\* What an owner settles on is what the node runs.
LEMMA SettlesOn ==
  ASSUME TypeInv, ReadsTrue, NEW c \in Controllers, NEW p \in Plans, job[c].plan = p, Complete(c) \/ Fail(c)
  PROVE  Is(obs[M(p)][job[c].n].cfg, M(p))
<1>1. job[c].pc = "settle" /\ Owned(c, job[c])
  BY DEF Complete, Fail, Settling, Settles, Owned, Holding
<1> QED BY <1>1 DEF ReadsTrue, SettlesTrue

LEMMA CompleteTrue ==
  ASSUME TypeInv, ReadsTrue, NEW c \in Controllers, NEW p \in Plans, job[c].plan = p, Complete(c)
  PROVE  /\ node[M(p)].cfg = mach'[M(p)].applied
         /\ drift'[M(p)].open => drift[M(p)].open
<1>1. TypeOK /\ M(p) \in Machines BY MachineTyped DEF TypeInv
<1>2. PICK x : x = obs[M(p)][job[c].n].cfg OBVIOUS
<1>3. x = plan[p].release BY <1>2 DEF Complete, Established
<1>4. plan[p].release # "unread" BY <1>1, ConstantsAssumption DEF TypeOK, PlanType
<1>5. node[M(p)].cfg = plan[p].release BY <1>2, <1>3, <1>4, SettlesOn DEF Is
<1>6. mach'[M(p)].applied = plan[p].release BY <1>1 DEF Complete, TypeOK, MachType
<1>7. drift'[M(p)].open => drift[M(p)].open BY <1>1 DEF Complete, Reverted, TypeOK, DriftType
<1> QED BY <1>5, <1>6, <1>7

LEMMA FailTrue ==
  ASSUME TypeInv, BoundInv, ReadsTrue, NEW c \in Controllers, NEW p \in Plans, job[c].plan = p, Fail(c)
  PROVE  /\ ~drift[M(p)].open /\ drift'[M(p)].open => node[M(p)].cfg # mach[M(p)].applied
         /\ drift[M(p)].open => drift'[M(p)].open
         /\ AllRead /\ node[M(p)].cfg # mach[M(p)].applied => drift'[M(p)].open
<1>1. TypeOK BY DEF TypeInv
<1>2. PICK m \in Machines : m = M(p) BY MachineTyped
<1>3. PICK cfg : cfg = obs[m][job[c].n].cfg OBVIOUS
<1>4. PICK b, f, d : f = TRUE /\ b = job[c].n /\ d = DriftAfter(m, b, cfg, f) OBVIOUS
<1>5. drift'[m] = d BY <1>1, <1>2, <1>3, <1>4 DEF Fail, ApplyDrift, TypeOK
<1>6. /\ ~drift[m].open /\ d.open => cfg \notin {"unread", mach[m].applied}
      /\ drift[m].open => d.open
      /\ cfg \notin {"unread", mach[m].applied} => d.open
  <2>1. drift[m].open => drift[m].digest # mach[m].applied BY DEF BoundInv, DriftRecordBound
  <2> QED BY <1>1, <1>4, <2>1, DriftRules
<1>7. cfg \in {"unread", node[m].cfg} BY <1>2, <1>3, SettlesOn DEF Is
<1>8. AllRead => cfg # "unread" BY <1>2, <1>3 DEF AllRead, Fail, Settling
<1> QED BY <1>2, <1>5, <1>6, <1>7, <1>8

-----------------------------------------------------------------------------
(* A machine that runs what Applied does not name is held or drifted. *)

\* A request a node applied stays applied.
LEMMA WireStays ==
  ASSUME TypeInv, SendInv, [Next]_vars, NEW p \in Plans, NEW n \in Numbers, wire[p][n] = "applied"
  PROVE  wire'[p][n] = "applied"
<1>1. wire \in [Plans -> [Numbers -> {"unsent", "flight", "applied", "refused"}]] BY DEF TypeInv, TypeOK
<1>2. CASE UNCHANGED vars BY <1>2 DEF vars
<1>3. ASSUME NEW c \in Controllers, SendRequest(c) PROVE wire'[p][n] = "applied"
  <2>1. wire' = [wire EXCEPT ![job[c].plan][job[c].n] = "flight"] /\ job[c].pc = "send" BY <1>3 DEF SendRequest
  <2>2. wire[job[c].plan][job[c].n] = "unsent" BY <2>1 DEF SendInv, JobsTrue, RequestFits, Sends
  <2> QED BY <1>1, <2>1, <2>2
<1>4. ASSUME NEW c \in Controllers, ExecutorStep(c), ~SendRequest(c) PROVE UNCHANGED wire
  BY <1>4
     DEF ExecutorStep, StartObservation, ReadNode, RecordObservation, CommitPlan, CommitRefused,
         RecordCommitRefusal, RecordAttempt, AttemptRefused, SettleAttemptRefusal, SendFails,
         ReceiveAnswer, RecordResponse, Complete, VerificationLapses, ClassifyRetry, Fail
<1>5. ASSUME NEW c \in Controllers,
             \/ StartController(c) \/ Crash(c) \/ Drop(c) \/ ScanStart(c) \/ ScanRead(c) \/ ScanRecord(c)
             \/ \E m \in Machines : ScanPick(c, m)
             \/ \E q \in Plans : TakeOver(c, q) \/ RequestTakeover(c, q) \/ DispatchPlan(c, q) \/ Advance(c, q)
      PROVE  UNCHANGED wire
  BY <1>5
     DEF StartController, Crash, Drop, ScanStart, ScanRead, ScanRecord, ScanPick, TakeOver,
         RequestTakeover, DispatchPlan, Advance
<1>6. ASSUME NEW q \in Plans, NEW k \in Numbers, NodeHandles(q, k) PROVE wire'[p][n] = "applied"
  BY <1>1, <1>6 DEF NodeHandles
<1>7. ASSUME NEW q \in Plans, PlanStep(q), \A k \in Numbers : ~NodeHandles(q, k) PROVE UNCHANGED wire
  BY <1>7 DEF PlanStep, CreatePlan, ApprovePlan, CancelPlan, RevokeApproval, Lapse, ResolveByDecision,
              DeadlinePasses, AccountByDecision
<1>8. ASSUME NEW m \in Machines, SetFreeze(m) \/ Publish(m) \/ ChangeNode(m) PROVE UNCHANGED wire
  BY <1>8 DEF SetFreeze, Publish, ChangeNode
<1> QED BY <1>2, <1>3, <1>4, <1>5, <1>6, <1>7, <1>8 DEF Next

\* Only its owner's settling completes or fails an operation.
LEMMA SettledBy ==
  ASSUME TypeInv, [Next]_vars, NEW p \in Plans, op[p].state \in Holding, op'[p].state \in {"completed", "failed"}
  PROVE  \E c \in Controllers : job[c].plan = p /\ (Complete(c) \/ Fail(c))
<1>1. TypeOK /\ op[p] \in OpType BY DEF TypeInv, TypeOK
<1>2. ~UNCHANGED op BY DEF Holding
<1>3. ASSUME NEW q \in Plans, NEW o, op' = [op EXCEPT ![q] = o], o.state \notin {"completed", "failed"} PROVE FALSE
  BY <1>1, <1>3 DEF TypeOK, Holding
<1>4. ASSUME NEW q \in Plans, NEW s, op' = [op EXCEPT ![q].state = s], s \notin {"completed", "failed"} PROVE FALSE
  BY <1>1, <1>4 DEF TypeOK, OpType, Holding
<1>5. ASSUME NEW c \in Controllers, NEW q \in Plans, TakeOver(c, q) \/ RequestTakeover(c, q) PROVE FALSE
  <2>1. TakenOver(c, q) BY <1>2, <1>5 DEF TakeOver, RequestTakeover
  <2>2. PICK o : o = [op[q] EXCEPT !.state = "unresolved", !.owner = c, !.gen = op[q].gen + 1,
                                   !.took = Now(M(q))] OBVIOUS
  <2>3. o.state = "unresolved" BY <1>1, <2>2 DEF TypeOK, OpType
  <2>4. op' = [op EXCEPT ![q] = o] BY <2>1, <2>2 DEF TakenOver
  <2> QED BY <1>3, <2>3, <2>4
<1>6. ASSUME NEW c \in Controllers, ExecutorStep(c) PROVE job[c].plan = p /\ (Complete(c) \/ Fail(c))
  <2>1. job[c].pc # "idle"
    BY <1>6 DEF ExecutorStep, StartObservation, ReadNode, RecordObservation, CommitPlan, CommitRefused,
                RecordCommitRefusal, RecordAttempt, AttemptRefused, SettleAttemptRefusal, SendRequest,
                SendFails, ReceiveAnswer, RecordResponse, Complete, VerificationLapses, ClassifyRetry, Fail,
                Settling
  <2>2. PICK q \in Plans : job[c].plan = q BY <2>1 DEF TypeInv, LoopsFit, JobFits
  <2>3. CASE \/ StartObservation(c) \/ ReadNode(c) \/ RecordObservation(c) \/ CommitRefused(c)
             \/ RecordCommitRefusal(c) \/ AttemptRefused(c) \/ SendRequest(c) \/ SendFails(c) \/ ReceiveAnswer(c)
    BY <1>2, <2>3 DEF StartObservation, ReadNode, RecordObservation, CommitRefused, RecordCommitRefusal,
                      AttemptRefused, SendRequest, SendFails, ReceiveAnswer, rows
  <2>4. CASE CommitPlan(c)
    <3>1. PICK b, o : o = [NoOp EXCEPT !.state = "committed", !.owner = c, !.gen = 1, !.ev = b]
                      /\ op' = [op EXCEPT ![q] = o]
      BY <2>2, <2>4 DEF CommitPlan
    <3>2. o.state = "committed" BY <3>1 DEF NoOp
    <3> QED BY <1>3, <3>1, <3>2
  <2>5. CASE RecordAttempt(c)
    <3>1. op' = [op EXCEPT ![q].state = "sending", ![q].made = op[q].made + 1] BY <2>2, <2>5 DEF RecordAttempt
    <3>2. op \in [Plans -> OpType] /\ op[q] \in OpType BY <1>1 DEF TypeOK
    <3>3. op'[q].state = "sending" /\ \A x \in Plans \ {q} : op'[x] = op[x] BY <3>1, <3>2 DEF OpType
    <3> QED BY <3>3 DEF Holding
  <2>6. CASE RecordResponse(c)
    <3>1. PICK to, at : /\ to = StateAfterResponse(q, job[c].n, job[c].resp)
                        /\ op' = [op EXCEPT ![q].state = to, ![q].acctAt = at]
      BY <2>2, <2>6 DEF RecordResponse
    <3>2. to = op[q].state \/ to \in {"verifying", "rejected", "unresolved"} BY <3>1 DEF StateAfterResponse
    <3>3. op \in [Plans -> OpType] /\ op[q] \in OpType BY <1>1 DEF TypeOK
    <3>4. op'[q].state = to /\ \A x \in Plans \ {q} : op'[x] = op[x] BY <3>1, <3>3 DEF OpType
    <3> QED BY <3>2, <3>4 DEF Holding
  <2>7. CASE SettleAttemptRefusal(c) \/ VerificationLapses(c) \/ ClassifyRetry(c)
    <3>1. \E s \in {"cancelled", "unresolved"} : op' = [op EXCEPT ![q].state = s]
      BY <1>2, <2>2, <2>7 DEF SettleAttemptRefusal, VerificationLapses, ClassifyRetry, MoveOperation
    <3> QED BY <1>4, <3>1
  <2>8. CASE Complete(c) \/ Fail(c)
    <3>1. PICK s : op' = [op EXCEPT ![q].state = s] BY <2>2, <2>8 DEF Complete, Fail, MoveOperation
    <3>2. p = q BY <1>1, <3>1 DEF TypeOK, Holding
    <3> QED BY <2>2, <2>8, <3>2
  <2> QED BY <1>6, <2>3, <2>4, <2>5, <2>6, <2>7, <2>8 DEF ExecutorStep
<1>7. ASSUME NEW q \in Plans, PlanStep(q) PROVE FALSE
  <2>1. CASE ResolveByDecision(q)
    <3>1. \E s \in {"cancelled", "unresolved"} : op' = [op EXCEPT ![q].state = s]
      BY <2>1 DEF ResolveByDecision, MoveOperation
    <3> QED BY <1>4, <3>1
  <2>2. ASSUME NEW n \in Numbers, AccountByDecision(q, n) PROVE FALSE
    <3>1. op' = [op EXCEPT ![q].acctAt = Now(M(q))] BY <2>2 DEF AccountByDecision
    <3> QED BY <1>1, <3>1 DEF TypeOK, OpType, Holding
  <2> QED BY <1>2, <1>7, <2>1, <2>2 DEF PlanStep, CreatePlan, ApprovePlan, CancelPlan, RevokeApproval, Lapse,
                                        NodeHandles, DeadlinePasses, rows
<1>8. CASE UNCHANGED vars BY <1>2, <1>8 DEF vars
<1>9. ASSUME NEW m \in Machines, SetFreeze(m) \/ Publish(m) \/ ChangeNode(m) PROVE FALSE
  BY <1>2, <1>9 DEF SetFreeze, Publish, ChangeNode, rows
<1>10. ASSUME NEW c \in Controllers,
             \/ StartController(c) \/ Crash(c) \/ Drop(c) \/ ScanStart(c) \/ ScanRead(c) \/ ScanRecord(c)
             \/ \E m \in Machines : ScanPick(c, m)
             \/ \E q \in Plans : DispatchPlan(c, q) \/ Advance(c, q)
      PROVE  FALSE
  BY <1>2, <1>10 DEF StartController, Crash, Drop, ScanStart, ScanRead, ScanRecord, ScanPick,
                     DispatchPlan, Advance, rows
<1> QED BY <1>5, <1>6, <1>7, <1>8, <1>9, <1>10 DEF Next

LEMMA ObservedTrue ==
  ASSUME TypeInv, BoundInv, ReadsTrue, NEW c \in Controllers, ScanRecord(c) \/ RecordCommitRefusal(c),
         NEW k \in Machines
  PROVE  /\ ~drift[k].open /\ drift'[k].open => node[k].cfg # mach[k].applied
         /\ drift[k].open /\ ~drift'[k].open => node[k].cfg = mach[k].applied
<1>1. CASE ScanRecord(c)
  <2>1. scan[c].pc = "record" BY <1>1 DEF ScanRecord
  <2>2. PICK m \in Machines : m = scan[c].m /\ scan[c].n \in 1..Len(obs[m]) BY <2>1, LoopsTyped
  <2>3. PICK b \in Nat : b = scan[c].n BY <2>2
  <2>4. PICK cfg : cfg = scan[c].read.cfg OBVIOUS
  <2>5. Steady(m, b) => Is(cfg, m) BY <2>1, <2>2, <2>3, <2>4 DEF ReadsTrue, ReadingsTrue
  <2>6. ApplyDrift(m, b, cfg, FALSE) BY <1>1, <2>2, <2>3, <2>4 DEF ScanRecord
  <2> QED BY <2>5, <2>6, RulesTrue
<1>2. CASE RecordCommitRefusal(c)
  <2>1. job[c].pc = "refuse" BY <1>2 DEF RecordCommitRefusal
  <2>2. job[c].plan \in Plans /\ job[c].n \in 1..Len(obs[M(job[c].plan)])
    BY <2>1 DEF TypeInv, LoopsFit, JobFits
  <2>3. PICK m \in Machines : m = M(job[c].plan) BY <2>2, MachineTyped
  <2>4. PICK b \in Nat : b = job[c].n BY <2>2
  <2>5. PICK cfg : cfg = obs[m][b].cfg OBVIOUS
  <2>6. Steady(m, b) => Is(cfg, m) BY <2>2, <2>3, <2>4, <2>5 DEF ReadsTrue, EntriesTrue
  <2>7. UNCHANGED drift \/ ApplyDrift(m, b, cfg, FALSE) BY <1>2, <2>3, <2>4, <2>5 DEF RecordCommitRefusal
  <2> QED BY <2>6, <2>7, RulesTrue
<1> QED BY <1>1, <1>2

\* A settling process leaves other machines alone.
LEMMA SettleElsewhere ==
  ASSUME TypeOK, NEW c \in Controllers, NEW p \in Plans, job[c].plan = p, Complete(c) \/ Fail(c),
         NEW m \in Machines, m # M(p)
  PROVE  drift'[m] = drift[m] /\ mach'[m] = mach[m]
  BY MachineTyped DEF Complete, Fail, MoveOperation, ScopeEntry, ApplyDrift, TypeOK

LEMMA LoudStep ==
  ASSUME TypeInv, TypeInv', AttemptsInv, AttemptsInv', SendInv, SendInv', BoundInv, [Next]_vars,
         Undisturbed, ReadsTrue, AllRead, Loud
  PROVE  Loud'
<1>1. TypeOK /\ TypeOK' BY DEF TypeInv
<1>2. UnchangedIsTrue' BY SendImplies, PTL
<1> SUFFICES ASSUME NEW m \in Machines, node'[m].cfg # mach'[m].applied, ~drift'[m].open
             PROVE  \E p \in Plans : M(p) = m /\ op'[p].state \in Holding /\ \E n \in Numbers : wire'[p][n] = "applied"
  BY DEF Loud
<1>3. ASSUME NEW p \in Plans, NEW n \in Numbers, M(p) = m, NodeHandles(p, n), n \in Unaccounted(p),
             wire'[p][n] = "applied"
      PROVE  op'[p].state \in Holding
  <2>1. PlanAttempts(p) BY DEF AttemptsInv
  <2>2. op[p].state \in Holding BY <1>3, <2>1 DEF PlanAttempts, Unaccounted, Holding
  <2> QED BY <1>3, <2>2 DEF NodeHandles, rows
<1>4. CASE node'[m].cfg = node[m].cfg
  <2>1. ASSUME NEW c \in Controllers, NEW p \in Plans, job[c].plan = p, M(p) = m, Complete(c) \/ Fail(c)
        PROVE  FALSE
    <3>1. CASE Complete(c) BY <1>4, <2>1, <3>1, CompleteTrue
    <3>2. CASE Fail(c)
      <4>1. mach'[m].applied = mach[m].applied
        BY <1>1, <2>1, <3>2, MachineTyped, EntryApplied DEF Fail, MoveOperation
      <4> QED BY <1>4, <2>1, <3>2, <4>1, FailTrue
    <3> QED BY <2>1, <3>1, <3>2
  <2>2. mach'[m].applied = mach[m].applied /\ ~drift[m].open
    <3>1. CASE SameDrift BY <3>1 DEF SameDrift
    <3>2. ASSUME NEW c \in Controllers, ScanRecord(c) \/ RecordCommitRefusal(c)
          PROVE  mach'[m].applied = mach[m].applied /\ ~drift[m].open
      <4>1. UNCHANGED mach BY <3>2 DEF ScanRecord, RecordCommitRefusal
      <4>2. drift[m].open /\ ~drift'[m].open => node[m].cfg = mach[m].applied BY <3>2, ObservedTrue
      <4> QED BY <1>4, <4>1, <4>2
    <3>3. ASSUME NEW c \in Controllers, Complete(c) \/ Fail(c)
          PROVE  mach'[m].applied = mach[m].applied /\ ~drift[m].open
      <4>1. PICK p \in Plans : job[c].plan = p
        BY <3>3 DEF Complete, Fail, Settling, TypeInv, LoopsFit, JobFits
      <4>2. M(p) # m BY <2>1, <3>3, <4>1
      <4> QED BY <1>1, <3>3, <4>1, <4>2, MachineTyped, SettleElsewhere
    <3> QED BY <3>1, <3>2, <3>3, DriftSteps
  <2>3. PICK p \in Plans : M(p) = m /\ op[p].state \in Holding /\ \E n \in Numbers : wire[p][n] = "applied"
    BY <1>4, <2>2 DEF Loud
  <2>4. PICK n \in Numbers : wire[p][n] = "applied" BY <2>3
  <2>5. wire'[p][n] = "applied" BY <2>4, WireStays
  <2>6. op'[p].state \in Holding
    <3>1. op'[p].state \in {"none"} \cup Holding \cup Ended BY <1>1 DEF TypeOK, OpType
    <3>2. op'[p].state # "none"
      <4>1. OpStep(p) BY EveryStepScope DEF ScopeSteps, BoundInv
      <4> QED BY <2>3, <4>1 DEF OpStep, Holding
    <3>3. op'[p].state \notin {"completed", "failed"} BY <2>1, <2>3, SettledBy
    <3>4. op'[p].state # "cancelled" BY <1>2, <2>5 DEF UnchangedIsTrue
    <3>5. op'[p].state # "rejected"
      <4>1. n <= op'[p].made
        <5>1. RowTrue(p, n)' BY DEF SendInv, PlanTrue
        <5>2. op'[p].made \in 0..MaxAttempts /\ n \in Int BY <1>1, ConstantsAssumption DEF TypeOK, OpType, Numbers
        <5> QED BY <2>5, <5>1, <5>2, ConstantsAssumption DEF RowTrue
      <4>2. n \in 1..op'[p].made
        BY <1>1, <4>1, ConstantsAssumption DEF Numbers, TypeOK, OpType
      <4> QED BY <1>2, <2>5, <4>2 DEF UnchangedIsTrue
    <3> QED BY <3>1, <3>2, <3>3, <3>4, <3>5 DEF Ended
  <2> QED BY <2>3, <2>5, <2>6
<1> QED BY <1>3, <1>4, WorldSteps

LEMMA DriftStep ==
  ASSUME TypeInv, TypeInv', AttemptsInv, AttemptsInv', SendInv, SendInv', BoundInv, DriftInv, [Next]_vars
  PROVE  DriftInv'
<1>1. ScopeSteps /\ LoopSteps BY EveryStepScope, EveryStepLoops DEF BoundInv
<1>2. left'.kinds = left.kinds /\ left'.late = left.late BY WorldSteps
<1>3. (Undisturbed' <=> Undisturbed) /\ (AlwaysRead' <=> AlwaysRead) BY <1>2 DEF Undisturbed, AlwaysRead
<1>4. OwnEntries' BY <1>1, OwnEntriesStep DEF DriftInv
<1>5. Undisturbed => ReadsTrue'
  BY <1>1, EntriesStep, ReadingsStep, SettlesStep DEF DriftInv, ReadsTrue
<1>6. AlwaysRead => AllRead' BY <1>1, AllReadStep DEF DriftInv
<1>7. Undisturbed /\ AlwaysRead => Loud' BY LoudStep DEF DriftInv
<1> QED BY <1>3, <1>4, <1>5, <1>6, <1>7 DEF DriftInv

LEMMA DriftInvariant == Spec => []DriftInv
<1> DEFINE I == TypeInv /\ AttemptsInv /\ SendInv
<1>1. I /\ I' /\ BoundInv /\ DriftInv /\ [Next]_vars => DriftInv' BY DriftStep
<1>2. Spec => []I BY DispatchInvariant
<1> HIDE DEF I
<1> QED BY <1>1, <1>2, DriftInit, BoundInvariant, PTL DEF Spec

\* Where nobody changes a node behind the manager's back, no decision accounts wrongly and every
\* read succeeds, a machine no operation holds runs what Applied names or has a drift record open:
\* every way an operation releases its machine with a request applied settles on a true reading of
\* the node (settleOperation, recordResponse, settleAttemptRefusal, resolveByDecision).
THEOREM Undiverged == Spec => []NoSilentDivergence
<1>1. DriftInv => NoSilentDivergence BY DEF DriftInv, Loud, NoSilentDivergence, AlwaysRead, Held
<1> QED BY <1>1, DriftInvariant, PTL

\* Where nobody changes a node behind the manager's back and no decision accounts wrongly, a drift
\* record opens only on a machine whose node differs from Applied then and closes only on one whose
\* node does not, however old the reading the rules run on (applyDrift's exclusions,
\* completeOperation, failOperation).
THEOREM RealDrift == Spec => DriftIsReal
<1> DEFINE A == Undisturbed => \A m \in Machines :
                  /\ ~drift[m].open /\ drift'[m].open => node[m].cfg # mach'[m].applied
                  /\ drift[m].open /\ ~drift'[m].open => node[m].cfg = mach'[m].applied
<1>1. TypeInv /\ AttemptsInv /\ SendInv /\ BoundInv /\ DriftInv /\ [Next]_vars => [A]_vars
  <2> SUFFICES ASSUME TypeInv, BoundInv, DriftInv, Next, Undisturbed, NEW m \in Machines
               PROVE  /\ ~drift[m].open /\ drift'[m].open => node[m].cfg # mach'[m].applied
                      /\ drift[m].open /\ ~drift'[m].open => node[m].cfg = mach'[m].applied
    OBVIOUS
  <2>1. TypeOK /\ ReadsTrue BY DEF TypeInv, DriftInv
  <2>2. CASE SameDrift BY <2>2 DEF SameDrift
  <2>3. ASSUME NEW c \in Controllers, ScanRecord(c) \/ RecordCommitRefusal(c)
        PROVE  /\ ~drift[m].open /\ drift'[m].open => node[m].cfg # mach'[m].applied
               /\ drift[m].open /\ ~drift'[m].open => node[m].cfg = mach'[m].applied
    <3>1. UNCHANGED mach BY <2>3 DEF ScanRecord, RecordCommitRefusal
    <3> QED BY <2>1, <2>3, <3>1, ObservedTrue
  <2>4. ASSUME NEW c \in Controllers, Complete(c) \/ Fail(c)
        PROVE  /\ ~drift[m].open /\ drift'[m].open => node[m].cfg # mach'[m].applied
               /\ drift[m].open /\ ~drift'[m].open => node[m].cfg = mach'[m].applied
    <3>1. PICK p \in Plans : job[c].plan = p
      BY <2>4 DEF Complete, Fail, Settling, TypeInv, LoopsFit, JobFits
    <3>2. CASE M(p) # m BY <2>1, <2>4, <3>1, <3>2, SettleElsewhere
    <3>3. CASE M(p) = m /\ Complete(c) BY <2>1, <3>1, <3>3, CompleteTrue
    <3>4. CASE M(p) = m /\ Fail(c)
      <4>1. mach'[m].applied = mach[m].applied
        BY <2>1, <3>1, <3>4, MachineTyped, EntryApplied DEF Fail, MoveOperation
      <4> QED BY <2>1, <3>1, <3>4, <4>1, FailTrue
    <3> QED BY <2>4, <3>2, <3>3, <3>4
  <2> QED BY <2>2, <2>3, <2>4, DriftSteps
<1> QED BY <1>1, DispatchInvariant, BoundInvariant, DriftInvariant, PTL DEF Spec, DriftIsReal
=============================================================================
