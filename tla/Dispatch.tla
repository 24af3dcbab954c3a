------------------------------ MODULE Dispatch ------------------------------
(***************************************************************************)
(* The dispatch core of Bronzeward (internal/api): an approved apply-config *)
(* plan becomes one operation, the operation records attempts, an attempt   *)
(* sends one request to a node, and observations of the node settle it.     *)
(* Several controller processes may run at once, each may stop at any       *)
(* step, and a request may be answered, lost or handled late.               *)
(*                                                                          *)
(* Every transaction of the code takes its machine's row FOR UPDATE, so one *)
(* transaction is one action; what a process holds between two transactions *)
(* is in job[c] (its executor loop) and scan[c] (its drift loop).           *)
(*                                                                          *)
(* The machine timeline's revisions are kept as far as the code compares    *)
(* them: obs[m] is the sequence of observation starts, so an observation's  *)
(* basis is its index, and any other entry is dated by Len(obs[m]) when it  *)
(* was written.  Ages and deadlines that the code only compares with the    *)
(* present are free choices, except the transport deadline, which is state. *)
(* The epoch does not change here: a restore is another module's subject.   *)
(***************************************************************************)
EXTENDS Integers, Sequences, FiniteSets

CONSTANTS
  Plans,        \* apply-config plans; the operation of a plan is named by it
  Machines,     \* managed machines
  Controllers,  \* controller processes, each started once
  Releases,     \* releases, each standing for its artifact's digest
  Adopted,      \* the release Applied names at the start
  Foreign,      \* a configuration that is no release's
  MachineOf,    \* the machine a plan is for
  ClusterOf,    \* the cluster a machine is in
  MaxAttempts,  \* the plans' max_attempts
  Limits        \* bounds of an instance, one chosen at the start

\* The processes that start; no requested takeover past an owner generation; the observations
\* started per machine; which kinds of environment event happen, and how many of those that are
\* counted; and whether a request can land after a decision accounted for it.
LimitType == [procs : SUBSET Controllers, gens : Nat, obs : Nat, kinds : SUBSET STRING,
              events : Nat, late : BOOLEAN]

ASSUME ConstantsAssumption ==
  /\ MachineOf \in [Plans -> Machines]
  /\ ClusterOf \in [Machines -> Machines]   \* a cluster is named by a machine of it
  /\ MaxAttempts \in Nat /\ Limits \subseteq LimitType
  /\ Adopted \in Releases /\ Foreign \notin Releases
  /\ "none" \notin Plans /\ "none" \notin Controllers /\ "unread" \notin Releases \cup {Foreign}

VARIABLES
  plan,   \* plan and plan_state rows
  dead,   \* comparison 1 fails for good: expired, cancelled or revoked
  op,     \* operation rows
  cls,    \* the operation's latest safe-to-retry classification
  att,    \* attempt, attempt_response and attempt_accounting rows
  wire,   \* what became of each attempt's request
  mach,   \* machine, machine_state and assignment rows
  drift,  \* the machine's drift record
  obs,    \* observation_start and observation rows, by basis
  node,   \* what answers at the machine's endpoint
  proc,   \* controller processes
  owed,   \* takeovers a started process still owes, by the generation read
  ended,  \* plans a process dispatches no more
  job,    \* what a process's executor loop is doing
  scan,   \* what a process's drift loop is doing
  left    \* what is left of the chosen limits

rows  == <<plan, dead, op, cls, att>>
loops == <<proc, owed, ended, job, scan>>
vars  == <<plan, dead, op, cls, att, wire, mach, drift, obs, node,
           proc, owed, ended, job, scan, left>>

-----------------------------------------------------------------------------
(* Values. *)

Holding == {"committed", "sending", "verifying", "unresolved"}
Ended   == {"completed", "rejected", "failed", "cancelled"}
Configs == Releases \cup {Foreign}
Numbers == 1..MaxAttempts

\* What a node reports for its identity, and for its Talos minor: the one bound, or another.
Reports == {"bound", "other"}

\* Response classes.  "code" is any gRPC code the node returned, the unrecognised InvalidArgument
\* included; "transport" any outcome that does not show that the node answered.
Classes == {"accepted", "rejected", "code", "transport"}
AccountsAlways(class) == TRUE   \* mutant: a lost response accounts too
Accounts(class) == class \in {"accepted", "rejected", "code"}

Unread  == [ident |-> "unread", minor |-> "unread", cfg |-> "unread", access |-> FALSE]
NoJob   == [pc |-> "idle", plan |-> "none", gen |-> 0, n |-> 0, purpose |-> "none",
            next |-> "idle", read |-> Unread, resp |-> "none"]
NoScan  == [pc |-> "idle", m |-> "none", n |-> 0, read |-> Unread]
NoAttempt == [owner |-> "none", gen |-> 0, resp |-> "none", acct |-> "none", dl |-> 0]
NoPlan  == [state |-> "none", release |-> Adopted, expected |-> Adopted, head |-> 0,
            baseline |-> 0, drift |-> 0, approvedAt |-> 0]
NoOp    == [state |-> "none", owner |-> "none", gen |-> 0, ev |-> 0, made |-> 0,
            acctAt |-> 0, took |-> 0]
NoClass == [obs |-> 0, gen |-> 0, followed |-> FALSE]

-----------------------------------------------------------------------------
(* What the transactions read. *)

M(p)   == MachineOf[p]
Now(m) == Len(obs[m])
Up(c)  == proc[c] = "up"

Held(m)        == \E p \in Plans : M(p) = m /\ op[p].state \in Holding
RolloutHeld(k) == \E p \in Plans : ClusterOf[M(p)] = k /\ op[p].state \in Holding

Recorded(m)    == {b \in DOMAIN obs[m] : obs[m][b].done > 0}
Unaccounted(p) == {n \in 1..op[p].made : att[p][n].acct = "none"}
Owns(c, p, g)  == op[p].owner = c /\ op[p].gen = g
AttemptsUncounted(p) == op[p].made <= MaxAttempts   \* mutant: off by one
AttemptsLeft(p) == op[p].made < MaxAttempts

\* The open drift record is the one the plan binds: none for a plan made on an undrifted machine.
OpenDrift(m)  == IF drift[m].open THEN drift[m].id ELSE 0
ScopeGate(p)  == ~mach[M(p)].frozen /\ OpenDrift(M(p)) = plan[p].drift

\* A later recorded observation, of any purpose, that read the identity, the running minor or the
\* configuration otherwise than the plan binds.
NewerContradiction(p, b) ==
  \E x \in Recorded(M(p)) : /\ x > b
                            /\ LET o == obs[M(p)][x]
                               IN \/ "other" \in {o.ident, o.minor}
                                  \/ o.cfg \notin {"unread", plan[p].expected}

EvidenceShows(p, b) ==
  /\ obs[M(p)][b].ident = "bound" /\ obs[M(p)][b].minor = "bound"
  /\ obs[M(p)][b].cfg = plan[p].expected
  /\ ~NewerContradiction(p, b)

-----------------------------------------------------------------------------
(* Drift (drift.go).  The exclusion of an observation already on the drift  *)
(* record is left out: no observation reaches these rules twice.            *)

\* Mutants: the observation's basis is not looked at; the scope's holder is not.
HeldExcluded(m, b) == Held(m)
BasisExcluded(m, b) ==
  \/ mach[m].scopeAt >= b
  \/ \E x \in Recorded(m) : x > b /\ obs[m][x].cfg # "unread"

DriftExcluded(m, b) ==
  \/ mach[m].scopeAt >= b
  \/ \E x \in Recorded(m) : x > b /\ obs[m][x].cfg # "unread"
  \/ Held(m)

\* Mutant: a failing observation is excluded like any other.
FailureExcluded(m, b, cfg, failing) ==
  IF cfg = "unread" \/ DriftExcluded(m, b) \/ cfg = mach[m].applied THEN drift[m]
  ELSE [id |-> IF drift[m].open THEN drift[m].id ELSE drift[m].id + 1, open |-> TRUE, digest |-> cfg]

\* The drift record after the rules ran on a configuration read at basis b.
DriftAfter(m, b, cfg, failing) ==
  IF cfg = "unread" \/ (~failing /\ DriftExcluded(m, b)) THEN drift[m]
  ELSE IF cfg # mach[m].applied
       THEN IF drift[m].open THEN [drift[m] EXCEPT !.digest = cfg]
            ELSE [id |-> drift[m].id + 1, open |-> TRUE, digest |-> cfg]
       ELSE IF drift[m].open /\ ~failing THEN [drift[m] EXCEPT !.open = FALSE]
            ELSE drift[m]

\* A completed revert closes the record it binds.
Reverted(p) == [drift[M(p)] EXCEPT !.open = @ /\ drift[M(p)].id # plan[p].drift]

ApplyDrift(m, b, cfg, failing) ==
  drift' = [drift EXCEPT ![m] = DriftAfter(m, b, cfg, failing)]

-----------------------------------------------------------------------------
(* Small effects. *)

SetJob(c, j) == job' = [job EXCEPT ![c] = j]

\* An operation-state, commitment or applied-change entry on m's timeline.
ScopeEntry(m) == mach' = [mach EXCEPT ![m].scopeAt = Now(m)]

MoveOperation(p, to) ==
  /\ op' = [op EXCEPT ![p].state = to]
  /\ ScopeEntry(M(p))

\* A response, attempt or ownership entry after the classification.
Follow(p) == cls' = [cls EXCEPT ![p].followed = TRUE]

StartEntry(c, m, purpose, p) ==
  obs' = [obs EXCEPT ![m] = Append(@, [by |-> c, purpose |-> purpose, plan |-> p, head |-> mach[m].head,
                                       ident |-> "unread", minor |-> "unread", cfg |-> "unread",
                                       done |-> 0])]

RecordEntry(m, b, read) ==
  obs' = [obs EXCEPT ![m][b] = [@ EXCEPT !.ident = read.ident, !.minor = read.minor, !.cfg = read.cfg,
                                         !.head = IF read.access THEN obs[m][b].head ELSE 0,
                                         !.done = Now(m)]]

\* What one observation can read: nothing, for want of access, or, with it, any of the node's three
\* values, each read failing on its own.
Reads(m) ==
  LET Got(values) == [ident  |-> IF "ident" \in values THEN node[m].ident ELSE "unread",
                      minor  |-> IF "minor" \in values THEN node[m].minor ELSE "unread",
                      cfg    |-> IF "cfg" \in values THEN node[m].cfg ELSE "unread",
                      access |-> TRUE]
      all == {"ident", "minor", "cfg"}
  IN IF "unread" \in left.kinds THEN {Unread} \cup {Got(values) : values \in SUBSET all} ELSE {Got(all)}

-----------------------------------------------------------------------------
(* Plans: created, approved, and ended before or after commitment. *)

CreatePlan(p) ==
  LET m == M(p) IN
  /\ plan[p].state = "none"
  /\ plan' = [plan EXCEPT ![p] =
       [state |-> "proposed", release |-> mach[m].desired,
        expected |-> IF drift[m].open THEN drift[m].digest ELSE mach[m].applied,
        head |-> mach[m].head, baseline |-> mach[m].baseline, drift |-> OpenDrift(m),
        approvedAt |-> 0]]
  /\ UNCHANGED <<dead, op, cls, att, wire, mach, drift, obs, node, loops, left>>

ApprovePlan(p) ==
  /\ plan[p].state = "proposed" /\ ~dead[p]
  /\ plan' = [plan EXCEPT ![p].state = "approved", ![p].approvedAt = Now(M(p))]
  /\ UNCHANGED <<dead, op, cls, att, wire, mach, drift, obs, node, loops, left>>

\* A committed plan keeps its state: the cancellation reaches its operation through comparison 1.
CancelPlan(p) ==
  /\ "lapse" \in left.kinds
  /\ plan[p].state \in {"proposed", "approved", "committed"} /\ ~dead[p]
  /\ dead' = [dead EXCEPT ![p] = TRUE]
  /\ plan' = [plan EXCEPT ![p].state = IF @ = "committed" THEN @ ELSE "cancelled"]
  /\ UNCHANGED <<op, cls, att, wire, mach, drift, obs, node, loops, left>>

RevokeApproval(p) ==
  /\ "lapse" \in left.kinds
  /\ plan[p].state \in {"approved", "committed"} /\ ~dead[p]
  /\ dead' = [dead EXCEPT ![p] = TRUE]
  /\ plan' = [plan EXCEPT ![p].state = IF @ = "approved" THEN "revoked" ELSE @]
  /\ UNCHANGED <<op, cls, att, wire, mach, drift, obs, node, loops, left>>

\* The plan's expiry, or the revocation of its approver's identity: neither writes the plan's row.
Lapse(p) ==
  /\ "lapse" \in left.kinds
  /\ plan[p].state \in {"proposed", "approved", "committed"} /\ ~dead[p]
  /\ dead' = [dead EXCEPT ![p] = TRUE]
  /\ UNCHANGED <<plan, op, cls, att, wire, mach, drift, obs, node, loops, left>>

-----------------------------------------------------------------------------
(* Processes. *)

\* A process starts and reads the operations of others, which it is to take over.
StartController(c) ==
  /\ proc[c] = "off" /\ c \in left.procs
  /\ proc' = [proc EXCEPT ![c] = "up"]
  /\ owed' = [owed EXCEPT ![c] = [p \in Plans |-> IF op[p].state \in Holding /\ op[p].owner # c
                                                  THEN op[p].gen ELSE 0]]
  /\ UNCHANGED <<rows, wire, mach, drift, obs, node, ended, job, scan, left>>

\* A process stops at any point; one is always left to start, as a supervisor would.
Crash(c) ==
  /\ "fail" \in left.kinds
  /\ Up(c) /\ \E d \in left.procs : proc[d] = "off"
  /\ proc' = [proc EXCEPT ![c] = "down"]
  /\ owed' = [owed EXCEPT ![c] = [p \in Plans |-> 0]]
  /\ ended' = [ended EXCEPT ![c] = {}]
  /\ job'  = [job EXCEPT ![c] = NoJob]
  /\ scan' = [scan EXCEPT ![c] = NoScan]
  /\ UNCHANGED <<rows, wire, mach, drift, obs, node, left>>

\* A step that writes nothing: a commitment refused by comparison 0, 4, 5 or 6 or for want of
\* evidence, an attempt refused by 7, 8 or 9, an observation that settles nothing; anywhere else, a
\* failed dependency, or a lost connection or COMMIT reply.  The operation is met again in a later
\* pass.  A request in flight ends only with its response.
Drop(c) ==
  /\ Up(c)
  /\ \/ job[c].pc \in {"commit", "attempt", "settle"}
     \/ "fail" \in left.kinds /\ job[c].pc \in {"observe", "reading", "record", "refuse", "refused", "send", "respond"}
  /\ SetJob(c, NoJob)
  /\ UNCHANGED <<rows, wire, mach, drift, obs, node, proc, owed, ended, scan, left>>

\* The operation at the generation read goes to c at the next one, unresolved.
TakenOver(c, p) ==
  /\ op' = [op EXCEPT ![p] = [@ EXCEPT !.state = "unresolved", !.owner = c, !.gen = op[p].gen + 1,
                                       !.took = Now(M(p))]]
  /\ Follow(p)
  /\ IF op[p].state = "unresolved" THEN UNCHANGED mach ELSE ScopeEntry(M(p))

\* The controller-start takeover: refused, and owed no more, once the generation moved or the
\* operation ended.
TakeOver(c, p) ==
  /\ Up(c) /\ job[c].pc = "idle" /\ owed[c][p] # 0
  /\ owed' = [owed EXCEPT ![c][p] = 0]
  /\ IF op[p].state \in Holding /\ op[p].gen = owed[c][p]
     THEN TakenOver(c, p)
     ELSE UNCHANGED <<op, cls, mach>>
  /\ UNCHANGED <<plan, dead, att, wire, drift, obs, node, proc, ended, job, scan, left>>

\* A recovery-admin's request, served by c whatever its loops are doing.
RequestTakeover(c, p) ==
  /\ "admin" \in left.kinds
  /\ Up(c) /\ op[p].state \in Holding /\ op[p].gen < left.gens
  /\ TakenOver(c, p)
  /\ UNCHANGED <<plan, dead, att, wire, drift, obs, node, loops, left>>

-----------------------------------------------------------------------------
(* The executor loop: what it takes up. *)

Candidate(p) ==
  /\ plan[p].state = "approved" /\ ~dead[p]
  /\ ~mach[M(p)].frozen
  /\ ~Held(M(p)) /\ ~RolloutHeld(ClusterOf[M(p)])

ObserveJob(p, g, purpose, next) ==
  [NoJob EXCEPT !.pc = "observe", !.plan = p, !.gen = g, !.purpose = purpose, !.next = next]
AttemptJob(p, g) == [NoJob EXCEPT !.pc = "attempt", !.plan = p, !.gen = g]

DispatchPlan(c, p) ==
  /\ Up(c) /\ job[c].pc = "idle" /\ p \notin ended[c]
  /\ Candidate(p)
  /\ SetJob(c, ObserveJob(p, 1, "evidence", "commit"))
  /\ UNCHANGED <<rows, wire, mach, drift, obs, node, proc, owed, ended, scan, left>>

\* The classification still admits a retry by this token, unless its observation aged out.
RetryStands(p) == cls[p].obs # 0 /\ cls[p].gen = op[p].gen /\ ~cls[p].followed

\* What one pass does with an operation this process owns.  A sending one is left alone.
NextJobs(p) ==
  LET g == op[p].gen IN
  CASE op[p].made = 0 /\ op[p].state # "verifying" /\ dead[p] ->
         {[NoJob EXCEPT !.pc = "refused", !.plan = p, !.gen = g]}
    [] op[p].state = "committed" /\ ~(op[p].made = 0 /\ dead[p]) -> {AttemptJob(p, g)}
    [] op[p].state = "verifying" -> {ObserveJob(p, g, "completion", "settle")}
    [] op[p].state = "unresolved" /\ Unaccounted(p) # {} ->
         IF \A n \in 1..op[p].made : att[p][n].dl # 0
         THEN {ObserveJob(p, g, "recovery", "idle")} ELSE {}
    [] OTHER ->
         {ObserveJob(p, g, IF op[p].made > 0 THEN "completion" ELSE "recovery", "settle")}
         \cup IF RetryStands(p) THEN {AttemptJob(p, g)} ELSE {}

Advance(c, p) ==
  /\ Up(c) /\ job[c].pc = "idle"
  /\ op[p].owner = c /\ op[p].state \in {"committed", "verifying", "unresolved"}
  /\ \E j \in NextJobs(p) : SetJob(c, j)
  /\ UNCHANGED <<rows, wire, mach, drift, obs, node, proc, owed, ended, scan, left>>

-----------------------------------------------------------------------------
(* Observations (observe.go): the start entry, the read, the record. *)

StartObservation(c) ==
  LET m == M(job[c].plan) IN
  /\ Up(c) /\ job[c].pc = "observe" /\ Now(m) < left.obs
  /\ StartEntry(c, m, job[c].purpose, job[c].plan)
  /\ SetJob(c, [job[c] EXCEPT !.pc = "reading", !.n = Now(m) + 1])
  /\ UNCHANGED <<rows, wire, mach, drift, node, proc, owed, ended, scan, left>>

ReadNode(c) ==
  /\ Up(c) /\ job[c].pc = "reading"
  /\ \E r \in Reads(M(job[c].plan)) : SetJob(c, [job[c] EXCEPT !.pc = "record", !.read = r])
  /\ UNCHANGED <<rows, wire, mach, drift, obs, node, proc, owed, ended, scan, left>>

RecordObservation(c) ==
  /\ Up(c) /\ job[c].pc = "record"
  /\ RecordEntry(M(job[c].plan), job[c].n, job[c].read)
  /\ SetJob(c, IF job[c].next = "idle" THEN NoJob
               ELSE [job[c] EXCEPT !.pc = job[c].next, !.read = Unread])
  /\ UNCHANGED <<rows, wire, mach, drift, node, proc, owed, ended, scan, left>>

\* The drift loop's candidate is read before, and apart from, its observation's start.
ScanPick(c, m) ==
  /\ "scan" \in left.kinds
  /\ Up(c) /\ scan[c].pc = "idle" /\ ~Held(m)
  /\ scan' = [scan EXCEPT ![c] = [NoScan EXCEPT !.pc = "observe", !.m = m]]
  /\ UNCHANGED <<rows, wire, mach, drift, obs, node, proc, owed, ended, job, left>>

ScanStart(c) ==
  LET m == scan[c].m IN
  /\ Up(c) /\ scan[c].pc = "observe" /\ Now(m) < left.obs
  /\ StartEntry(c, m, "drift", "none")
  /\ scan' = [scan EXCEPT ![c].pc = "reading", ![c].n = Now(m) + 1]
  /\ UNCHANGED <<rows, wire, mach, drift, node, proc, owed, ended, job, left>>

ScanRead(c) ==
  /\ Up(c) /\ scan[c].pc = "reading"
  /\ \E r \in Reads(scan[c].m) : scan' = [scan EXCEPT ![c].pc = "record", ![c].read = r]
  /\ UNCHANGED <<rows, wire, mach, drift, obs, node, proc, owed, ended, job, left>>

\* The recording transaction also runs the drift rules.
ScanRecord(c) ==
  LET s == scan[c] IN
  /\ Up(c) /\ s.pc = "record"
  /\ RecordEntry(s.m, s.n, s.read)
  /\ ApplyDrift(s.m, s.n, s.read.cfg, FALSE)
  /\ scan' = [scan EXCEPT ![c] = NoScan]
  /\ UNCHANGED <<rows, wire, mach, node, proc, owed, ended, job, left>>

-----------------------------------------------------------------------------
(* Commitment (commit.go). *)

\* Comparisons 1 and 2.
Approved(p) == plan[p].state = "approved" /\ ~dead[p]
Bound(p)    == /\ plan[p].head = mach[M(p)].head
               /\ plan[p].baseline = mach[M(p)].baseline
               /\ plan[p].release = mach[M(p)].desired

\* The latest observation this process recorded for the plan's dispatch, if it is evidence at all:
\* every value read, begun after the approval.
Evidence(c, p) == {b \in Recorded(M(p)) : LET o == obs[M(p)][b]
                                          IN o.by = c /\ o.purpose = "evidence" /\ o.plan = p}
IsEvidence(c, p, b) ==
  /\ b \in Evidence(c, p) /\ \A x \in Evidence(c, p) : x <= b
  /\ "unread" \notin {obs[M(p)][b].ident, obs[M(p)][b].minor, obs[M(p)][b].cfg}
  /\ b > plan[p].approvedAt

CommitPlan(c) ==
  LET p == job[c].plan IN
  /\ Up(c) /\ job[c].pc = "commit"
  /\ op[p].state = "none" /\ Approved(p) /\ Bound(p)
  /\ ~Held(M(p)) /\ ~RolloutHeld(ClusterOf[M(p)]) /\ ScopeGate(p)
  /\ \E b \in DOMAIN obs[M(p)] :
       /\ IsEvidence(c, p, b) /\ EvidenceShows(p, b)
       /\ op' = [op EXCEPT ![p] = [NoOp EXCEPT !.state = "committed", !.owner = c, !.gen = 1, !.ev = b]]
  /\ plan' = [plan EXCEPT ![p].state = "committed"]
  /\ ScopeEntry(M(p))
  /\ SetJob(c, AttemptJob(p, 1))
  /\ UNCHANGED <<dead, cls, att, wire, drift, obs, node, proc, owed, ended, scan, left>>

\* A refusal by comparison 1, 2 or 3 ends the plan for this process.  One on the evidence's digest
\* first runs the drift rules on that evidence, in the refusal entry's own transaction.
CommitRefused(c) ==
  LET p == job[c].plan IN
  /\ Up(c) /\ job[c].pc = "commit" /\ op[p].state = "none"
  /\ \/ /\ ~Approved(p) \/ ~Bound(p)
        /\ ended' = [ended EXCEPT ![c] = @ \cup {p}] /\ SetJob(c, NoJob)
     \/ /\ Approved(p) /\ Bound(p)
        /\ \E b \in DOMAIN obs[M(p)] :
             /\ IsEvidence(c, p, b) /\ ~EvidenceShows(p, b)
             /\ IF obs[M(p)][b].ident # "other" /\ obs[M(p)][b].cfg # plan[p].expected
                THEN UNCHANGED ended /\ SetJob(c, [job[c] EXCEPT !.pc = "refuse", !.n = b])
                ELSE ended' = [ended EXCEPT ![c] = @ \cup {p}] /\ SetJob(c, NoJob)
  /\ UNCHANGED <<rows, wire, mach, drift, obs, node, proc, owed, scan, left>>

\* A plan committed by another process since is no refusal.
RecordCommitRefusal(c) ==
  LET p == job[c].plan IN
  /\ Up(c) /\ job[c].pc = "refuse"
  /\ IF op[p].state # "none"
     THEN UNCHANGED <<drift, ended>>
     ELSE /\ ApplyDrift(M(p), job[c].n, obs[M(p)][job[c].n].cfg, FALSE)
          /\ ended' = [ended EXCEPT ![c] = @ \cup {p}]
  /\ SetJob(c, NoJob)
  /\ UNCHANGED <<rows, wire, mach, obs, node, proc, owed, scan, left>>

-----------------------------------------------------------------------------
(* Attempts (attempt.go). *)

\* Comparisons 1, 2, 3 and 6.  A retry rests on its classification's observation.
AttemptEvidence(p) == IF cls[p].obs # 0 THEN cls[p].obs ELSE op[p].ev
Admitted(p) ==
  /\ ~dead[p]
  /\ plan[p].head = mach[M(p)].head /\ plan[p].baseline = mach[M(p)].baseline
  /\ EvidenceShows(p, AttemptEvidence(p))
  /\ ScopeGate(p)

\* Comparison 7, and 8: one classification admits one attempt, by the token that made it.
Movable(c, p, g) ==
  /\ Owns(c, p, g)
  /\ \/ op[p].state = "committed"
     \/ op[p].state = "unresolved" /\ cls[p].obs # 0 /\ cls[p].gen = g
Follows(p, g) == cls[p].obs # 0 => cls[p].gen = g /\ ~cls[p].followed

RecordAttempt(c) ==
  LET p == job[c].plan
      g == job[c].gen
      n == op[p].made + 1 IN
  /\ Up(c) /\ job[c].pc = "attempt"
  /\ Admitted(p) /\ Movable(c, p, g) /\ Follows(p, g) /\ AttemptsLeft(p)
  /\ op' = [op EXCEPT ![p].state = "sending", ![p].made = n]
  /\ att' = [att EXCEPT ![p][n] = [NoAttempt EXCEPT !.owner = c, !.gen = g]]
  /\ Follow(p)
  /\ SetJob(c, [job[c] EXCEPT !.pc = "send", !.n = n])
  /\ UNCHANGED <<plan, dead, wire, mach, drift, obs, node, proc, owed, ended, scan, left>>

\* A refusal by 1, 2, 3 or 6.  Comparison 3 also refuses evidence, and a use-time check, that aged
\* out, and that can happen to any of them: the refusal has no guard of its own.
AttemptRefused(c) ==
  /\ Up(c) /\ job[c].pc = "attempt"
  /\ SetJob(c, [job[c] EXCEPT !.pc = "refused"])
  /\ UNCHANGED <<rows, wire, mach, drift, obs, node, proc, owed, ended, scan, left>>

\* The refusal's own transaction: a committed operation this token still owns becomes unresolved,
\* and one with no attempt whose plan can never pass comparison 1 ends cancelled.
SettleAttemptRefusal(c) ==
  LET p == job[c].plan IN
  /\ Up(c) /\ job[c].pc = "refused"
  /\ IF Owns(c, p, job[c].gen) /\ op[p].state \in {"committed", "unresolved"}
     THEN IF op[p].made = 0 /\ dead[p] THEN MoveOperation(p, "cancelled")
          ELSE IF op[p].state = "committed" THEN MoveOperation(p, "unresolved")
          ELSE UNCHANGED <<op, mach>>
     ELSE UNCHANGED <<op, mach>>
  /\ SetJob(c, NoJob)
  /\ UNCHANGED <<plan, dead, cls, att, wire, drift, obs, node, proc, owed, ended, scan, left>>

-----------------------------------------------------------------------------
(* The request and its response (dispatch.go, outcome.go). *)

\* Mutant: the request is made whatever the deadline.
SendAnyTime(c) ==
  /\ Up(c) /\ job[c].pc = "send"
  /\ wire' = [wire EXCEPT ![job[c].plan][job[c].n] = "flight"]
  /\ SetJob(c, [job[c] EXCEPT !.pc = "wait"])
  /\ UNCHANGED <<rows, mach, drift, obs, node, proc, owed, ended, scan, left>>

\* The request is made under the attempt's transport deadline.
SendRequest(c) ==
  LET p == job[c].plan IN
  /\ Up(c) /\ job[c].pc = "send" /\ att[p][job[c].n].dl = 0
  /\ wire' = [wire EXCEPT ![p][job[c].n] = "flight"]
  /\ SetJob(c, [job[c] EXCEPT !.pc = "wait"])
  /\ UNCHANGED <<rows, mach, drift, obs, node, proc, owed, ended, scan, left>>

\* No connection, or no time left: nothing is sent, which is a transport outcome too.
SendFails(c) ==
  /\ Up(c) /\ job[c].pc = "send"
  /\ SetJob(c, [job[c] EXCEPT !.pc = "respond", !.resp = "transport"])
  /\ UNCHANGED <<rows, wire, mach, drift, obs, node, proc, owed, ended, scan, left>>

\* The node applies the configuration or refuses it, at any time after it was sent.  A decision
\* that accounted for the attempt is right unless left.late.
NodeHandles(p, n) ==
  /\ wire[p][n] = "flight"
  /\ left.late \/ att[p][n].acct # "decision"
  /\ \/ /\ wire' = [wire EXCEPT ![p][n] = "applied"]
        /\ node' = [node EXCEPT ![M(p)].cfg = plan[p].release]
     \/ /\ wire' = [wire EXCEPT ![p][n] = "refused"]
        /\ UNCHANGED node
  /\ UNCHANGED <<rows, mach, drift, obs, loops, left>>

\* What the sender can be told: a rejection precedes any mutation, an acceptance follows the apply.
Answers(w) ==
  {"transport"} \cup CASE w = "applied" -> {"accepted", "code"}
                       [] w = "refused" -> {"rejected", "code"}
                       [] OTHER -> {}

ReceiveAnswer(c) ==
  /\ Up(c) /\ job[c].pc = "wait"
  /\ \E r \in Answers(wire[job[c].plan][job[c].n]) :
       SetJob(c, [job[c] EXCEPT !.pc = "respond", !.resp = r])
  /\ UNCHANGED <<rows, wire, mach, drift, obs, node, proc, owed, ended, scan, left>>

\* Mutant: the latest rejection is taken for all of them.
LatestRejects(p, n, r) ==
  IF op[p].state \notin {"sending", "unresolved"} \/ n # op[p].made THEN op[p].state
  ELSE CASE r = "rejected" -> "rejected"
         [] r = "accepted" /\ op[p].state = "sending" -> "verifying"
         [] OTHER -> "unresolved"
\* The state a response of class r to attempt n moves its operation to.
StateAfterResponse(p, n, r) ==
  LET latest      == n = op[p].made
      allRejected == r = "rejected" /\ \A k \in 1..op[p].made : k # n => att[p][k].resp = "rejected"
  IN IF op[p].state = "sending" /\ latest /\ r = "accepted" THEN "verifying"
     ELSE IF ((op[p].state = "sending" /\ latest) \/ op[p].state = "unresolved") /\ allRejected
     THEN "rejected"
     ELSE IF op[p].state = "sending" /\ latest THEN "unresolved"
     ELSE op[p].state

\* By the process that sent it, whoever owns the operation by now.
RecordResponse(c) ==
  LET p  == job[c].plan
      n  == job[c].n
      r  == job[c].resp
      by == Accounts(r) /\ att[p][n].acct = "none"
      to == StateAfterResponse(p, n, r)
  IN
  /\ Up(c) /\ job[c].pc = "respond" /\ att[p][n].resp = "none"
  /\ att' = [att EXCEPT ![p][n].resp = r, ![p][n].acct = IF by THEN "response" ELSE @]
  /\ op' = [op EXCEPT ![p].state = to, ![p].acctAt = IF by THEN Now(M(p)) ELSE @]
  /\ IF to # op[p].state THEN ScopeEntry(M(p)) ELSE UNCHANGED mach
  /\ Follow(p)
  /\ SetJob(c, IF to = "verifying" THEN ObserveJob(p, job[c].gen, "completion", "settle") ELSE NoJob)
  /\ UNCHANGED <<plan, dead, wire, drift, obs, node, proc, owed, ended, scan, left>>

DeadlinePasses(p, n) ==
  /\ n <= op[p].made /\ att[p][n].dl = 0
  /\ att' = [att EXCEPT ![p][n].dl = Now(M(p)) + 1]
  /\ UNCHANGED <<plan, dead, op, cls, wire, mach, drift, obs, node, loops, left>>

-----------------------------------------------------------------------------
(* Accounting by decision, and resolution (settle.go, recovery_acts.go). *)

\* The settle runs from the first successful read begun after the transport deadline to a recovery
\* observation begun after that read was recorded and after the last takeover; both read the
\* configuration's resource version.  That the floor elapsed between them is a matter of time.
Settled(p, n) ==
  LET m    == M(p)
      read == {b \in Recorded(m) : b >= att[p][n].dl /\ {obs[m][b].ident, obs[m][b].minor, obs[m][b].cfg} # {"unread"}}
  IN /\ att[p][n].dl # 0
     /\ \E s, e \in read :
          /\ \A b \in read : s <= b
          /\ obs[m][s].cfg # "unread" /\ obs[m][e].cfg # "unread"
          /\ obs[m][e].purpose = "recovery"
          /\ e > obs[m][s].done /\ e > op[p].took

NobodyStopped(p, n) == TRUE   \* mutant: no takeover is asked for
ExecutorStopped(p, n) == att[p][n].gen < op[p].gen \/ att[p][n].owner # op[p].owner

AccountByDecision(p, n) ==
  /\ "admin" \in left.kinds
  /\ \E c \in Controllers : Up(c)
  /\ n <= op[p].made /\ att[p][n].acct = "none"
  /\ ExecutorStopped(p, n) /\ Settled(p, n)
  /\ att' = [att EXCEPT ![p][n].acct = "decision"]
  /\ op' = [op EXCEPT ![p].acctAt = Now(M(p))]
  /\ UNCHANGED <<plan, dead, cls, wire, mach, drift, obs, node, loops, left>>

\* Mutant: an operation with attempts is resolved too.
ResolveAttempted(p) ==
  /\ "admin" \in left.kinds
  /\ \E c \in Controllers : Up(c)
  /\ op[p].state = "unresolved"
  /\ MoveOperation(p, "cancelled")
  /\ UNCHANGED <<plan, dead, cls, att, wire, drift, obs, node, loops, left>>

ResolveByDecision(p) ==
  /\ "admin" \in left.kinds
  /\ \E c \in Controllers : Up(c)
  /\ op[p].state = "unresolved" /\ op[p].made = 0
  /\ MoveOperation(p, "cancelled")
  /\ UNCHANGED <<plan, dead, cls, att, wire, drift, obs, node, loops, left>>

-----------------------------------------------------------------------------
(* Settling an operation on an observation (settle.go). *)

\* A later recorded observation reports another identity, configuration or assignment.
Blocked(m, b) ==
  \E x \in Recorded(m) :
    LET o == obs[m][b]
        l == obs[m][x]
        Differ(u, v, none) == u # none /\ v # none /\ u # v
    IN /\ x > b
       /\ \/ Differ(o.ident, l.ident, "unread")
          \/ Differ(o.cfg, l.cfg, "unread")
          \/ Differ(o.head, l.head, 0)

Established(p, o)  == o.ident = "bound" /\ o.cfg = plan[p].release /\ o.head = plan[p].head
Contradicted(p, o) == \/ o.ident = "other"
                      \/ o.cfg \notin {"unread", plan[p].release}
                      \/ o.head \notin {0, plan[p].head}

SafeToRetry(p, o) ==
  /\ o.ident = "bound" /\ o.minor = "bound" /\ o.head = plan[p].head /\ o.cfg = plan[p].expected
  /\ \A n \in 1..op[p].made : att[p][n].resp \notin {"accepted", "rejected"}
  /\ AttemptsLeft(p) /\ ~dead[p] /\ ScopeGate(p)

\* The owner settles its operation on the observation it recorded.
Settling(c) ==
  /\ Up(c) /\ job[c].pc = "settle"
  /\ Owns(c, job[c].plan, job[c].gen)
  /\ op[job[c].plan].state \in {"verifying", "unresolved"}

\* The observation can settle the operation: every attempt is accounted for, it was begun after the
\* last accounting, and no later one reports another value.
\* That an attempt is not accounted for, which settleOperation answers by unresolved, never happens
\* here: SettlingAccounted.
Settles(p, b) == Unaccounted(p) = {} /\ b > op[p].acctAt /\ ~Blocked(M(p), b)

\* Completion: Applied names the plan's release, the baseline advances, and the drift record a
\* revert binds closes.
Complete(c) ==
  LET p == job[c].plan
      m == M(p) IN
  /\ Settling(c) /\ Settles(p, job[c].n)
  /\ job[c].purpose = "completion" /\ op[p].made > 0
  /\ Established(p, obs[m][job[c].n])
  /\ op' = [op EXCEPT ![p].state = "completed"]
  /\ Follow(p)
  /\ mach' = [mach EXCEPT ![m] = [@ EXCEPT !.applied = plan[p].release, !.baseline = mach[m].baseline + 1,
                                           !.scopeAt = Now(m)]]
  /\ drift' = [drift EXCEPT ![m] = Reverted(p)]
  /\ SetJob(c, NoJob)
  /\ UNCHANGED <<plan, dead, att, wire, obs, node, proc, owed, ended, scan, left>>

\* Neither established nor contradicted, past the verification deadline.
VerificationLapses(c) ==
  LET p == job[c].plan
      o == obs[M(p)][job[c].n] IN
  /\ Settling(c) /\ Settles(p, job[c].n)
  /\ op[p].state = "verifying" /\ op[p].made > 0
  /\ ~Contradicted(p, o) /\ ~(Established(p, o) /\ job[c].purpose = "completion")
  /\ MoveOperation(p, "unresolved")
  /\ SetJob(c, NoJob)
  /\ UNCHANGED <<plan, dead, cls, att, wire, drift, obs, node, proc, owed, ended, scan, left>>

\* An unresolved operation so classified goes straight on to its attempt.
ClassifyRetry(c) ==
  LET p == job[c].plan
      o == obs[M(p)][job[c].n] IN
  /\ Settling(c) /\ Settles(p, job[c].n)
  /\ op[p].made = 0 \/ Contradicted(p, o)
  /\ SafeToRetry(p, o)
  /\ cls' = [cls EXCEPT ![p] = [obs |-> job[c].n, gen |-> job[c].gen, followed |-> FALSE]]
  /\ IF op[p].state = "verifying"
     THEN MoveOperation(p, "unresolved") /\ SetJob(c, NoJob)
     ELSE UNCHANGED <<op, mach>> /\ SetJob(c, AttemptJob(p, job[c].gen))
  /\ UNCHANGED <<plan, dead, att, wire, drift, obs, node, proc, owed, ended, scan, left>>

\* Failure releases the scope, so a configuration other than Applied's is drift from here on.
Fail(c) ==
  LET p == job[c].plan
      o == obs[M(p)][job[c].n] IN
  /\ Settling(c) /\ Settles(p, job[c].n)
  /\ job[c].purpose = "completion" /\ op[p].made > 0
  /\ Contradicted(p, o) /\ ~SafeToRetry(p, o)
  /\ MoveOperation(p, "failed")
  /\ Follow(p)
  /\ ApplyDrift(M(p), job[c].n, o.cfg, TRUE)
  /\ SetJob(c, NoJob)
  /\ UNCHANGED <<plan, dead, att, wire, obs, node, proc, owed, ended, scan, left>>

-----------------------------------------------------------------------------
(* The rest of the system and the world. *)

Happens(kind) ==
  kind \in left.kinds /\ left.events > 0 /\ left' = [left EXCEPT !.events = @ - 1]

SetFreeze(m) ==
  /\ Happens("freeze")
  /\ mach' = [mach EXCEPT ![m].frozen = ~@]
  /\ UNCHANGED <<rows, wire, drift, obs, node, loops>>

\* A publication that covers m: a new Desired, and the assignment head if the draft changed it.  A
\* new release whose artifact is the same is told apart by the head alone.
Publish(m) ==
  /\ Happens("publish")
  /\ \E r \in Releases, moved \in {0, 1} :
       /\ r # mach[m].desired \/ moved = 1
       /\ mach' = [mach EXCEPT ![m].desired = r, ![m].head = @ + moved]
  /\ UNCHANGED <<rows, wire, drift, obs, node, loops>>

\* Someone changes the node directly, upgrades it or puts another in its place.
ChangeNode(m) ==
  /\ \/ Happens("foreign") /\ \E x \in Configs \ {node[m].cfg} : node' = [node EXCEPT ![m].cfg = x]
     \/ Happens("replace") /\ \E i, v \in Reports : node' = [node EXCEPT ![m].ident = i, ![m].minor = v]
  /\ UNCHANGED <<rows, wire, mach, drift, obs, loops>>

-----------------------------------------------------------------------------

\* A machine whose Applied was adopted, for which another release has been published since.
Init ==
  /\ plan = [p \in Plans |-> NoPlan]
  /\ dead = [p \in Plans |-> FALSE]
  /\ op   = [p \in Plans |-> NoOp]
  /\ cls  = [p \in Plans |-> NoClass]
  /\ att  = [p \in Plans |-> [n \in Numbers |-> NoAttempt]]
  /\ wire = [p \in Plans |-> [n \in Numbers |-> "unsent"]]
  /\ \E d \in [Machines -> Releases \ {Adopted}] :
       mach = [m \in Machines |-> [desired |-> d[m], applied |-> Adopted, baseline |-> 1, head |-> 1,
                                   frozen |-> FALSE, scopeAt |-> 0]]
  /\ drift = [m \in Machines |-> [id |-> 0, open |-> FALSE, digest |-> Adopted]]
  /\ obs   = [m \in Machines |-> <<>>]
  /\ node  = [m \in Machines |-> [cfg |-> Adopted, ident |-> "bound", minor |-> "bound"]]
  /\ proc  = [c \in Controllers |-> "off"]
  /\ owed  = [c \in Controllers |-> [p \in Plans |-> 0]]
  /\ ended = [c \in Controllers |-> {}]
  /\ job   = [c \in Controllers |-> NoJob]
  /\ scan  = [c \in Controllers |-> NoScan]
  /\ left \in Limits

\* Steps of the executor loop's transactions and of the request it makes.
ExecutorStep(c) ==
  \/ StartObservation(c) \/ ReadNode(c) \/ RecordObservation(c)
  \/ CommitPlan(c) \/ CommitRefused(c) \/ RecordCommitRefusal(c)
  \/ RecordAttempt(c) \/ AttemptRefused(c) \/ SettleAttemptRefusal(c)
  \/ SendRequest(c) \/ SendFails(c) \/ ReceiveAnswer(c) \/ RecordResponse(c)
  \/ Complete(c) \/ VerificationLapses(c) \/ ClassifyRetry(c) \/ Fail(c)

PlanStep(p) ==
  \/ CreatePlan(p) \/ ApprovePlan(p) \/ CancelPlan(p) \/ RevokeApproval(p) \/ Lapse(p)
  \/ ResolveByDecision(p)
  \/ \E n \in Numbers : NodeHandles(p, n) \/ DeadlinePasses(p, n) \/ AccountByDecision(p, n)

Next ==
  \/ \E c \in Controllers :
       \/ StartController(c) \/ Crash(c) \/ Drop(c)
       \/ ExecutorStep(c)
       \/ ScanStart(c) \/ ScanRead(c) \/ ScanRecord(c)
       \/ \E m \in Machines : ScanPick(c, m)
       \/ \E p \in Plans : TakeOver(c, p) \/ RequestTakeover(c, p) \/ DispatchPlan(c, p) \/ Advance(c, p)
  \/ \E p \in Plans : PlanStep(p)
  \/ \E m \in Machines : SetFreeze(m) \/ Publish(m) \/ ChangeNode(m)

Spec == Init /\ [][Next]_vars

-----------------------------------------------------------------------------
(* Types. *)

ReadType  == [ident : Reports \cup {"unread"}, minor : Reports \cup {"unread"},
              cfg : Configs \cup {"unread"}, access : BOOLEAN]
PlanType  == [state : {"none", "proposed", "approved", "committed", "cancelled", "revoked"},
              release : Releases, expected : Configs, head : Nat, baseline : Nat, drift : Nat,
              approvedAt : Nat]
OpType    == [state : {"none"} \cup Holding \cup Ended, owner : Controllers \cup {"none"}, gen : Nat,
              ev : Nat, made : 0..MaxAttempts, acctAt : Nat, took : Nat]
ClsType   == [obs : Nat, gen : Nat, followed : BOOLEAN]
AttType   == [owner : Controllers \cup {"none"}, gen : Nat, resp : Classes \cup {"none"},
              acct : {"none", "response", "decision"}, dl : Nat]
MachType  == [desired : Releases, applied : Releases, baseline : Nat, head : Nat, frozen : BOOLEAN,
              scopeAt : Nat]
DriftType == [id : Nat, open : BOOLEAN, digest : Configs]
ObsType   == [by : Controllers, purpose : {"evidence", "completion", "recovery", "drift", "none"},
              plan : Plans \cup {"none"}, head : Nat, ident : Reports \cup {"unread"},
              minor : Reports \cup {"unread"}, cfg : Configs \cup {"unread"}, done : Nat]
NodeType  == [cfg : Configs, ident : Reports, minor : Reports]
JobType   == [pc : {"idle", "observe", "reading", "record", "commit", "refuse", "attempt", "refused",
                    "send", "wait", "respond", "settle"},
              plan : Plans \cup {"none"}, gen : Nat, n : Nat,
              purpose : {"none", "evidence", "completion", "recovery"},
              next : {"idle", "commit", "settle"}, read : ReadType, resp : Classes \cup {"none"}]
ScanType  == [pc : {"idle", "observe", "reading", "record"}, m : Machines \cup {"none"}, n : Nat,
              read : ReadType]

\* Every variable holds a value of its rows' and processes' types: no operation records more
\* attempts than its plan allows, whichever processes retry it.
TypeOK ==
  /\ plan \in [Plans -> PlanType]
  /\ dead \in [Plans -> BOOLEAN]
  /\ op \in [Plans -> OpType]
  /\ cls \in [Plans -> ClsType]
  /\ att \in [Plans -> [Numbers -> AttType]]
  /\ wire \in [Plans -> [Numbers -> {"unsent", "flight", "applied", "refused"}]]
  /\ mach \in [Machines -> MachType]
  /\ drift \in [Machines -> DriftType]
  /\ obs \in [Machines -> Seq(ObsType)]
  /\ node \in [Machines -> NodeType]
  /\ proc \in [Controllers -> {"off", "up", "down"}]
  /\ owed \in [Controllers -> [Plans -> Nat]]
  /\ ended \in [Controllers -> SUBSET Plans]
  /\ job \in [Controllers -> JobType]
  /\ scan \in [Controllers -> ScanType]
  /\ left \in LimitType

-----------------------------------------------------------------------------
(* Safety. *)

SameCluster(p, q) == ClusterOf[M(p)] = ClusterOf[M(q)]

\* At most one attempt of a cluster is unaccounted for, and its operation still holds the machine
\* and rollout scopes (execution-recovery.md 4: the scope is released only when every recorded
\* attempt is accounted for).  Commitment, attempt, takeover, late response, decision and settle
\* transactions of every process keep it together.
OneOutstandingAttempt ==
  \A p, q \in Plans : \A n \in Unaccounted(p), k \in Unaccounted(q) :
    SameCluster(p, q) => p = q /\ n = k /\ op[p].state \in Holding

\* A request that can still reach the node: it is on its way, or its process is about to make it.
MayLand(p, n) ==
  \/ wire[p][n] = "flight" /\ att[p][n].acct # "decision"
  \/ \E c \in Controllers : job[c].pc = "send" /\ job[c].plan = p /\ job[c].n = n /\ att[p][n].dl = 0

\* At most one request of a cluster can still change a node, and only while its operation holds the
\* scope, whichever processes crashed or were taken over meanwhile.
OneWriter ==
  \A p, q \in Plans : \A n, k \in Numbers :
    MayLand(p, n) /\ MayLand(q, k) /\ SameCluster(p, q) => p = q /\ n = k /\ op[p].state \in Holding

\* An operation recorded as having changed nothing changed nothing: one rejected had every request
\* refused by the node, even when the rejection arrived after a takeover or a retry, and one
\* cancelled sent nothing, with no process about to send for it (recordResponse,
\* settleAttemptRefusal, resolveByDecision).
UnchangedIsTrue ==
  \A p \in Plans :
    /\ op[p].state = "rejected" => \A n \in 1..op[p].made : wire[p][n] = "refused"
    /\ op[p].state = "cancelled" =>
         /\ \A n \in Numbers : wire[p][n] = "unsent"
         /\ \A c \in Controllers : job[c].plan = p => job[c].pc \notin {"send", "wait", "respond"}

\* Accounting stands: every attempt after one a decision accounted for was recorded under a later
\* owner generation, so the executor decided against sends nothing more, and an owner that comes to
\* settle on an observation it began passes earlier finds every attempt accounted for, whatever
\* responses, takeovers and decisions came between (accountByDecision, settleOperation).
AccountingStands ==
  /\ \A p \in Plans : \A n, k \in 1..op[p].made :
       n < k /\ att[p][n].acct = "decision" => att[p][n].gen < att[p][k].gen
  /\ \A c \in Controllers : Settling(c) => Unaccounted(job[c].plan) = {}

\* No change is made behind the manager's back and no accounting decision is wrong.
Undisturbed == "foreign" \notin left.kinds /\ ~left.late

\* With no change made behind the manager's back, no accounting decision that was wrong and no
\* observation that fails to read a value, a machine no operation holds runs what Applied names, or
\* a drift record is open on it.  An operation that fails on an observation which read another
\* identity or assignment but no configuration opens none: the next drift observation does.
NoSilentDivergence ==
  Undisturbed /\ "unread" \notin left.kinds =>
    \A m \in Machines : ~Held(m) /\ node[m].cfg # mach[m].applied => drift[m].open

\* While an operation holds its machine, the open drift record is the one its plan binds, or none is
\* and it binds none: no observation of any loop opens, closes or replaces one under it. And an open
\* record names a configuration other than Applied's, through every completion that moves Applied: a
\* revert planned on it expects, before dispatch, what a node really ran (settle.go closes "the open
\* one" that comparison 6 kept).
DriftRecordBound ==
  /\ \A p \in Plans : op[p].state \in Holding => OpenDrift(M(p)) = plan[p].drift
  /\ \A m \in Machines : drift[m].open => drift[m].digest # mach[m].applied

-----------------------------------------------------------------------------
(* Action properties. *)

\* A request is made only while its attempt is unaccounted for: a process that was taken over and
\* comes back after the decision sends nothing, because the transport deadline has passed.
NoSendAfterAccounting ==
  [][\A p \in Plans : \A n \in Numbers :
       wire[p][n] = "unsent" /\ wire'[p][n] # "unsent" => att[p][n].acct = "none" /\ n <= op[p].made]_vars

\* With no change made behind the manager's back, a drift record opens only on a node that really
\* differs from Applied, and closes only on one that does not: no stale read opens or closes one.
DriftIsReal ==
  [][Undisturbed => \A m \in Machines :
       /\ ~drift[m].open /\ drift'[m].open => node[m].cfg # mach'[m].applied
       /\ drift[m].open /\ ~drift'[m].open => node[m].cfg = mach'[m].applied]_vars
=============================================================================
