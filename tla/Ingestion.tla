------------------------------ MODULE Ingestion ------------------------------
(***************************************************************************)
(* Staging claims (internal/staging), the ingest runner and its routes     *)
(* (internal/api runner.go, ingestions.go, marks.go, continuations.go,     *)
(* fragments.go), the generations they create in the provider, and the     *)
(* orphan report over both (internal/orphans).                             *)
(*                                                                         *)
(* A claim is a row; a run is what a process executes for one owner        *)
(* generation of a claim, outside any transaction between its statements.  *)
(* Every database transaction is one action: it locks the installation     *)
(* state, then the claim, and evaluates its predicate after the last wait. *)
(* The database clock is abstracted to what the predicates compare: the    *)
(* lease lapsed, the absolute expiry passed.                               *)
(***************************************************************************)
EXTENDS Integers, FiniteSets, TLC

CONSTANTS
    Procs,      \* server processes
    NoProc,     \* no process
    Claims,     \* identifiers of the claims the instance creates
    Values,     \* values one extraction finds: 1 .. Values are created in order
    MaxGen,     \* bound on a claim's owner generation
    MaxEpoch,   \* bound on recovery entries
    MaxRev,     \* bound on the draft's revisions
    MaxCrash,   \* bound on process crashes
    Reporting,  \* whether orphan reports run
    Modes       \* staging modes requested: subset of {"transient", "encrypted"}

ASSUME IngestionAssumption ==
    /\ NoProc \notin Procs
    /\ Values \in Nat \ {0} /\ MaxGen \in Nat \ {0} /\ MaxEpoch \in Nat \ {0}
    /\ MaxRev \in Nat /\ MaxCrash \in Nat
    /\ Reporting \in BOOLEAN /\ Modes \subseteq {"transient", "encrypted"}

VARIABLES
    claim,      \* staging_claim rows
    operation,  \* the claim's ingest operation; a draft update has none
    run,        \* the run of each owner generation of each claim
    generations,\* paths written in the provider: <<claim, owner generation, value>>
    refs,       \* generations some import_base_reference or fragment_reference names
    draft,      \* the draft every claim ingests into
    epoch,      \* installation_state.epoch
    procEpoch,  \* epoch each process started in; 0 when it is down
    crashes,
    sweepList,  \* candidates of the running sweep's scan
    listing,    \* paths the running orphan report listed, or NoListing
    orphans     \* every path some report named an orphan

vars == <<claim, operation, run, generations, refs, draft, epoch, procEpoch,
          crashes, sweepList, listing, orphans>>

NoPayload == {<<"none">>}
NoListing == {<<"none">>}
Gens == 1 .. MaxGen
Paths == Claims \X Gens \X (1 .. Values)
Live == {"held", "paused", "resumed"}
Owned == {"held", "resumed"}

NoClaim == [state |-> "none", mode |-> "transient", kind |-> "import", review |-> "none",
            owner |-> NoProc, gen |-> 0, epoch |-> 0, lease |-> FALSE, expired |-> FALSE,
            payload |-> NoPayload, rev |-> 0]
NoRun == [pc |-> "none", by |-> NoProc, marks |-> FALSE, env |-> {}, made |-> 0]
StoppedRun == [NoRun EXCEPT !.pc = "stopped"]

Init ==
    /\ claim = [k \in Claims |-> NoClaim]
    /\ operation = [k \in Claims |-> [state |-> "none", owner |-> NoProc, gen |-> 0]]
    /\ run = [k \in Claims |-> [g \in Gens |-> NoRun]]
    /\ generations = {} /\ refs = {}
    /\ draft = [rev |-> 0, open |-> TRUE, publishing |-> FALSE]
    /\ epoch = 1 /\ procEpoch = [p \in Procs |-> 1] /\ crashes = 0
    /\ sweepList = {} /\ listing = NoListing /\ orphans = {}

-----------------------------------------------------------------------------
(* Predicates of the claim statements.                                     *)

\* fence: what an owner's statement requires of the row once it holds it.
Fence(p, k, g) ==
    LET c == claim[k] IN
    /\ procEpoch[p] = epoch
    /\ c.owner = p /\ c.gen = g /\ c.epoch = procEpoch[p]
    /\ c.state \in Owned /\ c.lease /\ ~c.expired

\* Defect: a paused claim is left out of the due ones.
DueUnlessPaused(k) ==
    /\ claim[k].state \in Owned
    /\ claim[k].expired \/ (claim[k].mode = "transient" /\ ~claim[k].lease)

\* DueSQL: live past its absolute expiry, or transient past its lease.
Due(k) ==
    /\ claim[k].state \in Live
    /\ claim[k].expired \/ (claim[k].mode = "transient" /\ ~claim[k].lease)

\* EffectiveStateSQL: the state every read and transition treats the claim as.
EffectiveState(k) == IF Due(k) THEN "abandoned" ELSE claim[k].state

\* eligible: the predicate of a takeover's UPDATE.
Eligible(k) ==
    LET c == claim[k] IN
    /\ c.mode = "encrypted" /\ c.state \in Owned
    /\ ~c.lease /\ ~c.expired /\ c.epoch = epoch

\* markable: the predicate of a mark's or a continuation's UPDATE.
Markable(k) ==
    claim[k].state = "paused" /\ ~claim[k].expired /\ claim[k].epoch = epoch

\* The writes that end a claim, with its payload cleared, and its running operation.
EndedClaim(k, state) == [claim EXCEPT ![k].state = state, ![k].payload = NoPayload]
EndedOperation(k, state) ==
    IF operation[k].state = "running"
    THEN [operation EXCEPT ![k] = [@ EXCEPT !.state = state, !.owner = NoProc]]
    ELSE operation

\* Pause's write: the lease ended, the envelope replaced when there is a new one.
PausedClaim(k, ct) ==
    [claim EXCEPT ![k] = [@ EXCEPT !.state = "paused", !.lease = FALSE,
                                   !.payload = IF ct = NoPayload THEN claim[k].payload ELSE ct]]

\* AbandonDue: the claim abandoned if it is still due under its lock, its operation failed.
AbandonDue(k) ==
    /\ claim' = IF Due(k) THEN EndedClaim(k, "abandoned") ELSE claim
    /\ operation' = IF Due(k) THEN EndedOperation(k, "failed") ELSE operation

-----------------------------------------------------------------------------
(* Requests that create or take a claim. A request is served by a process  *)
(* whose epoch is current: staging refuses any other ErrEpochSuperseded.   *)

Serving(p) == procEpoch[p] = epoch

\* startRunner, after the COMMIT: the run of generation g on process p.
StartRunner(k, g, r) == run' = [run EXCEPT ![k][g] = r]

\* Defect: an operation whose owner's lease lapsed counts as ended.
RunningWhileLeased(k) ==
    operation[k].state = "running" /\ claim[k].rev = draft.rev /\ claim[k].lease

\* The claim whose running ingest operation holds the draft's current revision.
RunningOfRevision(k) == operation[k].state = "running" /\ claim[k].rev = draft.rev

\* startIngestion (T11): the draft open at the request's revision and free of a running
\* ingest once a due one is abandoned in the same transaction.
StartIngestion(p, k, mode, review) ==
    /\ Serving(p) /\ claim[k].state = "none" /\ draft.open
    /\ review => mode = "encrypted"
    /\ \A j \in Claims : RunningOfRevision(j) => Due(j)
    /\ LET new == [NoClaim EXCEPT !.state = "held", !.mode = mode, !.owner = p, !.gen = 1,
                        !.review = IF review THEN "pending" ELSE "none",
                        !.epoch = epoch, !.lease = TRUE, !.rev = draft.rev]
           over == {j \in Claims : RunningOfRevision(j)}
       IN /\ claim' = [j \in Claims |-> IF j = k THEN new
                          ELSE IF j \in over THEN EndedClaim(j, "abandoned")[j] ELSE claim[j]]
          /\ operation' = [j \in Claims |-> IF j = k THEN [state |-> "running", owner |-> p, gen |-> 1]
                          ELSE IF j \in over THEN EndedOperation(j, "failed")[j] ELSE operation[j]]
    /\ StartRunner(k, 1, [NoRun EXCEPT !.pc = "read", !.by = p])
    /\ UNCHANGED <<generations, refs, draft, epoch, procEpoch, crashes, sweepList, listing, orphans>>

\* prepareFragment: a draft update's transient claim, under the request's key. The instance's
\* claims have distinct keys; a repeat of a key is the Requests module's.
PrepareFragment(p, k) ==
    /\ Serving(p) /\ claim[k].state = "none" /\ draft.open /\ ~draft.publishing
    /\ claim' = [claim EXCEPT ![k] = [NoClaim EXCEPT !.state = "held", !.kind = "draft-update",
                    !.owner = p, !.gen = 1, !.epoch = epoch, !.lease = TRUE, !.rev = draft.rev]]
    /\ StartRunner(k, 1, [NoRun EXCEPT !.pc = "extract", !.by = p])
    /\ UNCHANGED <<operation, generations, refs, draft, epoch, procEpoch, crashes, sweepList,
                   listing, orphans>>

\* Defect: the operation keeps the generation it had.
MoveOperationOwnerOnly(k, p) ==
    /\ operation[k].state = "running"
    /\ operation' = [operation EXCEPT ![k].owner = p]

\* moveOperation: the running operation follows the claim from the generation before it;
\* an operation at another generation refuses the take whole.
MoveOperation(k, p) ==
    /\ operation[k].state = "running" /\ operation[k].gen = claim[k].gen
    /\ operation' = [operation EXCEPT ![k].owner = p, ![k].gen = claim[k].gen + 1]

\* The claim p owns from here, at the next generation with a fresh lease.
Taken(k, p, state, review) ==
    claim' = [claim EXCEPT ![k] = [@ EXCEPT !.owner = p, !.gen = claim[k].gen + 1, !.epoch = epoch,
                                   !.state = state, !.review = review, !.lease = TRUE]]

\* takeOverIngestion (T8): an encrypted claim whose owner's lease lapsed. One with nothing
\* to decrypt is abandoned by the same write and its operation failed.
TakeOver(p, k) ==
    /\ Serving(p) /\ Eligible(k) /\ claim[k].gen < MaxGen
    /\ IF claim[k].payload = NoPayload
       THEN /\ operation[k].state = "running" /\ operation[k].gen = claim[k].gen
            /\ claim' = [claim EXCEPT ![k] = [@ EXCEPT !.owner = p, !.gen = claim[k].gen + 1,
                                              !.epoch = epoch, !.state = "abandoned", !.lease = TRUE]]
            /\ operation' = [operation EXCEPT ![k] =
                                [state |-> "failed", owner |-> NoProc, gen |-> claim[k].gen + 1]]
            /\ UNCHANGED run
       ELSE /\ Taken(k, p, "resumed", claim[k].review)
            /\ MoveOperation(k, p)
            /\ StartRunner(k, claim[k].gen + 1,
                           [NoRun EXCEPT !.pc = "decrypt", !.by = p, !.env = claim[k].payload])
    /\ UNCHANGED <<generations, refs, draft, epoch, procEpoch, crashes, sweepList, listing, orphans>>

\* markIngestion (T11): the paused claim held again by p, its review still pending, its run
\* carrying the operator's marks.
MarkIngestion(p, k) ==
    /\ Serving(p) /\ Markable(k) /\ claim[k].gen < MaxGen
    /\ Taken(k, p, "held", "pending") /\ MoveOperation(k, p)
    /\ StartRunner(k, claim[k].gen + 1, [NoRun EXCEPT !.pc = "decrypt", !.by = p, !.marks = TRUE,
                                                      !.env = claim[k].payload])
    /\ UNCHANGED <<generations, refs, draft, epoch, procEpoch, crashes, sweepList, listing, orphans>>

\* continueIngestion: as a mark, the review recorded continued and no marks.
ContinueIngestion(p, k) ==
    /\ Serving(p) /\ Markable(k) /\ claim[k].gen < MaxGen
    /\ Taken(k, p, "held", "continued") /\ MoveOperation(k, p)
    /\ StartRunner(k, claim[k].gen + 1,
                   [NoRun EXCEPT !.pc = "decrypt", !.by = p, !.env = claim[k].payload])
    /\ UNCHANGED <<generations, refs, draft, epoch, procEpoch, crashes, sweepList, listing, orphans>>

\* abandonIngestion: an operator's abandonment of a claim live as read; not owner-fenced.
AbandonIngestion(k) ==
    /\ EffectiveState(k) \in Live
    /\ claim' = EndedClaim(k, "abandoned")
    /\ operation' = EndedOperation(k, "failed")
    /\ UNCHANGED <<run, generations, refs, draft, epoch, procEpoch, crashes, sweepList, listing, orphans>>

-----------------------------------------------------------------------------
(* The run of owner generation g of claim k. runUnchanged names what its   *)
(* provider calls leave alone.                                             *)

Active == {"read", "extract", "create", "seal", "decrypt", "remark", "draft", "refuse"}
Running(k, g, pcs) == run[k][g].pc \in pcs 
Goto(k, g, pc) == run' = [run EXCEPT ![k][g] =
    IF pc = "stopped" THEN StoppedRun ELSE [@ EXCEPT !.pc = pc]]
Rest == <<refs, draft, epoch, procEpoch, crashes, sweepList, listing, orphans>>

\* Defect: the deadline is evaluated before the wait for the row.
HeartbeatBeforeWait(k, g) ==
    /\ Running(k, g, Active)
    /\ IF claim[k].gen = g /\ claim[k].state \in Owned
       THEN claim' = [claim EXCEPT ![k].lease = TRUE] /\ UNCHANGED run
       ELSE Goto(k, g, "stopped") /\ UNCHANGED claim
    /\ UNCHANGED <<operation, generations>> /\ UNCHANGED Rest

\* Heartbeat: the lease extended when the fence holds under the row's lock; a refusal stops
\* the run. Extending a live lease is its lapse postponed, so only the refusal changes state.
Heartbeat(k, g) ==
    /\ Running(k, g, Active)
    /\ IF Fence(run[k][g].by, k, g)
       THEN claim' = [claim EXCEPT ![k].lease = TRUE] /\ UNCHANGED run
       ELSE Goto(k, g, "stopped") /\ UNCHANGED claim
    /\ UNCHANGED <<operation, generations>> /\ UNCHANGED Rest

\* readNode: a machine source's configuration is read from its node, once the node reports
\* the machine's identity; a document source has its input already.
ReadInput(k, g) ==
    /\ Running(k, g, {"read"})
    /\ \E pc \in {"extract", "refuse"} : Goto(k, g, pc)
    /\ UNCHANGED <<claim, operation, generations>> /\ UNCHANGED Rest

\* stage's and extractDraft's extraction: a refused input abandons the claim.
Extract(k, g) ==
    /\ Running(k, g, {"extract"})
    /\ \E pc \in {"create", "refuse"} : Goto(k, g, pc)
    /\ UNCHANGED <<claim, operation, generations>> /\ UNCHANGED Rest

\* NewGenerationPath: a value's path under its claim, fresh in every run.
GenerationPath(k, g, n) == <<k, g, n>>

\* createGeneration: one value at a fresh path under the claim. The provider's answer is
\* success, or an error after which the path may exist. The first creates of a mark refused
\* leave the review going on; any other failure refuses the ingestion.
CreateGeneration(k, g) ==
    /\ Running(k, g, {"create"})
    /\ LET r == run[k][g]  path == GenerationPath(k, g, r.made + 1) IN
       \/ /\ generations' = generations \cup {path}
          /\ run' = [run EXCEPT ![k][g] = [@ EXCEPT !.made = r.made + 1, !.env = r.env \cup {path},
                                !.pc = IF r.made + 1 = Values THEN "seal" ELSE "create"]]
       \/ /\ generations' \in {generations, generations \cup {path}}
          /\ Goto(k, g, IF r.marks /\ r.made = 0 THEN "remark" ELSE "refuse")
    /\ UNCHANGED <<claim, operation>> /\ UNCHANGED Rest

\* event: an operation event is appended under the claim's owner generation, or the
\* transaction is refused.
EventFence(p, k, g) ==
    operation[k].state = "running" /\ operation[k].owner = p /\ operation[k].gen = g

\* stage's and remark's last step: the envelope encrypted and stored. A transient claim has
\* none and goes to its draft transaction; a pending review pauses with the envelope.
Store(k, g) ==
    /\ Running(k, g, {"seal"})
    /\ LET r == run[k][g]  c == claim[k] IN
       \/ /\ c.mode = "transient"
          /\ Goto(k, g, "draft") /\ UNCHANGED <<claim, operation>>
       \/ /\ c.mode = "encrypted" /\ Goto(k, g, "refuse") /\ UNCHANGED <<claim, operation>>
       \/ /\ c.mode = "encrypted" /\ Fence(r.by, k, g) /\ EventFence(r.by, k, g)
          /\ IF c.review = "pending"
             THEN /\ claim' = PausedClaim(k, r.env)
                  /\ Goto(k, g, "stopped")
             ELSE /\ claim' = [claim EXCEPT ![k].payload = r.env]
                  /\ Goto(k, g, "draft")
          /\ UNCHANGED operation
    /\ UNCHANGED generations /\ UNCHANGED Rest

\* resume: the taken envelope decrypted and opened. A decryption that fails leaves the claim
\* to its lease; an envelope that does not open is the refusal.
Resume(k, g) ==
    /\ Running(k, g, {"decrypt"})
    /\ LET r == run[k][g] IN
       \/ Goto(k, g, "stopped")
       \/ Goto(k, g, "refuse")
       \/ Goto(k, g, IF r.marks THEN "create"
                     ELSE IF claim[k].review = "pending" THEN "remark" ELSE "draft")
       \/ r.marks /\ Goto(k, g, "remark")
    /\ UNCHANGED <<claim, operation, generations>> /\ UNCHANGED Rest

\* resume's pause of a pending review, and markRefused: paused with the stored envelope.
PauseAgain(k, g) ==
    /\ Running(k, g, {"remark"})
    /\ Fence(run[k][g].by, k, g) /\ EventFence(run[k][g].by, k, g) /\ claim[k].review = "pending"
    /\ claim' = PausedClaim(k, NoPayload)
    /\ Goto(k, g, "stopped")
    /\ UNCHANGED <<operation, generations>> /\ UNCHANGED Rest

\* finish: the operation ended under the claim's owner generation, or the statement refused.
Finish(k, g, state) ==
    IF claim[k].kind = "draft-update" THEN UNCHANGED operation
    ELSE /\ EventFence(run[k][g].by, k, g)
         /\ operation' = EndedOperation(k, state)

\* Defect: only the generations the committing run created itself.
OwnGenerations(k, g) == {path \in run[k][g].env : path[2] = g}

\* The generations the draft transaction references: those of the envelope or, for a
\* transient claim, of the extraction.
ImportedGenerations(k, g) == run[k][g].env

\* Defect: a publication of the draft under way is not looked for.
DraftAtRevision(k) == draft.open /\ draft.rev = claim[k].rev

\* T1's draft check, under the draft's lock.
DraftCheck(k) == draft.open /\ draft.rev = claim[k].rev /\ ~draft.publishing

\* commitImport and updateFragment (T1): the claim released, the draft's revision moved and
\* the run's generations referenced, in one transaction, at the revision the claim bound.
DraftTransaction(k, g) ==
    /\ Running(k, g, {"draft"})
    /\ Fence(run[k][g].by, k, g)
    /\ DraftCheck(k)
    /\ claim' = EndedClaim(k, "released")
    /\ Finish(k, g, "succeeded")
    /\ refs' = refs \cup ImportedGenerations(k, g)
    /\ draft' = [draft EXCEPT !.rev = @ + 1]
    /\ Goto(k, g, "stopped")
    /\ UNCHANGED <<generations, epoch, procEpoch, crashes, sweepList, listing, orphans>>

\* T1's refusals: the draft closed, moved or publishing, or a carried reference unknown.
DraftRefused(k, g) ==
    /\ Running(k, g, {"draft"})
    /\ ~DraftCheck(k) \/ claim[k].kind = "draft-update"
    /\ Goto(k, g, "refuse")
    /\ UNCHANGED <<claim, operation, generations>> /\ UNCHANGED Rest

\* abandon and refused: the owner's own refusal, fenced.
Abandon(k, g) ==
    /\ Running(k, g, {"refuse"})
    /\ Fence(run[k][g].by, k, g)
    /\ claim' = EndedClaim(k, "abandoned")
    /\ Finish(k, g, "failed")
    /\ Goto(k, g, "stopped")
    /\ UNCHANGED generations /\ UNCHANGED Rest

\* A failed statement, a COMMIT whose outcome is unknown, or the server stopping.
Stop(k, g) ==
    /\ Running(k, g, Active)
    /\ Goto(k, g, "stopped")
    /\ UNCHANGED <<claim, operation, generations>> /\ UNCHANGED Rest

-----------------------------------------------------------------------------
(* The sweep: a scan, then one transaction per candidate.                  *)

SweepScan ==
    /\ sweepList = {} /\ \E p \in Procs : procEpoch[p] # 0
    /\ \E k \in Claims : Due(k)
    /\ sweepList' = {k \in Claims : Due(k)}
    /\ UNCHANGED <<claim, operation, run, generations, refs, draft, epoch, procEpoch, crashes,
                   listing, orphans>>

\* abandonDue, for the candidate the sweep comes to.
SweepAbandon(k) ==
    /\ k \in sweepList
    /\ AbandonDue(k)
    /\ sweepList' = sweepList \ {k}
    /\ UNCHANGED <<run, generations, refs, draft, epoch, procEpoch, crashes, listing, orphans>>

\* A candidate whose transaction fails is passed over until the next scan.
SweepPasses(k) ==
    /\ k \in sweepList
    /\ sweepList' = sweepList \ {k}
    /\ UNCHANGED <<claim, operation, run, generations, refs, draft, epoch, procEpoch, crashes,
                   listing, orphans>>

-----------------------------------------------------------------------------
(* The orphan report: the provider listed first, outside any transaction,  *)
(* then references and claims read in one statement.                       *)

ReportList ==
    /\ Reporting /\ listing = NoListing /\ generations # {} /\ listing' = generations
    /\ UNCHANGED <<claim, operation, run, generations, refs, draft, epoch, procEpoch, crashes,
                   sweepList, orphans>>

\* collect's verdict on one listed path.
IsOrphan(path) ==
    /\ path \notin refs
    /\ claim[path[1]].state \in {"none", "abandoned", "released"}

ReportRead ==
    /\ listing # NoListing
    /\ orphans' = orphans \cup {path \in listing : IsOrphan(path)}
    /\ listing' = NoListing
    /\ UNCHANGED <<claim, operation, run, generations, refs, draft, epoch, procEpoch, crashes,
                   sweepList>>

-----------------------------------------------------------------------------
(* The clock, the processes and the rest of the draft's life.              *)

LeaseLapses(k) ==
    /\ claim[k].state \in Owned /\ claim[k].lease
    /\ claim' = [claim EXCEPT ![k].lease = FALSE]
    /\ UNCHANGED <<operation, run, generations>> /\ UNCHANGED Rest

\* The absolute expiry passes; the lease never outlives it.
Expires(k) ==
    /\ claim[k].state \in Live /\ ~claim[k].expired
    /\ claim' = [claim EXCEPT ![k] = [@ EXCEPT !.expired = TRUE, !.lease = FALSE]]
    /\ UNCHANGED <<operation, run, generations>> /\ UNCHANGED Rest

\* A process dies with its runs, whatever they hold.
Crash(p) ==
    /\ procEpoch[p] # 0 /\ crashes < MaxCrash
    /\ procEpoch' = [procEpoch EXCEPT ![p] = 0] /\ crashes' = crashes + 1
    /\ run' = [k \in Claims |-> [g \in Gens |->
                 IF run[k][g].by = p /\ run[k][g].pc # "none"
                 THEN StoppedRun ELSE run[k][g]]]
    /\ UNCHANGED <<claim, operation, generations, refs, draft, epoch, sweepList, listing, orphans>>

\* A start in the current epoch. An owner identity names one start of a process; a claim's
\* generation tells its runs apart, so the model keeps the process's name.
Restart(p) ==
    /\ procEpoch[p] = 0
    /\ procEpoch' = [procEpoch EXCEPT ![p] = epoch]
    /\ UNCHANGED <<claim, operation, run, generations, refs, draft, epoch, crashes, sweepList,
                   listing, orphans>>

\* enterRecovery: a new epoch, which the entering process's ownership follows; every other
\* process keeps the one it started in. Every live claim is abandoned with its payload cleared,
\* and its running operation and every publication are failed.
NewEpoch(p) ==
    LET live == {k \in Claims : claim[k].state \in Live} IN
    /\ procEpoch[p] = epoch /\ epoch < MaxEpoch
    /\ epoch' = epoch + 1
    /\ procEpoch' = [procEpoch EXCEPT ![p] = epoch + 1]
    /\ claim' = [k \in Claims |-> IF k \in live THEN EndedClaim(k, "abandoned")[k] ELSE claim[k]]
    /\ operation' = [k \in Claims |-> IF k \in live THEN EndedOperation(k, "failed")[k] ELSE operation[k]]
    /\ draft' = [draft EXCEPT !.publishing = FALSE]
    /\ UNCHANGED <<run, generations, refs, crashes, sweepList, listing, orphans>>

\* The draft's other writers: an entry edited, the draft discarded, a publication of it.
DraftMoves ==
    /\ draft.open /\ draft.rev < MaxRev
    /\ \/ ~draft.publishing /\ draft' = [draft EXCEPT !.rev = @ + 1]
       \/ ~draft.publishing /\ draft' = [draft EXCEPT !.open = FALSE]
       \/ ~draft.publishing /\ draft' = [draft EXCEPT !.publishing = TRUE]
       \/ draft.publishing /\ draft' = [draft EXCEPT !.publishing = FALSE]
       \/ draft.publishing /\ draft' = [draft EXCEPT !.publishing = FALSE, !.open = FALSE]
    /\ UNCHANGED <<claim, operation, run, generations, refs, epoch, procEpoch, crashes, sweepList,
                   listing, orphans>>

RunStep(k, g) ==
    \/ Heartbeat(k, g) \/ ReadInput(k, g) \/ Extract(k, g) \/ CreateGeneration(k, g) \/ Store(k, g)
    \/ Resume(k, g) \/ PauseAgain(k, g) \/ DraftTransaction(k, g) \/ DraftRefused(k, g)
    \/ Abandon(k, g)

Next ==
    \/ \E p \in Procs, k \in Claims :
        \/ \E mode \in Modes, review \in BOOLEAN : StartIngestion(p, k, mode, review)
        \/ PrepareFragment(p, k)
        \/ TakeOver(p, k) \/ MarkIngestion(p, k) \/ ContinueIngestion(p, k)
    \/ \E k \in Claims :
        \/ AbandonIngestion(k) \/ SweepAbandon(k) \/ SweepPasses(k)
        \/ LeaseLapses(k) \/ Expires(k)
        \/ \E g \in Gens : RunStep(k, g) \/ Stop(k, g)
    \/ \E p \in Procs : Crash(p) \/ Restart(p) \/ NewEpoch(p)
    \/ SweepScan \/ ReportList \/ ReportRead \/ DraftMoves

Spec == Init /\ [][Next]_vars

\* The fairness the server's scheduling gives: the clock runs, the sweep's ticker fires while
\* a process is up, a crashed process is started again, and a candidate's transaction does not
\* fail for ever.
Fairness ==
    /\ \A k \in Claims : WF_vars(Expires(k)) /\ SF_vars(SweepAbandon(k))
    /\ WF_vars(SweepScan)
    /\ \A p \in Procs : WF_vars(Restart(p))

FairSpec == Spec /\ Fairness

-----------------------------------------------------------------------------
(* Properties.                                                             *)

ClaimRow == [state : Live \cup {"none", "released", "abandoned"}, mode : {"transient", "encrypted"},
             kind : {"import", "draft-update"}, review : {"none", "pending", "continued"},
             owner : Procs \cup {NoProc}, gen : 0 .. MaxGen, epoch : 0 .. MaxEpoch,
             lease : BOOLEAN, expired : BOOLEAN, payload : (SUBSET Paths) \cup {NoPayload},
             rev : Nat]
RunRow == [pc : Active \cup {"none", "stopped"},
           by : Procs \cup {NoProc}, marks : BOOLEAN, env : SUBSET Paths, made : 0 .. Values]

(* Rows, runs and report state have their types: a transient claim never holds an envelope
   (StorePayload), a paused one always does, and no lease outlives an absolute expiry (the
   least() of every write of lease_until). *)
TypeOK ==
    /\ claim \in [Claims -> ClaimRow]
    /\ operation \in [Claims -> [state : {"none", "running", "succeeded", "failed"},
                                 owner : Procs \cup {NoProc}, gen : 0 .. MaxGen]]
    /\ run \in [Claims -> [Gens -> RunRow]]
    /\ generations \subseteq Paths /\ refs \subseteq Paths /\ orphans \subseteq Paths
    /\ draft \in [rev : Nat, open : BOOLEAN, publishing : BOOLEAN]
    /\ epoch \in 1 .. MaxEpoch /\ procEpoch \in [Procs -> 0 .. MaxEpoch] /\ crashes \in Nat
    /\ sweepList \subseteq Claims
    /\ listing \in (SUBSET Paths) \cup {NoListing}
    /\ \A k \in Claims :
        /\ claim[k].mode = "transient" => claim[k].payload = NoPayload
        /\ claim[k].state = "paused" => claim[k].payload # NoPayload
        /\ claim[k].expired => ~claim[k].lease

(* An import's operation runs exactly while its claim is live, under the claim's owner and
   generation: every transition of a claim that ends, takes or moves it does the same to the
   operation, whoever makes it (takeover.go moveOperation, sweep.go AbandonDue, runner.go finish). *)
OperationFollowsClaim ==
    /\ TypeOK
    /\ \A k \in Claims : claim[k].kind = "import" =>
        /\ operation[k].state = "running" <=> claim[k].state \in Live
        /\ operation[k].state = "running" =>
              operation[k].gen = claim[k].gen /\ operation[k].owner = claim[k].owner
        /\ operation[k].state = "succeeded" <=> claim[k].state = "released"

(* One running ingest per draft revision: the natural key startIngestion checks under the draft's
   lock, with the due claim of the running one abandoned first (ingestions.go:173). *)
OneIngestPerRevision ==
    \A j, k \in Claims : operation[j].state = "running" /\ operation[k].state = "running"
        /\ claim[j].rev = claim[k].rev => j = k

(* A draft transaction of an encrypted claim references the envelope the claim stores at that
   moment: what an operator's marks added after the run or its predecessor read it is not lost,
   and a superseded run's envelope is not what commits (runner.go commitImport, resume). *)
CommitsStoredEnvelope ==
    [][\A k \in Claims :
        claim[k].mode = "encrypted" /\ claim[k].state # "released" /\ claim'[k].state = "released"
            => refs' = refs \cup claim[k].payload]_vars

(* A claim that reads as ended stays ended: a late heartbeat, takeover, mark or draft transaction
   never revives one a read answered abandoned, whether or not the sweep has written it
   (claim.go lock and fence, sweep.go EffectiveStateSQL). *)
EndedForGood ==
    [][\A k \in Claims : EffectiveState(k) \in {"released", "abandoned"}
            => EffectiveState(k)' = EffectiveState(k)]_vars

(* Every claim ends, whatever became of its runs: a crash, a lost process, a review nobody
   continues or a decryption that never works leave it to its absolute expiry and the sweep
   (main.go startSweep, sweep.go Sweep). *)
EveryClaimEnds ==
    \A k \in Claims : claim[k].state \in Live ~> claim[k].state \in {"released", "abandoned"}

\* What an ingestion promises its callers: the abstract specification, with a claim's life read
\* through its recorded state.
Status(k) ==
    CASE claim[k].state = "none" -> "absent"
      [] claim[k].state \in Live -> "open"
      [] claim[k].state = "released" -> "committed"
      [] OTHER -> "abandoned"

Contract == INSTANCE IngestionContract WITH
    Ingestions <- Claims, Values <- Gens \X (1 .. Values),
    status <- [k \in Claims |-> Status(k)],
    bound <- [k \in Claims |-> claim[k].rev],
    revision <- draft.rev, editable <- draft.open /\ ~draft.publishing,
    referenced <- refs, reported <- orphans

(* The runs, takeovers, reviews, sweeps and reports implement the contract: an ingestion commits
   at most once, at the revision it bound, with references of its own that no report named. *)
ImplementsContract == Contract!Spec

=============================================================================
