--------------------------- MODULE IngestionProofs ---------------------------
(***************************************************************************)
(* Theorems about Ingestion, for every set of processes and claims and     *)
(* every bound of the model; and about what ingestion and the compiler do  *)
(* to a document (Extraction, Compile), for every document.                *)
(***************************************************************************)
EXTENDS Ingestion, Extraction, Compile, FiniteSetTheorems, FunctionTheorems, SequenceTheorems,
        WellFoundedInduction, TLAPS

\* The paths the provider may hold for claim k.
Own(k) == Contract!OwnPaths(k)

LEMMA OwnIs ==
  /\ \A k \in Claims : \A x \in Own(k) : x \in Paths /\ x[1] = k
  /\ \A k \in Claims, g \in Gens, n \in 1 .. Values : GenerationPath(k, g, n) \in Own(k)
  /\ \A x \in Paths : x[1] \in Claims /\ x \in Own(x[1])
<1> DEFINE P == Gens \X (1 .. Values)
<1>1. \A k : Own(k) = {<<k, v[1], v[2]>> : v \in P} BY DEF Own, Contract!OwnPaths
<1>2. \A v \in P : v[1] \in Gens /\ v[2] \in 1 .. Values OBVIOUS
<1>3. \A g \in Gens, n \in 1 .. Values : <<g, n>> \in P /\ <<g, n>>[1] = g /\ <<g, n>>[2] = n OBVIOUS
<1> HIDE DEF P
<1>4. ASSUME NEW k \in Claims, NEW x \in Own(k) PROVE x \in Paths /\ x[1] = k
  <2>1. PICK v \in P : x = <<k, v[1], v[2]>> BY <1>1
  <2> QED BY <1>2, <2>1 DEF Paths
<1>5. ASSUME NEW k, NEW g \in Gens, NEW n \in 1 .. Values PROVE <<k, g, n>> \in Own(k)
  BY <1>1, <1>3
<1>6. ASSUME NEW x \in Paths PROVE x[1] \in Claims /\ x \in Own(x[1])
  <2>1. x[1] \in Claims /\ x[2] \in Gens /\ x[3] \in 1 .. Values /\ x = <<x[1], x[2], x[3]>>
    BY DEF Paths
  <2>2. <<x[1], x[2], x[3]>> \in Own(x[1]) BY <1>5, <2>1
  <2> QED BY <2>1, <2>2
<1> QED BY <1>4, <1>5, <1>6 DEF GenerationPath

LEMMA NoneApart == <<"none">> \notin Paths
  BY DEF Paths

-----------------------------------------------------------------------------
(* The inductive invariant. A claim's row c, its operation o and its runs  *)
(* r fit each other; what the provider and the reports hold fits the rows. *)

OperationRow == [state : {"none", "running", "succeeded", "failed"},
                 owner : Procs \cup {NoProc}, gen : 0 .. MaxGen]
EndStates == {"released", "abandoned"}

RowFits(k, c) ==
  /\ c \in ClaimRow
  /\ c.payload = NoPayload \/ c.payload \subseteq Own(k)
  /\ c.mode = "transient" => c.payload = NoPayload
  /\ c.state = "paused" => c.payload # NoPayload
  /\ c.expired => ~c.lease

\* The operation follows its claim.
Follows(c, o) ==
  /\ o \in OperationRow
  /\ c.kind = "import" =>
       /\ o.state = "running" <=> c.state \in Live
       /\ o.state = "running" => o.gen = c.gen /\ o.owner = c.owner
       /\ o.state = "succeeded" <=> c.state = "released"
  /\ c.kind = "draft-update" \/ c.state = "none" => o.state = "none"

\* A run creates at most the values found; one that opens an envelope belongs to a claim that
\* keeps one while it is live.
RunFits(k, c, r) ==
  /\ r \in RunRow /\ r.env \subseteq Own(k)
  /\ r.pc \in {"read", "extract", "decrypt"} => r.made = 0
  /\ r.pc = "create" => r.made < Values
  /\ r.pc \in {"decrypt", "remark"} \/ r.marks => (c.state \in Live => c.payload # NoPayload)
  /\ c.state = "none" => r = NoRun

\* What the run of the claim's own generation is about to commit is what the claim stores.
Carries(c, r) ==
  c.state \in Owned /\ c.mode = "encrypted" /\ r.pc \in {"decrypt", "draft"} => r.env = c.payload

Fits(k, c, o, r) ==
  /\ RowFits(k, c) /\ Follows(c, o) /\ r \in [Gens -> RunRow]
  /\ \A g \in Gens : RunFits(k, c, r[g]) /\ (c.gen = g => Carries(c, r[g]))

ClaimsFit ==
  /\ claim \in [Claims -> ClaimRow] /\ operation \in [Claims -> OperationRow]
  /\ run \in [Claims -> [Gens -> RunRow]]
  /\ \A k \in Claims : Fits(k, claim[k], operation[k], run[k])

\* The provider holds values of claims that were started; a report names values of ended ones.
StoredFits ==
  /\ generations \subseteq Paths /\ refs \subseteq Paths /\ orphans \subseteq Paths
  /\ listing = NoListing \/ listing \subseteq generations
  /\ \A x \in generations : claim[x[1]].state # "none"
  /\ \A x \in orphans : claim[x[1]].state \in EndStates

InstallationFits ==
  /\ draft \in [rev : Nat, open : BOOLEAN, publishing : BOOLEAN]
  /\ epoch \in 1 .. MaxEpoch /\ procEpoch \in [Procs -> 0 .. MaxEpoch] /\ crashes \in Nat
  /\ sweepList \subseteq Claims

IngestionInv == ClaimsFit /\ StoredFits /\ InstallationFits /\ OneIngestPerRevision

\* What a step may do to a claim's row: never start it again, never revive one that reads as ended.
Reads(c) == IF c.state \in Live /\ (c.expired \/ (c.mode = "transient" /\ ~c.lease))
            THEN "abandoned" ELSE c.state
Ages(c, d) ==
  /\ c.state # "none" => d.state # "none" /\ d.rev = c.rev
  /\ c.state \in EndStates => d.state = c.state
  /\ Reads(c) \in EndStates => Reads(d) = Reads(c)
Aging == \A k \in Claims : Ages(claim[k], claim'[k])

LEMMA NoPayloadApart ==
  /\ \A k \in Claims : ~(NoPayload \subseteq Own(k))
  /\ ~(NoPayload \subseteq Paths)
  BY OwnIs, NoneApart DEF NoPayload

LEMMA AgesStill == ASSUME NEW c PROVE Ages(c, c)
  BY DEF Ages

LEMMA FitsOf ==
  ASSUME ClaimsFit, NEW k \in Claims
  PROVE  /\ Fits(k, claim[k], operation[k], run[k]) /\ RowFits(k, claim[k])
         /\ Follows(claim[k], operation[k])
         /\ claim[k] \in ClaimRow /\ operation[k] \in OperationRow /\ run[k] \in [Gens -> RunRow]
         /\ \A g \in Gens : /\ RunFits(k, claim[k], run[k][g]) /\ run[k][g] \in RunRow
                            /\ claim[k].gen = g => Carries(claim[k], run[k][g])
  BY DEF ClaimsFit, Fits, RowFits, Follows, RunFits

\* A step of one claim.
LEMMA OneClaimStep ==
  ASSUME ClaimsFit, OneIngestPerRevision, NEW k \in Claims, NEW c, NEW o, NEW r,
         claim' = [claim EXCEPT ![k] = c], operation' = [operation EXCEPT ![k] = o],
         run' = [run EXCEPT ![k] = r], Fits(k, c, o, r), Ages(claim[k], c),
         o.state = "running" => operation[k].state = "running"
  PROVE  ClaimsFit' /\ OneIngestPerRevision' /\ Aging
<1>1. /\ claim'[k] = c /\ operation'[k] = o /\ run'[k] = r
      /\ \A j \in Claims \ {k} : claim'[j] = claim[j] /\ operation'[j] = operation[j] /\ run'[j] = run[j]
  BY DEF ClaimsFit
<1>2. c \in ClaimRow /\ o \in OperationRow /\ r \in [Gens -> RunRow]
  BY DEF Fits, RowFits, Follows
<1>3. claim' \in [Claims -> ClaimRow] /\ operation' \in [Claims -> OperationRow]
      /\ run' \in [Claims -> [Gens -> RunRow]]
  BY <1>2 DEF ClaimsFit
<1>4. \A j \in Claims : Fits(j, claim'[j], operation'[j], run'[j])
  BY <1>1 DEF ClaimsFit
<1>5. \A j \in Claims : Ages(claim[j], claim'[j]) BY <1>1, AgesStill
<1>6. \A j \in Claims : operation'[j].state = "running" =>
         operation[j].state = "running" /\ claim'[j].rev = claim[j].rev
  <2>1. operation[k].state = "running" => claim[k].state # "none"
    BY FitsOf DEF Follows
  <2> QED BY <1>1, <1>5, <2>1 DEF Ages
<1>7. OneIngestPerRevision' BY <1>6 DEF OneIngestPerRevision
<1> QED BY <1>3, <1>4, <1>5, <1>7 DEF ClaimsFit, Aging

\* A step of one run.
LEMMA OneRunStep ==
  ASSUME ClaimsFit, OneIngestPerRevision, NEW k \in Claims, NEW g \in Gens, NEW n \in RunRow,
         run' = [run EXCEPT ![k][g] = n], UNCHANGED <<claim, operation>>, RunFits(k, claim[k], n),
         claim[k].gen = g => Carries(claim[k], n)
  PROVE  ClaimsFit' /\ OneIngestPerRevision' /\ Aging
<1> DEFINE r == [run[k] EXCEPT ![g] = n]
<1>1. run' = [run EXCEPT ![k] = r] /\ run[k] \in [Gens -> RunRow] BY DEF ClaimsFit
<1>2. claim' = [claim EXCEPT ![k] = claim[k]] /\ operation' = [operation EXCEPT ![k] = operation[k]]
  BY DEF ClaimsFit
<1>3. r \in [Gens -> RunRow] /\ r[g] = n /\ \A h \in Gens \ {g} : r[h] = run[k][h] BY <1>1
<1> HIDE DEF r
<1>4. Fits(k, claim[k], operation[k], r) BY <1>3, FitsOf DEF Fits
<1> QED BY <1>1, <1>2, <1>4, AgesStill, OneClaimStep

LEMMA StoredStays ==
  ASSUME StoredFits, Aging, UNCHANGED <<generations, refs, listing, orphans>>
  PROVE  StoredFits'
<1>1. \A x \in Paths : x[1] \in Claims BY OwnIs
<1> QED BY <1>1 DEF StoredFits, Aging, Ages

\* A claim that ends takes its operation with it.
LEMMA EndFits ==
  ASSUME ClaimsFit, NEW k \in Claims, claim[k].state \in Live, NEW s \in EndStates,
         NEW t, t = (IF s = "released" THEN "succeeded" ELSE "failed")
  PROVE  \E c, o : /\ EndedClaim(k, s) = [claim EXCEPT ![k] = c]
                   /\ EndedOperation(k, t) = [operation EXCEPT ![k] = o]
                   /\ EndedClaim(k, s)[k] = c /\ EndedOperation(k, t)[k] = o
                   /\ Fits(k, c, o, run[k]) /\ o.state # "running" /\ c.state = s /\ c.rev = claim[k].rev
                   /\ Reads(claim[k]) # "abandoned" \/ s = "abandoned" => Ages(claim[k], c)
<1> DEFINE c == [claim[k] EXCEPT !.state = s, !.payload = NoPayload]
           o == IF operation[k].state = "running"
                THEN [operation[k] EXCEPT !.state = t, !.owner = NoProc] ELSE operation[k]
<1>1. /\ claim \in [Claims -> ClaimRow] /\ operation \in [Claims -> OperationRow]
      /\ claim[k] \in ClaimRow /\ operation[k] \in OperationRow /\ run[k] \in [Gens -> RunRow]
      /\ RowFits(k, claim[k]) /\ Follows(claim[k], operation[k])
      /\ \A g \in Gens : RunFits(k, claim[k], run[k][g])
  BY FitsOf DEF ClaimsFit
<1>2. EndedClaim(k, s) = [claim EXCEPT ![k] = c] /\ EndedClaim(k, s)[k] = c
  BY <1>1 DEF EndedClaim
<1>3. EndedOperation(k, t) = [operation EXCEPT ![k] = o] /\ EndedOperation(k, t)[k] = o
  BY <1>1 DEF EndedOperation
<1>4. /\ c \in ClaimRow /\ c.state = s /\ c.payload = NoPayload /\ c.kind = claim[k].kind
      /\ c.expired = claim[k].expired /\ c.lease = claim[k].lease /\ c.rev = claim[k].rev
      /\ c.mode = claim[k].mode /\ c.gen = claim[k].gen
  BY <1>1 DEF ClaimRow, EndStates
<1>5. o \in OperationRow /\ o.state # "running"
      /\ (operation[k].state = "running" => o.state = t) /\ (operation[k].state # "running" => o = operation[k])
  BY <1>1 DEF OperationRow, EndStates
<1> HIDE DEF c, o
<1>6. s \notin Live /\ s \notin Owned /\ s # "none" /\ s # "paused" /\ s \in {"released", "abandoned"}
  BY DEF EndStates, Live, Owned
<1>7. RowFits(k, c) BY <1>1, <1>4, <1>6 DEF RowFits
<1>8. Follows(c, o)
  <2>1. claim[k].state # "none" /\ claim[k].state # "released" BY DEF Live
  <2>2. CASE claim[k].kind = "import" BY <1>1, <1>4, <1>5, <1>6, <2>1, <2>2 DEF Follows
  <2>3. CASE claim[k].kind = "draft-update" BY <1>1, <1>4, <1>5, <1>6, <2>1, <2>3 DEF Follows
  <2> QED BY <1>1, <2>2, <2>3 DEF ClaimRow
<1>9. \A g \in Gens : RunFits(k, c, run[k][g]) /\ Carries(c, run[k][g])
  BY <1>1, <1>4, <1>6 DEF RunFits, Carries
<1>10. Fits(k, c, o, run[k]) BY <1>1, <1>7, <1>8, <1>9 DEF Fits
<1>11. Reads(claim[k]) # "abandoned" \/ s = "abandoned" => Ages(claim[k], c)
  BY <1>4, <1>6 DEF Ages, Reads, EndStates, Live
<1> QED BY <1>2, <1>3, <1>4, <1>5, <1>10, <1>11

LEMMA StoppedIs ==
  /\ StoppedRun \in RunRow /\ StoppedRun.env = {} /\ StoppedRun.pc = "stopped" /\ StoppedRun.marks = FALSE
  /\ NoRun \in RunRow /\ NoRun.env = {} /\ NoRun.pc = "none" /\ NoRun.marks = FALSE /\ NoRun.made = 0
<1>1. 0 \in 0 .. Values BY IngestionAssumption
<1>2. NoRun \in RunRow BY <1>1 DEF NoRun, RunRow
<1>3. NoRun.env = {} /\ NoRun.pc = "none" /\ NoRun.marks = FALSE /\ NoRun.made = 0 BY DEF NoRun
<1>4. /\ StoppedRun \in RunRow /\ StoppedRun.env = NoRun.env /\ StoppedRun.pc = "stopped"
      /\ StoppedRun.marks = NoRun.marks
  BY <1>2 DEF StoppedRun, RunRow
<1> QED BY <1>2, <1>3, <1>4

LEMMA EndsStep ==
  ASSUME ClaimsFit, OneIngestPerRevision, NEW k \in Claims, claim[k].state \in Live, NEW s \in EndStates,
         Reads(claim[k]) # "abandoned" \/ s = "abandoned", claim' = EndedClaim(k, s),
         operation' = EndedOperation(k, IF s = "released" THEN "succeeded" ELSE "failed"),
         \/ UNCHANGED run
         \/ \E g \in Gens : Goto(k, g, "stopped")
  PROVE  ClaimsFit' /\ OneIngestPerRevision' /\ Aging
<1>1. PICK t : t = (IF s = "released" THEN "succeeded" ELSE "failed") OBVIOUS
<1>2. PICK c, o : /\ claim' = [claim EXCEPT ![k] = c] /\ operation' = [operation EXCEPT ![k] = o]
                  /\ Fits(k, c, o, run[k]) /\ o.state # "running" /\ c.state = s /\ Ages(claim[k], c)
  BY <1>1, EndFits
<1>3. CASE UNCHANGED run
  <2>1. run' = [run EXCEPT ![k] = run[k]] BY <1>3 DEF ClaimsFit
  <2> QED BY <1>2, <2>1, OneClaimStep
<1>4. ASSUME NEW g \in Gens, Goto(k, g, "stopped") PROVE ClaimsFit' /\ OneIngestPerRevision' /\ Aging
  <2> DEFINE r == [run[k] EXCEPT ![g] = StoppedRun]
  <2>1. run' = [run EXCEPT ![k] = r] /\ run[k] \in [Gens -> RunRow] BY <1>4 DEF ClaimsFit, Goto
  <2>2. StoppedRun \in RunRow /\ StoppedRun.env = {} /\ StoppedRun.pc = "stopped" /\ ~StoppedRun.marks
    BY StoppedIs
  <2>3. r \in [Gens -> RunRow] /\ r[g] = StoppedRun /\ \A h \in Gens \ {g} : r[h] = run[k][h]
    BY <2>1, <2>2
  <2>4. s # "none" BY DEF EndStates
  <2> HIDE DEF r
  <2>5. Fits(k, c, o, r) BY <1>2, <2>2, <2>3, <2>4 DEF Fits, RunFits, Carries
  <2> QED BY <1>2, <2>1, <2>5, OneClaimStep
<1> QED BY <1>3, <1>4

LEMMA ActiveStarted ==
  ASSUME ClaimsFit, NEW k \in Claims, NEW g \in Gens, run[k][g].pc # "none"
  PROVE  claim[k].state # "none"
  BY FitsOf DEF RunFits, NoRun

LEMMA StoppedFits ==
  ASSUME ClaimsFit, NEW k \in Claims, claim[k].state # "none"
  PROVE  StoppedRun \in RunRow /\ RunFits(k, claim[k], StoppedRun) /\ Carries(claim[k], StoppedRun)
  BY StoppedIs DEF RunFits, Carries

\* A run goes on to pc with what it has.
LEMMA GotoStep ==
  ASSUME ClaimsFit, OneIngestPerRevision, NEW k \in Claims, NEW g \in Gens, run[k][g].pc # "none",
         NEW pc \in {"extract", "create", "remark", "draft", "refuse", "stopped"}, Goto(k, g, pc),
         UNCHANGED <<claim, operation>>,
         pc \in {"extract", "create"} => run[k][g].made = 0,
         pc = "remark" => run[k][g].pc = "decrypt" \/ run[k][g].marks,
         pc = "draft" => run[k][g].pc = "decrypt" \/ claim[k].mode = "transient"
  PROVE  ClaimsFit' /\ OneIngestPerRevision' /\ Aging
<1>1. claim[k].state # "none" BY ActiveStarted
<1>2. CASE pc = "stopped"
  <2>1. run' = [run EXCEPT ![k][g] = StoppedRun] BY <1>2 DEF Goto
  <2> QED BY <1>1, <2>1, StoppedFits, OneRunStep
<1>3. CASE pc # "stopped"
  <2> DEFINE n == [run[k][g] EXCEPT !.pc = pc]
  <2>1. run' = [run EXCEPT ![k][g] = n] BY <1>3 DEF Goto, ClaimsFit
  <2>2. /\ run[k][g] \in RunRow /\ RunFits(k, claim[k], run[k][g])
        /\ claim[k].gen = g => Carries(claim[k], run[k][g])
    BY FitsOf
  <2>3. /\ n \in RunRow /\ n.pc = pc /\ n.env = run[k][g].env /\ n.made = run[k][g].made
        /\ n.marks = run[k][g].marks
    BY <2>2 DEF RunRow, Active
  <2> HIDE DEF n
  <2>4. RunFits(k, claim[k], n) BY <1>1, <1>3, <2>2, <2>3, IngestionAssumption DEF RunFits
  <2>5. claim[k].gen = g => Carries(claim[k], n) BY <1>3, <2>2, <2>3 DEF Carries
  <2> QED BY <2>1, <2>3, <2>4, <2>5, OneRunStep
<1> QED BY <1>2, <1>3

\* The owner's row changes and its run goes on; nothing of the operation changes.
LEMMA OwnerStep ==
  ASSUME ClaimsFit, OneIngestPerRevision, NEW k \in Claims, NEW c, claim' = [claim EXCEPT ![k] = c],
         RowFits(k, c), c.state \in Live, claim[k].state \in Live, c.gen = claim[k].gen,
         c.owner = claim[k].owner, c.kind = claim[k].kind, c.rev = claim[k].rev, UNCHANGED operation,
         c.payload = NoPayload => claim[k].payload = NoPayload, Reads(claim[k]) = "abandoned" => Reads(c) = "abandoned",
         NEW r, run' = [run EXCEPT ![k] = r], r \in [Gens -> RunRow],
         \A g \in Gens : RunFits(k, c, r[g]) /\ (c.gen = g => Carries(c, r[g]))
  PROVE  ClaimsFit' /\ OneIngestPerRevision' /\ Aging
<1>1. operation' = [operation EXCEPT ![k] = operation[k]] BY DEF ClaimsFit
<1>2. Follows(claim[k], operation[k]) BY FitsOf
<1>3. Follows(c, operation[k]) BY <1>2 DEF Follows, Live
<1>4. Fits(k, c, operation[k], r) BY <1>3 DEF Fits
<1>5. Ages(claim[k], c) BY DEF Ages, Reads, Live, EndStates
<1> QED BY <1>1, <1>4, <1>5, OneClaimStep

-----------------------------------------------------------------------------
(* The steps of a run. *)

LEMMA FenceMeans ==
  ASSUME NEW p, NEW k \in Claims, NEW g, Fence(p, k, g)
  PROVE  /\ claim[k].gen = g /\ claim[k].state \in Owned /\ claim[k].state \in Live /\ claim[k].lease
         /\ ~claim[k].expired /\ claim[k].state # "none" /\ Reads(claim[k]) \notin EndStates
  BY DEF Fence, Owned, Live, Reads, EndStates

LEMMA SimpleSteps ==
  ASSUME ClaimsFit, OneIngestPerRevision, NEW k \in Claims, NEW g \in Gens,
         ReadInput(k, g) \/ Extract(k, g) \/ Resume(k, g) \/ DraftRefused(k, g) \/ Stop(k, g)
  PROVE  ClaimsFit' /\ OneIngestPerRevision' /\ Aging
<1>1. run[k][g] \in RunRow /\ RunFits(k, claim[k], run[k][g]) BY FitsOf
<1>2. CASE ReadInput(k, g)
  <2>1. run[k][g].pc = "read" /\ run[k][g].made = 0 BY <1>1, <1>2 DEF ReadInput, Running, RunFits
  <2> QED BY <1>2, <2>1, GotoStep DEF ReadInput
<1>3. CASE Extract(k, g)
  <2>1. run[k][g].pc = "extract" /\ run[k][g].made = 0 BY <1>1, <1>3 DEF Extract, Running, RunFits
  <2> QED BY <1>3, <2>1, GotoStep DEF Extract
<1>4. CASE Resume(k, g)
  <2>1. run[k][g].pc = "decrypt" /\ run[k][g].made = 0 BY <1>1, <1>4 DEF Resume, Running, RunFits
  <2>2. PICK pc \in {"create", "remark", "draft", "refuse", "stopped"} : Goto(k, g, pc)
    BY <1>4 DEF Resume
  <2>3. UNCHANGED <<claim, operation>> BY <1>4 DEF Resume
  <2> QED BY <2>1, <2>2, <2>3, GotoStep
<1>5. CASE DraftRefused(k, g)
  <2>1. run[k][g].pc = "draft" BY <1>5 DEF DraftRefused, Running
  <2> QED BY <1>5, <2>1, GotoStep DEF DraftRefused
<1>6. CASE Stop(k, g)
  <2>1. run[k][g].pc # "none" BY <1>6 DEF Stop, Running, Active
  <2> QED BY <1>6, <2>1, GotoStep DEF Stop
<1> QED BY <1>2, <1>3, <1>4, <1>5, <1>6

LEMMA CreateStep ==
  ASSUME ClaimsFit, OneIngestPerRevision, NEW k \in Claims, NEW g \in Gens, CreateGeneration(k, g)
  PROVE  /\ ClaimsFit' /\ OneIngestPerRevision' /\ Aging
         /\ \E path \in Own(k) : generations' \in {generations, generations \cup {path}}
         /\ claim[k].state # "none"
<1> DEFINE r == run[k][g]
           path == GenerationPath(k, g, r.made + 1)
           n == [r EXCEPT !.made = r.made + 1, !.env = r.env \cup {path},
                          !.pc = IF r.made + 1 = Values THEN "seal" ELSE "create"]
<1>1. r \in RunRow /\ RunFits(k, claim[k], r) BY FitsOf
<1>2. r.pc = "create" /\ r.made < Values /\ r.made \in 0 .. Values
  BY <1>1 DEF CreateGeneration, Running, RunFits, RunRow
<1>3. claim[k].state # "none" BY <1>2, ActiveStarted
<1>4. path \in Own(k) /\ path \in Paths BY <1>2, OwnIs, IngestionAssumption
<1>5. generations' \in {generations, generations \cup {path}} BY DEF CreateGeneration
<1>6. UNCHANGED <<claim, operation>> BY DEF CreateGeneration
<1>7. CASE run' = [run EXCEPT ![k][g] = n]
  <2>1. /\ n \in RunRow /\ n.pc \in {"seal", "create"} /\ n.env = r.env \cup {path}
        /\ n.made = r.made + 1 /\ n.marks = r.marks /\ (n.pc = "create" => r.made + 1 # Values)
    <3>1. r.made + 1 \in 0 .. Values /\ r.env \cup {path} \in SUBSET Paths
      BY <1>1, <1>2, <1>4, IngestionAssumption DEF RunRow
    <3> HIDE DEF r, path
    <3> QED BY <1>1, <3>1 DEF RunRow, Active
  <2>2. run' = [run EXCEPT ![k][g] = n] BY <1>7
  <2> HIDE DEF n, path
  <2>3. RunFits(k, claim[k], n)
    BY <1>1, <1>2, <1>3, <1>4, <2>1, IngestionAssumption DEF RunFits
  <2>4. Carries(claim[k], n) BY <2>1 DEF Carries
  <2>5. ClaimsFit' /\ OneIngestPerRevision' /\ Aging BY <1>6, <2>1, <2>2, <2>3, <2>4, OneRunStep
  <2> QED BY <1>3, <1>4, <1>5, <2>5
<1>8. CASE Goto(k, g, IF r.marks /\ r.made = 0 THEN "remark" ELSE "refuse")
  <2>1. ClaimsFit' /\ OneIngestPerRevision' /\ Aging BY <1>2, <1>6, <1>8, GotoStep
  <2> QED BY <1>3, <1>4, <1>5, <2>1
<1>9. \/ run' = [run EXCEPT ![k][g] = n]
      \/ Goto(k, g, IF r.marks /\ r.made = 0 THEN "remark" ELSE "refuse")
  BY DEF CreateGeneration, ClaimsFit
<1> QED BY <1>7, <1>8, <1>9

LEMMA StoreStep ==
  ASSUME ClaimsFit, OneIngestPerRevision, NEW k \in Claims, NEW g \in Gens, Store(k, g)
  PROVE  ClaimsFit' /\ OneIngestPerRevision' /\ Aging
<1> DEFINE r == run[k][g]
<1>1. /\ r \in RunRow /\ RunFits(k, claim[k], r) /\ claim[k] \in ClaimRow /\ RowFits(k, claim[k])
      /\ run[k] \in [Gens -> RunRow] /\ \A h \in Gens : RunFits(k, claim[k], run[k][h])
  BY FitsOf
<1>2. r.pc = "seal" /\ r.env \subseteq Own(k) /\ r.env \subseteq Paths /\ r.env # NoPayload
  BY <1>1, NoPayloadApart DEF Store, Running, RunFits, RunRow
<1>3. UNCHANGED operation BY DEF Store
<1>4. CASE UNCHANGED claim /\ (Goto(k, g, "refuse") \/ (claim[k].mode = "transient" /\ Goto(k, g, "draft")))
  BY <1>2, <1>3, <1>4, GotoStep
<1>5. ASSUME claim[k].mode = "encrypted", Fence(r.by, k, g),
             claim' = PausedClaim(k, r.env), Goto(k, g, "stopped")
      PROVE  ClaimsFit' /\ OneIngestPerRevision' /\ Aging
  <2> DEFINE c == [claim[k] EXCEPT !.state = "paused", !.lease = FALSE, !.payload = r.env]
             w == [run[k] EXCEPT ![g] = StoppedRun]
  <2>1. claim' = [claim EXCEPT ![k] = c] BY <1>2, <1>5 DEF PausedClaim, ClaimsFit
  <2>2. /\ c \in ClaimRow /\ c.state = "paused" /\ c.lease = FALSE /\ c.payload = r.env
        /\ c.mode = claim[k].mode /\ c.gen = claim[k].gen /\ c.owner = claim[k].owner
        /\ c.kind = claim[k].kind /\ c.rev = claim[k].rev
    BY <1>1, <1>2 DEF ClaimRow, Live
  <2>3. run' = [run EXCEPT ![k] = w] BY <1>5 DEF Goto, ClaimsFit
  <2>4. w \in [Gens -> RunRow] /\ w[g] = StoppedRun /\ \A h \in Gens \ {g} : w[h] = run[k][h]
    BY <1>1, StoppedIs
  <2> HIDE DEF c, w
  <2>5. RowFits(k, c) BY <1>2, <1>5, <2>2 DEF RowFits
  <2>6. \A h \in Gens : RunFits(k, c, w[h]) /\ Carries(c, w[h])
    BY <1>1, <1>2, <2>2, <2>4, StoppedIs DEF RunFits, Carries, Owned
  <2>7. c.state \in Live /\ claim[k].state \in Live /\ Reads(claim[k]) # "abandoned" /\ c.payload # NoPayload
    BY <1>2, <1>5, <2>2, FenceMeans DEF Live, EndStates
  <2> QED BY <1>3, <2>1, <2>2, <2>3, <2>4, <2>5, <2>6, <2>7, OwnerStep
<1>6. ASSUME claim[k].mode = "encrypted", Fence(r.by, k, g),
             claim' = [claim EXCEPT ![k].payload = r.env], Goto(k, g, "draft")
      PROVE  ClaimsFit' /\ OneIngestPerRevision' /\ Aging
  <2> DEFINE c == [claim[k] EXCEPT !.payload = r.env]
             n == [r EXCEPT !.pc = "draft"]
             w == [run[k] EXCEPT ![g] = n]
  <2>1. claim' = [claim EXCEPT ![k] = c] BY <1>6 DEF ClaimsFit
  <2>2. /\ c \in ClaimRow /\ c.payload = r.env /\ c.state = claim[k].state /\ c.lease = claim[k].lease
        /\ c.expired = claim[k].expired /\ c.mode = claim[k].mode /\ c.gen = claim[k].gen
        /\ c.owner = claim[k].owner /\ c.kind = claim[k].kind /\ c.rev = claim[k].rev
    BY <1>1, <1>2 DEF ClaimRow
  <2>3. run' = [run EXCEPT ![k] = w] BY <1>6 DEF Goto, ClaimsFit
  <2>4. n \in RunRow /\ n.pc = "draft" /\ n.env = r.env /\ n.made = r.made /\ n.marks = r.marks
    BY <1>1 DEF RunRow, Active
  <2>5. w \in [Gens -> RunRow] /\ w[g] = n /\ \A h \in Gens \ {g} : w[h] = run[k][h]
    BY <1>1, <2>4
  <2>6. /\ claim[k].state \in Live /\ claim[k].state # "none" /\ Reads(claim[k]) # "abandoned"
        /\ claim[k].gen = g
    BY <1>6, FenceMeans DEF EndStates
  <2> HIDE DEF c, n, w
  <2>7. RowFits(k, c) BY <1>1, <1>2, <1>6, <2>2 DEF RowFits
  <2>8. \A h \in Gens : RunFits(k, c, w[h]) /\ (c.gen = h => Carries(c, w[h]))
    BY <1>1, <1>2, <2>2, <2>4, <2>5, <2>6 DEF RunFits, Carries
  <2>9. c.state \in Live /\ c.payload # NoPayload BY <1>2, <2>2, <2>6
  <2> QED BY <1>3, <2>1, <2>2, <2>3, <2>5, <2>6, <2>7, <2>8, <2>9, OwnerStep
<1> QED BY <1>4, <1>5, <1>6 DEF Store

LEMMA PauseAgainStep ==
  ASSUME ClaimsFit, OneIngestPerRevision, NEW k \in Claims, NEW g \in Gens, PauseAgain(k, g)
  PROVE  ClaimsFit' /\ OneIngestPerRevision' /\ Aging
<1> DEFINE c == [claim[k] EXCEPT !.state = "paused", !.lease = FALSE]
           w == [run[k] EXCEPT ![g] = StoppedRun]
<1>1. /\ run[k][g] \in RunRow /\ claim[k] \in ClaimRow /\ RowFits(k, claim[k])
      /\ run[k] \in [Gens -> RunRow] /\ \A h \in Gens : RunFits(k, claim[k], run[k][h])
  BY FitsOf
<1>2. /\ claim[k].state \in Live /\ Reads(claim[k]) # "abandoned"
  BY FenceMeans DEF PauseAgain, EndStates
<1>3. claim[k].payload # NoPayload
  <2>1. run[k][g].pc = "remark" BY DEF PauseAgain, Running
  <2> QED BY <1>1, <1>2, <2>1 DEF RunFits
<1>4. claim' = [claim EXCEPT ![k] = c]
  <2>1. [claim[k] EXCEPT !.state = "paused", !.lease = FALSE, !.payload = claim[k].payload] = c
    BY <1>1 DEF ClaimRow
  <2>2. PausedClaim(k, NoPayload) = [claim EXCEPT ![k] =
          [claim[k] EXCEPT !.state = "paused", !.lease = FALSE, !.payload = claim[k].payload]]
    BY DEF PausedClaim, ClaimsFit
  <2> QED BY <2>1, <2>2 DEF PauseAgain
<1>5. /\ c \in ClaimRow /\ c.state = "paused" /\ c.lease = FALSE /\ c.payload = claim[k].payload
      /\ c.mode = claim[k].mode /\ c.gen = claim[k].gen /\ c.owner = claim[k].owner
      /\ c.kind = claim[k].kind /\ c.rev = claim[k].rev
  BY <1>1 DEF ClaimRow, Live
<1>6. run' = [run EXCEPT ![k] = w] BY DEF PauseAgain, Goto, ClaimsFit
<1>7. w \in [Gens -> RunRow] /\ w[g] = StoppedRun /\ \A h \in Gens \ {g} : w[h] = run[k][h]
  BY <1>1, StoppedIs
<1> HIDE DEF c, w
<1>8. RowFits(k, c) BY <1>1, <1>3, <1>5 DEF RowFits
<1>9. \A h \in Gens : RunFits(k, c, w[h]) /\ Carries(c, w[h])
  BY <1>1, <1>3, <1>5, <1>7, StoppedIs DEF RunFits, Carries, Owned
<1>10. c.state \in Live /\ UNCHANGED operation BY <1>5 DEF Live, PauseAgain
<1> QED BY <1>2, <1>3, <1>4, <1>5, <1>6, <1>7, <1>8, <1>9, <1>10, OwnerStep

LEMMA HeartbeatStep ==
  ASSUME ClaimsFit, OneIngestPerRevision, NEW k \in Claims, NEW g \in Gens, Heartbeat(k, g)
  PROVE  ClaimsFit' /\ OneIngestPerRevision' /\ Aging
<1>1. CASE Fence(run[k][g].by, k, g)
  <2>1. claim[k] \in ClaimRow /\ claim[k].lease = TRUE /\ claim[k].lease \in BOOLEAN
    BY <1>1, FitsOf, FenceMeans DEF ClaimRow
  <2>2. [claim[k] EXCEPT !.lease = TRUE] = claim[k] BY <2>1 DEF ClaimRow
  <2>3. claim' = claim /\ UNCHANGED <<operation, run>>
    BY <1>1, <2>2 DEF Heartbeat, ClaimsFit
  <2> QED BY <2>3, AgesStill DEF ClaimsFit, OneIngestPerRevision, Aging
<1>2. CASE ~Fence(run[k][g].by, k, g)
  <2>1. run[k][g].pc # "none" BY DEF Heartbeat, Running, Active
  <2>2. UNCHANGED <<claim, operation>> /\ Goto(k, g, "stopped") BY <1>2 DEF Heartbeat
  <2> QED BY <2>1, <2>2, GotoStep
<1> QED BY <1>1, <1>2

-----------------------------------------------------------------------------
(* The steps that end, take or start a claim. *)

LEMMA EffectiveIs ==
  /\ \A k \in Claims : EffectiveState(k) = Reads(claim[k])
  /\ \A k \in Claims : Due(k) => claim[k].state \in Live /\ Reads(claim[k]) = "abandoned"
  BY DEF EffectiveState, Due, Reads

\* finish ends an import's operation; a draft update has none.
LEMMA FinishMeans ==
  ASSUME ClaimsFit, NEW k \in Claims, NEW g, NEW s, Finish(k, g, s)
  PROVE  operation' = EndedOperation(k, s)
<1>1. claim[k].kind = "draft-update" => operation[k].state = "none" BY FitsOf DEF Follows
<1> QED BY <1>1 DEF Finish, EndedOperation

LEMMA EndingSteps ==
  ASSUME ClaimsFit, OneIngestPerRevision, NEW k \in Claims,
         \/ AbandonIngestion(k) \/ SweepAbandon(k)
         \/ \E g \in Gens : Abandon(k, g) \/ DraftTransaction(k, g)
  PROVE  ClaimsFit' /\ OneIngestPerRevision' /\ Aging
<1>0. "abandoned" \in EndStates /\ "released" \in EndStates BY DEF EndStates
<1>1. CASE AbandonIngestion(k)
  <2>1. claim[k].state \in Live BY <1>1 DEF AbandonIngestion, EffectiveState, Live
  <2> QED BY <1>0, <1>1, <2>1, EndsStep DEF AbandonIngestion
<1>2. CASE SweepAbandon(k)
  <2>1. CASE Due(k) BY <1>0, <1>2, <2>1, EffectiveIs, EndsStep DEF SweepAbandon, AbandonDue
  <2>2. CASE ~Due(k)
    <3>1. UNCHANGED <<claim, operation, run>> BY <1>2, <2>2 DEF SweepAbandon, AbandonDue
    <3> QED BY <3>1, AgesStill DEF ClaimsFit, OneIngestPerRevision, Aging
  <2> QED BY <2>1, <2>2
<1>3. ASSUME NEW g \in Gens, Abandon(k, g) PROVE ClaimsFit' /\ OneIngestPerRevision' /\ Aging
  <2>1. claim[k].state \in Live BY <1>3, FenceMeans DEF Abandon
  <2>2. operation' = EndedOperation(k, "failed") BY <1>3, FinishMeans DEF Abandon
  <2> QED BY <1>0, <1>3, <2>1, <2>2, EndsStep DEF Abandon
<1>4. ASSUME NEW g \in Gens, DraftTransaction(k, g) PROVE ClaimsFit' /\ OneIngestPerRevision' /\ Aging
  <2>1. claim[k].state \in Live /\ Reads(claim[k]) # "abandoned"
    BY <1>4, FenceMeans DEF DraftTransaction, EndStates
  <2>2. operation' = EndedOperation(k, "succeeded") BY <1>4, FinishMeans DEF DraftTransaction
  <2> QED BY <1>0, <1>4, <2>1, <2>2, EndsStep DEF DraftTransaction
<1> QED BY <1>1, <1>2, <1>3, <1>4

\* The claim at its next generation, its operation with it, under a run that opens its envelope.
LEMMA TakenStep ==
  ASSUME ClaimsFit, OneIngestPerRevision, epoch \in 1 .. MaxEpoch, NEW p \in Procs, NEW k \in Claims,
         NEW s \in Owned, NEW v \in {"none", "pending", "continued"}, NEW n \in RunRow,
         claim[k].gen < MaxGen, claim[k].state \in Live, claim[k].payload # NoPayload, ~claim[k].expired,
         Taken(k, p, s, v), MoveOperation(k, p), StartRunner(k, claim[k].gen + 1, n),
         n.pc = "decrypt", n.env = claim[k].payload, n.made = 0
  PROVE  ClaimsFit' /\ OneIngestPerRevision' /\ Aging
<1> DEFINE g == claim[k].gen + 1
           c == [claim[k] EXCEPT !.owner = p, !.gen = g, !.epoch = epoch, !.state = s, !.review = v, !.lease = TRUE]
           o == [operation[k] EXCEPT !.owner = p, !.gen = g]
           w == [run[k] EXCEPT ![g] = n]
<1>1. /\ claim[k] \in ClaimRow /\ RowFits(k, claim[k]) /\ operation[k] \in OperationRow
      /\ Follows(claim[k], operation[k]) /\ run[k] \in [Gens -> RunRow]
      /\ \A h \in Gens : RunFits(k, claim[k], run[k][h])
  BY FitsOf
<1>2. g \in Gens /\ g \in 0 .. MaxGen /\ epoch \in 0 .. MaxEpoch
  BY <1>1, IngestionAssumption DEF ClaimRow, Gens
<1>3. s \in {"held", "resumed"} /\ s \in Live BY DEF Owned, Live
<1>4. claim[k].payload \subseteq Own(k) /\ claim[k].payload \subseteq Paths
  BY <1>1, NoPayloadApart DEF RowFits, ClaimRow
<1>5. claim[k].mode = "encrypted" BY <1>1 DEF RowFits, ClaimRow
<1>7. claim' = [claim EXCEPT ![k] = c] /\ operation' = [operation EXCEPT ![k] = o]
      /\ run' = [run EXCEPT ![k] = w] /\ operation[k].state = "running"
  BY DEF Taken, MoveOperation, StartRunner, ClaimsFit
<1> HIDE DEF g
<1>8. /\ c \in ClaimRow /\ c.owner = p /\ c.gen = g /\ c.state = s /\ c.lease = TRUE
      /\ c.payload = claim[k].payload /\ c.mode = claim[k].mode /\ c.kind = claim[k].kind
      /\ c.expired = claim[k].expired /\ c.rev = claim[k].rev
  BY <1>1, <1>2, <1>3 DEF ClaimRow
<1>9. o \in OperationRow /\ o.owner = p /\ o.gen = g /\ o.state = "running"
  BY <1>1, <1>2, <1>7 DEF OperationRow
<1>10. w \in [Gens -> RunRow] /\ w[g] = n /\ \A h \in Gens \ {g} : w[h] = run[k][h]
  BY <1>1, <1>2
<1> HIDE DEF c, o, w
<1>11. RowFits(k, c) BY <1>1, <1>3, <1>8 DEF RowFits
<1>12. Follows(c, o)
  <2>1. claim[k].kind = "import" /\ claim[k].kind # "draft-update"
    BY <1>1, <1>7 DEF Follows, ClaimRow
  <2>2. s # "released" /\ s # "none" BY <1>3
  <2> QED BY <1>3, <1>8, <1>9, <2>1, <2>2 DEF Follows
<1>13. \A h \in Gens : RunFits(k, c, w[h]) /\ (c.gen = h => Carries(c, w[h]))
  BY <1>1, <1>3, <1>4, <1>8, <1>10 DEF RunFits, Carries
<1>14. Fits(k, c, o, w) BY <1>10, <1>11, <1>12, <1>13 DEF Fits
<1>15. Ages(claim[k], c)
  BY <1>3, <1>5, <1>8 DEF Ages, Reads, EndStates, Live
<1> QED BY <1>7, <1>14, <1>15, OneClaimStep

LEMMA TakeSteps ==
  ASSUME ClaimsFit, OneIngestPerRevision, epoch \in 1 .. MaxEpoch, NEW p \in Procs, NEW k \in Claims,
         MarkIngestion(p, k) \/ ContinueIngestion(p, k) \/ (TakeOver(p, k) /\ claim[k].payload # NoPayload)
  PROVE  ClaimsFit' /\ OneIngestPerRevision' /\ Aging
<1>0. "held" \in Owned /\ "resumed" \in Owned BY DEF Owned
<1>1. claim[k] \in ClaimRow /\ RowFits(k, claim[k]) BY FitsOf
<1> DEFINE n(m) == [NoRun EXCEPT !.pc = "decrypt", !.by = p, !.marks = m, !.env = claim[k].payload]
           u == [NoRun EXCEPT !.pc = "decrypt", !.by = p, !.env = claim[k].payload]
<1>2. ASSUME claim[k].payload # NoPayload
      PROVE  /\ u \in RunRow /\ u.pc = "decrypt" /\ u.env = claim[k].payload /\ u.made = 0
             /\ n(TRUE) \in RunRow /\ n(TRUE).pc = "decrypt" /\ n(TRUE).env = claim[k].payload /\ n(TRUE).made = 0
  <2>1. claim[k].payload \in SUBSET Paths BY <1>1, <1>2 DEF ClaimRow
  <2> QED BY <2>1, StoppedIs DEF RunRow, Active
<1>3. CASE MarkIngestion(p, k)
  <2>1. claim[k].state \in Live /\ claim[k].payload # NoPayload /\ ~claim[k].expired /\ claim[k].gen < MaxGen
    BY <1>1, <1>3 DEF MarkIngestion, Markable, Live, RowFits
  <2>2. Taken(k, p, "held", "pending") /\ MoveOperation(k, p) /\ StartRunner(k, claim[k].gen + 1, n(TRUE))
    BY <1>3 DEF MarkIngestion
  <2> HIDE DEF n
  <2> QED BY <1>0, <1>2, <2>1, <2>2, TakenStep
<1>4. CASE ContinueIngestion(p, k)
  <2>1. claim[k].state \in Live /\ claim[k].payload # NoPayload /\ ~claim[k].expired /\ claim[k].gen < MaxGen
    BY <1>1, <1>4 DEF ContinueIngestion, Markable, Live, RowFits
  <2>2. Taken(k, p, "held", "continued") /\ MoveOperation(k, p) /\ StartRunner(k, claim[k].gen + 1, u)
    BY <1>4 DEF ContinueIngestion
  <2> HIDE DEF u
  <2> QED BY <1>0, <1>2, <2>1, <2>2, TakenStep
<1>5. CASE TakeOver(p, k) /\ claim[k].payload # NoPayload
  <2>1. claim[k].state \in Live /\ ~claim[k].expired /\ claim[k].gen < MaxGen
    BY <1>5 DEF TakeOver, Eligible, Live, Owned
  <2>2. claim[k].review \in {"none", "pending", "continued"} BY <1>1 DEF ClaimRow
  <2>3. Taken(k, p, "resumed", claim[k].review) /\ MoveOperation(k, p) /\ StartRunner(k, claim[k].gen + 1, u)
    BY <1>5 DEF TakeOver
  <2> HIDE DEF u
  <2> QED BY <1>0, <1>2, <1>5, <2>1, <2>2, <2>3, TakenStep
<1> QED BY <1>3, <1>4, <1>5

LEMMA TakeNothingStep ==
  ASSUME ClaimsFit, OneIngestPerRevision, epoch \in 1 .. MaxEpoch, NEW p \in Procs, NEW k \in Claims,
         TakeOver(p, k), claim[k].payload = NoPayload
  PROVE  ClaimsFit' /\ OneIngestPerRevision' /\ Aging
<1> DEFINE g == claim[k].gen + 1
           c == [claim[k] EXCEPT !.owner = p, !.gen = g, !.epoch = epoch, !.state = "abandoned", !.lease = TRUE]
           o == [state |-> "failed", owner |-> NoProc, gen |-> g]
<1>1. /\ claim[k] \in ClaimRow /\ RowFits(k, claim[k]) /\ operation[k] \in OperationRow
      /\ Follows(claim[k], operation[k]) /\ run[k] \in [Gens -> RunRow]
      /\ \A h \in Gens : RunFits(k, claim[k], run[k][h])
  BY FitsOf
<1>2. /\ operation[k].state = "running" /\ claim[k].gen < MaxGen /\ claim[k].state \in Live
      /\ ~claim[k].expired /\ claim[k].mode = "encrypted" /\ claim[k].state # "none"
      /\ claim[k].state \notin EndStates
  BY DEF TakeOver, Eligible, Live, Owned, EndStates
<1>3. g \in 0 .. MaxGen /\ epoch \in 0 .. MaxEpoch BY <1>1, <1>2, IngestionAssumption DEF ClaimRow
<1>4. claim' = [claim EXCEPT ![k] = c] /\ operation' = [operation EXCEPT ![k] = o]
      /\ run' = [run EXCEPT ![k] = run[k]]
  BY DEF TakeOver, ClaimsFit
<1> HIDE DEF g
<1>5. /\ c \in ClaimRow /\ c.state = "abandoned" /\ c.payload = claim[k].payload /\ c.mode = claim[k].mode
      /\ c.kind = claim[k].kind /\ c.expired = claim[k].expired /\ c.rev = claim[k].rev
  BY <1>1, <1>3 DEF ClaimRow
<1>6. o \in OperationRow /\ o.state = "failed" BY <1>3 DEF OperationRow
<1> HIDE DEF c, o
<1>7. RowFits(k, c) BY <1>1, <1>2, <1>5 DEF RowFits
<1>8. Follows(c, o)
  <2>1. claim[k].kind = "import" /\ claim[k].kind # "draft-update"
    BY <1>1, <1>2 DEF Follows, ClaimRow
  <2> QED BY <1>5, <1>6, <2>1 DEF Follows, Live
<1>9. \A h \in Gens : RunFits(k, c, run[k][h]) /\ Carries(c, run[k][h])
  BY <1>1, <1>5 DEF RunFits, Carries, Live, Owned
<1>10. Fits(k, c, o, run[k]) BY <1>1, <1>7, <1>8, <1>9 DEF Fits
<1>11. Ages(claim[k], c) BY <1>2, <1>5 DEF Ages, Reads, EndStates, Live
<1> QED BY <1>4, <1>6, <1>10, <1>11, OneClaimStep

LEMMA NoClaimIs ==
  /\ NoClaim \in ClaimRow /\ NoClaim.payload = NoPayload /\ NoClaim.expired = FALSE
  /\ NoClaim.mode = "transient" /\ NoClaim.kind = "import"
<1>1. 0 \in 0 .. MaxGen /\ 0 \in 0 .. MaxEpoch BY IngestionAssumption
<1> QED BY <1>1 DEF NoClaim, ClaimRow

LEMMA PrepareStep ==
  ASSUME ClaimsFit, OneIngestPerRevision, InstallationFits, NEW p \in Procs, NEW k \in Claims,
         PrepareFragment(p, k)
  PROVE  ClaimsFit' /\ OneIngestPerRevision' /\ Aging
<1> DEFINE c == [NoClaim EXCEPT !.state = "held", !.kind = "draft-update",
                    !.owner = p, !.gen = 1, !.epoch = epoch, !.lease = TRUE, !.rev = draft.rev]
           n == [NoRun EXCEPT !.pc = "extract", !.by = p]
           w == [run[k] EXCEPT ![1] = n]
<1>1. /\ operation[k] \in OperationRow /\ run[k] \in [Gens -> RunRow] /\ claim[k].state = "none"
      /\ operation[k].state = "none" /\ \A h \in Gens : run[k][h] = NoRun
  BY FitsOf DEF PrepareFragment, Follows, RunFits
<1>2. 1 \in Gens /\ 1 \in 0 .. MaxGen /\ epoch \in 0 .. MaxEpoch /\ draft.rev \in Nat
  BY IngestionAssumption DEF Gens, InstallationFits
<1>3. claim' = [claim EXCEPT ![k] = c] /\ operation' = [operation EXCEPT ![k] = operation[k]]
      /\ run' = [run EXCEPT ![k] = w]
  BY DEF PrepareFragment, StartRunner, ClaimsFit
<1>4. /\ c \in ClaimRow /\ c.state = "held" /\ c.payload = NoPayload /\ c.kind = "draft-update"
      /\ c.expired = FALSE /\ c.mode = "transient"
  BY <1>2, NoClaimIs DEF ClaimRow, Live
<1>5. n \in RunRow /\ n.pc = "extract" /\ n.env = {} /\ n.made = 0 /\ n.marks = FALSE
  BY StoppedIs DEF RunRow, Active
<1> HIDE DEF c, n
<1>6. w \in [Gens -> RunRow] /\ w[1] = n /\ \A h \in Gens \ {1} : w[h] = NoRun
  BY <1>1, <1>2, <1>5
<1> HIDE DEF w
<1>7. RowFits(k, c) /\ Follows(c, operation[k]) BY <1>1, <1>4 DEF RowFits, Follows
<1>8. \A h \in Gens : RunFits(k, c, w[h]) /\ Carries(c, w[h])
  BY <1>4, <1>5, <1>6, StoppedIs DEF RunFits, Carries
<1>9. Fits(k, c, operation[k], w) BY <1>6, <1>7, <1>8 DEF Fits
<1>10. Ages(claim[k], c) BY <1>1 DEF Ages, Reads, EndStates, Live
<1> QED BY <1>3, <1>9, <1>10, OneClaimStep

LEMMA StartStep ==
  ASSUME ClaimsFit, OneIngestPerRevision, InstallationFits, NEW p \in Procs, NEW k \in Claims,
         NEW mode \in Modes, NEW review \in BOOLEAN, StartIngestion(p, k, mode, review)
  PROVE  ClaimsFit' /\ OneIngestPerRevision' /\ Aging
<1> DEFINE c == [NoClaim EXCEPT !.state = "held", !.mode = mode, !.owner = p, !.gen = 1,
                        !.review = IF review THEN "pending" ELSE "none",
                        !.epoch = epoch, !.lease = TRUE, !.rev = draft.rev]
           o == [state |-> "running", owner |-> p, gen |-> 1]
           n == [NoRun EXCEPT !.pc = "read", !.by = p]
           w == [run[k] EXCEPT ![1] = n]
           over == {j \in Claims : RunningOfRevision(j)}
<1>1. /\ operation[k] \in OperationRow /\ run[k] \in [Gens -> RunRow] /\ claim[k].state = "none"
      /\ operation[k].state = "none" /\ \A h \in Gens : run[k][h] = NoRun
  BY FitsOf DEF StartIngestion, Follows, RunFits
<1>2. 1 \in Gens /\ 1 \in 0 .. MaxGen /\ epoch \in 0 .. MaxEpoch /\ draft.rev \in Nat
  BY IngestionAssumption DEF Gens, InstallationFits
<1>3. /\ claim' = [j \in Claims |-> IF j = k THEN c
                     ELSE IF j \in over THEN EndedClaim(j, "abandoned")[j] ELSE claim[j]]
      /\ operation' = [j \in Claims |-> IF j = k THEN o
                     ELSE IF j \in over THEN EndedOperation(j, "failed")[j] ELSE operation[j]]
      /\ run' = [run EXCEPT ![k] = w]
  BY DEF StartIngestion, StartRunner, ClaimsFit
<1>4. /\ c \in ClaimRow /\ c.state = "held" /\ c.payload = NoPayload /\ c.kind = "import" /\ c.owner = p
      /\ c.gen = 1 /\ c.expired = FALSE /\ c.rev = draft.rev
  BY <1>2, NoClaimIs, IngestionAssumption DEF ClaimRow, Live
<1>5. o \in OperationRow /\ o.state = "running" /\ o.owner = p /\ o.gen = 1 BY <1>2 DEF OperationRow
<1>6. n \in RunRow /\ n.pc = "read" /\ n.env = {} /\ n.made = 0 /\ n.marks = FALSE
  BY StoppedIs DEF RunRow, Active
<1> HIDE DEF c, n, o
<1>7. w \in [Gens -> RunRow] /\ w[1] = n /\ \A h \in Gens \ {1} : w[h] = NoRun
  BY <1>1, <1>2, <1>6
<1> HIDE DEF w
<1>8. RowFits(k, c) /\ Follows(c, o) BY <1>4, <1>5 DEF RowFits, Follows, Live
<1>9. \A h \in Gens : RunFits(k, c, w[h]) /\ Carries(c, w[h])
  BY <1>4, <1>6, <1>7, StoppedIs DEF RunFits, Carries
<1>10. Fits(k, c, o, w) BY <1>7, <1>8, <1>9 DEF Fits
<1>11. Ages(claim[k], c) BY <1>1 DEF Ages, Reads, EndStates, Live
<1>12. \A j \in over : j # k /\ Due(j) /\ operation[j].state = "running" /\ claim[j].rev = draft.rev
  BY <1>1 DEF StartIngestion, RunningOfRevision
<1>13. ASSUME NEW j \in Claims
       PROVE  /\ Fits(j, claim'[j], operation'[j], run'[j]) /\ Ages(claim[j], claim'[j])
              /\ operation'[j].state = "running" =>
                   \/ j = k
                   \/ operation[j].state = "running" /\ claim'[j] = claim[j] /\ claim[j].rev # draft.rev
  <2>1. run'[k] = w /\ (j # k => run'[j] = run[j]) BY <1>3 DEF ClaimsFit
  <2>2. CASE j = k BY <1>3, <1>10, <1>11, <2>1, <2>2
  <2>3. CASE j \in over
    <3>1. PICK d, q : /\ EndedClaim(j, "abandoned")[j] = d /\ EndedOperation(j, "failed")[j] = q
                      /\ Fits(j, d, q, run[j]) /\ q.state # "running" /\ Ages(claim[j], d)
      <4>1. claim[j].state \in Live /\ "abandoned" \in EndStates
        BY <1>12, <2>3, EffectiveIs DEF EndStates
      <4> QED BY <4>1, EndFits
    <3>2. claim'[j] = d /\ operation'[j] = q /\ j # k BY <1>3, <1>12, <2>3, <3>1
    <3> QED BY <2>1, <3>1, <3>2
  <2>4. CASE j # k /\ j \notin over
    <3>1. claim'[j] = claim[j] /\ operation'[j] = operation[j] BY <1>3, <2>4
    <3>2. operation[j].state = "running" => claim[j].rev # draft.rev BY <2>4 DEF RunningOfRevision
    <3> QED BY <2>1, <2>4, <3>1, <3>2, FitsOf, AgesStill
  <2> QED BY <2>2, <2>3, <2>4
<1>14. ClaimsFit'
  <2>1. \A j \in Claims : claim'[j] \in ClaimRow /\ operation'[j] \in OperationRow
    BY <1>13 DEF Fits, RowFits, Follows
  <2>2. run' \in [Claims -> [Gens -> RunRow]] BY <1>3, <1>7 DEF ClaimsFit
  <2>3. claim' \in [Claims -> ClaimRow] BY <1>3, <2>1
  <2>4. operation' \in [Claims -> OperationRow] BY <1>3, <2>1
  <2> QED BY <1>13, <2>2, <2>3, <2>4 DEF ClaimsFit
<1>15. OneIngestPerRevision'
  <2>1. claim'[k].rev = draft.rev BY <1>3, <1>4
  <2> QED BY <1>13, <2>1 DEF OneIngestPerRevision
<1> QED BY <1>13, <1>14, <1>15 DEF Aging

LEMMA ClockSteps ==
  ASSUME ClaimsFit, OneIngestPerRevision, NEW k \in Claims, LeaseLapses(k) \/ Expires(k)
  PROVE  ClaimsFit' /\ OneIngestPerRevision' /\ Aging
<1> DEFINE c(e) == [claim[k] EXCEPT !.expired = e, !.lease = FALSE]
<1>1. /\ claim[k] \in ClaimRow /\ RowFits(k, claim[k]) /\ run[k] \in [Gens -> RunRow]
      /\ \A h \in Gens : RunFits(k, claim[k], run[k][h]) /\ (claim[k].gen = h => Carries(claim[k], run[k][h]))
  BY FitsOf
<1>2. PICK e \in BOOLEAN : claim' = [claim EXCEPT ![k] = c(e)] /\ (claim[k].expired => e)
  <2>1. CASE Expires(k) BY <2>1 DEF Expires, ClaimsFit
  <2>2. CASE LeaseLapses(k)
    <3>1. claim[k].expired \in BOOLEAN BY <1>1 DEF ClaimRow
    <3>2. [claim[k] EXCEPT !.lease = FALSE] = c(claim[k].expired) BY <1>1 DEF ClaimRow
    <3>3. claim' = [claim EXCEPT ![k] = [claim[k] EXCEPT !.lease = FALSE]] BY <2>2 DEF LeaseLapses, ClaimsFit
    <3>4. claim' = [claim EXCEPT ![k] = c(claim[k].expired)] BY <3>2, <3>3
    <3> QED BY <3>1, <3>4
  <2> QED BY <2>1, <2>2
<1>3. /\ c(e) \in ClaimRow /\ c(e).state = claim[k].state /\ c(e).lease = FALSE /\ c(e).expired = e
      /\ c(e).payload = claim[k].payload /\ c(e).mode = claim[k].mode /\ c(e).gen = claim[k].gen
      /\ c(e).owner = claim[k].owner /\ c(e).kind = claim[k].kind /\ c(e).rev = claim[k].rev
  BY <1>1 DEF ClaimRow
<1>4. PICK d : d = c(e) OBVIOUS
<1> HIDE DEF c
<1>5. RowFits(k, d) BY <1>1, <1>3, <1>4 DEF RowFits
<1>6. \A h \in Gens : RunFits(k, d, run[k][h]) /\ (d.gen = h => Carries(d, run[k][h]))
  BY <1>1, <1>3, <1>4 DEF RunFits, Carries
<1>7. UNCHANGED operation /\ run' = [run EXCEPT ![k] = run[k]] /\ claim[k].state \in Live
  BY DEF LeaseLapses, Expires, ClaimsFit, Live, Owned
<1>8. Reads(claim[k]) = "abandoned" => Reads(d) = "abandoned"
  BY <1>2, <1>3, <1>4, <1>7 DEF Reads
<1>9. /\ claim' = [claim EXCEPT ![k] = d] /\ d.state \in Live /\ d.payload = claim[k].payload
      /\ d.gen = claim[k].gen /\ d.owner = claim[k].owner /\ d.kind = claim[k].kind /\ d.rev = claim[k].rev
  BY <1>2, <1>3, <1>4, <1>7
<1> QED BY <1>1, <1>5, <1>6, <1>7, <1>8, <1>9, OwnerStep

LEMMA CrashStep ==
  ASSUME ClaimsFit, OneIngestPerRevision, NEW p \in Procs, Crash(p)
  PROVE  ClaimsFit' /\ OneIngestPerRevision' /\ Aging
<1>1. UNCHANGED <<claim, operation>> BY DEF Crash
<1>2. \A k \in Claims, g \in Gens :
        \/ run'[k][g] = run[k][g]
        \/ run'[k][g] = StoppedRun /\ run[k][g].pc # "none"
  BY DEF Crash
<1>3. run' \in [Claims -> [Gens -> RunRow]]
  <2>1. \A k \in Claims, g \in Gens : run[k][g] \in RunRow BY DEF ClaimsFit
  <2> QED BY <2>1, StoppedIs DEF Crash
<1>4. \A k \in Claims : Fits(k, claim[k], operation[k], run'[k])
  BY <1>2, <1>3, FitsOf, ActiveStarted, StoppedFits DEF Fits
<1>5. ClaimsFit' BY <1>1, <1>3, <1>4 DEF ClaimsFit
<1>6. OneIngestPerRevision' BY <1>1 DEF OneIngestPerRevision
<1>7. Aging BY <1>1, AgesStill DEF Aging
<1> QED BY <1>5, <1>6, <1>7

LEMMA NewEpochStep ==
  ASSUME ClaimsFit, OneIngestPerRevision, NEW p \in Procs, NewEpoch(p)
  PROVE  ClaimsFit' /\ OneIngestPerRevision' /\ Aging
<1> DEFINE live == {k \in Claims : claim[k].state \in Live}
<1>1. /\ claim' = [k \in Claims |-> IF k \in live THEN EndedClaim(k, "abandoned")[k] ELSE claim[k]]
      /\ operation' = [k \in Claims |-> IF k \in live THEN EndedOperation(k, "failed")[k] ELSE operation[k]]
      /\ UNCHANGED run
  BY DEF NewEpoch
<1>2. ASSUME NEW j \in Claims
      PROVE  /\ Fits(j, claim'[j], operation'[j], run'[j]) /\ Ages(claim[j], claim'[j])
             /\ operation'[j].state = "running" => operation[j].state = "running" /\ claim'[j] = claim[j]
  <2>1. CASE j \in live
    <3>1. PICK d, q : /\ EndedClaim(j, "abandoned")[j] = d /\ EndedOperation(j, "failed")[j] = q
                      /\ Fits(j, d, q, run[j]) /\ q.state # "running" /\ Ages(claim[j], d)
      <4>1. claim[j].state \in Live /\ "abandoned" \in EndStates BY <2>1 DEF EndStates
      <4> QED BY <4>1, EndFits
    <3>2. claim'[j] = d /\ operation'[j] = q BY <1>1, <2>1, <3>1
    <3> QED BY <1>1, <3>1, <3>2
  <2>2. CASE j \notin live
    <3>1. claim'[j] = claim[j] /\ operation'[j] = operation[j] BY <1>1, <2>2
    <3> QED BY <1>1, <3>1, FitsOf, AgesStill
  <2> QED BY <2>1, <2>2
<1>3. ClaimsFit'
  <2>1. \A j \in Claims : claim'[j] \in ClaimRow /\ operation'[j] \in OperationRow
    BY <1>2 DEF Fits, RowFits, Follows
  <2>2. claim' \in [Claims -> ClaimRow] BY <1>1, <2>1
  <2>3. operation' \in [Claims -> OperationRow] BY <1>1, <2>1
  <2> QED BY <1>1, <1>2, <2>2, <2>3 DEF ClaimsFit
<1>4. OneIngestPerRevision' BY <1>2 DEF OneIngestPerRevision
<1> QED BY <1>2, <1>3, <1>4 DEF Aging

-----------------------------------------------------------------------------
LEMMA IngestionInit == Init => IngestionInv
<1> SUFFICES ASSUME Init PROVE IngestionInv OBVIOUS
<1> DEFINE o == [state |-> "none", owner |-> NoProc, gen |-> 0]
<1>1. o \in OperationRow /\ o.state = "none" BY IngestionAssumption DEF OperationRow
<1>2. \A k \in Claims : claim[k] = NoClaim /\ operation[k] = o /\ run[k] = [g \in Gens |-> NoRun]
  BY DEF Init
<1> HIDE DEF o
<1>3. NoClaim.state = "none" BY DEF NoClaim
<1>4. ASSUME NEW k \in Claims PROVE Fits(k, claim[k], operation[k], run[k])
  <2>1. RowFits(k, NoClaim) /\ Follows(NoClaim, o) BY <1>1, <1>3, NoClaimIs DEF RowFits, Follows, Live
  <2>2. RunFits(k, NoClaim, NoRun) /\ Carries(NoClaim, NoRun) BY <1>3, StoppedIs DEF RunFits, Carries
  <2>3. run[k] \in [Gens -> RunRow] /\ \A g \in Gens : run[k][g] = NoRun BY <1>2, StoppedIs
  <2> QED BY <1>2, <2>1, <2>2, <2>3 DEF Fits
<1>5. ClaimsFit
  <2>1. claim \in [Claims -> ClaimRow] BY NoClaimIs DEF Init
  <2>2. operation \in [Claims -> OperationRow] BY <1>1 DEF Init, o
  <2>3. run \in [Claims -> [Gens -> RunRow]] BY StoppedIs DEF Init
  <2> QED BY <1>4, <2>1, <2>2, <2>3 DEF ClaimsFit
<1>6. StoredFits BY DEF Init, StoredFits
<1>7. InstallationFits BY IngestionAssumption DEF Init, InstallationFits
<1>8. OneIngestPerRevision BY <1>1, <1>2 DEF OneIngestPerRevision
<1> QED BY <1>5, <1>6, <1>7, <1>8 DEF IngestionInv

\* Every step keeps the rows fitting and no claim starts again or comes back.
LEMMA ClaimsStep ==
  ASSUME IngestionInv, [Next]_vars
  PROVE  ClaimsFit' /\ OneIngestPerRevision' /\ Aging
<1>1. ClaimsFit /\ OneIngestPerRevision /\ InstallationFits /\ epoch \in 1 .. MaxEpoch
  BY DEF IngestionInv, InstallationFits
<1>2. CASE UNCHANGED <<claim, operation, run>>
  BY <1>1, <1>2, AgesStill DEF ClaimsFit, OneIngestPerRevision, Aging
<1>3. ASSUME NEW p \in Procs, NEW k \in Claims,
             \/ \E mode \in Modes, review \in BOOLEAN : StartIngestion(p, k, mode, review)
             \/ PrepareFragment(p, k) \/ TakeOver(p, k) \/ MarkIngestion(p, k) \/ ContinueIngestion(p, k)
      PROVE  ClaimsFit' /\ OneIngestPerRevision' /\ Aging
  BY <1>1, <1>3, StartStep, PrepareStep, TakeSteps, TakeNothingStep
<1>4. ASSUME NEW k \in Claims, NEW g \in Gens, RunStep(k, g) \/ Stop(k, g)
      PROVE  ClaimsFit' /\ OneIngestPerRevision' /\ Aging
  BY <1>1, <1>4, SimpleSteps, CreateStep, StoreStep, PauseAgainStep, HeartbeatStep, EndingSteps DEF RunStep
<1>5. ASSUME NEW k \in Claims, AbandonIngestion(k) \/ SweepAbandon(k) \/ LeaseLapses(k) \/ Expires(k)
      PROVE  ClaimsFit' /\ OneIngestPerRevision' /\ Aging
  BY <1>1, <1>5, EndingSteps, ClockSteps
<1>6. ASSUME NEW p \in Procs, Crash(p) \/ NewEpoch(p)
      PROVE  ClaimsFit' /\ OneIngestPerRevision' /\ Aging
  BY <1>1, <1>6, CrashStep, NewEpochStep
<1>7. ASSUME \/ \E k \in Claims : SweepPasses(k)
             \/ \E p \in Procs : Restart(p)
             \/ SweepScan \/ ReportList \/ ReportRead \/ DraftMoves \/ UNCHANGED vars
      PROVE  UNCHANGED <<claim, operation, run>>
  BY <1>7 DEF SweepPasses, Restart, SweepScan, ReportList, ReportRead, DraftMoves, vars
<1> QED BY <1>2, <1>3, <1>4, <1>5, <1>6, <1>7 DEF Next

LEMMA InstallationStep ==
  ASSUME InstallationFits, [Next]_vars
  PROVE  InstallationFits'
<1>1. CASE UNCHANGED <<draft, epoch, procEpoch, crashes, sweepList>>
  BY <1>1 DEF InstallationFits
<1>2. ASSUME NEW k \in Claims, NEW g \in Gens, RunStep(k, g) \/ Stop(k, g) PROVE InstallationFits'
  <2>1. CASE DraftTransaction(k, g) BY <2>1 DEF DraftTransaction, InstallationFits
  <2> QED BY <1>1, <1>2, <2>1
     DEF RunStep, Stop, Heartbeat, ReadInput, Extract, CreateGeneration, Store, Resume, PauseAgain,
         DraftRefused, Abandon, Rest
<1>3. ASSUME NEW p \in Procs, Crash(p) \/ Restart(p) \/ NewEpoch(p) PROVE InstallationFits'
  <2>1. CASE Crash(p)
    <3>1. 0 \in 0 .. MaxEpoch BY IngestionAssumption
    <3> QED BY <2>1, <3>1 DEF Crash, InstallationFits
  <2>2. CASE Restart(p) BY <2>2 DEF Restart, InstallationFits
  <2>3. CASE NewEpoch(p)
    <3>1. epoch + 1 \in 1 .. MaxEpoch /\ epoch + 1 \in 0 .. MaxEpoch
      BY <2>3, IngestionAssumption DEF NewEpoch, InstallationFits
    <3>2. draft' \in [rev : Nat, open : BOOLEAN, publishing : BOOLEAN]
      BY <2>3 DEF NewEpoch, InstallationFits
    <3>3. epoch' = epoch + 1 /\ procEpoch' = [procEpoch EXCEPT ![p] = epoch + 1] /\ UNCHANGED <<crashes, sweepList>>
      BY <2>3 DEF NewEpoch
    <3> QED BY <3>1, <3>2, <3>3 DEF InstallationFits
  <2> QED BY <1>3, <2>1, <2>2, <2>3
<1>4. ASSUME (\E k \in Claims : SweepAbandon(k) \/ SweepPasses(k)) \/ SweepScan PROVE InstallationFits'
  BY <1>4 DEF SweepAbandon, SweepPasses, SweepScan, InstallationFits
<1>5. CASE DraftMoves
  <2>1. draft \in [rev : Nat, open : BOOLEAN, publishing : BOOLEAN] BY DEF InstallationFits
  <2>2. \/ draft' = [draft EXCEPT !.rev = draft.rev + 1] \/ draft' = [draft EXCEPT !.open = FALSE]
        \/ draft' = [draft EXCEPT !.publishing = TRUE] \/ draft' = [draft EXCEPT !.publishing = FALSE]
        \/ draft' = [draft EXCEPT !.publishing = FALSE, !.open = FALSE]
    BY <1>5 DEF DraftMoves
  <2>3. draft' \in [rev : Nat, open : BOOLEAN, publishing : BOOLEAN]
    <3>1. CASE draft' = [draft EXCEPT !.rev = draft.rev + 1] BY <2>1, <3>1
    <3>2. CASE draft' = [draft EXCEPT !.open = FALSE] BY <2>1, <3>2
    <3>3. CASE draft' = [draft EXCEPT !.publishing = TRUE] BY <2>1, <3>3
    <3>4. CASE draft' = [draft EXCEPT !.publishing = FALSE] BY <2>1, <3>4
    <3>5. CASE draft' = [draft EXCEPT !.publishing = FALSE, !.open = FALSE] BY <2>1, <3>5
    <3> QED BY <2>2, <3>1, <3>2, <3>3, <3>4, <3>5
  <2>4. UNCHANGED <<epoch, procEpoch, crashes, sweepList>> BY <1>5 DEF DraftMoves
  <2> QED BY <2>3, <2>4 DEF InstallationFits
<1>6. ASSUME NEW p \in Procs, NEW k \in Claims, NEW mode, NEW review,
             \/ StartIngestion(p, k, mode, review) \/ PrepareFragment(p, k) \/ TakeOver(p, k)
             \/ MarkIngestion(p, k) \/ ContinueIngestion(p, k)
      PROVE  UNCHANGED <<draft, epoch, procEpoch, crashes, sweepList>>
  BY <1>6 DEF StartIngestion, PrepareFragment, TakeOver, MarkIngestion, ContinueIngestion
<1>7. ASSUME NEW k \in Claims, AbandonIngestion(k) \/ LeaseLapses(k) \/ Expires(k)
      PROVE  UNCHANGED <<draft, epoch, procEpoch, crashes, sweepList>>
  BY <1>7 DEF AbandonIngestion, LeaseLapses, Expires, Rest
<1>8. ASSUME ReportList \/ ReportRead \/ UNCHANGED vars
      PROVE  UNCHANGED <<draft, epoch, procEpoch, crashes, sweepList>>
  BY <1>8 DEF ReportList, ReportRead, vars
<1> QED BY <1>1, <1>2, <1>3, <1>4, <1>5, <1>6, <1>7, <1>8 DEF Next

LEMMA StoredStep ==
  ASSUME IngestionInv, [Next]_vars, Aging
  PROVE  StoredFits'
<1>0. StoredFits /\ ClaimsFit /\ OneIngestPerRevision BY DEF IngestionInv
<1>1. CASE UNCHANGED <<generations, refs, listing, orphans>> BY <1>0, <1>1, StoredStays
<1>2. ASSUME NEW k \in Claims, NEW g \in Gens, RunStep(k, g) \/ Stop(k, g) PROVE StoredFits'
  <2>1. CASE CreateGeneration(k, g)
    <3>1. PICK path \in Own(k) : generations' \in {generations, generations \cup {path}}
      BY <1>0, <2>1, CreateStep
    <3>2. path \in Paths /\ path[1] = k /\ claim[k].state # "none" BY <1>0, <2>1, CreateStep, OwnIs
    <3>3. UNCHANGED <<claim, refs, listing, orphans>> BY <2>1 DEF CreateGeneration, Rest
    <3> QED BY <1>0, <3>1, <3>2, <3>3 DEF StoredFits
  <2>2. CASE DraftTransaction(k, g)
    <3>1. run[k][g].env \subseteq Paths BY <1>0, FitsOf DEF RunRow
    <3>2. refs' \subseteq Paths
      BY <1>0, <2>2, <3>1 DEF DraftTransaction, ImportedGenerations, StoredFits
    <3>3. UNCHANGED <<generations, listing, orphans>> BY <2>2 DEF DraftTransaction
    <3>4. \A x \in Paths : x[1] \in Claims BY OwnIs
    <3> QED BY <1>0, <3>2, <3>3, <3>4 DEF StoredFits, Aging, Ages
  <2> QED BY <1>1, <1>2, <2>1, <2>2
     DEF RunStep, Stop, Heartbeat, ReadInput, Extract, Store, Resume, PauseAgain, DraftRefused, Abandon, Rest
<1>3. CASE ReportList BY <1>0, <1>3 DEF ReportList, StoredFits
<1>4. CASE ReportRead
  <2>1. listing \subseteq generations BY <1>0, <1>4 DEF ReportRead, StoredFits
  <2>2. \A x \in listing : IsOrphan(x) => x \in Paths /\ claim[x[1]].state \in EndStates
    BY <1>0, <2>1 DEF StoredFits, IsOrphan, EndStates
  <2>3. UNCHANGED <<claim, generations, refs>> /\ listing' = NoListing
        /\ orphans' = orphans \cup {path \in listing : IsOrphan(path)}
    BY <1>4 DEF ReportRead
  <2> QED BY <1>0, <2>2, <2>3 DEF StoredFits
<1>5. ASSUME NEW p \in Procs, NEW k \in Claims, NEW mode, NEW review,
             \/ StartIngestion(p, k, mode, review) \/ PrepareFragment(p, k) \/ TakeOver(p, k)
             \/ MarkIngestion(p, k) \/ ContinueIngestion(p, k)
      PROVE  UNCHANGED <<generations, refs, listing, orphans>>
  BY <1>5 DEF StartIngestion, PrepareFragment, TakeOver, MarkIngestion, ContinueIngestion
<1>6. ASSUME NEW k \in Claims, \/ AbandonIngestion(k) \/ SweepAbandon(k) \/ SweepPasses(k)
                               \/ LeaseLapses(k) \/ Expires(k)
      PROVE  UNCHANGED <<generations, refs, listing, orphans>>
  BY <1>6 DEF AbandonIngestion, SweepAbandon, SweepPasses, LeaseLapses, Expires, Rest
<1>7. ASSUME NEW p \in Procs, Crash(p) \/ Restart(p) \/ NewEpoch(p)
      PROVE  UNCHANGED <<generations, refs, listing, orphans>>
  BY <1>7 DEF Crash, Restart, NewEpoch
<1>8. ASSUME SweepScan \/ DraftMoves \/ UNCHANGED vars
      PROVE  UNCHANGED <<generations, refs, listing, orphans>>
  BY <1>8 DEF SweepScan, DraftMoves, vars
<1> QED BY <1>1, <1>2, <1>3, <1>4, <1>5, <1>6, <1>7, <1>8 DEF Next

LEMMA IngestionStep == IngestionInv /\ [Next]_vars => IngestionInv' /\ Aging
  BY ClaimsStep, InstallationStep, StoredStep DEF IngestionInv

LEMMA IngestionInvariant == Spec => []IngestionInv
  BY IngestionInit, IngestionStep, PTL DEF Spec

\* Only a draft transaction releases a claim.
LEMMA ReleasedBy ==
  ASSUME ClaimsFit, [Next]_vars, NEW k \in Claims, claim[k].state # "released", claim'[k].state = "released"
  PROVE  \E g \in Gens : DraftTransaction(k, g)
<1>1. claim \in [Claims -> ClaimRow] /\ claim[k] \in ClaimRow BY FitsOf DEF ClaimsFit
<1>2. ~ UNCHANGED claim OBVIOUS
<1>3. ASSUME NEW j, NEW s, s # "released", claim' = EndedClaim(j, s) PROVE FALSE
  <2>1. EndedClaim(j, s) = [claim EXCEPT ![j] = [claim[j] EXCEPT !.state = s, !.payload = NoPayload]]
    BY <1>1 DEF EndedClaim
  <2>2. CASE j = k
    <3>1. claim'[k] = [claim[k] EXCEPT !.state = s, !.payload = NoPayload] BY <1>1, <1>3, <2>1, <2>2
    <3>2. claim'[k].state = s BY <1>1, <3>1 DEF ClaimRow
    <3> QED BY <1>3, <3>2
  <2>3. CASE j # k BY <1>1, <1>3, <2>1, <2>3
  <2> QED BY <2>2, <2>3
<1>4. ASSUME NEW j \in Claims, NEW g \in Gens, RunStep(j, g) \/ Stop(j, g)
      PROVE  DraftTransaction(k, g)
  <2>1. CASE DraftTransaction(j, g)
    <3>1. j = k BY <1>1, <2>1 DEF DraftTransaction, EndedClaim
    <3> QED BY <2>1, <3>1
  <2>2. CASE Abandon(j, g) BY <1>3, <2>2 DEF Abandon
  <2>3. CASE Store(j, g)
    <3>1. CASE claim' = PausedClaim(j, run[j][g].env) BY <1>1, <3>1 DEF PausedClaim, ClaimRow
    <3>2. CASE claim' = [claim EXCEPT ![j].payload = run[j][g].env] BY <1>1, <3>2 DEF ClaimRow
    <3> QED BY <1>2, <2>3, <3>1, <3>2 DEF Store
  <2>4. CASE PauseAgain(j, g) BY <1>1, <2>4 DEF PauseAgain, PausedClaim, ClaimRow
  <2>5. CASE Heartbeat(j, g) BY <1>1, <1>2, <2>5 DEF Heartbeat, ClaimRow
  <2> QED BY <1>2, <1>4, <2>1, <2>2, <2>3, <2>4, <2>5
     DEF RunStep, Stop, ReadInput, Extract, CreateGeneration, Resume, DraftRefused
<1>5. ASSUME NEW p \in Procs, NEW j \in Claims,
             \/ \E mode \in Modes, review \in BOOLEAN : StartIngestion(p, j, mode, review)
             \/ PrepareFragment(p, j) \/ TakeOver(p, j) \/ MarkIngestion(p, j) \/ ContinueIngestion(p, j)
      PROVE  FALSE
  <2>1. ASSUME NEW s \in {"held", "resumed", "abandoned"}, NEW v, Taken(j, p, s, v) PROVE FALSE
    BY <1>1, <2>1 DEF Taken, ClaimRow
  <2>2. CASE TakeOver(p, j)
    <3>1. CASE claim[j].payload = NoPayload
      <4>1. claim' = [claim EXCEPT ![j] = [claim[j] EXCEPT !.owner = p, !.gen = claim[j].gen + 1,
                                              !.epoch = epoch, !.state = "abandoned", !.lease = TRUE]]
        BY <2>2, <3>1 DEF TakeOver
      <4> QED BY <1>1, <4>1 DEF ClaimRow
    <3> QED BY <2>1, <2>2, <3>1 DEF TakeOver
  <2>3. CASE PrepareFragment(p, j)
    <3>1. [NoClaim EXCEPT !.state = "held", !.kind = "draft-update", !.owner = p, !.gen = 1,
                          !.epoch = epoch, !.lease = TRUE, !.rev = draft.rev].state = "held"
      BY DEF NoClaim
    <3> QED BY <1>1, <2>3, <3>1 DEF PrepareFragment
  <2>4. ASSUME NEW mode \in Modes, NEW review \in BOOLEAN, StartIngestion(p, j, mode, review) PROVE FALSE
    <3> DEFINE new == [NoClaim EXCEPT !.state = "held", !.mode = mode, !.owner = p, !.gen = 1,
                          !.review = IF review THEN "pending" ELSE "none",
                          !.epoch = epoch, !.lease = TRUE, !.rev = draft.rev]
    <3>1. new.state = "held" BY DEF NoClaim
    <3>2. claim'[k] \in {new, EndedClaim(k, "abandoned")[k], claim[k]} BY <2>4 DEF StartIngestion
    <3>3. EndedClaim(k, "abandoned")[k].state = "abandoned" BY <1>1 DEF EndedClaim, ClaimRow
    <3> HIDE DEF new
    <3> QED BY <3>1, <3>2, <3>3
  <2> QED BY <1>5, <2>1, <2>2, <2>3, <2>4 DEF MarkIngestion, ContinueIngestion
<1>6. ASSUME NEW j \in Claims, AbandonIngestion(j) \/ SweepAbandon(j) \/ LeaseLapses(j) \/ Expires(j)
      PROVE  FALSE
  <2>1. CASE LeaseLapses(j) BY <1>1, <2>1 DEF LeaseLapses, ClaimRow
  <2>2. CASE Expires(j) BY <1>1, <2>2 DEF Expires, ClaimRow
  <2> QED BY <1>2, <1>3, <1>6, <2>1, <2>2 DEF AbandonIngestion, SweepAbandon, AbandonDue
<1>7. ASSUME NEW p \in Procs, NewEpoch(p) PROVE FALSE
  <2>1. claim'[k] \in {EndedClaim(k, "abandoned")[k], claim[k]} BY <1>7 DEF NewEpoch
  <2>2. EndedClaim(k, "abandoned")[k].state = "abandoned" BY <1>1 DEF EndedClaim, ClaimRow
  <2> QED BY <2>1, <2>2
<1>8. ASSUME \/ \E p \in Procs : Crash(p) \/ Restart(p)
             \/ \E j \in Claims : SweepPasses(j)
             \/ SweepScan \/ ReportList \/ ReportRead \/ DraftMoves \/ UNCHANGED vars
      PROVE  UNCHANGED claim
  BY <1>8 DEF Crash, Restart, SweepPasses, SweepScan, ReportList, ReportRead, DraftMoves, vars
<1> QED BY <1>2, <1>4, <1>5, <1>6, <1>7, <1>8 DEF Next

-----------------------------------------------------------------------------
\* In every behaviour, an import's operation runs exactly while its claim is live, under the claim's
\* owner and generation: whoever ends, takes or moves the claim does the same to the operation.
THEOREM Following == Spec => []OperationFollowsClaim
<1>1. IngestionInv => OperationFollowsClaim
  <2> SUFFICES ASSUME IngestionInv PROVE OperationFollowsClaim OBVIOUS
  <2>1. TypeOK
    <3>1. listing \in (SUBSET Paths) \cup {NoListing} BY DEF IngestionInv, StoredFits
    <3> QED BY <3>1, FitsOf DEF IngestionInv, ClaimsFit, StoredFits, InstallationFits, TypeOK, OperationRow, RowFits
  <2> QED BY <2>1, FitsOf DEF IngestionInv, OperationFollowsClaim, Follows
<1> QED BY <1>1, IngestionInvariant, PTL

\* One running ingest per draft revision, for any number of claims and processes.
THEOREM OneIngest == Spec => []OneIngestPerRevision
<1>1. IngestionInv => OneIngestPerRevision BY DEF IngestionInv
<1> QED BY <1>1, IngestionInvariant, PTL

\* A claim that reads as ended stays ended, whatever heartbeats, takeovers, marks and draft
\* transactions come late.
THEOREM Ended == Spec => EndedForGood
<1>1. IngestionInv /\ [Next]_vars =>
        [\A k \in Claims : EffectiveState(k) \in {"released", "abandoned"}
             => EffectiveState(k)' = EffectiveState(k)]_vars
  <2> SUFFICES ASSUME IngestionInv, [Next]_vars, NEW k \in Claims, EffectiveState(k) \in {"released", "abandoned"}
               PROVE  EffectiveState(k)' = EffectiveState(k)
    OBVIOUS
  <2>1. Ages(claim[k], claim'[k]) BY IngestionStep DEF Aging
  <2>2. EffectiveState(k) = Reads(claim[k]) /\ EffectiveState(k)' = Reads(claim'[k])
    BY DEF EffectiveState, Due, Reads
  <2> QED BY <2>1, <2>2 DEF Ages, EndStates
<1> QED BY <1>1, IngestionInvariant, PTL DEF Spec, EndedForGood

\* What an encrypted claim stores when it is released is what its draft transaction references.
THEOREM StoredCommits == Spec => CommitsStoredEnvelope
<1> DEFINE A == \A k \in Claims :
      claim[k].mode = "encrypted" /\ claim[k].state # "released" /\ claim'[k].state = "released"
          => refs' = refs \cup claim[k].payload
<1>1. IngestionInv /\ [Next]_vars => [A]_vars
  <2> SUFFICES ASSUME IngestionInv, [Next]_vars, NEW k \in Claims, claim[k].mode = "encrypted",
                      claim[k].state # "released", claim'[k].state = "released"
               PROVE  refs' = refs \cup claim[k].payload
    OBVIOUS
  <2>1. ASSUME NEW g \in Gens, DraftTransaction(k, g) PROVE refs' = refs \cup claim[k].payload
    <3>1. claim[k].gen = g /\ claim[k].state \in Owned /\ run[k][g].pc = "draft"
      BY <2>1, FenceMeans DEF DraftTransaction, Running
    <3>2. run[k][g].env = claim[k].payload BY <3>1, FitsOf DEF IngestionInv, Carries
    <3> QED BY <2>1, <3>2 DEF DraftTransaction, ImportedGenerations
  <2>2. \E g \in Gens : DraftTransaction(k, g)
    BY ReleasedBy DEF IngestionInv
  <2> QED BY <2>1, <2>2
<1> QED BY <1>1, IngestionInvariant, PTL DEF Spec, CommitsStoredEnvelope

-----------------------------------------------------------------------------
(* The refinement: every step is a step of the contract, or none at all. *)

LEMMA StatusIs ==
  ASSUME ClaimsFit, NEW k \in Claims
  PROVE  /\ claim[k].state = "none" <=> Status(k) = "absent"
         /\ claim[k].state \in Live <=> Status(k) = "open"
         /\ claim[k].state = "released" <=> Status(k) = "committed"
         /\ claim[k].state = "abandoned" <=> Status(k) = "abandoned"
<1>1. claim[k].state \in Live \cup {"none", "released", "abandoned"} BY FitsOf DEF ClaimRow
<1> QED BY <1>1 DEF Status, Live

\* A step that leaves the draft, the references and the reports alone touches one started claim:
\* it abandons it, or the contract sees nothing.
LEMMA OneClaimMaps ==
  ASSUME IngestionInv, IngestionInv', Aging, [Next]_vars, NEW k \in Claims,
         \A j \in Claims \ {k} : claim'[j] = claim[j], claim[k].state # "none" \/ UNCHANGED claim,
         UNCHANGED <<draft, refs, orphans>>
  PROVE  Contract!Abandon(k) \/ UNCHANGED Contract!cvars
<1>1. ClaimsFit /\ ClaimsFit' /\ InstallationFits BY DEF IngestionInv
<1>2. \A j \in Claims \ {k} : Status(j)' = Status(j) BY DEF Status
<1>3. \A j \in Claims : claim'[j].rev = claim[j].rev BY DEF Aging, Ages
<1>4. claim[k].state # "released" => claim'[k].state # "released"
  <2>1. ASSUME NEW g \in Gens, DraftTransaction(k, g) PROVE FALSE
    <3>1. draft'.rev = draft.rev + 1 /\ draft.rev \in Nat
      BY <1>1, <2>1 DEF DraftTransaction, InstallationFits
    <3> QED BY <3>1
  <2> QED BY <1>1, <2>1, ReleasedBy
<1>5. CASE claim[k].state \in Live /\ claim'[k].state = "abandoned"
  <2>1. Status(k) = "open" /\ Status(k)' = "abandoned" BY <1>1, <1>5, StatusIs DEF Status, Live
  <2> QED BY <1>2, <1>3, <2>1 DEF Contract!Abandon
<1>6. CASE ~(claim[k].state \in Live /\ claim'[k].state = "abandoned")
  <2>1. /\ claim[k].state \in Live \cup {"none", "released", "abandoned"}
        /\ claim'[k].state \in Live \cup {"none", "released", "abandoned"}
    BY <1>1 DEF ClaimsFit, ClaimRow
  <2>2. claim'[k].state = claim[k].state \/ (claim[k].state \in Live /\ claim'[k].state \in Live)
    BY <1>4, <1>6, <2>1 DEF Aging, Ages, EndStates, Live
  <2>3. Status(k)' = Status(k) BY <2>2 DEF Status, Live
  <2> QED BY <1>2, <1>3, <2>3 DEF Contract!cvars
<1> QED BY <1>5, <1>6

LEMMA StartMaps ==
  ASSUME IngestionInv, IngestionInv', NEW p \in Procs, NEW k \in Claims, NEW mode \in Modes,
         NEW review \in BOOLEAN, StartIngestion(p, k, mode, review)
  PROVE  \E over \in SUBSET Claims : Contract!Start(k, over)
<1>1. ClaimsFit BY DEF IngestionInv
<1>0. PICK over \in SUBSET Claims : over = {j \in Claims : RunningOfRevision(j)} OBVIOUS
<1> DEFINE new == [NoClaim EXCEPT !.state = "held", !.mode = mode, !.owner = p, !.gen = 1,
                          !.review = IF review THEN "pending" ELSE "none",
                          !.epoch = epoch, !.lease = TRUE, !.rev = draft.rev]
<1>2. new.state = "held" /\ new.rev = draft.rev BY DEF NoClaim
<1>3. \A j \in Claims : claim'[j] = IF j = k THEN new
                          ELSE IF j \in over THEN EndedClaim(j, "abandoned")[j] ELSE claim[j]
  BY <1>0 DEF StartIngestion
<1>4. \A j \in over : claim[j].state \in Live BY <1>0, EffectiveIs DEF StartIngestion
<1>5. \A j \in over : EndedClaim(j, "abandoned")[j].state = "abandoned"
                      /\ EndedClaim(j, "abandoned")[j].rev = claim[j].rev
  BY <1>1 DEF EndedClaim, ClaimsFit, ClaimRow
<1>6. claim[k].state = "none" /\ UNCHANGED <<draft, refs, orphans>> BY DEF StartIngestion
<1> HIDE DEF new
<1>7. k \notin over BY <1>4, <1>6 DEF Live
<1>8. Status(k) = "absent" /\ Status(k)' = "open" BY <1>2, <1>3, <1>6 DEF Status, Live
<1>9. \A j \in over : j \in Claims /\ Status(j) = "open" /\ Status(j)' = "abandoned"
  BY <1>1, <1>3, <1>4, <1>5, <1>7, StatusIs DEF Status, Live
<1>10. \A j \in Claims : j # k /\ j \notin over => Status(j)' = Status(j) BY <1>3 DEF Status
<1>11. \A j \in Claims : claim'[j].rev = IF j = k THEN draft.rev ELSE claim[j].rev
  BY <1>2, <1>3, <1>5
<1>12. Contract!Start(k, over)
  <2>1. [j \in Claims |-> Status(j)]' =
          [j \in Claims |-> IF j = k THEN "open" ELSE IF j \in over THEN "abandoned"
                                                 ELSE [i \in Claims |-> Status(i)][j]]
    BY <1>8, <1>9, <1>10
  <2>2. [j \in Claims |-> claim[j].rev]' = [[j \in Claims |-> claim[j].rev] EXCEPT ![k] = draft.rev]
    BY <1>11
  <2> QED BY <1>6, <1>7, <1>8, <1>9, <2>1, <2>2 DEF Contract!Start
<1> QED BY <1>12

LEMMA PrepareMaps ==
  ASSUME IngestionInv, NEW p \in Procs, NEW k \in Claims, PrepareFragment(p, k)
  PROVE  Contract!Start(k, {})
<1> DEFINE new == [NoClaim EXCEPT !.state = "held", !.kind = "draft-update", !.owner = p, !.gen = 1,
                          !.epoch = epoch, !.lease = TRUE, !.rev = draft.rev]
<1>1. new.state = "held" /\ new.rev = draft.rev BY DEF NoClaim
<1>2. claim'[k] = new /\ \A j \in Claims \ {k} : claim'[j] = claim[j]
  BY DEF PrepareFragment, IngestionInv, ClaimsFit
<1>3. claim[k].state = "none" /\ UNCHANGED <<draft, refs, orphans>> BY DEF PrepareFragment
<1> HIDE DEF new
<1>4. Status(k) = "absent" /\ Status(k)' = "open" BY <1>1, <1>2, <1>3 DEF Status, Live
<1>5. \A j \in Claims \ {k} : Status(j)' = Status(j) /\ claim'[j].rev = claim[j].rev BY <1>2 DEF Status
<1>6. claim'[k].rev = draft.rev BY <1>1, <1>2
<1> QED BY <1>3, <1>4, <1>5, <1>6 DEF Contract!Start

\* The run's references are the claim's own, and no report named them: it names ended claims' only.
LEMMA CommitMaps ==
  ASSUME IngestionInv, NEW k \in Claims, NEW g \in Gens, DraftTransaction(k, g)
  PROVE  Contract!Commit(k)
<1>1. ClaimsFit /\ StoredFits /\ InstallationFits BY DEF IngestionInv
<1>2. claim[k].state \in Live BY FenceMeans DEF DraftTransaction
<1>3. /\ draft.open /\ ~draft.publishing /\ draft.rev = claim[k].rev
      /\ refs' = refs \cup run[k][g].env /\ UNCHANGED orphans
  BY DEF DraftTransaction, DraftCheck, ImportedGenerations
<1>4. draft'.rev = draft.rev + 1 /\ draft'.open = draft.open /\ draft'.publishing = draft.publishing
  BY <1>1 DEF DraftTransaction, InstallationFits
<1>5. run[k][g].env \subseteq Own(k) \ orphans
  <2>1. run[k][g].env \subseteq Own(k) BY <1>1, FitsOf DEF RunFits
  <2>2. \A x \in Own(k) : x \notin orphans BY <1>1, <1>2, OwnIs DEF StoredFits, EndStates, Live
  <2> QED BY <2>1, <2>2
<1>6. claim'[k].state = "released" /\ claim'[k].rev = claim[k].rev
      /\ \A j \in Claims \ {k} : claim'[j] = claim[j]
  BY <1>1 DEF DraftTransaction, EndedClaim, ClaimsFit, ClaimRow
<1>7. Status(k) = "open" /\ Status(k)' = "committed" /\ \A j \in Claims \ {k} : Status(j)' = Status(j)
  BY <1>1, <1>2, <1>6, StatusIs DEF Status, Live
<1>8. [j \in Claims |-> claim[j].rev]' = [j \in Claims |-> claim[j].rev] BY <1>6
<1>9. \E own \in SUBSET (Own(k) \ orphans) : refs' = refs \cup own BY <1>3, <1>5
<1> QED BY <1>3, <1>4, <1>7, <1>8, <1>9 DEF Contract!Commit, Own

LEMMA RecoverMaps ==
  ASSUME IngestionInv, NEW p \in Procs, NewEpoch(p)
  PROVE  Contract!Recover
<1>1. ClaimsFit /\ InstallationFits BY DEF IngestionInv
<1>2. \A k \in Claims : claim'[k] = IF claim[k].state \in Live THEN EndedClaim(k, "abandoned")[k] ELSE claim[k]
  BY DEF NewEpoch
<1>3. \A k \in Claims : EndedClaim(k, "abandoned")[k].state = "abandoned"
                        /\ EndedClaim(k, "abandoned")[k].rev = claim[k].rev
  BY <1>1 DEF EndedClaim, ClaimsFit, ClaimRow
<1>4. \A k \in Claims : claim'[k].rev = claim[k].rev BY <1>2, <1>3
<1>5. \A k \in Claims : Status(k)' = IF Status(k) = "open" THEN "abandoned" ELSE Status(k)
  <2> SUFFICES ASSUME NEW k \in Claims
               PROVE  Status(k)' = IF Status(k) = "open" THEN "abandoned" ELSE Status(k)
    OBVIOUS
  <2>1. CASE claim[k].state \in Live
    <3>1. claim'[k].state = "abandoned" /\ Status(k) = "open" BY <1>1, <1>2, <1>3, <2>1, StatusIs
    <3> QED BY <3>1 DEF Status, Live
  <2>2. CASE claim[k].state \notin Live
    <3>1. claim'[k] = claim[k] /\ Status(k) # "open" BY <1>1, <1>2, <2>2, StatusIs
    <3> QED BY <3>1 DEF Status
  <2> QED BY <2>1, <2>2
<1>6. draft'.rev = draft.rev /\ draft'.open = draft.open /\ draft'.publishing = FALSE
      /\ draft.open \in BOOLEAN /\ UNCHANGED <<refs, orphans>>
  BY <1>1 DEF NewEpoch, InstallationFits
<1>7. (draft'.open /\ ~draft'.publishing) \in {draft.open /\ ~draft.publishing, TRUE} BY <1>6
<1> QED BY <1>4, <1>5, <1>6, <1>7 DEF Contract!Recover

LEMMA ReportMaps ==
  ASSUME IngestionInv, ReportRead
  PROVE  Contract!Report
<1>1. ClaimsFit /\ StoredFits BY DEF IngestionInv
<1> DEFINE more == {path \in listing : IsOrphan(path)}
           ended == {j \in Claims : Status(j) # "open"}
<1>2. more \subseteq (UNION {Own(k) : k \in ended}) \ refs
  <2> SUFFICES ASSUME NEW x \in more PROVE x \in UNION {Own(k) : k \in ended} /\ x \notin refs OBVIOUS
  <2>1. x \in Paths /\ x \notin refs /\ claim[x[1]].state \in {"none", "abandoned", "released"}
    BY <1>1 DEF IsOrphan, StoredFits, ReportRead
  <2>2. x[1] \in Claims /\ x \in Own(x[1]) BY <2>1, OwnIs
  <2>3. x[1] \in ended BY <1>1, <2>1, <2>2, StatusIs DEF Live
  <2> QED BY <2>1, <2>2, <2>3
<1>3. orphans' = orphans \cup more /\ UNCHANGED <<claim, draft, refs>> BY DEF ReportRead
<1>4. \A k \in Claims : Status(k)' = Status(k) /\ claim'[k].rev = claim[k].rev BY <1>3 DEF Status
<1>5. \E m \in SUBSET ((UNION {Own(k) : k \in ended}) \ refs) : orphans' = orphans \cup m
  BY <1>2, <1>3
<1>6. \E m \in SUBSET ((UNION {Contract!OwnPaths(k) : k \in {j \in Claims : [i \in Claims |-> Status(i)][j] # "open"}})
                        \ refs) : orphans' = orphans \cup m
  <2>1. {j \in Claims : [i \in Claims |-> Status(i)][j] # "open"} = ended OBVIOUS
  <2> HIDE DEF ended
  <2> QED BY <1>5, <2>1 DEF Own
<1> QED BY <1>3, <1>4, <1>6 DEF Contract!Report

LEMMA DraftMaps ==
  ASSUME IngestionInv, DraftMoves
  PROVE  Contract!DraftChanges
<1>1. UNCHANGED <<claim, refs, orphans>> BY DEF DraftMoves
<1>2. \A k \in Claims : Status(k)' = Status(k) /\ claim'[k].rev = claim[k].rev BY <1>1 DEF Status
<1>3. draft \in [rev : Nat, open : BOOLEAN, publishing : BOOLEAN] BY DEF IngestionInv, InstallationFits
<1>4. draft'.rev \in {draft.rev, draft.rev + 1}
  BY <1>3 DEF DraftMoves
<1>5. (draft'.open /\ ~draft'.publishing) \in BOOLEAN OBVIOUS
<1> QED BY <1>1, <1>2, <1>4, <1>5 DEF Contract!DraftChanges

\* Claims, owners, leases, runs, reviews, sweeps and reports implement what an ingestion promises:
\* it commits at most once, at the revision it bound, with references of its own that no report named.
THEOREM Implements == Spec => ImplementsContract
<1>1. Init => Contract!Init
  <2> SUFFICES ASSUME Init PROVE Contract!Init OBVIOUS
  <2>1. NoClaim.state = "none" /\ NoClaim.rev = 0 BY DEF NoClaim
  <2>2. \A k \in Claims : claim[k] = NoClaim BY DEF Init
  <2>3. \A k \in Claims : claim[k].state = "none" /\ claim[k].rev = 0 BY <2>1, <2>2
  <2>5. \A k \in Claims : Status(k) = "absent" BY <2>3 DEF Status, Live
  <2>4. draft.rev = 0 /\ draft.open = TRUE /\ draft.publishing = FALSE /\ refs = {} /\ orphans = {} BY DEF Init
  <2> QED BY <2>3, <2>4, <2>5 DEF Contract!Init
<1>2. IngestionInv /\ IngestionInv' /\ Aging /\ [Next]_vars => [Contract!Next]_(Contract!cvars)
  <2> SUFFICES ASSUME IngestionInv, IngestionInv', Aging, [Next]_vars
               PROVE  Contract!Next \/ UNCHANGED Contract!cvars
    OBVIOUS
  <2>1. claim \in [Claims -> ClaimRow] BY DEF IngestionInv, ClaimsFit
  <2>2. ASSUME UNCHANGED <<claim, draft, refs, orphans>> PROVE UNCHANGED Contract!cvars
    <3>1. \A k \in Claims : Status(k)' = Status(k) /\ claim'[k].rev = claim[k].rev BY <2>2 DEF Status
    <3> QED BY <2>2, <3>1 DEF Contract!cvars
  <2>3. ASSUME NEW k \in Claims, NEW c, claim' = [claim EXCEPT ![k] = c], claim[k].state # "none",
               UNCHANGED <<draft, refs, orphans>>
        PROVE  Contract!Next \/ UNCHANGED Contract!cvars
    <3>1. \A j \in Claims \ {k} : claim'[j] = claim[j] BY <2>1, <2>3
    <3> QED BY <2>3, <3>1, OneClaimMaps DEF Contract!Next
  <2>4. ASSUME NEW k \in Claims, NEW s, claim' = EndedClaim(k, s), claim[k].state # "none",
               UNCHANGED <<draft, refs, orphans>>
        PROVE  Contract!Next \/ UNCHANGED Contract!cvars
    <3>1. claim' = [claim EXCEPT ![k] = [claim[k] EXCEPT !.state = s, !.payload = NoPayload]]
      BY <2>1, <2>4 DEF EndedClaim
    <3> QED BY <2>3, <2>4, <3>1
  <2>5. ASSUME NEW p \in Procs, NEW k \in Claims,
               \/ \E mode \in Modes, review \in BOOLEAN : StartIngestion(p, k, mode, review)
               \/ PrepareFragment(p, k) \/ TakeOver(p, k) \/ MarkIngestion(p, k) \/ ContinueIngestion(p, k)
        PROVE  Contract!Next \/ UNCHANGED Contract!cvars
    <3>1. CASE \E mode \in Modes, review \in BOOLEAN : StartIngestion(p, k, mode, review)
      BY <3>1, StartMaps DEF Contract!Next
    <3>2. CASE PrepareFragment(p, k)
      <4>1. Contract!Start(k, {}) BY <3>2, PrepareMaps
      <4>2. {} \in SUBSET Claims OBVIOUS
      <4> QED BY <4>1, <4>2 DEF Contract!Next
    <3>3. CASE TakeOver(p, k)
      <4>1. claim[k].state # "none" /\ UNCHANGED <<draft, refs, orphans>>
        BY <3>3 DEF TakeOver, Eligible, Owned
      <4>2. \E c : claim' = [claim EXCEPT ![k] = c] BY <3>3 DEF TakeOver, Taken
      <4> QED BY <2>3, <4>1, <4>2
    <3>4. CASE MarkIngestion(p, k) \/ ContinueIngestion(p, k)
      <4>1. claim[k].state # "none" /\ UNCHANGED <<draft, refs, orphans>>
        BY <3>4 DEF MarkIngestion, ContinueIngestion, Markable
      <4>2. \E c : claim' = [claim EXCEPT ![k] = c] BY <3>4 DEF MarkIngestion, ContinueIngestion, Taken
      <4> QED BY <2>3, <4>1, <4>2
    <3> QED BY <2>5, <3>1, <3>2, <3>3, <3>4
  <2>6. ASSUME NEW k \in Claims, NEW g \in Gens, RunStep(k, g) \/ Stop(k, g)
        PROVE  Contract!Next \/ UNCHANGED Contract!cvars
    <3>1. CASE DraftTransaction(k, g) BY <3>1, CommitMaps DEF Contract!Next
    <3>2. CASE Abandon(k, g)
      <4>1. claim[k].state # "none" /\ UNCHANGED <<draft, refs, orphans>> BY <3>2, FenceMeans DEF Abandon, Rest
      <4> QED BY <2>4, <3>2, <4>1 DEF Abandon
    <3>3. CASE PauseAgain(k, g)
      <4>1. claim[k].state # "none" /\ UNCHANGED <<draft, refs, orphans>> BY <3>3, FenceMeans DEF PauseAgain, Rest
      <4>2. \E c : claim' = [claim EXCEPT ![k] = c] BY <3>3 DEF PauseAgain, PausedClaim
      <4> QED BY <2>3, <4>1, <4>2
    <3>4. CASE Store(k, g)
      <4>1. claim[k].state # "none" BY <3>4, ActiveStarted DEF Store, Running, IngestionInv
      <4>2. UNCHANGED <<draft, refs, orphans>> BY <3>4 DEF Store, Rest
      <4>3. CASE UNCHANGED claim BY <2>2, <4>2, <4>3
      <4>4. CASE ~UNCHANGED claim
        <5>1. claim' = PausedClaim(k, run[k][g].env) \/ claim' = [claim EXCEPT ![k].payload = run[k][g].env]
          BY <3>4, <4>4 DEF Store
        <5>2. \E c : claim' = [claim EXCEPT ![k] = c] BY <2>1, <5>1 DEF PausedClaim
        <5> QED BY <2>3, <4>1, <4>2, <5>2
      <4> QED BY <4>3, <4>4
    <3>5. CASE Heartbeat(k, g)
      <4>1. UNCHANGED <<draft, refs, orphans>> BY <3>5 DEF Heartbeat, Rest
      <4>2. CASE UNCHANGED claim BY <2>2, <4>1, <4>2
      <4>3. CASE ~UNCHANGED claim
        <5>1. claim' = [claim EXCEPT ![k].lease = TRUE] /\ Fence(run[k][g].by, k, g) BY <3>5, <4>3 DEF Heartbeat
        <5>2. claim[k].state # "none" BY <5>1, FenceMeans
        <5>3. \E c : claim' = [claim EXCEPT ![k] = c] BY <2>1, <5>1
        <5> QED BY <2>3, <4>1, <5>2, <5>3
      <4> QED BY <4>2, <4>3
    <3>6. CASE \/ ReadInput(k, g) \/ Extract(k, g) \/ CreateGeneration(k, g) \/ Resume(k, g)
               \/ DraftRefused(k, g) \/ Stop(k, g)
      BY <2>2, <3>6 DEF ReadInput, Extract, CreateGeneration, Resume, DraftRefused, Stop, Rest
    <3> QED BY <2>6, <3>1, <3>2, <3>3, <3>4, <3>5, <3>6 DEF RunStep
  <2>7. ASSUME NEW k \in Claims, AbandonIngestion(k) \/ SweepAbandon(k) \/ LeaseLapses(k) \/ Expires(k)
        PROVE  Contract!Next \/ UNCHANGED Contract!cvars
    <3>1. CASE AbandonIngestion(k)
      <4>1. claim[k].state # "none" /\ UNCHANGED <<draft, refs, orphans>>
        BY <3>1 DEF AbandonIngestion, EffectiveState, Due, Live
      <4> QED BY <2>4, <3>1, <4>1 DEF AbandonIngestion
    <3>2. CASE SweepAbandon(k)
      <4>1. UNCHANGED <<draft, refs, orphans>> BY <3>2 DEF SweepAbandon
      <4>2. CASE Due(k)
        <5>1. claim[k].state # "none" BY <4>2 DEF Due, Live
        <5> QED BY <2>4, <3>2, <4>1, <4>2, <5>1 DEF SweepAbandon, AbandonDue
      <4>3. CASE ~Due(k) BY <2>2, <3>2, <4>1, <4>3 DEF SweepAbandon, AbandonDue
      <4> QED BY <4>2, <4>3
    <3>3. CASE LeaseLapses(k) \/ Expires(k)
      <4>1. claim[k].state # "none" /\ UNCHANGED <<draft, refs, orphans>>
        BY <3>3 DEF LeaseLapses, Expires, Live, Owned, Rest
      <4>2. \E c : claim' = [claim EXCEPT ![k] = c]
        BY <2>1, <3>3 DEF LeaseLapses, Expires
      <4> QED BY <2>3, <4>1, <4>2
    <3> QED BY <2>7, <3>1, <3>2, <3>3
  <2>8. ASSUME NEW p \in Procs, Crash(p) \/ Restart(p) \/ NewEpoch(p)
        PROVE  Contract!Next \/ UNCHANGED Contract!cvars
    <3>1. CASE NewEpoch(p) BY <3>1, RecoverMaps DEF Contract!Next
    <3> QED BY <2>2, <2>8, <3>1 DEF Crash, Restart
  <2>9. CASE ReportRead BY <2>9, ReportMaps DEF Contract!Next
  <2>10. CASE DraftMoves BY <2>10, DraftMaps DEF Contract!Next
  <2>11. ASSUME (\E k \in Claims : SweepPasses(k)) \/ SweepScan \/ ReportList \/ UNCHANGED vars
         PROVE  UNCHANGED <<claim, draft, refs, orphans>>
    BY <2>11 DEF SweepPasses, SweepScan, ReportList, vars
  <2> QED BY <2>2, <2>5, <2>6, <2>7, <2>8, <2>9, <2>10, <2>11 DEF Next
<1> QED BY <1>1, <1>2, IngestionStep, IngestionInvariant, PTL DEF Spec, ImplementsContract, Contract!Spec



-----------------------------------------------------------------------------
(* What extraction does to one document. First, its paths.                 *)

\* Paths of up to k tokens, each from its front by a member of that node.
Walked(d, at, k) ==
    /\ <<>> \in DOMAIN at /\ at[<<>>] = 1
    /\ \A p \in DOMAIN at :
         /\ p \in Seq(Texts) /\ Len(p) <= k
         /\ at[p] \in DOMAIN d /\ d[at[p]].kind # "alias"
         /\ p # <<>> => /\ Front(p) \in DOMAIN at
                        /\ at[p] = Member(d, at[Front(p)], Last(p))

\* A member that is found is a child of a mapping or an embedded document, or what that child aliases.
LEMMA MemberFound ==
    ASSUME NEW d, Document(d), NEW n, NEW k, d[n].kind # "alias", Member(d, n, k) # 0
    PROVE  /\ d[n].kind \in {"map", "host"}
           /\ \E c \in Children(d, n) : Member(d, n, k) = Deref(d, c)
<1>1. Deref(d, n) = n BY DEF Deref
<1> DEFINE found == {c \in Children(d, n) : KeyText(d, c) = k}
<1>2. d[n].kind \in {"map", "host"} /\ found # {} BY <1>1 DEF Member
<1>3. Member(d, n, k) = Deref(d, CHOOSE c \in found : TRUE) BY <1>1, <1>2 DEF Member
<1>4. (CHOOSE c \in found : TRUE) \in found BY <1>2
<1> QED BY <1>2, <1>3, <1>4

LEMMA DerefIn ==
    ASSUME NEW d, Document(d), NEW c \in DOMAIN d
    PROVE  Deref(d, c) \in DOMAIN d /\ d[Deref(d, c)].kind # "alias"
BY DEF Deref, Document

LEMMA KeysAreStrings ==
    ASSUME NEW d, Document(d)
    PROVE  Keys(d) \subseteq Texts
<1> SUFFICES ASSUME NEW n \in DOMAIN d \ {1} PROVE KeyText(d, n) \in Texts BY DEF Keys
<1>1. d[n] \in Nodes /\ (d[n].keyTo # 0 => d[n].keyTo \in DOMAIN d /\ d[d[n].keyTo] \in Nodes) BY DEF Document
<1> QED BY <1>1 DEF KeyText, Nodes

LEMMA AppendedPath ==
    ASSUME NEW S, NEW p \in Seq(S), NEW k \in S
    PROVE  /\ Append(p, k) \in Seq(S) /\ Append(p, k) # <<>> /\ Len(Append(p, k)) = Len(p) + 1
           /\ Front(Append(p, k)) = p /\ Last(Append(p, k)) = k
<1>1. /\ Append(p, k) \in Seq(S) /\ Append(p, k) # <<>> /\ Len(Append(p, k)) = Len(p) + 1
      /\ Append(p, k)[Len(p) + 1] = k
      /\ \A i \in 1..Len(p) : Append(p, k)[i] = p[i]
  BY AppendProperties
<1>2. Len(p) \in Nat OBVIOUS
<1>4. Front(Append(p, k)) = SubSeq(Append(p, k), 1, Len(p)) BY <1>1, <1>2 DEF Front
<1>5. SubSeq(Append(p, k), 1, Len(p)) = p BY <1>1, <1>2
<1> QED BY <1>1, <1>4, <1>5 DEF Last

LEMMA ExtendedFits ==
    ASSUME NEW d, Document(d), NEW at, NEW k \in Nat, Walked(d, at, k)
    PROVE  Walked(d, Extended(d, at), k + 1)
<1> DEFINE longer == UNION {{Append(p, l) : l \in {j \in Keys(d) : Member(d, at[p], j) # 0}} : p \in DOMAIN at}
           new == Extended(d, at)
<1>1. /\ DOMAIN new = DOMAIN at \cup longer
      /\ \A q \in DOMAIN at : new[q] = at[q]
      /\ \A q \in longer : q \notin DOMAIN at => new[q] = Member(d, at[Front(q)], Last(q))
  BY DEF Extended
<1>2. <<>> \in DOMAIN new /\ new[<<>>] = 1 BY <1>1 DEF Walked
<1>3. ASSUME NEW q \in DOMAIN at
      PROVE  /\ q \in Seq(Texts) /\ Len(q) <= k + 1
             /\ new[q] \in DOMAIN d /\ d[new[q]].kind # "alias"
             /\ q # <<>> => Front(q) \in DOMAIN new /\ new[q] = Member(d, new[Front(q)], Last(q))
  <2>1. q \in Seq(Texts) /\ Len(q) <= k BY DEF Walked
  <2>2. Len(q) <= k + 1 BY <2>1
  <2> QED BY <1>1, <2>1, <2>2 DEF Walked
<1>4. ASSUME NEW q \in longer, q \notin DOMAIN at
      PROVE  /\ q \in Seq(Texts) /\ Len(q) <= k + 1
             /\ new[q] \in DOMAIN d /\ d[new[q]].kind # "alias"
             /\ q # <<>> => Front(q) \in DOMAIN new /\ new[q] = Member(d, new[Front(q)], Last(q))
  <2>1. PICK p \in DOMAIN at, l \in Keys(d) : q = Append(p, l) /\ Member(d, at[p], l) # 0 OBVIOUS
  <2>2. p \in Seq(Texts) /\ Len(p) <= k /\ at[p] \in DOMAIN d /\ d[at[p]].kind # "alias" BY DEF Walked
  <2>3. l \in Texts BY KeysAreStrings
  <2>4. q \in Seq(Texts) /\ q # <<>> /\ Len(q) = Len(p) + 1 /\ Front(q) = p /\ Last(q) = l
    BY <2>1, <2>2, <2>3, AppendedPath
  <2>5. Len(p) \in Nat BY <2>2
  <2>6. Len(q) <= k + 1 BY <2>2, <2>4, <2>5
  <2>7. new[q] = Member(d, at[p], l) BY <1>1, <1>4, <2>4
  <2>8. PICK c \in Children(d, at[p]) : Member(d, at[p], l) = Deref(d, c) BY <2>1, <2>2, MemberFound
  <2>9. new[q] \in DOMAIN d /\ d[new[q]].kind # "alias" BY <2>7, <2>8, DerefIn DEF Children
  <2> QED BY <1>1, <2>1, <2>4, <2>6, <2>7, <2>9
<1> HIDE DEF longer, new
<1>5. Walked(d, new, k + 1) BY <1>1, <1>2, <1>3, <1>4 DEF Walked
<1> QED BY <1>5 DEF new

LEMMA PathsFit ==
    ASSUME NEW d, Document(d)
    PROVE  Walked(d, PathsOf(d), 3)
<1> DEFINE a0 == [q \in {<<>>} |-> 1]
<1>1. Walked(d, a0, 0)
  <2>1. DOMAIN a0 = {<<>>} /\ a0[<<>>] = 1 OBVIOUS
  <2>2. <<>> \in Seq(Texts) /\ Len(<<>>) <= 0 OBVIOUS
  <2>3. 1 \in DOMAIN d /\ d[1].kind # "alias" BY DEF Document
  <2> HIDE DEF a0
  <2> QED BY <2>1, <2>2, <2>3 DEF Walked
<1> HIDE DEF a0
<1>2. Walked(d, Extended(d, a0), 0 + 1) BY <1>1, ExtendedFits
<1>3. Walked(d, Extended(d, a0), 1) BY <1>2
<1>4. Walked(d, Extended(d, Extended(d, a0)), 1 + 1) BY <1>3, ExtendedFits
<1>5. Walked(d, Extended(d, Extended(d, a0)), 2) BY <1>4
<1>6. Walked(d, Extended(d, Extended(d, Extended(d, a0))), 2 + 1) BY <1>5, ExtendedFits
<1> QED BY <1>6 DEF PathsOf, a0

LEMMA PrefixOfPath ==
    ASSUME NEW p \in Seq(Texts), NEW q \in Seq(Texts), Len(p) <= 3, IsStrictPrefix(q, p)
    PROVE  /\ p # <<>>
           /\ q = <<>> \/ q = Front(p) \/ (q = Front(Front(p)) /\ Front(p) # <<>>)
<1>1. Len(p) \in Nat /\ Len(q) \in Nat /\ Len(q) <= Len(p) /\ SubSeq(q, 1, Len(q)) = SubSeq(p, 1, Len(q)) /\ q # p
  BY DEF IsStrictPrefix, IsPrefix
<1>2. SubSeq(q, 1, Len(q)) = q /\ SubSeq(p, 1, Len(p)) = p OBVIOUS
<1>3. q = SubSeq(p, 1, Len(q)) BY <1>1, <1>2
<1>4. Len(q) < Len(p) BY <1>1, <1>2, <1>3
<1>5. Len(p) > 0 /\ p # <<>> BY <1>1, <1>4
<1>6. CASE Len(q) = 0 BY <1>5, <1>6
<1>7. CASE Len(q) = Len(p) - 1 BY <1>3, <1>5, <1>7 DEF Front
<1>8. CASE Len(q) # 0 /\ Len(q) # Len(p) - 1
  <2>1. Len(p) = 3 /\ Len(q) = 1
    <3>1. \A a, b \in Nat : a <= 3 /\ b < a /\ b # 0 /\ b # a - 1 => a = 3 /\ b = 1 OBVIOUS
    <3> QED BY <1>1, <1>4, <1>8, <3>1
  <2>2. Front(p) = SubSeq(p, 1, 2) BY <2>1 DEF Front
  <2>3. Front(p) \in Seq(Texts) /\ Len(Front(p)) = 2 /\ Front(p)[1] = p[1] BY <2>1, <2>2
  <2>4. Front(Front(p)) = SubSeq(Front(p), 1, 1) BY <2>3, 2 - 1 = 1 DEF Front
  <2>5. SubSeq(Front(p), 1, 1) = SubSeq(p, 1, 1) BY <2>1, <2>3
  <2> QED BY <1>3, <1>5, <2>1, <2>3, <2>4, <2>5
<1> QED BY <1>6, <1>7, <1>8

LEMMA FrontIsPrefix ==
    ASSUME NEW S, NEW p \in Seq(S), p # <<>>
    PROVE  IsStrictPrefix(Front(p), p)
<1>1. Len(p) \in Nat /\ Len(p) > 0 OBVIOUS
<1>2. SubSeq(p, 1, Len(p) - 1) \in Seq(S) /\ Len(SubSeq(p, 1, Len(p) - 1)) = Len(p) - 1
  <2> DEFINE n == Len(p) - 1
  <2>1. n \in Nat /\ 1 \in Int /\ n \in Int BY <1>1
  <2>2. \A i \in 1..n : p[i] \in S BY <1>1, LenProperties
  <2> HIDE DEF n
  <2>3. SubSeq(p, 1, n) \in Seq(S) /\ Len(SubSeq(p, 1, n)) = IF 1 <= n THEN n - 1 + 1 ELSE 0 BY <2>1, <2>2, SubSeqProperties
  <2>4. Len(SubSeq(p, 1, n)) = n BY <2>1, <2>3
  <2> QED BY <2>3, <2>4 DEF n
<1>3. Front(p) \in Seq(S) /\ Len(Front(p)) = Len(p) - 1 /\ Front(p) = SubSeq(p, 1, Len(p) - 1) BY <1>2 DEF Front
<1>4. SubSeq(Front(p), 1, Len(Front(p))) = Front(p) BY <1>3
<1>5. Front(p) # p BY <1>1, <1>3
<1> QED BY <1>1, <1>3, <1>4, <1>5 DEF IsStrictPrefix, IsPrefix

LEMMA StepDown ==
    ASSUME NEW d, Document(d), NEW at, NEW j, Walked(d, at, j), NEW p \in DOMAIN at, p # <<>>
    PROVE  /\ Front(p) \in DOMAIN at /\ at[Front(p)] \in DOMAIN d
           /\ d[at[Front(p)]].kind \in {"map", "host"}
           /\ \E c \in Children(d, at[Front(p)]) : at[p] = Deref(d, c)
<1>1. /\ Front(p) \in DOMAIN at /\ at[p] = Member(d, at[Front(p)], Last(p)) /\ at[p] \in DOMAIN d
      /\ at[Front(p)] \in DOMAIN d /\ d[at[Front(p)]].kind # "alias"
  BY DEF Walked
<1>2. at[p] # 0 BY <1>1 DEF Document
<1> QED BY <1>1, <1>2, MemberFound

\* A path into an embedded document names one of its members; and every path that names a member goes
\* into the document, since nothing aliases it.
LEMMA HeldIsChild ==
    ASSUME NEW d, Document(d), NEW at, Walked(d, at, 3), NEW p \in DOMAIN at, NEW q \in Holder(d, at, p)
    PROVE  /\ d[at[q]].kind = "host" /\ at[q] \in DOMAIN d
           /\ at[p] \in Children(d, at[q]) /\ at[p] \in DOMAIN d \ {1}
<1>1. q \in DOMAIN at /\ d[at[q]].kind = "host" /\ IsStrictPrefix(q, p) BY DEF Holder
<1>2. p \in Seq(Texts) /\ q \in Seq(Texts) /\ Len(p) <= 3 /\ at[q] \in DOMAIN d BY <1>1 DEF Walked
<1>3. p # <<>> /\ (q = <<>> \/ q = Front(p) \/ (q = Front(Front(p)) /\ Front(p) # <<>>)) BY <1>1, <1>2, PrefixOfPath
<1>4. q # <<>> BY <1>1 DEF Walked, Document
<1>5. ASSUME NEW c \in Children(d, at[q]) PROVE Deref(d, c) = c /\ d[c].kind \in {"scalar", "ref"} /\ c \in DOMAIN d \ {1}
  <2>1. c \in DOMAIN d /\ d[c].up = at[q] BY DEF Children
  <2>2. c # 1 BY <1>2, <2>1 DEF Document
  <2> QED BY <1>1, <2>1, <2>2 DEF Document, Deref
<1>6. q = Front(p)
  <2> SUFFICES ASSUME q = Front(Front(p)), Front(p) # <<>> PROVE FALSE BY <1>3, <1>4
  <2>1. Front(p) \in DOMAIN at /\ d[at[Front(p)]].kind \in {"map", "host"} BY <1>3, StepDown
  <2>2. \E c \in Children(d, at[Front(Front(p))]) : at[Front(p)] = Deref(d, c) BY <2>1, StepDown
  <2> QED BY <1>5, <2>1, <2>2
<1>7. \E c \in Children(d, at[q]) : at[p] = Deref(d, c) BY <1>3, <1>6, StepDown
<1> QED BY <1>1, <1>2, <1>5, <1>7

LEMMA ChildIsHeld ==
    ASSUME NEW d, Document(d), NEW at, Walked(d, at, 3), NEW p \in DOMAIN at, at[p] # 1, d[d[at[p]].up].kind = "host"
    PROVE  Front(p) \in Holder(d, at, p) /\ at[Front(p)] = d[at[p]].up
<1>1. p # <<>> /\ p \in Seq(Texts) BY DEF Walked
<1>2. Front(p) \in DOMAIN at BY <1>1, StepDown
<1>3. PICK c \in Children(d, at[Front(p)]) : at[p] = Deref(d, c) BY <1>1, StepDown
<1>4. c \in DOMAIN d /\ d[c].up = at[Front(p)] BY DEF Children
<1>5. d[c].kind # "alias" BY <1>3, <1>4 DEF Document, Deref
<1>6. at[p] = c BY <1>3, <1>5 DEF Deref
<1>7. IsStrictPrefix(Front(p), p) BY <1>1, FrontIsPrefix
<1> QED BY <1>2, <1>4, <1>6, <1>7 DEF Holder

(* Substitution.                                                           *)

\* e is document d with nodes ts as references and embedded documents w written back.
Stored(d, ts, w, e) ==
    /\ Document(d)
    /\ ts \subseteq DOMAIN d /\ \A m \in ts : ValueOf(d, m)
    /\ e = Substitute(d, ts, w) /\ WellPlaced(e)

LEMMA NodeForms ==
    ASSUME NEW r \in Nodes, NEW t \in Texts,
           NEW f, f \in {[r EXCEPT !.kind = "ref", !.text = t, !.plain = FALSE], [r EXCEPT !.plain = TRUE], [r EXCEPT !.note = t]}
    PROVE  /\ f \in Nodes /\ f.up = r.up /\ f.key = r.key /\ f.keyTo = r.keyTo /\ f.anchor = r.anchor /\ f.to = r.to
BY DEF Nodes

LEMMA NodeFields ==
    ASSUME NEW r \in Nodes, NEW t \in Texts
    PROVE  /\ LET f == [r EXCEPT !.kind = "ref", !.text = t, !.plain = FALSE] IN f.kind = "ref" /\ f.note = r.note
           /\ LET f == [r EXCEPT !.plain = TRUE] IN f.kind = r.kind /\ f.text = r.text /\ f.plain = TRUE /\ f.note = r.note
           /\ LET f == [r EXCEPT !.note = t] IN f.kind = r.kind /\ f.text = r.text /\ f.plain = r.plain /\ f.note = t
BY DEF Nodes

LEMMA StoredNode ==
    ASSUME NEW d, NEW ts, NEW w, NEW e, Stored(d, ts, w, e), NEW n \in DOMAIN e
    PROVE  /\ n \in DOMAIN d /\ \A m \in ts : n \notin Under(d, m)
           /\ e[n] \in Nodes /\ d[n] \in Nodes
           /\ e[n].up = d[n].up /\ e[n].key = d[n].key /\ e[n].keyTo = d[n].keyTo
           /\ e[n].anchor = d[n].anchor /\ e[n].to = d[n].to
           /\ e[n].kind = IF n \in ts THEN "ref" ELSE d[n].kind
           /\ n \notin ts => e[n].text = d[n].text /\ (e[n].plain <=> n \in w \/ d[n].plain)
           /\ e[n].note \in {d[n].note, None}
<1>1. DOMAIN e = DOMAIN d \ UNION {Under(d, m) : m \in ts} BY DEF Stored, Substitute
<1>2. n \in DOMAIN d /\ d[n] \in Nodes /\ \A m \in ts : n \notin Under(d, m) BY <1>1 DEF Stored, Document
<1>3. e[n] = IF n \in ts THEN [d[n] EXCEPT !.kind = "ref", !.text = None, !.plain = FALSE]
             ELSE IF n \in w THEN [d[n] EXCEPT !.plain = TRUE]
             ELSE IF d[n].up \in w THEN [d[n] EXCEPT !.note = None]
             ELSE d[n]
  BY <1>1 DEF Stored, Substitute
<1>4. None \in Texts BY DEF Texts
<1> DEFINE r == d[n]
           f1 == [r EXCEPT !.kind = "ref", !.text = None, !.plain = FALSE]
           f2 == [r EXCEPT !.plain = TRUE]
           f3 == [r EXCEPT !.note = None]
           f == e[n]
<1>5. CASE n \in ts
  <2>1. f = f1 BY <1>3, <1>5
  <2>2. f1 \in Nodes /\ f1.up = r.up /\ f1.key = r.key /\ f1.keyTo = r.keyTo /\ f1.anchor = r.anchor /\ f1.to = r.to
    BY <1>2, <1>4, NodeForms, Zenon
  <2>3. f1.kind = "ref" /\ f1.note = r.note BY <1>2, <1>4, NodeFields, Zenon
  <2> HIDE DEF f1
  <2> QED BY <1>2, <1>5, <2>1, <2>2, <2>3
<1>6. CASE n \notin ts /\ n \in w
  <2>1. f = f2 BY <1>3, <1>6
  <2>2. f2 \in Nodes /\ f2.up = r.up /\ f2.key = r.key /\ f2.keyTo = r.keyTo /\ f2.anchor = r.anchor /\ f2.to = r.to
    BY <1>2, <1>4, NodeForms, Zenon
  <2>3. f2.kind = r.kind /\ f2.text = r.text /\ f2.plain = TRUE /\ f2.note = r.note BY <1>2, <1>4, NodeFields, Zenon
  <2> HIDE DEF f2
  <2> QED BY <1>2, <1>6, <2>1, <2>2, <2>3
<1>7. CASE n \notin ts /\ n \notin w /\ d[n].up \in w
  <2>1. f = f3 BY <1>3, <1>7
  <2>2. f3 \in Nodes /\ f3.up = r.up /\ f3.key = r.key /\ f3.keyTo = r.keyTo /\ f3.anchor = r.anchor /\ f3.to = r.to
    BY <1>2, <1>4, NodeForms, Zenon
  <2>3. f3.kind = r.kind /\ f3.text = r.text /\ f3.plain = r.plain /\ f3.note = None BY <1>2, <1>4, NodeFields, Zenon
  <2> HIDE DEF f3
  <2> QED BY <1>2, <1>7, <2>1, <2>2, <2>3
<1>8. CASE n \notin ts /\ n \notin w /\ d[n].up \notin w
  <2>1. e[n] = d[n] BY <1>3, <1>8
  <2> QED BY <1>2, <1>8, <2>1
<1> QED BY <1>5, <1>6, <1>7, <1>8

\* No anchored node stands inside a target (valueOf), and the parent of a node that stays is no target.
LEMMA AnchorStays ==
    ASSUME NEW d, NEW ts, NEW w, NEW e, Stored(d, ts, w, e), NEW n \in DOMAIN d, d[n].anchor
    PROVE  n \in DOMAIN e
<1> SUFFICES ASSUME NEW m \in ts, n \in Under(d, m) PROVE FALSE BY DEF Stored, Substitute
<1>1. n # 1 /\ d[d[n].up].kind = "map" /\ m \in DOMAIN d /\ ValueOf(d, m) BY DEF Stored, Document
<1>2. n \notin Children(d, m) BY <1>1 DEF Children, ValueOf
<1>3. PICK c \in Children(d, m) : n \in Children(d, c) BY <1>2 DEF Under
<1>4. c \in DOMAIN d /\ d[c].up = m /\ d[c].kind = "map" BY <1>1, <1>3 DEF Children
<1>5. c # 1 BY <1>1, <1>4 DEF Stored, Document
<1>6. d[m].kind # "host" BY <1>4, <1>5 DEF Stored, Document
<1>7. d[m].kind = "map" BY <1>1, <1>4, <1>5, <1>6 DEF Stored, Document
<1>8. Deref(d, c) = c BY <1>4 DEF Deref
<1> QED BY <1>1, <1>3, <1>4, <1>7, <1>8 DEF ValueOf

LEMMA ParentStays ==
    ASSUME NEW d, NEW ts, NEW w, NEW e, Stored(d, ts, w, e), NEW n \in DOMAIN e, n # 1
    PROVE  /\ d[n].up \in DOMAIN e /\ d[n].up \notin ts
           /\ e[d[n].up].kind = d[d[n].up].kind
<1>1. n \in DOMAIN d /\ \A m \in ts : n \notin Under(d, m) BY StoredNode
<1>2. d[n].up \in DOMAIN d /\ d[d[n].up].kind \in {"map", "host"} BY <1>1 DEF Stored, Document
<1>3. n \in Children(d, d[n].up) BY <1>1 DEF Children
<1>4. d[n].up \notin ts BY <1>1, <1>3 DEF Under
<1>5. ASSUME NEW m \in ts, d[n].up \in Under(d, m) PROVE FALSE
  <2>1. d[n].up \notin Children(d, m) BY <1>1, <1>3 DEF Under
  <2>2. PICK c \in Children(d, m) : d[n].up \in Children(d, c) BY <1>5, <2>1 DEF Under
  <2>3. /\ c \in DOMAIN d /\ d[c].up = m /\ d[d[n].up].up = c /\ m \in DOMAIN d /\ ValueOf(d, m)
    BY <2>2 DEF Children, Stored
  <2>4. c # 1 /\ d[n].up # 1 BY <2>3 DEF Stored, Document
  <2>5. d[c].kind \in {"map", "host"} /\ d[c].kind # "host" BY <1>2, <2>3, <2>4 DEF Stored, Document
  <2>6. d[m].kind = "map" BY <2>3, <2>4, <2>5 DEF Stored, Document
  <2>7. Deref(d, c) = c BY <2>5 DEF Deref
  <2> QED BY <2>2, <2>3, <2>5, <2>6, <2>7 DEF ValueOf
<1>6. d[n].up \in DOMAIN e BY <1>2, <1>5 DEF Stored, Substitute
<1>7. e[d[n].up].kind = d[d[n].up].kind BY <1>4, <1>6, StoredNode
<1> QED BY <1>4, <1>6, <1>7

LEMMA StoredIsDocument ==
    ASSUME NEW d, NEW ts, NEW w, NEW e, Stored(d, ts, w, e)
    PROVE  Document(e)
<1>1. \A n \in DOMAIN e : n \in Nat \ {0} /\ e[n] \in Nodes
  BY StoredNode DEF Stored, Document
<1>2. 1 \in DOMAIN e /\ e[1].kind = "map" /\ e[1].up = 0
  <2>1. 1 \in DOMAIN d /\ d[1].kind = "map" /\ d[1].up = 0 BY DEF Stored, Document
  <2>2. ASSUME NEW m \in ts, 1 \in Under(d, m) PROVE FALSE
    <3>1. 0 \in DOMAIN d BY <2>1, <2>2 DEF Under, Children, Stored
    <3> QED BY <3>1 DEF Stored, Document
  <2>3. 1 \in DOMAIN e BY <2>1, <2>2 DEF Stored, Substitute
  <2>4. 1 \notin ts BY <2>3, StoredNode DEF Stored, WellPlaced
  <2> QED BY <2>1, <2>3, <2>4, StoredNode
<1>3. \A n \in DOMAIN e \ {1} : e[n].up \in DOMAIN e /\ e[e[n].up].kind \in {"map", "host"}
  <2> TAKE n \in DOMAIN e \ {1}
  <2>1. n \in DOMAIN d /\ e[n].up = d[n].up BY StoredNode
  <2>2. d[d[n].up].kind \in {"map", "host"} BY <2>1 DEF Stored, Document
  <2> QED BY <2>1, <2>2, ParentStays
<1>4. \A n \in DOMAIN e : e[n].anchor => n # 1 /\ e[e[n].up].kind = "map"
  <2> SUFFICES ASSUME NEW n \in DOMAIN e, e[n].anchor PROVE n # 1 /\ e[e[n].up].kind = "map" OBVIOUS
  <2>1. n \in DOMAIN d /\ e[n].up = d[n].up /\ d[n].anchor BY StoredNode
  <2>2. n # 1 /\ d[d[n].up].kind = "map" BY <2>1 DEF Stored, Document
  <2> QED BY <2>1, <2>2, ParentStays
<1>5. \A n \in DOMAIN e : e[n].kind = "alias" => e[n].to \in DOMAIN e /\ e[e[n].to].anchor /\ e[e[n].to].kind # "alias"
  <2> SUFFICES ASSUME NEW n \in DOMAIN e, e[n].kind = "alias"
               PROVE  e[n].to \in DOMAIN e /\ e[e[n].to].anchor /\ e[e[n].to].kind # "alias"
    OBVIOUS
  <2>1. n \in DOMAIN d /\ e[n].to = d[n].to /\ d[n].kind = "alias" BY StoredNode
  <2>2. d[n].to \in DOMAIN d /\ d[d[n].to].anchor /\ d[d[n].to].kind # "alias" BY <2>1 DEF Stored, Document
  <2>3. d[n].to \in DOMAIN e BY <2>2, AnchorStays
  <2> QED BY <2>1, <2>2, <2>3, StoredNode
<1>6. \A n \in DOMAIN e : e[n].keyTo # 0 => e[n].keyTo \in DOMAIN e /\ e[e[n].keyTo].anchor /\ e[e[n].keyTo].kind = "scalar"
  <2> SUFFICES ASSUME NEW n \in DOMAIN e, e[n].keyTo # 0
               PROVE  e[n].keyTo \in DOMAIN e /\ e[e[n].keyTo].anchor /\ e[e[n].keyTo].kind = "scalar"
    OBVIOUS
  <2>1. n \in DOMAIN d /\ e[n].keyTo = d[n].keyTo BY StoredNode
  <2>2. d[n].keyTo \in DOMAIN d /\ d[d[n].keyTo].anchor /\ d[d[n].keyTo].kind = "scalar" BY <2>1 DEF Stored, Document
  <2>3. d[n].keyTo \in DOMAIN e BY <2>2, AnchorStays
  <2>4. e[d[n].keyTo].kind # "ref" BY <2>1 DEF Stored, WellPlaced
  <2> QED BY <2>1, <2>2, <2>3, <2>4, StoredNode
<1>7. \A n \in DOMAIN e \ {1} : e[e[n].up].kind = "host" => e[n].kind \in {"scalar", "ref"}
  <2> SUFFICES ASSUME NEW n \in DOMAIN e \ {1}, e[e[n].up].kind = "host" PROVE e[n].kind \in {"scalar", "ref"} OBVIOUS
  <2>1. n \in DOMAIN d /\ e[n].up = d[n].up /\ d[d[n].up].kind = "host" BY StoredNode, ParentStays
  <2>2. d[n].kind \in {"scalar", "ref"} BY <2>1 DEF Stored, Document
  <2> QED BY <2>2, StoredNode
<1> QED BY <1>1, <1>2, <1>3, <1>4, <1>5, <1>6, <1>7 DEF Document

(* What an extraction that no rule refuses has established.                *)

LEMMA NamedNodes ==
    ASSUME NEW d, Document(d), NEW at, Walked(d, at, 3), NEW marks, marks \subseteq DOMAIN at
    PROVE  /\ \A n \in DOMAIN Named(d, at, marks) : n \in DOMAIN d /\ \E p \in SchemaPointers(d, at) \cup marks : at[p] = n
           /\ \A p \in marks : d[at[p]].kind # "ref" => at[p] \in DOMAIN Named(d, at, marks)
<1>1. SchemaPointers(d, at) \cup marks \subseteq DOMAIN at BY DEF SchemaPointers, Loaded
<1>2. DOMAIN Named(d, at, marks) =
        {at[p] : p \in SchemaPointers(d, at) \cup marks} \ {m \in DOMAIN d : d[m].kind = "ref"}
  BY DEF Named, NamedBy
<1>3. \A p \in DOMAIN at : at[p] \in DOMAIN d BY DEF Walked
<1> QED BY <1>1, <1>2, <1>3

LEMMA Unrefused ==
    ASSUME NEW d, NEW at, NEW marks, NEW outer, NEW named, NEW ts, NEW e,
           Extraction(d, at, marks, outer, named, ts, e).rule = None
    PROVE  /\ \A n \in DOMAIN named : ValueOf(d, n)
           /\ ~Copies(e, {PlainOf(d, n) : n \in ts}) /\ WellPlaced(e)
<1> DEFINE identified == Identified(d, at, marks, outer, named)
           g == GuardRefusal(d, ts, e)
<1> HIDE DEF identified, g
<1>1. Extraction(d, at, marks, outer, named, ts, e).rule =
        CASE ~Parses(d) -> "parse"
          [] ~WellPlaced(d) -> "tag-placement"
          [] identified # None -> identified
          [] OTHER -> g
  BY DEF Extraction, identified, g
<1>2. identified = None /\ g = None BY <1>1 DEF None
<1>3. \A n \in DOMAIN named : ValueOf(d, n)
  <2> DEFINE A == ~Loads(d, at, {})
             B == \E n \in outer : ~ValueOf(d, n)
             C == ~LoadsStored(d, at, outer)
             D == \E n \in outer : ReferenceHolder(d, n)
             E == \E p \in marks : ~Embedded(d, at, p, outer)
             F == \E n \in DOMAIN named : ~ValueOf(d, n)
             G == \E n \in DOMAIN named : \E m \in Inside(d, named, n) : ~ReachedOnlyThrough(d, named, n, m)
             I == Indirect(d)
  <2>1. identified = CASE A -> "schema-unloadable" [] I -> "schema-indirect" [] B -> "mark-kind"
                       [] C -> "schema-unloadable" [] D -> "mark-kind" [] E -> "embedded"
                       [] F -> "mark-kind" [] G -> "mark-kind" [] OTHER -> None
    BY DEF Identified, identified
  <2> HIDE DEF A, B, C, D, E, F, G, I
  <2>2. ~F BY <1>2, <2>1 DEF None
  <2> QED BY <2>2 DEF F
<1>4. ~Copies(e, {PlainOf(d, n) : n \in ts}) /\ WellPlaced(e)
  <2> DEFINE A == Copies(e, {PlainOf(d, n) : n \in ts})
             B == ~WellPlaced(e)
             C == HoldersRemoved(d, e)
  <2>1. g = CASE A -> "guard" [] B -> "tag-placement" [] C -> "embedded" [] OTHER -> None BY DEF GuardRefusal, g
  <2> HIDE DEF A, B, C
  <2>2. ~A /\ ~B BY <1>2, <2>1 DEF None
  <2> QED BY <2>2 DEF A, B
<1> QED BY <1>3, <1>4

(* An extraction of d by marks, which gives e.                             *)
\* What an extraction that nothing refuses has established.
Extracts(d, at, marks, ts, e) ==
    /\ Document(d) /\ Walked(d, at, 3) /\ marks \subseteq DOMAIN at
    /\ ts = Targets(d, Named(d, at, marks))
    /\ Stored(d, ts, WrittenBack(d, at, marks), e)
    /\ ~Copies(e, {PlainOf(d, n) : n \in ts})

LEMMA ExtractsWhenUnrefused ==
    ASSUME NEW d, Document(d), NEW marks \in Marks(d), NEW x, x = Extracted(d, marks), x.rule = None
    PROVE  Extracts(d, PathsOf(d), marks, x.targets, x.doc)
<1> DEFINE at == PathsOf(d)
           named == Named(d, at, marks)
           outer == DOMAIN Named(d, at, marks \ Inner(d, at, marks))
           ts == Targets(d, named)
           e == Substitute(d, ts, WrittenBack(d, at, marks))
<1>1. x = Extraction(d, at, marks, outer, named, ts, e) BY DEF Extracted, ExtractAt, Coalesced, Substituted
<1>2. Walked(d, at, 3) BY PathsFit
<1>3. marks \subseteq DOMAIN at BY DEF Marks
<1> HIDE DEF at, named, outer, ts, e
<1>4. x.targets = ts /\ x.doc = e BY <1>1 DEF Extraction
<1>5. (\A n \in DOMAIN named : ValueOf(d, n)) /\ ~Copies(e, {PlainOf(d, n) : n \in ts}) /\ WellPlaced(e)
  BY <1>1, Unrefused
<1>6. ts \subseteq DOMAIN named BY DEF ts, Targets
<1>7. DOMAIN named \subseteq DOMAIN d BY <1>2, <1>3, NamedNodes DEF named
<1>8. Stored(d, ts, WrittenBack(d, at, marks), e) BY <1>5, <1>6, <1>7 DEF Stored, e
<1>9. Extracts(d, at, marks, ts, e) BY <1>2, <1>3, <1>5, <1>8 DEF Extracts, ts, named
<1> QED BY <1>4, <1>9 DEF at

\* An embedded document that holds a reference has the encoder's form.
Embeds(d) == \A n \in DOMAIN d \ {1} : d[n].kind = "ref" /\ d[d[n].up].kind = "host" => d[d[n].up].plain

LEMMA WrittenHasTarget ==
    ASSUME NEW d, NEW at, NEW marks, NEW ts, NEW e, Extracts(d, at, marks, ts, e),
           NEW n \in WrittenBack(d, at, marks)
    PROVE  \E c \in Children(d, n) : /\ c \in DOMAIN d \ {1} /\ d[n].kind = "host"
                                     /\ d[c].kind = "ref" \/ (c \in ts /\ d[c].kind # "ref")
<1> DEFINE named == Named(d, at, marks)
<1>1. Document(d) /\ Walked(d, at, 3) /\ marks \subseteq DOMAIN at /\ ts = Targets(d, named) BY DEF Extracts
<1>2. PICK p \in marks : n \in {at[q] : q \in Holder(d, at, p)} BY DEF WrittenBack
<1>3. PICK q \in Holder(d, at, p) : at[q] = n BY <1>2
<1>4. p \in DOMAIN at BY <1>1
<1>5. d[n].kind = "host" /\ at[p] \in Children(d, n) /\ at[p] \in DOMAIN d \ {1} BY <1>1, <1>3, <1>4, HeldIsChild
<1>6. ASSUME d[at[p]].kind # "ref" PROVE at[p] \in ts
  <2>1. at[p] \in DOMAIN named BY <1>1, <1>6, NamedNodes
  <2> SUFFICES ASSUME NEW k \in DOMAIN named, NEW m \in Inside(d, named, k), at[p] = Deref(d, m) PROVE FALSE
    BY <1>1, <2>1 DEF Targets
  <2>2. m \in DOMAIN d /\ d[m].up = k /\ d[k].kind = "map" BY DEF Inside, Children
  <2>3. d[at[p]].up = n BY <1>5 DEF Children
  <2>4. CASE d[m].kind = "alias"
    <3>1. d[at[p]].anchor BY <1>1, <2>2, <2>4 DEF Deref, Document
    <3> QED BY <1>1, <1>5, <2>3, <3>1 DEF Document
  <2>5. CASE d[m].kind # "alias" BY <1>5, <2>2, <2>3, <2>5 DEF Deref
  <2> QED BY <2>4, <2>5
<1> QED BY <1>5, <1>6

LEMMA ExtractedEmbeds ==
    ASSUME NEW d, NEW at, NEW marks, NEW ts, NEW e, Extracts(d, at, marks, ts, e), Embeds(d)
    PROVE  Embeds(e)
<1> DEFINE w == WrittenBack(d, at, marks)
<1>1. /\ Document(d) /\ Walked(d, at, 3) /\ marks \subseteq DOMAIN at /\ ts = Targets(d, Named(d, at, marks))
      /\ Stored(d, ts, w, e)
  BY DEF Extracts
<1> SUFFICES ASSUME NEW n \in DOMAIN e \ {1}, e[n].kind = "ref", e[e[n].up].kind = "host" PROVE e[e[n].up].plain
  BY DEF Embeds
<1>2. n \in DOMAIN d /\ e[n].up = d[n].up /\ e[n].kind = (IF n \in ts THEN "ref" ELSE d[n].kind) BY <1>1, StoredNode
<1>3. d[n].up \in DOMAIN e /\ d[n].up \notin ts /\ d[d[n].up].kind = "host" BY <1>1, <1>2, ParentStays
<1>4. e[d[n].up].plain <=> d[n].up \in w \/ d[d[n].up].plain BY <1>1, <1>3, StoredNode
<1>5. CASE n \notin ts BY <1>2, <1>3, <1>4, <1>5 DEF Embeds
<1>6. CASE n \in ts
  <2>1. n \in DOMAIN Named(d, at, marks) BY <1>1, <1>6 DEF Targets
  <2>2. PICK p \in SchemaPointers(d, at) \cup marks : at[p] = n BY <1>1, <2>1, NamedNodes
  <2>3. p \in DOMAIN at BY <1>1 DEF SchemaPointers, Loaded
  <2>4. Front(p) \in Holder(d, at, p) /\ at[Front(p)] = d[n].up BY <1>1, <1>3, <2>2, <2>3, ChildIsHeld
  <2>5. p \in marks BY <2>4 DEF SchemaPointers, Loaded
  <2>6. d[n].up \in w BY <2>4, <2>5 DEF WrittenBack
  <2> QED BY <1>2, <1>4, <2>6
<1> QED BY <1>5, <1>6

(* What a remark persists, the document it is of persisted already.        *)

LEMMA KeyTextStays ==
    ASSUME NEW d, NEW ts, NEW w, NEW e, Stored(d, ts, w, e), NEW n \in DOMAIN e
    PROVE  KeyText(e, n) = KeyText(d, n)
<1>1. n \in DOMAIN d /\ e[n].key = d[n].key /\ e[n].keyTo = d[n].keyTo BY StoredNode
<1>2. CASE d[n].keyTo = 0 BY <1>1, <1>2 DEF KeyText
<1>3. CASE d[n].keyTo # 0
  <2>1. Document(e) BY StoredIsDocument
  <2>2. d[n].keyTo \in DOMAIN e /\ e[d[n].keyTo].kind = "scalar" BY <1>1, <1>3, <2>1 DEF Document
  <2>3. e[d[n].keyTo].text = d[d[n].keyTo].text BY <2>2, StoredNode
  <2> QED BY <1>1, <1>3, <2>3 DEF KeyText
<1> QED BY <1>2, <1>3

\* The strings and keys, and the comments, of an embedded document.
Inscribed(d, n) ==
    {d[m].text : m \in {c \in Children(d, n) : d[c].kind = "scalar"}} \cup {KeyText(d, m) : m \in Children(d, n)}
Notes(d, n) == {d[m].note : m \in Children(d, n)} \ {None}

LEMMA HostText ==
    ASSUME NEW d, NEW n, d[n].kind = "host"
    PROVE  /\ Inscribed(d, n) \subseteq TextOf(d, n)
           /\ ~d[n].plain => Notes(d, n) \subseteq TextOf(d, n)
           /\ d[n].plain /\ {"a", "b"} \subseteq Inscribed(d, n) => "a b" \in TextOf(d, n)
           /\ \A s \in TextOf(d, n) :
                \/ s \in Inscribed(d, n)
                \/ ~d[n].plain /\ s \in Notes(d, n)
                \/ d[n].plain /\ {"a", "b"} \subseteq Inscribed(d, n) /\ s = "a b"
<1>1. d[n].kind # "scalar" OBVIOUS
<1>2. TextOf(d, n) = Inscribed(d, n) \cup (IF d[n].plain THEN {} ELSE Notes(d, n))
                                    \cup (IF d[n].plain /\ {"a", "b"} \subseteq Inscribed(d, n) THEN {"a b"} ELSE {})
  BY <1>1, Zenon DEF TextOf, Inscribed, Notes
<1> QED BY <1>2, Zenon

LEMMA ChildrenStay ==
    ASSUME NEW d, NEW ts, NEW w, NEW e, Stored(d, ts, w, e), NEW n
    PROVE  /\ Children(e, n) \subseteq Children(d, n) /\ Children(e, n) \subseteq DOMAIN e
           /\ Inscribed(e, n) \subseteq Inscribed(d, n) /\ Notes(e, n) \subseteq Notes(d, n)
<1>1. Children(e, n) \subseteq Children(d, n) /\ Children(e, n) \subseteq DOMAIN e BY StoredNode DEF Children
<1>2. \A m \in Children(e, n) : KeyText(e, m) = KeyText(d, m) BY <1>1, KeyTextStays
<1>3. \A m \in Children(e, n) : e[m].kind = "scalar" => d[m].kind = "scalar" /\ e[m].text = d[m].text
  BY <1>1, StoredNode
<1>4. \A m \in Children(e, n) : e[m].note \in {d[m].note, None} BY <1>1, StoredNode
<1> QED BY <1>1, <1>2, <1>3, <1>4 DEF Inscribed, Notes

\* A remark adds no text to a string: one it writes back had the encoder's form already (changedBesides).
LEMMA TextStays ==
    ASSUME NEW d, NEW at, NEW marks, NEW ts, NEW e, Extracts(d, at, marks, ts, e), Embeds(d),
           RewritesOnlyMarked(d, e), NEW n \in DOMAIN e
    PROVE  TextOf(e, n) \subseteq TextOf(d, n)
<1> DEFINE w == WrittenBack(d, at, marks)
<1>1. Stored(d, ts, w, e) BY DEF Extracts
<1>2. /\ n \in DOMAIN d /\ e[n].kind = (IF n \in ts THEN "ref" ELSE d[n].kind)
      /\ n \notin ts => e[n].text = d[n].text /\ (e[n].plain <=> n \in w \/ d[n].plain)
  BY <1>1, StoredNode
<1>3. CASE e[n].kind = "scalar"
  <2>1. d[n].kind = "scalar" /\ n \notin ts BY <1>2, <1>3
  <2>2. TextOf(e, n) = {e[n].text} BY <1>3, Zenon DEF TextOf
  <2>3. TextOf(d, n) = {d[n].text} BY <2>1, Zenon DEF TextOf
  <2> QED BY <1>2, <2>1, <2>2, <2>3
<1>4. CASE e[n].kind = "host"
  <2>1. d[n].kind = "host" /\ n \notin ts BY <1>2, <1>4
  <2>2. Inscribed(e, n) \subseteq Inscribed(d, n) /\ Notes(e, n) \subseteq Notes(d, n) BY <1>1, ChildrenStay
  <2>3. e[n].plain => d[n].plain
    <3> SUFFICES ASSUME n \in w PROVE d[n].plain BY <1>2, <2>1
    <3>1. PICK c \in Children(d, n) : c \in DOMAIN d \ {1} /\ (d[c].kind = "ref" \/ (c \in ts /\ d[c].kind # "ref"))
      BY WrittenHasTarget
    <3>2. d[c].up = n BY DEF Children
    <3>3. CASE d[c].kind = "ref" BY <2>1, <3>1, <3>2, <3>3 DEF Embeds
    <3>4. CASE c \in ts /\ d[c].kind # "ref"
      <4>1. c \in DOMAIN e => e[c].kind = "ref" BY <1>1, <3>4, StoredNode
      <4>2. c \notin DOMAIN e \/ e[c] # d[c] BY <3>4, <4>1
      <4>3. c \in Under(d, n) BY DEF Under
      <4> QED BY <1>4, <4>2, <4>3 DEF RewritesOnlyMarked
    <3> QED BY <3>1, <3>3, <3>4
  <2>4. ~e[n].plain => ~d[n].plain BY <1>2, <2>1
  <2> SUFFICES ASSUME NEW s \in TextOf(e, n) PROVE s \in TextOf(d, n) OBVIOUS
  <2>5. \/ s \in Inscribed(e, n)
        \/ ~e[n].plain /\ s \in Notes(e, n)
        \/ e[n].plain /\ {"a", "b"} \subseteq Inscribed(e, n) /\ s = "a b"
    BY <1>4, HostText
  <2>6. /\ Inscribed(d, n) \subseteq TextOf(d, n)
        /\ ~d[n].plain => Notes(d, n) \subseteq TextOf(d, n)
        /\ d[n].plain /\ {"a", "b"} \subseteq Inscribed(d, n) => "a b" \in TextOf(d, n)
    BY <2>1, HostText
  <2>7. CASE s \in Inscribed(e, n) BY <2>2, <2>6, <2>7
  <2>8. CASE ~e[n].plain /\ s \in Notes(e, n) BY <2>2, <2>4, <2>6, <2>8
  <2>9. CASE e[n].plain /\ {"a", "b"} \subseteq Inscribed(e, n) /\ s = "a b"
    <3>1. d[n].plain /\ {"a", "b"} \subseteq Inscribed(d, n) BY <2>2, <2>3, <2>9, Zenon
    <3> QED BY <2>6, <2>9, <3>1
  <2> QED BY <2>5, <2>7, <2>8, <2>9
<1>5. CASE e[n].kind \notin {"scalar", "host"}
  <2>1. TextOf(e, n) = {} BY <1>5, Zenon DEF TextOf
  <2> QED BY <2>1
<1> QED BY <1>3, <1>4, <1>5

LEMMA NothingNewPersisted ==
    ASSUME NEW d, NEW at, NEW marks, NEW ts, NEW e, Extracts(d, at, marks, ts, e), Embeds(d), RewritesOnlyMarked(d, e)
    PROVE  PersistedTexts(e) \subseteq PersistedTexts(d) /\ ScalarTexts(e) \subseteq ScalarTexts(d)
<1> DEFINE w == WrittenBack(d, at, marks)
<1>1. Stored(d, ts, w, e) BY DEF Extracts
<1>2. ScalarTexts(e) \subseteq ScalarTexts(d)
  <2>1. ASSUME NEW n \in DOMAIN e \ {1}, e[n].keyTo = 0 PROVE e[n].key \in ScalarTexts(d)
    <3>1. n \in DOMAIN d \ {1} /\ d[n].keyTo = 0 /\ e[n].key = d[n].key BY <1>1, <2>1, StoredNode
    <3> QED BY <3>1 DEF ScalarTexts
  <2>2. ASSUME NEW n \in DOMAIN e \ {1}, e[n].kind = "scalar" PROVE e[n].text \in ScalarTexts(d)
    <3>1. n \in DOMAIN d \ {1} /\ d[n].kind = "scalar" /\ e[n].text = d[n].text BY <1>1, <2>2, StoredNode
    <3> QED BY <3>1 DEF ScalarTexts
  <2> QED BY <2>1, <2>2 DEF ScalarTexts
<1>3. ASSUME NEW n \in DOMAIN e \ {1}, ~e[e[n].up].plain, e[n].note # None PROVE e[n].note \in PersistedTexts(d)
  <2>1. n \in DOMAIN d \ {1} /\ e[n].up = d[n].up /\ e[n].note = d[n].note BY <1>1, <1>3, StoredNode
  <2>2. d[n].up \in DOMAIN e /\ d[n].up \notin ts BY <1>1, ParentStays
  <2>3. ~d[d[n].up].plain BY <1>1, <1>3, <2>1, <2>2, StoredNode
  <2> QED BY <1>3, <2>1, <2>3 DEF PersistedTexts
<1>4. ASSUME NEW n \in DOMAIN e \ {1}, NEW s \in TextOf(e, n) PROVE s \in PersistedTexts(d)
  <2>1. s \in TextOf(d, n) BY TextStays
  <2>2. n \in DOMAIN d \ {1} BY <1>1, StoredNode
  <2> QED BY <2>1, <2>2 DEF PersistedTexts
<1> SUFFICES ASSUME NEW s \in PersistedTexts(e) PROVE s \in PersistedTexts(d) BY <1>2
<1>5. \/ s \in ScalarTexts(e)
      \/ \E n \in DOMAIN e \ {1} : ~e[e[n].up].plain /\ e[n].note # None /\ s = e[n].note
      \/ \E n \in DOMAIN e \ {1} : s \in TextOf(e, n)
  BY Zenon DEF PersistedTexts
<1>6. ScalarTexts(d) \subseteq PersistedTexts(d) BY Zenon DEF PersistedTexts
<1> QED BY <1>2, <1>3, <1>4, <1>5, <1>6

(* The invariant.                                                          *)

\* No text of d holds value v, or its keys; no key or scalar is one of them.
Hidden(d, v) ==
    /\ \A s \in PersistedTexts(d) :
         /\ \A k \in DOMAIN v.texts : \A t \in v.texts[k] : ~Holds(s, t)
         /\ v.map => \A k \in DOMAIN v.texts : ~HoldsToken(s, k)
    /\ \A s \in ScalarTexts(d) :
         /\ \A k \in DOMAIN v.texts : \A t \in v.texts[k] : ~Same(s, t)
         /\ v.map => \A k \in DOMAIN v.texts : ~Same(s, k)

Kept(d, vals) == \A n \in DOMAIN vals : Hidden(d, vals[n])

\* Before a later round can look at the document, it is one, it embeds references in the encoder's form
\* only, and it holds nothing of any earlier round. While a mark's generations are created, the same is
\* true of the stored envelope, to which the claim returns if none is.
ExtractionInv ==
    /\ step \in {"read", "create", "staged"} => Document(doc) /\ Embeds(doc)
    /\ step = "read" => DOMAIN values = {} /\ round = 0
    /\ step \in {"create", "staged"} => Kept(doc, values)
    /\ step = "create" /\ round > 1 =>
         Document(persisted.doc) /\ Embeds(persisted.doc) /\ Kept(persisted.doc, persisted.values)

LEMMA CandidateKeeps ==
    ASSUME Document(doc), Embeds(doc), NEW marks \in Marks(doc), NEW x, x = Extracted(doc, marks), x.rule = None,
           Candidate(x), persisted' = [doc |-> doc, values |-> values],
           (DOMAIN values = {} /\ round = 0) \/ (Kept(doc, values) /\ RewritesOnlyMarked(doc, x.doc))
    PROVE  ExtractionInv'
<1> DEFINE at == PathsOf(doc)
<1>1. Extracts(doc, at, marks, x.targets, x.doc) BY ExtractsWhenUnrefused
<1>2. /\ doc' = x.doc /\ step' = "create" /\ round' = round + 1
      /\ values' = [n \in DOMAIN values \cup x.targets |-> IF n \in x.targets THEN PlainOf(doc, n) ELSE values[n]]
  BY DEF Candidate
<1>3. Document(doc') /\ Embeds(doc') BY <1>1, <1>2, StoredIsDocument, ExtractedEmbeds DEF Extracts
<1>4. Kept(doc', values')
  <2> SUFFICES ASSUME NEW n \in DOMAIN values', NEW v, v = values'[n] PROVE Hidden(x.doc, v)
    BY <1>2 DEF Kept
  <2>1. CASE n \in x.targets
    <3> DEFINE vals == {PlainOf(doc, m) : m \in x.targets}
    <3>1. v \in vals BY <1>2, <2>1
    <3>2. ~Copies(x.doc, vals) BY <1>1 DEF Extracts
    <3> HIDE DEF vals
    <3>3. \A k \in DOMAIN v.texts : \A t \in v.texts[k] : t \in Scalars(vals) BY <3>1 DEF Scalars
    <3>4. v.map => \A k \in DOMAIN v.texts : k \in MappingKeys(vals) BY <3>1 DEF MappingKeys
    <3> QED BY <3>2, <3>3, <3>4 DEF Copies, Hidden
  <2>2. CASE n \notin x.targets
    <3>1. n \in DOMAIN values /\ v = values[n] BY <1>2, <2>2
    <3>2. Kept(doc, values) /\ RewritesOnlyMarked(doc, x.doc) BY <3>1
    <3>3. PersistedTexts(x.doc) \subseteq PersistedTexts(doc) /\ ScalarTexts(x.doc) \subseteq ScalarTexts(doc)
      BY <1>1, <3>2, NothingNewPersisted
    <3>4. Hidden(doc, v) BY <3>1, <3>2 DEF Kept
    <3> QED BY <3>3, <3>4 DEF Hidden
  <2> QED BY <2>1, <2>2
<1>5. round' > 1 => Document(persisted'.doc) /\ Embeds(persisted'.doc) /\ Kept(persisted'.doc, persisted'.values)
  <2>1. persisted'.doc = doc /\ persisted'.values = values OBVIOUS
  <2>2. round = 0 => ~(round' > 1) BY <1>2
  <2> QED BY <2>1, <2>2
<1> QED BY <1>2, <1>3, <1>4, <1>5 DEF ExtractionInv

\* No staged document holds, in a key, a string or a comment, a value or an extracted mapping's key of
\* any round, and no key or scalar of it is such a number in another spelling, which a comment may have
\* (NoValuePersisted): the guard of extract compares one round's values only, and what it
\* compared of an earlier round stays true because Remark refuses to rewrite other text (changedBesides).
THEOREM NothingKept == ExtractionSpec => []NoValuePersisted
<1>1. ExtractionInit => ExtractionInv
  <2> SUFFICES ASSUME ExtractionInit PROVE ExtractionInv OBVIOUS
  <2>1. Document(doc) /\ \A n \in DOMAIN doc : doc[n].kind # "ref" BY ExtractionAssumption DEF ExtractionInit
  <2>2. step = "read" /\ DOMAIN values = {} /\ round = 0 BY DEF ExtractionInit
  <2> QED BY <2>1, <2>2 DEF ExtractionInv, Embeds
<1>2. ExtractionInv /\ [ExtractionNext]_extractionVars => ExtractionInv'
  <2> SUFFICES ASSUME ExtractionInv, [ExtractionNext]_extractionVars PROVE ExtractionInv' OBVIOUS
  <2>1. ASSUME NEW marks \in Marks(doc), ExtractDocument(marks) PROVE ExtractionInv'
    <3>1. /\ Document(doc) /\ Embeds(doc) /\ DOMAIN values = {} /\ round = 0
          /\ persisted' = [doc |-> doc, values |-> values]
      BY <2>1 DEF ExtractDocument, ExtractionInv
    <3> DEFINE x == Extracted(doc, marks)
    <3>2. CASE x.rule = None
      <4>1. Candidate(x) BY <2>1, <3>2 DEF ExtractDocument
      <4> QED BY <3>1, <3>2, <4>1, CandidateKeeps
    <3>3. CASE x.rule # None
      <4>1. step' = "refused" BY <2>1, <3>3 DEF ExtractDocument
      <4> QED BY <4>1 DEF ExtractionInv
    <3> QED BY <3>2, <3>3
  <2>2. ASSUME NEW marks \in Marks(doc), Remark(marks) PROVE ExtractionInv'
    <3>1. /\ Document(doc) /\ Embeds(doc) /\ Kept(doc, values) /\ step = "staged"
          /\ persisted' = [doc |-> doc, values |-> values]
      BY <2>2 DEF Remark, ExtractionInv
    <3> DEFINE x == Extracted(doc, marks)
    <3>2. CASE x.rule = None /\ RewritesOnlyMarked(doc, x.doc)
      <4>1. Candidate(x) BY <2>2, <3>2 DEF Remark
      <4> QED BY <3>1, <3>2, <4>1, CandidateKeeps
    <3>3. CASE ~(x.rule = None /\ RewritesOnlyMarked(doc, x.doc))
      <4>1. step' = step /\ doc' = doc /\ values' = values BY <2>2, <3>3 DEF Remark
      <4> QED BY <3>1, <4>1 DEF ExtractionInv
    <3> QED BY <3>2, <3>3
  <2>3. CASE Create
    <3>1. step' = step /\ doc' = doc /\ values' = values /\ round' = round /\ persisted' = persisted BY <2>3 DEF Create
    <3> QED BY <3>1 DEF ExtractionInv
  <2>4. CASE CreateFails
    <3>1. /\ step = "create" /\ doc' = persisted.doc /\ values' = persisted.values
          /\ step' = "refused" \/ (step' = "staged" /\ round > 1)
      BY <2>4 DEF CreateFails
    <3> QED BY <3>1 DEF ExtractionInv
  <2>5. CASE Seal
    <3>1. step = "create" /\ step' = "staged" /\ doc' = doc /\ values' = values BY <2>5 DEF Seal
    <3> QED BY <3>1 DEF ExtractionInv
  <2>6. CASE UNCHANGED extractionVars BY <2>6 DEF extractionVars, ExtractionInv
  <2> QED BY <2>1, <2>2, <2>3, <2>4, <2>5, <2>6 DEF ExtractionNext
<1>3. ExtractionInv => NoValuePersisted BY DEF ExtractionInv, NoValuePersisted, Kept, Hidden
<1> QED BY <1>1, <1>2, <1>3, PTL DEF ExtractionSpec


-----------------------------------------------------------------------------
(* The round trip. The paths of a document, and of what is stored of it.   *)

\* Every path of fewer than k tokens goes on wherever its node has a member.
Complete(d, at, k) ==
    \A p \in DOMAIN at : Len(p) < k =>
        \A l \in Keys(d) : Member(d, at[p], l) # 0 => Append(p, l) \in DOMAIN at

LEMMA ExtendedCompletes ==
    ASSUME NEW d, Document(d), NEW at, NEW k \in Nat, Walked(d, at, k), Complete(d, at, k)
    PROVE  Complete(d, Extended(d, at), k + 1)
<1> DEFINE longer == UNION {{Append(p, l) : l \in {j \in Keys(d) : Member(d, at[p], j) # 0}} : p \in DOMAIN at}
           new == Extended(d, at)
<1>1. /\ DOMAIN new = DOMAIN at \cup longer
      /\ \A q \in DOMAIN at : new[q] = at[q]
  BY DEF Extended
<1> SUFFICES ASSUME NEW p \in DOMAIN new, Len(p) < k + 1, NEW l \in Keys(d), Member(d, new[p], l) # 0
             PROVE  Append(p, l) \in DOMAIN new
  BY DEF Complete
<1>2. CASE p \in DOMAIN at BY <1>1, <1>2
<1>3. CASE p \notin DOMAIN at
  <2>1. PICK q \in DOMAIN at, j \in Keys(d) : p = Append(q, j) /\ Member(d, at[q], j) # 0 BY <1>1, <1>3
  <2>2. q \in Seq(Texts) /\ j \in Texts BY KeysAreStrings DEF Walked
  <2>3. Len(p) = Len(q) + 1 /\ Len(q) \in Nat BY <2>1, <2>2, AppendedPath
  <2>4. Len(q) < k BY <2>3
  <2> QED BY <1>3, <2>1, <2>4 DEF Complete
<1> QED BY <1>2, <1>3

LEMMA PathsComplete ==
    ASSUME NEW d, Document(d)
    PROVE  Complete(d, PathsOf(d), 3)
<1> DEFINE a0 == [q \in {<<>>} |-> 1]
<1>1. Walked(d, a0, 0) /\ Complete(d, a0, 0)
  <2>1. DOMAIN a0 = {<<>>} /\ a0[<<>>] = 1 OBVIOUS
  <2>2. <<>> \in Seq(Texts) /\ Len(<<>>) <= 0 /\ ~(Len(<<>>) < 0) OBVIOUS
  <2>3. 1 \in DOMAIN d /\ d[1].kind # "alias" BY DEF Document
  <2> HIDE DEF a0
  <2> QED BY <2>1, <2>2, <2>3 DEF Walked, Complete
<1> HIDE DEF a0
<1> DEFINE a1 == Extended(d, a0)
           a2 == Extended(d, a1)
<1>2. Walked(d, a1, 0 + 1) /\ Complete(d, a1, 0 + 1) BY <1>1, ExtendedFits, ExtendedCompletes
<1>3. Walked(d, a1, 1) /\ Complete(d, a1, 1) BY <1>2
<1> HIDE DEF a1
<1>4. Walked(d, a2, 1 + 1) /\ Complete(d, a2, 1 + 1) BY <1>3, ExtendedFits, ExtendedCompletes
<1>5. Walked(d, a2, 2) /\ Complete(d, a2, 2) BY <1>4
<1> HIDE DEF a2
<1>6. Complete(d, Extended(d, a2), 2 + 1) BY <1>5, ExtendedCompletes
<1> QED BY <1>6 DEF PathsOf, a0, a1, a2

LEMMA Rejoined ==
    ASSUME NEW S, NEW p \in Seq(S), p # <<>>
    PROVE  /\ Front(p) \in Seq(S) /\ Last(p) \in S /\ Append(Front(p), Last(p)) = p
           /\ Len(Front(p)) = Len(p) - 1 /\ Len(p) \in Nat \ {0}
<1>1. Len(p) \in Nat /\ Len(p) > 0 OBVIOUS
<1> DEFINE n == Len(p) - 1
<1>2. n \in Nat /\ Len(p) = n + 1 BY <1>1
<1>3. \A i \in 1..n : p[i] \in S BY <1>1, LenProperties
<1>4. Last(p) = p[n + 1] /\ Last(p) \in S BY <1>2 DEF Last
<1>5. Front(p) = SubSeq(p, 1, n) BY DEF Front
<1> HIDE DEF n
<1>6. SubSeq(p, 1, n) \in Seq(S) /\ Len(SubSeq(p, 1, n)) = n /\ \A i \in 1..n : SubSeq(p, 1, n)[i] = p[i]
  BY <1>2, <1>3
<1>7. Append(SubSeq(p, 1, n), p[n + 1]) = p BY <1>2, <1>4, <1>6
<1>8. Len(p) - 1 = n BY <1>2
<1> QED BY <1>2, <1>4, <1>5, <1>6, <1>7, <1>8

\* What holds of the top and, with a path's front, of the path holds of all paths of three.
LEMMA PathInduction ==
    ASSUME NEW S, NEW D, \A p \in D : p \in Seq(S) /\ Len(p) <= 3 /\ (p # <<>> => Front(p) \in D),
           NEW G, <<>> \in G, \A p \in D : p # <<>> /\ Front(p) \in G => p \in G
    PROVE  D \subseteq G
<1>1. \A p \in D : p # <<>> => Len(Front(p)) = Len(p) - 1 /\ Len(p) \in Nat \ {0} BY Rejoined
<1>2. \A p \in D : Len(p) \in Nat OBVIOUS
<1>3. \A p \in D : Len(p) = 0 => p \in G OBVIOUS
<1>4. \A p \in D : Len(p) = 1 => p \in G
  <2> SUFFICES ASSUME NEW p \in D, Len(p) = 1 PROVE p \in G OBVIOUS
  <2>1. p # <<>>
    <3> SUFFICES ASSUME p = <<>> PROVE FALSE OBVIOUS
    <3> QED BY Len(<<>>) = 0
  <2>2. Len(Front(p)) = 0 BY <1>1, <2>1
  <2> QED BY <1>3, <2>1, <2>2
<1>5. \A p \in D : Len(p) = 2 => p \in G
  <2> SUFFICES ASSUME NEW p \in D, Len(p) = 2 PROVE p \in G OBVIOUS
  <2>1. p # <<>> BY Len(<<>>) = 0
  <2>2. Len(Front(p)) = 1 BY <1>1, <2>1, 2 - 1 = 1
  <2> QED BY <1>4, <2>1, <2>2
<1>6. \A p \in D : Len(p) = 3 => p \in G
  <2> SUFFICES ASSUME NEW p \in D, Len(p) = 3 PROVE p \in G OBVIOUS
  <2>1. p # <<>> BY Len(<<>>) = 0
  <2>2. Len(Front(p)) = 2 BY <1>1, <2>1, 3 - 1 = 2
  <2> QED BY <1>5, <2>1, <2>2
<1>7. \A m \in Nat : m <= 3 => m \in {0, 1, 2, 3} OBVIOUS
<1> QED BY <1>2, <1>3, <1>4, <1>5, <1>6, <1>7

(* Members of the stored document.                                         *)

LEMMA AllChildrenStay ==
    ASSUME NEW d, NEW ts, NEW w, NEW e, Stored(d, ts, w, e), NEW n \in DOMAIN e, n \notin ts
    PROVE  Children(e, n) = Children(d, n)
<1>1. Children(e, n) \subseteq Children(d, n) BY StoredNode DEF Children
<1>2. ASSUME NEW c \in Children(d, n) PROVE c \in Children(e, n)
  <2>1. c \in DOMAIN d /\ d[c].up = n /\ \A m \in ts : n \notin Under(d, m) BY StoredNode DEF Children
  <2>2. ASSUME NEW m \in ts, c \in Under(d, m) PROVE FALSE
    <3>1. c \in Children(d, m) \/ \E x \in Children(d, m) : c \in Children(d, x) BY <2>2 DEF Under
    <3>2. n = m \/ n \in Children(d, m) BY <2>1, <3>1 DEF Children
    <3> QED BY <2>1, <3>2 DEF Under
  <2>3. c \in DOMAIN e BY <2>1, <2>2 DEF Stored, Substitute
  <2> QED BY <2>1, <2>3, StoredNode DEF Children
<1> QED BY <1>1, <1>2

LEMMA DerefStays ==
    ASSUME NEW d, NEW ts, NEW w, NEW e, Stored(d, ts, w, e), NEW n \in DOMAIN e
    PROVE  Deref(e, n) = Deref(d, n) /\ Deref(d, n) \in DOMAIN e /\ n \in DOMAIN d
<1>1. n \in DOMAIN d /\ e[n].to = d[n].to /\ e[n].kind = (IF n \in ts THEN "ref" ELSE d[n].kind) BY StoredNode
<1>2. n \in ts => d[n].kind # "alias" BY DEF Stored, ValueOf
<1>3. CASE d[n].kind = "alias"
  <2>1. d[n].to \in DOMAIN d /\ d[d[n].to].anchor BY <1>1, <1>3 DEF Stored, Document
  <2> QED BY <1>1, <1>2, <1>3, <2>1, AnchorStays DEF Deref
<1>4. CASE d[n].kind # "alias" BY <1>1, <1>4 DEF Deref
<1> QED BY <1>3, <1>4

\* A reference has no member; every other node keeps its own.
LEMMA MemberStays ==
    ASSUME NEW d, NEW ts, NEW w, NEW e, Stored(d, ts, w, e), NEW n \in DOMAIN e, NEW l
    PROVE  /\ Deref(d, n) \in ts => Member(e, n, l) = 0
           /\ Deref(d, n) \notin ts => Member(e, n, l) = Member(d, n, l)
<1> DEFINE m == Deref(d, n)
           fd == {c \in Children(d, m) : KeyText(d, c) = l}
           fe == {c \in Children(e, m) : KeyText(e, c) = l}
<1>1. Deref(e, n) = m /\ m \in DOMAIN e BY DerefStays
<1>2. e[m].kind = IF m \in ts THEN "ref" ELSE d[m].kind BY <1>1, StoredNode
<1>3. /\ Member(e, n, l) = IF e[m].kind \in {"map", "host"} /\ fe # {} THEN Deref(e, CHOOSE c \in fe : TRUE) ELSE 0
      /\ Member(d, n, l) = IF d[m].kind \in {"map", "host"} /\ fd # {} THEN Deref(d, CHOOSE c \in fd : TRUE) ELSE 0
  BY <1>1 DEF Member
<1> HIDE DEF m
<1>4. CASE m \in ts BY <1>2, <1>3, <1>4 DEF m
<1>5. CASE m \notin ts
  <2>1. Children(e, m) = Children(d, m) BY <1>1, <1>5, AllChildrenStay
  <2>2. \A c \in Children(e, m) : c \in DOMAIN e /\ KeyText(e, c) = KeyText(d, c) BY KeyTextStays DEF Children
  <2>3. fe = fd BY <2>1, <2>2
  <2>4. fe # {} => (CHOOSE c \in fe : TRUE) \in DOMAIN e BY <2>2
  <2>5. fe # {} => Deref(e, CHOOSE c \in fe : TRUE) = Deref(d, CHOOSE c \in fe : TRUE) BY <2>4, DerefStays
  <2> HIDE DEF fe, fd
  <2> QED BY <1>2, <1>3, <1>5, <2>3, <2>5 DEF m
<1> QED BY <1>4, <1>5

\* A member that is found is a node, and its key a key of the document.
LEMMA MemberKey ==
    ASSUME NEW d, Document(d), NEW n \in DOMAIN d, NEW l, Member(d, n, l) # 0
    PROVE  /\ Member(d, n, l) \in DOMAIN d /\ d[Member(d, n, l)].kind # "alias" /\ l \in Keys(d)
           /\ d[Deref(d, n)].kind \in {"map", "host"}
           /\ \E c \in Children(d, Deref(d, n)) : /\ c \in DOMAIN d \ {1} /\ KeyText(d, c) = l
                                                  /\ Member(d, n, l) = Deref(d, c)
<1> DEFINE m == Deref(d, n)
           found == {c \in Children(d, m) : KeyText(d, c) = l}
<1>1. m \in DOMAIN d BY DerefIn
<1>2. d[m].kind \in {"map", "host"} /\ found # {} /\ Member(d, n, l) = Deref(d, CHOOSE c \in found : TRUE) BY DEF Member
<1>3. PICK c \in found : Member(d, n, l) = Deref(d, c) BY <1>2
<1>4. c \in DOMAIN d /\ d[c].up = m /\ KeyText(d, c) = l BY <1>3 DEF Children
<1>5. c # 1 BY <1>1, <1>4 DEF Document
<1>6. l \in Keys(d) BY <1>4, <1>5 DEF Keys
<1> QED BY <1>2, <1>3, <1>4, <1>5, <1>6, DerefIn

(* What an extraction that no rule refuses has established besides.        *)

LEMMA UnrefusedBesides ==
    ASSUME NEW d, NEW at, NEW marks, NEW outer, NEW named, NEW ts, NEW e,
           Extraction(d, at, marks, outer, named, ts, e).rule = None
    PROVE  /\ Parses(d) /\ ~Indirect(d) /\ LoadsStored(d, at, outer) /\ ~HoldersRemoved(d, e)
           /\ \A n \in DOMAIN named : \A m \in Inside(d, named, n) : ReachedOnlyThrough(d, named, n, m)
<1> DEFINE identified == Identified(d, at, marks, outer, named)
           g == GuardRefusal(d, ts, e)
           P == ~Parses(d)
           Q == ~WellPlaced(d)
<1> HIDE DEF identified, g
<1>1. Extraction(d, at, marks, outer, named, ts, e).rule =
        CASE P -> "parse" [] Q -> "tag-placement" [] identified # None -> identified [] OTHER -> g
  BY DEF Extraction, identified, g
<1> HIDE DEF P, Q
<1>2. ~P /\ identified = None /\ g = None BY <1>1 DEF None
<1>3. ~Indirect(d) /\ LoadsStored(d, at, outer)
      /\ \A n \in DOMAIN named : \A m \in Inside(d, named, n) : ReachedOnlyThrough(d, named, n, m)
  <2> DEFINE A == ~Loads(d, at, {})
             B == \E n \in outer : ~ValueOf(d, n)
             C == ~LoadsStored(d, at, outer)
             D == \E n \in outer : ReferenceHolder(d, n)
             E == \E p \in marks : ~Embedded(d, at, p, outer)
             F == \E n \in DOMAIN named : ~ValueOf(d, n)
             G == \E n \in DOMAIN named : \E m \in Inside(d, named, n) : ~ReachedOnlyThrough(d, named, n, m)
             I == Indirect(d)
  <2>1. identified = CASE A -> "schema-unloadable" [] I -> "schema-indirect" [] B -> "mark-kind"
                       [] C -> "schema-unloadable" [] D -> "mark-kind" [] E -> "embedded"
                       [] F -> "mark-kind" [] G -> "mark-kind" [] OTHER -> None
    BY DEF Identified, identified
  <2> HIDE DEF A, B, C, D, E, F, G, I
  <2>2. ~I /\ ~C /\ ~G BY <1>2, <2>1 DEF None
  <2> QED BY <2>2, Zenon DEF C, G, I
<1>4. ~HoldersRemoved(d, e)
  <2> DEFINE A == Copies(e, {PlainOf(d, n) : n \in ts})
             B == ~WellPlaced(e)
             C == HoldersRemoved(d, e)
  <2>1. g = CASE A -> "guard" [] B -> "tag-placement" [] C -> "embedded" [] OTHER -> None BY DEF GuardRefusal, g
  <2> HIDE DEF A, B, C
  <2>2. ~C BY <1>2, <2>1 DEF None
  <2> QED BY <2>2 DEF C
<1> QED BY <1>2, <1>3, <1>4 DEF P

\* An extraction of d that nothing refused, with what each of its checks found.
Cleared(d, at, marks, ts, e) ==
    /\ Extracts(d, at, marks, ts, e) /\ at = PathsOf(d)
    /\ Parses(d) /\ ~Indirect(d) /\ ~HoldersRemoved(d, e)
    /\ Loads(d, at, DOMAIN Named(d, at, marks \ Inner(d, at, marks)))
    /\ \A n \in DOMAIN Named(d, at, marks) : ValueOf(d, n)
    /\ \A n \in DOMAIN Named(d, at, marks) : \A m \in Inside(d, Named(d, at, marks), n) : d[m].kind # "alias"

LEMMA ClearedWhenUnrefused ==
    ASSUME NEW d, Document(d), NEW marks \in Marks(d), NEW x, x = Extracted(d, marks), x.rule = None
    PROVE  Cleared(d, PathsOf(d), marks, x.targets, x.doc)
<1> DEFINE at == PathsOf(d)
           named == Named(d, at, marks)
           outer == DOMAIN Named(d, at, marks \ Inner(d, at, marks))
           ts == Targets(d, named)
           e == Substitute(d, ts, WrittenBack(d, at, marks))
<1>1. x = Extraction(d, at, marks, outer, named, ts, e) BY DEF Extracted, ExtractAt, Coalesced, Substituted
<1>2. Extracts(d, at, marks, x.targets, x.doc) BY ExtractsWhenUnrefused
<1> HIDE DEF at, named, outer, ts, e
<1>3. x.targets = ts /\ x.doc = e BY <1>1 DEF Extraction
<1>4. \A n \in DOMAIN named : ValueOf(d, n) BY <1>1, Unrefused
<1>5. /\ Parses(d) /\ ~Indirect(d) /\ LoadsStored(d, at, outer) /\ ~HoldersRemoved(d, e)
      /\ \A n \in DOMAIN named : \A m \in Inside(d, named, n) : ReachedOnlyThrough(d, named, n, m)
  BY <1>1, UnrefusedBesides
<1>6. \A n \in DOMAIN named : \A m \in Inside(d, named, n) : d[m].kind # "alias" BY <1>5 DEF ReachedOnlyThrough
<1>7. Loads(d, at, outer) BY <1>5 DEF LoadsStored
<1> QED BY <1>2, <1>3, <1>4, <1>5, <1>6, <1>7 DEF Cleared, at, named, outer

\* The targets that are substituted: scalars, and mappings of scalars, in the spelling a reference renders.
LEMMA MemberOfChild ==
    ASSUME NEW d, Document(d), Parses(d), NEW n \in DOMAIN d, d[n].kind = "map", NEW c \in Children(d, n)
    PROVE  Member(d, n, KeyText(d, c)) = Deref(d, c)
<1> DEFINE found == {x \in Children(d, n) : KeyText(d, x) = KeyText(d, c)}
<1>1. Deref(d, n) = n BY DEF Deref
<1>2. c \in found OBVIOUS
<1>3. Member(d, n, KeyText(d, c)) = Deref(d, CHOOSE x \in found : TRUE) BY <1>1, <1>2 DEF Member
<1>4. (CHOOSE x \in found : TRUE) \in found BY <1>2
<1>5. \A x \in Children(d, n) : x \in DOMAIN d \ {1} /\ d[x].up = n BY DEF Children, Document
<1>6. \A x \in found : x = c BY <1>5 DEF Parses
<1> QED BY <1>3, <1>4, <1>6

LEMMA PlainMapping ==
    ASSUME NEW d, NEW n, d[n].kind = "map"
    PROVE  /\ PlainOf(d, n).map = TRUE
           /\ DOMAIN PlainOf(d, n).texts = {KeyText(d, m) : m \in Children(d, n)}
           /\ \A k \in DOMAIN PlainOf(d, n).texts :
                PlainOf(d, n).texts[k] = {Decoded(t) : t \in TextOf(d, Member(d, n, k))}
BY DEF PlainOf

LEMMA PlainText ==
    ASSUME NEW d, NEW n, d[n].kind # "map"
    PROVE  /\ PlainOf(d, n).map = FALSE
           /\ PlainOf(d, n).texts["."] = {Decoded(t) : t \in TextOf(d, n)}
BY DEF PlainOf

\* The guard refuses a target whose member's text is still persisted.
LEMMA MemberNotKept ==
    ASSUME NEW d, NEW at, NEW marks, NEW ts, NEW e, Cleared(d, at, marks, ts, e), NEW n \in ts, d[n].kind = "map",
           NEW c \in Children(d, n), NEW t \in TextOf(d, Deref(d, c)), NEW s \in ScalarTexts(e), s = t
    PROVE  FALSE
<1> DEFINE vals == {PlainOf(d, m) : m \in ts}
           v == PlainOf(d, n)
           k == KeyText(d, c)
<1>1. Document(d) /\ Parses(d) /\ n \in DOMAIN d /\ ~Copies(e, vals) BY DEF Cleared, Extracts, Stored
<1>2. v \in vals OBVIOUS
<1>3. k \in DOMAIN v.texts /\ v.texts[k] = {Decoded(x) : x \in TextOf(d, Deref(d, c))}
  <2>1. Member(d, n, k) = Deref(d, c) BY <1>1, MemberOfChild
  <2>2. /\ DOMAIN v.texts = {KeyText(d, m) : m \in Children(d, n)}
        /\ \A j \in DOMAIN v.texts : v.texts[j] = {Decoded(x) : x \in TextOf(d, Member(d, n, j))}
    BY PlainMapping
  <2>3. k \in DOMAIN v.texts BY <2>2
  <2> HIDE DEF v, k
  <2> QED BY <2>1, <2>2, <2>3
<1> HIDE DEF vals, v, k
<1>4. Decoded(t) \in Scalars(vals) BY <1>2, <1>3 DEF Scalars
<1>5. Same(s, Decoded(t)) BY DEF Same, Decoded
<1> QED BY <1>1, <1>4, <1>5 DEF Copies

LEMMA KeyIsScalarText ==
    ASSUME NEW d, Document(d), NEW n \in DOMAIN d \ {1}
    PROVE  KeyText(d, n) \in ScalarTexts(d)
<1>1. CASE d[n].keyTo = 0 BY <1>1 DEF KeyText, ScalarTexts
<1>2. CASE d[n].keyTo # 0
  <2>1. d[n].keyTo \in DOMAIN d \ {1} /\ d[d[n].keyTo].kind = "scalar" BY <1>2 DEF Document
  <2> QED BY <1>2, <2>1 DEF KeyText, ScalarTexts
<1> QED BY <1>1, <1>2

LEMMA TargetForms ==
    ASSUME NEW d, Regular(d), NEW at, NEW marks, NEW ts, NEW e, Cleared(d, at, marks, ts, e), NEW n \in ts
    PROVE  /\ n \in DOMAIN d \ {1}
           /\ \/ d[n].kind = "scalar" /\ ScalarValue(d[n].text)
              \/ /\ d[n].kind = "map"
                 /\ \A c \in Children(d, n) : c \in DOMAIN d \ {1} /\ d[c].kind = "scalar" /\ ScalarValue(d[c].text)
<1> DEFINE w == WrittenBack(d, at, marks)
           named == Named(d, at, marks)
<1>1. /\ Document(d) /\ Stored(d, ts, w, e) /\ ValueOf(d, n) /\ n \in DOMAIN d /\ ~HoldersRemoved(d, e)
      /\ ts = Targets(d, named) /\ WellPlaced(e)
      /\ \A x \in DOMAIN named : \A m \in Inside(d, named, x) : d[m].kind # "alias"
  BY DEF Cleared, Extracts, Stored
<1>2. n # 1
  <2>1. 1 \in DOMAIN e BY <1>1, StoredIsDocument DEF Document
  <2> QED BY <1>1, <2>1, StoredNode DEF WellPlaced
<1>3. d[n].kind # "host"
  <2>1. n \in DOMAIN e => e[n].kind = "ref" BY <1>1, StoredNode
  <2> QED BY <1>1, <2>1 DEF HoldersRemoved
<1>4. CASE d[n].kind = "map"
  <2> SUFFICES ASSUME NEW c \in Children(d, n)
               PROVE  c \in DOMAIN d \ {1} /\ d[c].kind = "scalar" /\ ScalarValue(d[c].text)
    BY <1>1, <1>2, <1>4
  <2>1. c \in DOMAIN d \ {1} /\ d[c].up = n BY <1>1 DEF Children, Document
  <2> DEFINE s == Deref(d, c)
  <2>2. d[s].kind = "host" \/ (d[s].kind = "scalar" /\ ScalarValue(d[s].text)) BY <1>1, <1>4 DEF ValueOf
  <2>3. CASE d[c].kind # "alias"
    <3>1. s = c BY <2>3 DEF Deref
    <3>2. c \notin DOMAIN e
      <4>1. c \in Under(d, n) BY DEF Under
      <4> QED BY <1>1, <4>1, StoredNode
    <3>3. d[c].kind # "host" BY <1>1, <2>1, <3>2 DEF HoldersRemoved
    <3> QED BY <2>1, <2>2, <3>1, <3>3
  <2>4. CASE d[c].kind = "alias"
    <3>1. s = d[c].to /\ s \in DOMAIN d /\ d[s].anchor /\ s # 1 BY <1>1, <2>1, <2>4 DEF Deref, Document
    <3>2. s \in DOMAIN e BY <1>1, <3>1, AnchorStays
    <3>3. s \notin ts
      <4> SUFFICES ASSUME s \in ts PROVE FALSE OBVIOUS
      <4>1. s \in DOMAIN named /\ n \in DOMAIN named BY <1>1 DEF Targets
      <4>2. c \in Inside(d, named, n) BY <1>4, <4>1 DEF Inside
      <4> QED BY <1>1, <2>4, <4>1, <4>2
    <3>4. e[s].kind = d[s].kind /\ e[s].text = d[s].text BY <1>1, <3>2, <3>3, StoredNode
    <3> HIDE DEF s
    <3>5. CASE d[s].kind = "host"
      <4>1. PICK x \in Children(d, s) : TRUE BY <3>1, <3>5 DEF Regular
      <4>2. x \in Children(e, s) BY <1>1, <3>2, <3>3, AllChildrenStay
      <4>3. KeyText(e, x) = KeyText(d, x) BY <1>1, <4>2, KeyTextStays DEF Children
      <4>4. KeyText(d, x) \in TextOf(d, s) BY <3>5, HostText DEF Inscribed
      <4>5. Document(e) /\ x \in DOMAIN e \ {1} BY <1>1, <3>1, <4>2, StoredIsDocument DEF Document, Children
      <4>6. KeyText(e, x) \in ScalarTexts(e) BY <4>5, KeyIsScalarText
      <4> QED BY <1>4, <4>3, <4>4, <4>6, MemberNotKept DEF s
    <3>6. CASE d[s].kind = "scalar"
      <4>1. TextOf(d, s) = {d[s].text} BY <3>6, Zenon DEF TextOf
      <4>2. TextOf(e, s) = {e[s].text} BY <3>4, <3>6, Zenon DEF TextOf
      <4>3. e[s].text \in ScalarTexts(e) BY <3>1, <3>2, <3>4, <3>6 DEF ScalarTexts
      <4> QED BY <1>4, <3>4, <4>1, <4>3, MemberNotKept DEF s
    <3> QED BY <2>2, <3>5, <3>6 DEF s
  <2> QED BY <2>3, <2>4
<1> QED BY <1>1, <1>2, <1>3, <1>4 DEF ValueOf

\* A target stays, as a reference; what else is named stands in a target.
LEMMA TargetsStay ==
    ASSUME NEW d, Regular(d), NEW at, NEW marks, NEW ts, NEW e, Cleared(d, at, marks, ts, e)
    PROVE  /\ ts \subseteq DOMAIN e
           /\ \A n \in DOMAIN Named(d, at, marks) : n \in DOMAIN e => n \in ts
<1> DEFINE w == WrittenBack(d, at, marks)
           named == Named(d, at, marks)
<1>1. /\ Document(d) /\ Stored(d, ts, w, e) /\ ts = Targets(d, named)
      /\ \A x \in DOMAIN named : ValueOf(d, x)
      /\ \A x \in DOMAIN named : \A m \in Inside(d, named, x) : d[m].kind # "alias"
  BY DEF Cleared, Extracts
<1>2. \A n \in ts : n \in DOMAIN named BY <1>1 DEF Targets
<1>3. ASSUME NEW n \in ts PROVE n \in DOMAIN e
  <2>1. n \in DOMAIN d /\ d[n].kind \in {"scalar", "map"} BY TargetForms
  <2> SUFFICES ASSUME NEW m \in ts, n \in Under(d, m) PROVE FALSE BY <1>1, <2>1 DEF Stored, Substitute
  <2>2. /\ d[m].kind = "scalar" \/ d[m].kind = "map"
        /\ d[m].kind = "map" => \A c \in Children(d, m) : d[c].kind = "scalar"
        /\ m \in DOMAIN d
    BY TargetForms
  <2>3. \A c \in Children(d, m) : c \in DOMAIN d /\ c # 1 /\ d[m].kind = "map"
    BY <1>1, <2>2 DEF Children, Document
  <2>4. n \in Children(d, m)
    <3> SUFFICES ASSUME NEW c \in Children(d, m), n \in Children(d, c) PROVE FALSE BY DEF Under
    <3>1. d[c].kind = "scalar" BY <2>2, <2>3
    <3>2. n # 1 /\ d[n].up = c BY <1>1, <2>1, <2>3 DEF Children, Document
    <3> QED BY <1>1, <2>1, <3>1, <3>2 DEF Document
  <2>5. d[m].kind = "map" /\ d[n].kind = "scalar" BY <2>2, <2>3, <2>4
  <2>6. Deref(d, n) = n BY <2>5 DEF Deref
  <2>7. n \in Inside(d, named, m) BY <1>2, <2>4, <2>5, <2>6 DEF Inside
  <2> QED BY <1>1, <1>2, <2>6, <2>7 DEF Targets
<1>4. ASSUME NEW n \in DOMAIN named, n \in DOMAIN e, n \notin ts PROVE FALSE
  <2>1. PICK x \in DOMAIN named : n \in {Deref(d, m) : m \in Inside(d, named, x)} BY <1>1, <1>4 DEF Targets
  <2>2. PICK m \in Inside(d, named, x) : n = Deref(d, m) BY <2>1
  <2>3. n = m /\ m \in Children(d, x) /\ d[x].kind = "map" BY <1>1, <2>2 DEF Deref, Inside
  <2>4. CASE x \in ts
    <3>1. m \in Under(d, x) BY <2>3 DEF Under
    <3> QED BY <1>1, <1>4, <2>3, <2>4, <3>1, StoredNode
  <2>5. CASE x \notin ts
    <3>1. PICK y \in DOMAIN named : x \in {Deref(d, j) : j \in Inside(d, named, y)} BY <1>1, <2>5 DEF Targets
    <3>2. PICK j \in Inside(d, named, y) : x = Deref(d, j) BY <3>1
    <3>3. j \in Children(d, y) /\ d[y].kind = "map" /\ ValueOf(d, y) BY <1>1, <3>2 DEF Inside
    <3> QED BY <2>3, <3>2, <3>3 DEF ValueOf
  <2> QED BY <2>4, <2>5
<1> QED BY <1>3, <1>4

\* The paths that go into no target are the stored document's, to the same nodes; the others go one step
\* into one.
Tracks(at, bt, ts) ==
    /\ \A p \in DOMAIN bt : p \in DOMAIN at /\ bt[p] = at[p] /\ (p # <<>> => at[Front(p)] \notin ts)
    /\ \A p \in DOMAIN at : p \in DOMAIN bt \/ (p # <<>> /\ Front(p) \in DOMAIN bt /\ at[Front(p)] \in ts)

LEMMA PathsFollow ==
    ASSUME NEW d, Regular(d), NEW at, NEW marks, NEW ts, NEW e, Cleared(d, at, marks, ts, e)
    PROVE  /\ Tracks(at, PathsOf(e), ts)
           /\ \A p \in DOMAIN PathsOf(e) : \A k \in Keys(e) :
                Member(e, PathsOf(e)[p], k) # 0 => Append(p, k) \in DOMAIN PathsOf(e)
<1> DEFINE w == WrittenBack(d, at, marks)
           bt == PathsOf(e)
<1>1. Document(d) /\ Stored(d, ts, w, e) /\ at = PathsOf(d) BY DEF Cleared, Extracts
<1>2. Document(e) BY <1>1, StoredIsDocument
<1>3. Walked(d, at, 3) /\ Walked(e, bt, 3) /\ Complete(e, bt, 3) BY <1>1, <1>2, PathsFit, PathsComplete
<1>4. \A p \in DOMAIN at : \A k \in Keys(d) : Member(d, at[p], k) # 0 => Append(p, k) \in DOMAIN at BY <1>1 DEF Regular
<1> HIDE DEF bt
<1>5. ASSUME NEW n \in DOMAIN e, e[n].kind # "alias", NEW l
      PROVE  /\ n \in ts => Member(e, n, l) = 0
             /\ n \notin ts => Member(e, n, l) = Member(d, n, l)
             /\ Member(e, n, l) # 0 => n \notin ts /\ l \in Keys(e) /\ l \in Keys(d)
  <2>1. Deref(e, n) = n BY <1>5 DEF Deref
  <2>2. Deref(d, n) = n BY <1>1, <2>1, DerefStays
  <2>3. (n \in ts => Member(e, n, l) = 0) /\ (n \notin ts => Member(e, n, l) = Member(d, n, l)) BY <1>1, <2>2, MemberStays
  <2>4. Member(e, n, l) # 0 => l \in Keys(e) BY <1>2, MemberKey
  <2>5. n \in DOMAIN d BY <1>1, StoredNode
  <2>6. Member(d, n, l) # 0 => l \in Keys(d) BY <1>1, <2>5, MemberKey
  <2> QED BY <2>3, <2>4, <2>6
<1>6. \A p \in DOMAIN bt : p \in DOMAIN at /\ bt[p] = at[p] /\ (p # <<>> => at[Front(p)] \notin ts)
  <2> DEFINE G == {p \in DOMAIN bt : p \in DOMAIN at /\ bt[p] = at[p] /\ (p # <<>> => at[Front(p)] \notin ts)}
  <2>1. <<>> \in G BY <1>3 DEF Walked
  <2>2. \A p \in DOMAIN bt : p \in Seq(Texts) /\ Len(p) <= 3 /\ (p # <<>> => Front(p) \in DOMAIN bt) BY <1>3 DEF Walked
  <2>3. ASSUME NEW p \in DOMAIN bt, p # <<>>, Front(p) \in G PROVE p \in G
    <3> DEFINE q == Front(p)
               l == Last(p)
               n == bt[q]
    <3>1. p \in Seq(Texts) /\ q \in DOMAIN bt /\ bt[p] = Member(e, n, l) /\ n \in DOMAIN e /\ e[n].kind # "alias" /\ bt[p] \in DOMAIN e
      BY <1>3, <2>3 DEF Walked
    <3>2. q \in DOMAIN at /\ n = at[q] BY <2>3
    <3>3. bt[p] # 0 BY <1>2, <3>1 DEF Document
    <3>4. Append(q, l) = p BY <2>3, <3>1, Rejoined
    <3> HIDE DEF n, q, l
    <3>5. n \notin ts /\ l \in Keys(d) /\ Member(d, n, l) = bt[p] BY <1>5, <3>1, <3>3
    <3>6. p \in DOMAIN at BY <1>4, <3>2, <3>3, <3>4, <3>5
    <3>7. at[p] = Member(d, at[q], l) BY <1>3, <2>3, <3>6 DEF Walked, q, l
    <3> QED BY <3>2, <3>5, <3>6, <3>7 DEF q
  <2> HIDE DEF G
  <2>4. DOMAIN bt \subseteq G BY <2>1, <2>2, <2>3, PathInduction
  <2> QED BY <2>4 DEF G
<1>7. \A p \in DOMAIN bt : \A k \in Keys(e) : Member(e, bt[p], k) # 0 => Append(p, k) \in DOMAIN bt
  <2> SUFFICES ASSUME NEW p \in DOMAIN bt, NEW k \in Keys(e), Member(e, bt[p], k) # 0 PROVE Append(p, k) \in DOMAIN bt OBVIOUS
  <2>1. bt[p] \in DOMAIN e /\ e[bt[p]].kind # "alias" /\ p \in Seq(Texts) BY <1>3 DEF Walked
  <2>2. k \in Keys(d) /\ Member(d, at[p], k) # 0 /\ p \in DOMAIN at BY <1>5, <1>6, <2>1
  <2>3. Append(p, k) \in DOMAIN at BY <1>4, <2>2
  <2>4. Len(Append(p, k)) <= 3 BY <1>3, <2>3 DEF Walked
  <2>5. k \in Texts BY <1>2, KeysAreStrings
  <2>6. Len(Append(p, k)) = Len(p) + 1 /\ Len(p) \in Nat BY <2>1, <2>5, AppendedPath
  <2>7. Len(p) < 3 BY <2>4, <2>6
  <2> QED BY <1>3, <2>7 DEF Complete
<1>8. \A p \in DOMAIN at : p \in DOMAIN bt \/ (p # <<>> /\ Front(p) \in DOMAIN bt /\ at[Front(p)] \in ts)
  <2> DEFINE G == {p \in DOMAIN at : p \in DOMAIN bt \/ (p # <<>> /\ Front(p) \in DOMAIN bt /\ at[Front(p)] \in ts)}
  <2>1. <<>> \in G BY <1>3 DEF Walked
  <2>2. \A p \in DOMAIN at : p \in Seq(Texts) /\ Len(p) <= 3 /\ (p # <<>> => Front(p) \in DOMAIN at) BY <1>3 DEF Walked
  <2>3. ASSUME NEW p \in DOMAIN at, p # <<>>, Front(p) \in G PROVE p \in G
    <3> DEFINE q == Front(p)
               l == Last(p)
               n == at[q]
    <3>1. p \in Seq(Texts) /\ q \in DOMAIN at /\ at[p] = Member(d, n, l) /\ at[p] \in DOMAIN d
      BY <1>3, <2>3 DEF Walked
    <3>2. at[p] # 0 BY <1>1, <3>1 DEF Document
    <3>3. Append(q, l) = p BY <2>3, <3>1, Rejoined
    <3>4. d[n].kind \in {"map", "host"} BY <1>1, <1>3, <2>3, StepDown
    <3>5. CASE q \in DOMAIN bt /\ n \in ts BY <2>3, <3>5
    <3>6. CASE q \in DOMAIN bt /\ n \notin ts
      <4>1. n = bt[q] /\ n \in DOMAIN e /\ e[n].kind # "alias" BY <1>3, <1>6, <3>6 DEF Walked
      <4> HIDE DEF n, q, l
      <4>2. Member(e, n, l) = Member(d, n, l) /\ l \in Keys(e) BY <1>5, <3>1, <3>2, <3>6, <4>1
      <4>3. Append(q, l) \in DOMAIN bt BY <1>7, <3>1, <3>2, <3>6, <4>1, <4>2
      <4> QED BY <3>3, <4>3
    <3>7. CASE q \notin DOMAIN bt
      <4>1. q # <<>> /\ Front(q) \in DOMAIN bt /\ at[Front(q)] \in ts BY <2>3, <3>7
      <4>2. \E c \in Children(d, at[Front(q)]) : n = Deref(d, c) BY <1>1, <1>3, <3>1, <4>1, StepDown
      <4>3. d[at[Front(q)]].kind \in {"map", "host"} BY <1>1, <1>3, <3>1, <4>1, StepDown
      <4> HIDE DEF n, q, l
      <4>4. \A c \in Children(d, at[Front(q)]) : d[c].kind = "scalar" BY <4>1, <4>3, TargetForms
      <4> QED BY <3>4, <4>2, <4>4 DEF Deref
    <3> QED BY <3>5, <3>6, <3>7
  <2> HIDE DEF G
  <2>4. DOMAIN at \subseteq G BY <2>1, <2>2, <2>3, PathInduction
  <2> QED BY <2>4 DEF G
<1> QED BY <1>6, <1>7, <1>8 DEF Tracks, bt

\* The stored document is as regular as the one it is of.
LEMMA StoredIsRegular ==
    ASSUME NEW d, Regular(d), NEW at, NEW marks, NEW ts, NEW e, Cleared(d, at, marks, ts, e)
    PROVE  Document(e) /\ Regular(e)
<1> DEFINE w == WrittenBack(d, at, marks)
<1>1. Document(d) /\ Stored(d, ts, w, e) BY DEF Cleared, Extracts
<1>2. Document(e) BY <1>1, StoredIsDocument
<1>3. ASSUME NEW n \in DOMAIN e, e[n].kind = "host" PROVE Children(e, n) # {}
  <2>1. n \in DOMAIN d /\ n \notin ts /\ d[n].kind = "host" BY <1>1, <1>3, StoredNode
  <2>2. Children(d, n) # {} BY <2>1 DEF Regular
  <2> QED BY <1>1, <2>1, <2>2, AllChildrenStay
<1>4. ASSUME NEW n \in DOMAIN e \ {1}, KeyText(e, n) = "<<" PROVE e[Deref(e, n)].kind \in {"map", "ref"}
  <2>1. KeyText(d, n) = "<<" BY <1>1, <1>4, KeyTextStays
  <2>2. Deref(e, n) = Deref(d, n) /\ Deref(d, n) \in DOMAIN e /\ n \in DOMAIN d \ {1} BY <1>1, DerefStays
  <2>3. d[Deref(d, n)].kind \in {"map", "ref"} BY <2>1, <2>2 DEF Regular
  <2> QED BY <1>1, <2>2, <2>3, StoredNode
<1>5. \A p \in DOMAIN PathsOf(e) : \A k \in Keys(e) :
        Member(e, PathsOf(e)[p], k) # 0 => Append(p, k) \in DOMAIN PathsOf(e)
  BY PathsFollow
<1> QED BY <1>2, <1>3, <1>4, <1>5 DEF Regular

(* The tree a stored document resolves to.                                 *)

\* The paths at which Resolve places a mapping's members.
PlacedAt(d, at, vals) ==
    UNION {{Append(p, k) : k \in DOMAIN vals[at[p]].texts} :
             p \in {q \in DOMAIN at : d[at[q]].kind = "ref" /\ vals[at[q]].map}}

LEMMA TreeIs ==
    ASSUME NEW d, NEW vals
    PROVE  LET at == PathsOf(d) IN
           /\ Tree(d, vals) = [p \in DOMAIN at \cup PlacedAt(d, at, vals) |-> Tree(d, vals)[p]]
           /\ DOMAIN Tree(d, vals) = DOMAIN at \cup PlacedAt(d, at, vals)
           /\ \A p \in DOMAIN at : Tree(d, vals)[p] = Resolved(d, at[p], vals)
           /\ \A p \in PlacedAt(d, at, vals) \ DOMAIN at :
                Tree(d, vals)[p] = Leaf(vals[at[Front(p)]].texts[Last(p)])
<1> DEFINE at == PathsOf(d)
           f == [p \in DOMAIN at \cup PlacedAt(d, at, vals) |->
                   IF p \in DOMAIN at THEN Resolved(d, at[p], vals)
                   ELSE Leaf(vals[at[Front(p)]].texts[Last(p)])]
<1> HIDE DEF at
<1>1. ResolvedAt(d, at, vals) = f BY DEF ResolvedAt, PlacedAt
<1>2. Tree(d, vals) = f BY <1>1 DEF Tree, at
<1>3. /\ f = [p \in DOMAIN at \cup PlacedAt(d, at, vals) |-> f[p]]
      /\ DOMAIN f = DOMAIN at \cup PlacedAt(d, at, vals)
      /\ \A p \in DOMAIN at : f[p] = Resolved(d, at[p], vals)
      /\ \A p \in PlacedAt(d, at, vals) \ DOMAIN at : f[p] = Leaf(vals[at[Front(p)]].texts[Last(p)])
  OBVIOUS
<1> HIDE DEF f
<1> QED BY <1>2, <1>3 DEF at

LEMMA ScalarText ==
    ASSUME NEW d, NEW n, d[n].kind = "scalar"
    PROVE  TextOf(d, n) = {d[n].text} /\ \A vals : Resolved(d, n, vals) = Leaf({d[n].text})
<1>1. TextOf(d, n) = {d[n].text} BY Zenon DEF TextOf
<1>2. \A vals : Resolved(d, n, vals) = Leaf(TextOf(d, n)) BY DEF Resolved
<1> QED BY <1>1, <1>2

LEMMA SpellingKept ==
    ASSUME NEW t, ScalarValue(t)
    PROVE  {Decoded(x) : x \in {t}} = {t}
BY DEF ScalarValue, Decoded

\* The references of d have values, and those of ts get theirs.
Given(d, ts, vals, more) ==
    /\ \A n \in DOMAIN d : d[n].kind = "ref" => more[n] = vals[n]
    /\ \A n \in ts : more[n] = PlainOf(d, n)

LEMMA NodeResolves ==
    ASSUME NEW d, Regular(d), NEW at, NEW marks, NEW ts, NEW e, Cleared(d, at, marks, ts, e), NEW vals, NEW more,
           Given(d, ts, vals, more), NEW n \in DOMAIN e, d[n].kind # "alias"
    PROVE  Resolved(e, n, more) = Resolved(d, n, vals)
<1> DEFINE w == WrittenBack(d, at, marks)
<1>1. Document(d) /\ Stored(d, ts, w, e) BY DEF Cleared, Extracts
<1>2. /\ n \in DOMAIN d /\ e[n].kind = (IF n \in ts THEN "ref" ELSE d[n].kind)
      /\ n \notin ts => e[n].text = d[n].text
      /\ d[n] \in Nodes
  BY <1>1, StoredNode
<1>3. CASE n \in ts
  <2>1. Resolved(e, n, more) = IF more[n].map THEN Mapping ELSE Leaf(more[n].texts["."]) BY <1>2, <1>3 DEF Resolved
  <2>2. more[n] = PlainOf(d, n) BY <1>3 DEF Given
  <2>3. CASE d[n].kind = "map"
    <3>1. more[n].map BY <2>2, <2>3, PlainMapping
    <3>2. Resolved(d, n, vals) = Mapping BY <2>3 DEF Resolved
    <3> QED BY <2>1, <3>1, <3>2
  <2>4. CASE d[n].kind = "scalar" /\ ScalarValue(d[n].text)
    <3>1. TextOf(d, n) = {d[n].text} /\ Resolved(d, n, vals) = Leaf({d[n].text}) BY <2>4, ScalarText
    <3>2. ~more[n].map /\ more[n].texts["."] = {Decoded(x) : x \in TextOf(d, n)} BY <2>2, <2>4, PlainText
    <3>3. more[n].texts["."] = {d[n].text} BY <2>4, <3>1, <3>2, SpellingKept
    <3> QED BY <2>1, <3>1, <3>2, <3>3
  <2> QED BY <1>3, <2>3, <2>4, TargetForms
<1>4. CASE n \notin ts
  <2>1. e[n].kind = d[n].kind /\ e[n].text = d[n].text BY <1>2, <1>4
  <2>2. CASE d[n].kind = "ref"
    <3>1. more[n] = vals[n] BY <1>2, <2>2 DEF Given
    <3>2. Resolved(d, n, vals) = IF vals[n].map THEN Mapping ELSE Leaf(vals[n].texts["."]) BY <2>2 DEF Resolved
    <3>3. Resolved(e, n, more) = IF more[n].map THEN Mapping ELSE Leaf(more[n].texts["."]) BY <2>1, <2>2 DEF Resolved
    <3> QED BY <3>1, <3>2, <3>3
  <2>3. CASE d[n].kind \in {"map", "host"} BY <2>1, <2>3 DEF Resolved
  <2>4. CASE d[n].kind = "scalar"
    <3>1. e[n].kind = "scalar" BY <2>1, <2>4
    <3>2. Resolved(d, n, vals) = Leaf({d[n].text}) BY <2>4, ScalarText
    <3>3. Resolved(e, n, more) = Leaf({e[n].text}) BY <3>1, ScalarText
    <3> QED BY <2>1, <3>2, <3>3
  <2> QED BY <1>2, <2>2, <2>3, <2>4 DEF Nodes
<1> QED BY <1>3, <1>4

LEMMA FrontOfAppend ==
    ASSUME NEW S, NEW p \in Seq(S), NEW k
    PROVE  Front(Append(p, k)) = p /\ Last(Append(p, k)) = k
<1> DEFINE T == S \cup {k}
<1>1. p \in Seq(T) BY SeqMonotonic
<1>2. k \in T OBVIOUS
<1> HIDE DEF T
<1> QED BY <1>1, <1>2, AppendedPath

LEMMA TreeStays ==
    ASSUME NEW d, Regular(d), NEW at, NEW marks, NEW ts, NEW e, Cleared(d, at, marks, ts, e), NEW vals, NEW more,
           Given(d, ts, vals, more)
    PROVE  Tree(e, more) = Tree(d, vals)
<1> DEFINE w == WrittenBack(d, at, marks)
           bt == PathsOf(e)
           pd == PlacedAt(d, at, vals)
           pe == PlacedAt(e, bt, more)
<1>1. Document(d) /\ Stored(d, ts, w, e) /\ at = PathsOf(d) /\ Parses(d) BY DEF Cleared, Extracts
<1>2. Document(e) BY <1>1, StoredIsDocument
<1>3. Walked(d, at, 3) /\ Walked(e, bt, 3) BY <1>1, <1>2, PathsFit
<1>4. Tracks(at, bt, ts) BY PathsFollow
<1>5. \A p \in DOMAIN at : \A k \in Keys(d) : Member(d, at[p], k) # 0 => Append(p, k) \in DOMAIN at BY <1>1 DEF Regular
<1>6. /\ Tree(e, more) = [p \in DOMAIN bt \cup pe |-> Tree(e, more)[p]]
      /\ \A p \in DOMAIN bt : Tree(e, more)[p] = Resolved(e, bt[p], more)
      /\ \A p \in pe \ DOMAIN bt : Tree(e, more)[p] = Leaf(more[bt[Front(p)]].texts[Last(p)])
  BY TreeIs
<1>7. /\ Tree(d, vals) = [p \in DOMAIN at \cup pd |-> Tree(d, vals)[p]]
      /\ \A p \in DOMAIN at : Tree(d, vals)[p] = Resolved(d, at[p], vals)
      /\ \A p \in pd \ DOMAIN at : Tree(d, vals)[p] = Leaf(vals[at[Front(p)]].texts[Last(p)])
  BY <1>1, TreeIs
<1> DEFINE te == Tree(e, more)
           td == Tree(d, vals)
<1> HIDE DEF bt, te, td
<1>8. \A p \in pe : \E q, k : q \in DOMAIN bt /\ k \in DOMAIN more[bt[q]].texts /\ p = Append(q, k) /\ e[bt[q]].kind = "ref" /\ more[bt[q]].map
  BY DEF PlacedAt
<1>9. \A p \in pd : \E q, k : q \in DOMAIN at /\ k \in DOMAIN vals[at[q]].texts /\ p = Append(q, k) /\ d[at[q]].kind = "ref" /\ vals[at[q]].map
  BY DEF PlacedAt
<1>10. \A q \in DOMAIN bt : \A k \in DOMAIN more[bt[q]].texts :
         e[bt[q]].kind = "ref" /\ more[bt[q]].map => Append(q, k) \in pe
  BY DEF PlacedAt
<1>11. \A q \in DOMAIN at : \A k \in DOMAIN vals[at[q]].texts :
         d[at[q]].kind = "ref" /\ vals[at[q]].map => Append(q, k) \in pd
  BY DEF PlacedAt
<1> HIDE DEF pd, pe
\* a target's members
<1>12. ASSUME NEW n \in ts, d[n].kind = "map", NEW k \in DOMAIN more[n].texts
       PROVE  /\ more[n].texts[k] = {d[Member(d, n, k)].text} /\ Member(d, n, k) # 0 /\ k \in Keys(d)
              /\ d[Member(d, n, k)].kind = "scalar"
  <2>1. more[n] = PlainOf(d, n) BY DEF Given
  <2>2. k \in {KeyText(d, m) : m \in Children(d, n)} /\ more[n].texts[k] = {Decoded(t) : t \in TextOf(d, Member(d, n, k))}
    BY <1>12, <2>1, PlainMapping
  <2>3. PICK c \in Children(d, n) : k = KeyText(d, c) BY <2>2
  <2>4. n \in DOMAIN d /\ c \in DOMAIN d \ {1} /\ d[c].kind = "scalar" /\ ScalarValue(d[c].text) BY <1>12, TargetForms
  <2>5. Member(d, n, k) = Deref(d, c) BY <1>1, <1>12, <2>3, <2>4, MemberOfChild
  <2>6. Member(d, n, k) = c BY <2>4, <2>5 DEF Deref
  <2>7. TextOf(d, c) = {d[c].text} BY <2>4, ScalarText
  <2>8. {Decoded(t) : t \in {d[c].text}} = {d[c].text} BY <2>4, SpellingKept
  <2>9. c # 0 BY <1>1, <2>4 DEF Document
  <2> QED BY <2>2, <2>3, <2>4, <2>6, <2>7, <2>8, <2>9 DEF Keys
<1>13. ASSUME NEW p \in DOMAIN at, p \notin DOMAIN bt
       PROVE  LET q == Front(p) IN
              /\ q \in DOMAIN bt /\ at[q] \in ts /\ bt[q] = at[q] /\ d[at[q]].kind = "map" /\ e[at[q]].kind = "ref"
              /\ more[at[q]].map /\ Last(p) \in DOMAIN more[at[q]].texts /\ at[p] = Member(d, at[q], Last(p))
              /\ p = Append(q, Last(p))
  <2> DEFINE q == Front(p)
             n == at[q]
  <2>1. p # <<>> /\ q \in DOMAIN bt /\ n \in ts /\ bt[q] = n BY <1>4, <1>13 DEF Tracks
  <2>2. /\ p \in Seq(Texts) /\ at[p] = Member(d, n, Last(p)) /\ at[p] \in DOMAIN d /\ n \in DOMAIN e
        /\ n \in DOMAIN d
    BY <1>3, <1>4, <2>1 DEF Walked, Tracks
  <2>3. at[p] # 0 BY <1>1, <2>2 DEF Document
  <2>4. p = Append(q, Last(p)) BY <2>1, <2>2, Rejoined
  <2> HIDE DEF n, q
  <2>5. e[n].kind = "ref" /\ more[n] = PlainOf(d, n) BY <1>1, <2>1, <2>2, StoredNode DEF Given
  <2>6. d[n].kind \in {"scalar", "map"} BY <2>1, TargetForms
  <2>7. Deref(d, n) = n BY <2>6 DEF Deref
  <2>8. d[n].kind = "map" /\ \E c \in Children(d, n) : KeyText(d, c) = Last(p) BY <1>1, <2>2, <2>3, <2>6, <2>7, MemberKey
  <2>9. more[n].map /\ Last(p) \in DOMAIN more[n].texts
    <3>1. PlainOf(d, n).map = TRUE /\ DOMAIN PlainOf(d, n).texts = {KeyText(d, m) : m \in Children(d, n)}
      BY <2>8, PlainMapping
    <3>2. Last(p) \in {KeyText(d, m) : m \in Children(d, n)} BY <2>8
    <3> QED BY <2>5, <3>1, <3>2
  <2> QED BY <2>1, <2>2, <2>4, <2>5, <2>8, <2>9 DEF n, q
\* a reference stood where it stands
<1>14. ASSUME NEW q \in DOMAIN at, d[at[q]].kind = "ref"
       PROVE  q \in DOMAIN bt /\ bt[q] = at[q] /\ at[q] \notin ts /\ e[at[q]].kind = "ref" /\ more[at[q]] = vals[at[q]]
  <2>1. at[q] \in DOMAIN d BY <1>3 DEF Walked
  <2>2. more[at[q]] = vals[at[q]] /\ at[q] \notin ts BY <1>14, <2>1, TargetForms DEF Given
  <2>3. q \in DOMAIN bt
    <3> SUFFICES ASSUME q \notin DOMAIN bt PROVE FALSE OBVIOUS
    <3>1. /\ at[Front(q)] \in ts /\ d[at[Front(q)]].kind = "map" /\ Last(q) \in DOMAIN more[at[Front(q)]].texts
          /\ at[q] = Member(d, at[Front(q)], Last(q))
      BY <1>13
    <3> QED BY <1>12, <1>14, <3>1
  <2>4. bt[q] = at[q] /\ bt[q] \in DOMAIN e BY <1>3, <1>4, <2>3 DEF Tracks, Walked
  <2> QED BY <1>1, <1>14, <2>2, <2>3, <2>4, StoredNode
<1>15. DOMAIN bt \cup pe = DOMAIN at \cup pd
  <2>1. DOMAIN bt \subseteq DOMAIN at BY <1>4 DEF Tracks
  <2>2. ASSUME NEW p \in pe PROVE p \in DOMAIN at \cup pd
    <3>1. PICK q, k : q \in DOMAIN bt /\ k \in DOMAIN more[bt[q]].texts /\ p = Append(q, k) /\ e[bt[q]].kind = "ref" /\ more[bt[q]].map
      BY <1>8
    <3>2. q \in DOMAIN at /\ bt[q] = at[q] /\ bt[q] \in DOMAIN e BY <1>3, <1>4, <3>1 DEF Tracks, Walked
    <3>3. CASE at[q] \in ts
      <4>1. more[at[q]] = PlainOf(d, at[q]) BY <3>3 DEF Given
      <4>2. d[at[q]].kind = "map"
        <5> SUFFICES ASSUME d[at[q]].kind # "map" PROVE FALSE OBVIOUS
        <5>1. PlainOf(d, at[q]).map = FALSE BY PlainText
        <5>2. more[at[q]].map BY <3>1, <3>2
        <5> QED BY <4>1, <5>1, <5>2
      <4>3. Member(d, at[q], k) # 0 /\ k \in Keys(d) BY <1>12, <3>1, <3>2, <3>3, <4>2
      <4> QED BY <1>5, <3>1, <3>2, <4>3
    <3>4. CASE at[q] \notin ts
      <4>1. d[at[q]].kind = "ref" BY <1>1, <3>1, <3>2, <3>4, StoredNode
      <4>2. more[at[q]] = vals[at[q]] BY <1>14, <3>2, <4>1
      <4> QED BY <1>11, <3>1, <3>2, <4>1, <4>2
    <3> QED BY <3>3, <3>4
  <2>3. ASSUME NEW p \in DOMAIN at, p \notin DOMAIN bt PROVE p \in pe
    <3> DEFINE q == Front(p)
               k == Last(p)
    <3>1. /\ q \in DOMAIN bt /\ bt[q] = at[q] /\ e[bt[q]].kind = "ref" /\ more[bt[q]].map
          /\ k \in DOMAIN more[bt[q]].texts /\ p = Append(q, k)
      BY <1>13, <2>3
    <3> HIDE DEF q, k
    <3> QED BY <1>10, <3>1
  <2>4. ASSUME NEW p \in pd PROVE p \in pe
    <3>1. PICK q, k : q \in DOMAIN at /\ k \in DOMAIN vals[at[q]].texts /\ p = Append(q, k) /\ d[at[q]].kind = "ref" /\ vals[at[q]].map
      BY <1>9
    <3>2. q \in DOMAIN bt /\ bt[q] = at[q] /\ e[at[q]].kind = "ref" /\ more[at[q]] = vals[at[q]] BY <1>14, <3>1
    <3> QED BY <1>10, <3>1, <3>2
  <2> QED BY <2>1, <2>2, <2>3, <2>4
<1>16. ASSUME NEW p \in DOMAIN at \cup pd PROVE te[p] = td[p]
  <2>1. CASE p \in DOMAIN bt
    <3>1. p \in DOMAIN at /\ bt[p] = at[p] BY <1>4, <2>1 DEF Tracks
    <3>2. bt[p] \in DOMAIN e /\ d[bt[p]].kind # "alias" BY <1>3, <2>1, <3>1 DEF Walked
    <3>3. Resolved(e, bt[p], more) = Resolved(d, bt[p], vals) BY <3>2, NodeResolves
    <3> QED BY <1>6, <1>7, <2>1, <3>1, <3>3 DEF te, td
  <2>2. CASE p \in DOMAIN at /\ p \notin DOMAIN bt
    <3> DEFINE q == Front(p)
               n == at[q]
               l == Last(p)
    <3>1. /\ q \in DOMAIN bt /\ n \in ts /\ bt[q] = n /\ d[n].kind = "map" /\ l \in DOMAIN more[n].texts
          /\ at[p] = Member(d, n, l)
      BY <1>13, <2>2
    <3>2. p \in pe BY <1>15, <2>2
    <3>3. te[p] = Leaf(more[n].texts[l]) BY <1>6, <2>2, <3>1, <3>2 DEF te
    <3>4. td[p] = Resolved(d, at[p], vals) BY <1>7, <2>2 DEF td
    <3> HIDE DEF q, n, l
    <3>5. more[n].texts[l] = {d[at[p]].text} /\ d[at[p]].kind = "scalar" BY <1>12, <3>1
    <3>6. Resolved(d, at[p], vals) = Leaf({d[at[p]].text}) BY <3>5, ScalarText
    <3> QED BY <3>3, <3>4, <3>5, <3>6
  <2>3. CASE p \notin DOMAIN at
    <3>1. p \in pd /\ p \in pe \ DOMAIN bt BY <1>4, <1>15, <2>3 DEF Tracks
    <3>2. PICK q, k : q \in DOMAIN at /\ k \in DOMAIN vals[at[q]].texts /\ p = Append(q, k) /\ d[at[q]].kind = "ref" /\ vals[at[q]].map
      BY <1>9, <3>1
    <3>3. q \in DOMAIN bt /\ bt[q] = at[q] /\ more[at[q]] = vals[at[q]] BY <1>14, <3>2
    <3>4. q \in Seq(Texts) BY <1>3, <3>2 DEF Walked
    <3>5. Front(p) = q /\ Last(p) = k BY <3>2, <3>4, FrontOfAppend
    <3>6. te[p] = Leaf(more[bt[q]].texts[k]) BY <1>6, <3>1, <3>5 DEF te
    <3>7. td[p] = Leaf(vals[at[q]].texts[k]) BY <1>7, <2>3, <3>1, <3>5 DEF td
    <3> QED BY <3>3, <3>6, <3>7
  <2> QED BY <2>1, <2>2, <2>3
<1>17. te = [p \in DOMAIN bt \cup pe |-> te[p]] /\ td = [p \in DOMAIN at \cup pd |-> td[p]] BY <1>6, <1>7 DEF te, td
<1>18. te = td BY <1>15, <1>16, <1>17
<1> QED BY <1>18 DEF te, td

(* A stored document ingested again.                                       *)

LEMMA LoadedStays ==
    ASSUME NEW d, Regular(d), NEW at, NEW marks, NEW ts, NEW e, Cleared(d, at, marks, ts, e), NEW p \in Loaded(e, PathsOf(e))
    PROVE  /\ p \in Loaded(d, at) /\ PathsOf(e)[p] = at[p] /\ at[p] \in DOMAIN e /\ at[p] \in DOMAIN d
           /\ at[p] \notin ts => e[at[p]].kind = d[at[p]].kind
<1> DEFINE w == WrittenBack(d, at, marks)
           bt == PathsOf(e)
<1>1. Document(d) /\ Stored(d, ts, w, e) /\ at = PathsOf(d) BY DEF Cleared, Extracts
<1>2. Document(e) BY <1>1, StoredIsDocument
<1>3. Walked(d, at, 3) /\ Walked(e, bt, 3) BY <1>1, <1>2, PathsFit
<1>4. Tracks(at, bt, ts) BY PathsFollow
<1> HIDE DEF bt
<1>5. p \in DOMAIN bt /\ Holder(e, bt, p) = {} /\ \A i \in DOMAIN p : p[i] # "<<" BY DEF Loaded, bt
<1>6. p \in DOMAIN at /\ bt[p] = at[p] /\ at[p] \in DOMAIN e /\ at[p] \in DOMAIN d
  BY <1>3, <1>4, <1>5 DEF Tracks, Walked
<1>7. ASSUME NEW q \in Holder(d, at, p) PROVE FALSE
  <2>1. q \in DOMAIN at /\ d[at[q]].kind = "host" /\ IsStrictPrefix(q, p) BY DEF Holder
  <2>2. p \in Seq(Texts) /\ q \in Seq(Texts) /\ Len(p) <= 3 BY <1>3, <1>6, <2>1 DEF Walked
  <2>3. p # <<>> /\ (q = <<>> \/ q = Front(p) \/ (q = Front(Front(p)) /\ Front(p) # <<>>)) BY <2>1, <2>2, PrefixOfPath
  <2>4. q \in DOMAIN bt BY <1>3, <1>5, <2>3 DEF Walked
  <2>5. bt[q] = at[q] /\ at[q] \in DOMAIN e /\ at[q] \notin ts BY <1>3, <1>4, <2>1, <2>4, TargetForms DEF Tracks, Walked
  <2>6. e[bt[q]].kind = "host" BY <1>1, <2>1, <2>5, StoredNode
  <2> QED BY <1>5, <2>1, <2>4, <2>6 DEF Holder
<1>8. at[p] \notin ts => e[at[p]].kind = d[at[p]].kind BY <1>1, <1>6, StoredNode
<1> QED BY <1>5, <1>6, <1>7, <1>8 DEF Loaded, bt

\* Nothing more is found in it.
LEMMA NothingMore ==
    ASSUME NEW d, Regular(d), NEW at, NEW marks, NEW ts, NEW e, Cleared(d, at, marks, ts, e)
    PROVE  DOMAIN Named(e, PathsOf(e), {}) = {}
<1> DEFINE w == WrittenBack(d, at, marks)
           bt == PathsOf(e)
           named == Named(d, at, marks)
<1>1. Document(d) /\ Stored(d, ts, w, e) /\ Walked(d, at, 3) /\ marks \subseteq DOMAIN at BY DEF Cleared, Extracts
<1>2. ASSUME NEW p \in SchemaPointers(e, bt) PROVE FALSE
  <2>1. p \in Loaded(e, bt) /\ p # <<>> /\ Last(p) = "secret" /\ e[bt[p]].kind \in Strings BY DEF SchemaPointers
  <2>2. p \in Loaded(d, at) /\ bt[p] = at[p] /\ at[p] \in DOMAIN e /\ at[p] \in DOMAIN d BY <2>1, LoadedStays
  <2>3. at[p] \notin ts BY <1>1, <2>1, <2>2, StoredNode DEF Strings
  <2>4. d[at[p]].kind \in Strings BY <2>1, <2>2, <2>3, LoadedStays
  <2>5. p \in SchemaPointers(d, at) BY <2>1, <2>2, <2>4 DEF SchemaPointers
  <2>6. at[p] \in DOMAIN named BY <2>4, <2>5 DEF Named, NamedBy, Strings
  <2> QED BY <2>2, <2>3, <2>6, TargetsStay
<1>3. SchemaPointers(e, bt) \cup {} = {} BY <1>2
<1> HIDE DEF bt
<1> QED BY <1>3 DEF Named, NamedBy, bt

\* The document's kind is not a member of an embedded document, and so no target but an outer one.
LEMMA KindIsOuter ==
    ASSUME NEW d, Regular(d), NEW at, NEW marks, NEW ts, NEW e, Cleared(d, at, marks, ts, e), NEW n, n = Field(d, 1, "kind"), n \in ts
    PROVE  n \in DOMAIN Named(d, at, marks \ Inner(d, at, marks))
<1> DEFINE named == Named(d, at, marks)
           m == Member(d, 1, "<<")
<1>1. /\ Document(d) /\ Walked(d, at, 3) /\ marks \subseteq DOMAIN at /\ ts = Targets(d, named) /\ n \in DOMAIN d
  BY DEF Cleared, Extracts, Stored
<1>2. n # 0 /\ n # 1 /\ 1 \in DOMAIN d /\ d[1].kind = "map" /\ Deref(d, 1) = 1 BY <1>1, TargetForms DEF Document, Deref
<1>3. n = Member(d, 1, "kind") \/ (m # 0 /\ n = Member(d, m, "kind")) BY DEF Field
<1>4. PICK u, c : d[u].kind = "map" /\ c \in Children(d, u) /\ c \in DOMAIN d \ {1} /\ n = Deref(d, c)
  <2>1. CASE n = Member(d, 1, "kind") BY <1>1, <1>2, <2>1, MemberKey
  <2>2. CASE m # 0 /\ n = Member(d, m, "kind")
    <3>1. m \in DOMAIN d /\ d[m].kind # "alias" BY <1>1, <1>2, <2>2, MemberKey
    <3>2. PICK x \in DOMAIN d \ {1} : KeyText(d, x) = "<<" /\ m = Deref(d, x) BY <1>1, <1>2, <2>2, MemberKey
    <3>3. d[m].kind \in {"map", "ref"} BY <3>2 DEF Regular
    <3> HIDE DEF m
    <3>4. Deref(d, m) = m BY <3>1 DEF Deref
    <3>5. Member(d, m, "kind") # 0 BY <1>2, <2>2
    <3>6. d[m].kind \in {"map", "host"} /\ \E y \in Children(d, m) : y \in DOMAIN d \ {1} /\ n = Deref(d, y)
      BY <1>1, <2>2, <3>1, <3>4, <3>5, MemberKey
    <3>7. d[m].kind = "map" BY <3>3, <3>6
    <3> QED BY <3>6, <3>7
  <2> QED BY <1>3, <2>1, <2>2
<1>5. d[d[n].up].kind = "map"
  <2>1. CASE d[c].kind = "alias" BY <1>1, <1>4, <2>1 DEF Deref, Document
  <2>2. CASE d[c].kind # "alias" BY <1>4, <2>2 DEF Deref, Children
  <2> QED BY <2>1, <2>2
<1>6. n \in DOMAIN named BY <1>1 DEF Targets
<1>7. PICK p \in SchemaPointers(d, at) \cup marks : at[p] = n BY <1>1, <1>6, NamedNodes
<1>8. p \notin Inner(d, at, marks)
  <2> SUFFICES ASSUME p \in marks, NEW q \in Holder(d, at, p) PROVE FALSE BY DEF Inner
  <2>1. d[at[q]].kind = "host" /\ at[p] \in Children(d, at[q]) BY <1>1, HeldIsChild
  <2> QED BY <1>5, <1>7, <2>1 DEF Children
<1>9. d[n].kind # "ref" BY TargetForms
<1> QED BY <1>1, <1>7, <1>8, <1>9 DEF Named, NamedBy

LEMMA LoadsAgain ==
    ASSUME NEW d, Regular(d), NEW at, NEW marks, NEW ts, NEW e, Cleared(d, at, marks, ts, e)
    PROVE  Loads(e, PathsOf(e), {})
<1> DEFINE w == WrittenBack(d, at, marks)
           bt == PathsOf(e)
           named == Named(d, at, marks)
           outer == DOMAIN Named(d, at, marks \ Inner(d, at, marks))
           nulle == {} \cup {n \in DOMAIN e : e[n].kind = "ref"}
           nulld == outer \cup {n \in DOMAIN d : d[n].kind = "ref"}
<1>1. /\ Document(d) /\ Stored(d, ts, w, e) /\ Walked(d, at, 3) /\ marks \subseteq DOMAIN at /\ Loads(d, at, outer)
  BY DEF Cleared, Extracts
<1>2. Document(e) BY <1>1, StoredIsDocument
<1>3. /\ \A p \in Loaded(d, at) \ {<<>>} : Last(p) = "secret" /\ at[p] \notin nulld => d[at[p]].kind # "map"
      /\ \A n \in {Field(d, 1, "kind")} \ {0} : n \notin nulld /\ d[n].kind \in Strings
  BY <1>1, Zenon DEF Loads
<1>4. outer \subseteq DOMAIN named BY DEF Named, NamedBy
<1>5. \A n \in DOMAIN e : n \in DOMAIN named => n \in ts BY TargetsStay
<1> HIDE DEF outer, named, bt
<1>6. ASSUME NEW p \in Loaded(e, bt) \ {<<>>}, Last(p) = "secret", bt[p] \notin nulle PROVE e[bt[p]].kind # "map"
  <2>1. p \in Loaded(d, at) /\ bt[p] = at[p] /\ at[p] \in DOMAIN e /\ at[p] \in DOMAIN d BY LoadedStays DEF bt
  <2>2. at[p] \notin ts BY <1>1, <1>6, <2>1, StoredNode
  <2>3. e[at[p]].kind = d[at[p]].kind BY <2>2, LoadedStays DEF bt
  <2>4. at[p] \notin nulld BY <1>4, <1>5, <1>6, <2>1, <2>2, <2>3
  <2> HIDE DEF nulld
  <2> QED BY <1>3, <1>6, <2>1, <2>3, <2>4
<1>7. ASSUME NEW n, n = Field(e, 1, "kind"), n # 0 PROVE n \notin nulle /\ e[n].kind \in Strings
  <2> DEFINE m == Member(d, 1, "<<")
  <2>1. 1 \in DOMAIN e /\ 1 \notin ts BY <1>2, TargetForms DEF Document
  <2>2. Deref(d, 1) = 1 /\ 1 \in DOMAIN d BY <1>1 DEF Deref, Document
  <2>3. \A l : Member(e, 1, l) = Member(d, 1, l) BY <1>1, <2>1, <2>2, MemberStays
  <2>4. n = Field(d, 1, "kind") /\ n \in DOMAIN e
    <3>1. CASE Member(d, 1, "kind") # 0 \/ m = 0
      <4>1. Field(e, 1, "kind") = Member(e, 1, "kind") /\ Field(d, 1, "kind") = Member(d, 1, "kind")
        BY <2>3, <3>1 DEF Field
      <4> QED BY <1>2, <1>7, <2>1, <2>3, <4>1, MemberKey
    <3>2. CASE ~(Member(d, 1, "kind") # 0 \/ m = 0)
      <4>1. Field(e, 1, "kind") = Member(e, m, "kind") /\ Field(d, 1, "kind") = Member(d, m, "kind")
        BY <2>3, <3>2 DEF Field
      <4>2. m \in DOMAIN e BY <1>2, <2>1, <2>3, <3>2, MemberKey
      <4>3. Member(e, m, "kind") \in {0, Member(d, m, "kind")} BY <1>1, <4>2, MemberStays
      <4>4. Member(e, m, "kind") \in DOMAIN e BY <1>2, <1>7, <4>1, <4>2, MemberKey
      <4> QED BY <1>7, <4>1, <4>3, <4>4
    <3> QED BY <3>1, <3>2
  <2>5. n \notin nulld /\ d[n].kind \in Strings BY <1>3, <1>7, <2>4
  <2>6. n \notin ts BY <2>4, <2>5, KindIsOuter DEF outer
  <2>7. e[n].kind = d[n].kind BY <1>1, <2>4, <2>6, StoredNode
  <2> QED BY <2>5, <2>7 DEF Strings
<1> HIDE DEF nulle
<1>8. \A n \in {Field(e, 1, "kind")} \ {0} : n \notin nulle /\ e[n].kind \in Strings BY <1>7
<1> QED BY <1>6, <1>8, Zenon DEF Loads, bt, nulle

LEMMA ParsesAgain ==
    ASSUME NEW d, Regular(d), NEW at, NEW marks, NEW ts, NEW e, Cleared(d, at, marks, ts, e)
    PROVE  Parses(e) /\ ~Indirect(e)
<1> DEFINE w == WrittenBack(d, at, marks)
<1>1. Document(d) /\ Stored(d, ts, w, e) /\ Parses(d) /\ ~Indirect(d) BY DEF Cleared, Extracts
<1>2. Document(e) BY <1>1, StoredIsDocument
<1>3. ASSUME NEW m \in DOMAIN e \ {1}, NEW n \in DOMAIN e \ {1}, m # n, e[m].up = e[n].up PROVE KeyText(e, m) # KeyText(e, n)
  <2>1. /\ m \in DOMAIN d \ {1} /\ n \in DOMAIN d \ {1} /\ e[m].up = d[m].up /\ e[n].up = d[n].up BY <1>1, StoredNode
  <2>2. KeyText(e, m) = KeyText(d, m) /\ KeyText(e, n) = KeyText(d, n) BY <1>1, KeyTextStays
  <2> QED BY <1>1, <1>3, <2>1, <2>2 DEF Parses
<1>4. ASSUME NEW n \in DOMAIN e, e[n].kind = "alias" PROVE n \notin Under(e, e[n].to)
  <2>1. n \in DOMAIN d /\ d[n].kind = "alias" /\ e[n].to = d[n].to BY <1>1, <1>4, StoredNode
  <2>2. \A x : Children(e, x) \subseteq Children(d, x) BY <1>1, ChildrenStay
  <2>3. Under(e, d[n].to) \subseteq Under(d, d[n].to) BY <2>2 DEF Under
  <2> QED BY <1>1, <2>1, <2>3 DEF Parses
<1>5. ASSUME NEW n \in DOMAIN e \ {1}, KeyText(e, n) = "<<", NEW x, x = Member(e, n, "secret"), x # 0, e[x].kind \in Strings,
             Member(e, e[n].up, "secret") = 0
      PROVE  FALSE
  <2> DEFINE u == d[n].up
  <2>1. n \in DOMAIN d \ {1} /\ e[n].up = u /\ KeyText(d, n) = "<<" BY <1>1, <1>5, StoredNode, KeyTextStays
  <2>2. x = Member(d, n, "secret") BY <1>1, <1>5, MemberStays
  <2>3. x \in DOMAIN e BY <1>2, <1>5, MemberKey
  <2>4. x \notin ts /\ d[x].kind \in Strings BY <1>1, <1>5, <2>3, StoredNode DEF Strings
  <2>5. u \in DOMAIN e /\ u \notin ts BY <1>1, ParentStays
  <2>6. d[u].kind \in {"map", "host"} BY <1>1, <2>1 DEF Document
  <2>7. Deref(d, u) = u BY <2>6 DEF Deref
  <2>8. Member(d, u, "secret") = 0 BY <1>1, <1>5, <2>1, <2>5, <2>7, MemberStays
  <2> QED BY <1>1, <1>5, <2>1, <2>2, <2>4, <2>8 DEF Indirect
<1>6. Parses(e) BY <1>3, <1>4 DEF Parses
<1>7. ~Indirect(e) BY <1>5 DEF Indirect
<1> QED BY <1>6, <1>7

\* A substitution of nothing.
LEMMA NothingSubstituted ==
    ASSUME NEW e
    PROVE  LET f == Substitute(e, {}, {}) IN DOMAIN f = DOMAIN e /\ \A n \in DOMAIN e : f[n] = e[n]
<1>1. DOMAIN e \ UNION {Under(e, m) : m \in {}} = DOMAIN e OBVIOUS
<1> QED BY <1>1 DEF Substitute

LEMMA AgainUnrefused ==
    ASSUME NEW d, Regular(d), NEW at, NEW marks, NEW ts, NEW e, Cleared(d, at, marks, ts, e)
    PROVE  Extracted(e, {}).rule = None /\ Extracted(e, {}).targets = {}
<1> DEFINE bt == PathsOf(e)
           named == Named(e, bt, {})
           outer == DOMAIN Named(e, bt, {} \ Inner(e, bt, {}))
           t2 == Targets(e, named)
           w2 == WrittenBack(e, bt, {})
           f == Substitute(e, t2, w2)
           x == Extracted(e, {})
<1>1. x = Extraction(e, bt, {}, outer, named, t2, f) BY DEF Extracted, ExtractAt, Coalesced, Substituted
<1>2. DOMAIN named = {} BY NothingMore
<1>3. {} \ Inner(e, bt, {}) = {} OBVIOUS
<1>4. outer = {} BY <1>2, <1>3
<1>5. t2 = {} /\ w2 = {} BY <1>2 DEF Targets, WrittenBack
<1>6. Document(e) /\ WellPlaced(e)
  <2>1. Stored(d, ts, WrittenBack(d, at, marks), e) BY DEF Cleared, Extracts
  <2> QED BY <2>1, StoredIsDocument DEF Stored
<1>7. Parses(e) /\ ~Indirect(e) /\ Loads(e, bt, {}) BY ParsesAgain, LoadsAgain
<1>8. DOMAIN f = DOMAIN e /\ \A n \in DOMAIN e : f[n] = e[n] BY <1>5, NothingSubstituted
<1> HIDE DEF bt, named, outer, t2, w2, f, x
<1>9. Identified(e, bt, {}, outer, named) = None
  <2> DEFINE A == ~Loads(e, bt, {})
             B == \E n \in outer : ~ValueOf(e, n)
             C == ~LoadsStored(e, bt, outer)
             D == \E n \in outer : ReferenceHolder(e, n)
             E == \E p \in {} : ~Embedded(e, bt, p, outer)
             F == \E n \in DOMAIN named : ~ValueOf(e, n)
             G == \E n \in DOMAIN named : \E m \in Inside(e, named, n) : ~ReachedOnlyThrough(e, named, n, m)
             I == Indirect(e)
  <2>1. Identified(e, bt, {}, outer, named) =
          CASE A -> "schema-unloadable" [] I -> "schema-indirect" [] B -> "mark-kind"
            [] C -> "schema-unloadable" [] D -> "mark-kind" [] E -> "embedded"
            [] F -> "mark-kind" [] G -> "mark-kind" [] OTHER -> None
    BY DEF Identified
  <2>2. ~A /\ ~B /\ ~C /\ ~D /\ ~E /\ ~F /\ ~G /\ ~I BY <1>2, <1>4, <1>7 DEF LoadsStored
  <2> HIDE DEF A, B, C, D, E, F, G, I
  <2> QED BY <2>1, <2>2
<1>10. GuardRefusal(e, t2, f) = None
  <2> DEFINE A == Copies(f, {PlainOf(e, n) : n \in t2})
             B == ~WellPlaced(f)
             C == HoldersRemoved(e, f)
  <2>1. GuardRefusal(e, t2, f) = CASE A -> "guard" [] B -> "tag-placement" [] C -> "embedded" [] OTHER -> None BY DEF GuardRefusal
  <2>2. ~A
    <3>1. {PlainOf(e, n) : n \in t2} = {} BY <1>5
    <3>2. Scalars({}) = {} /\ MappingKeys({}) = {} BY DEF Scalars, MappingKeys
    <3> QED BY <3>1, <3>2 DEF Copies
  <2>3. ~B
    <3>1. f[1].kind # "ref" BY <1>6, <1>8 DEF WellPlaced, Document
    <3>2. ASSUME NEW n \in DOMAIN f, f[n].keyTo # 0 PROVE f[f[n].keyTo].kind # "ref"
      <4>1. n \in DOMAIN e /\ f[n] = e[n] BY <1>8
      <4>2. e[n].keyTo \in DOMAIN e BY <1>6, <3>2, <4>1 DEF Document
      <4> QED BY <1>6, <1>8, <3>2, <4>1, <4>2 DEF WellPlaced
    <3> QED BY <3>1, <3>2 DEF WellPlaced
  <2>4. ~C BY <1>8 DEF HoldersRemoved
  <2> HIDE DEF A, B, C
  <2> QED BY <2>1, <2>2, <2>3, <2>4
<1>11. x.targets = {} BY <1>1, <1>5 DEF Extraction
<1>12. x.rule = None
  <2> DEFINE P == ~Parses(e)
             Q == ~WellPlaced(e)
             i == Identified(e, bt, {}, outer, named)
             g == GuardRefusal(e, t2, f)
  <2>1. ~P /\ ~Q /\ i = None /\ g = None BY <1>6, <1>7, <1>9, <1>10
  <2>2. x.rule = CASE P -> "parse" [] Q -> "tag-placement" [] i # None -> i [] OTHER -> g BY <1>1 DEF Extraction
  <2> HIDE DEF P, Q, i, g
  <2> QED BY <2>1, <2>2
<1> QED BY <1>11, <1>12 DEF x

(* The invariant of the round trip.                                        *)

\* Document d resolves to the one read; and another extraction would leave it as it is.
Resolves(d, vals) ==
    /\ Document(d) /\ Regular(d)
    /\ \A n \in DOMAIN d : d[n].kind = "ref" => n \in DOMAIN vals
    /\ Tree(d, vals) = Tree(original, [n \in {} |-> {}])
Stable(d) == Extracted(d, {}).rule = None /\ Extracted(d, {}).targets = {}

\* At every step the document held resolves, and what is about to be staged is stable; so is, while a
\* mark's generations are created, the stored envelope.
RoundTripInv ==
    /\ step \in {"read", "create", "staged"} => Resolves(doc, values)
    /\ step \in {"create", "staged"} => Stable(doc)
    /\ step = "read" => round = 0
    /\ step = "create" /\ round > 1 => Resolves(persisted.doc, persisted.values) /\ Stable(persisted.doc)

LEMMA CandidateRoundTrips ==
    ASSUME RoundTripInv, step \in {"read", "staged"}, NEW marks \in Marks(doc), NEW x, x = Extracted(doc, marks), x.rule = None,
           Candidate(x), persisted' = [doc |-> doc, values |-> values]
    PROVE  RoundTripInv'
<1> DEFINE at == PathsOf(doc)
<1>1. /\ Document(doc) /\ Regular(doc) /\ \A n \in DOMAIN doc : doc[n].kind = "ref" => n \in DOMAIN values
      /\ Tree(doc, values) = Tree(original, [n \in {} |-> {}])
  BY DEF RoundTripInv, Resolves
<1>2. Cleared(doc, at, marks, x.targets, x.doc) BY <1>1, ClearedWhenUnrefused
<1>3. /\ doc' = x.doc /\ step' = "create" /\ original' = original /\ round' = round + 1
      /\ values' = [n \in DOMAIN values \cup x.targets |-> IF n \in x.targets THEN PlainOf(doc, n) ELSE values[n]]
  BY DEF Candidate
<1>4. Document(doc') /\ Regular(doc') BY <1>1, <1>2, <1>3, StoredIsRegular
<1>5. Stored(doc, x.targets, WrittenBack(doc, at, marks), x.doc) BY <1>2 DEF Cleared, Extracts
<1>6. \A n \in DOMAIN doc' : doc'[n].kind = "ref" => n \in DOMAIN values'
  <2> SUFFICES ASSUME NEW n \in DOMAIN x.doc, x.doc[n].kind = "ref", n \notin x.targets PROVE n \in DOMAIN values BY <1>3
  <2> QED BY <1>1, <1>5, StoredNode
<1>7. Given(doc, x.targets, values, values')
  <2>1. ASSUME NEW n \in DOMAIN doc, doc[n].kind = "ref" PROVE values'[n] = values[n]
    <3>1. n \in DOMAIN values BY <1>1, <2>1
    <3>2. n \notin x.targets BY <1>1, <1>2, <2>1, TargetForms
    <3> QED BY <1>3, <3>1, <3>2
  <2> QED BY <1>3, <2>1 DEF Given
<1>8. Tree(x.doc, values') = Tree(doc, values) BY <1>1, <1>2, <1>7, TreeStays
<1>9. Extracted(x.doc, {}).rule = None /\ Extracted(x.doc, {}).targets = {} BY <1>1, <1>2, AgainUnrefused
<1>10. round' > 1 => Resolves(persisted.doc, persisted.values)' /\ Stable(persisted'.doc)
  <2>1. persisted'.doc = doc /\ persisted'.values = values OBVIOUS
  <2>2. step = "read" => ~(round' > 1) BY <1>3 DEF RoundTripInv
  <2>3. step = "staged" => Stable(doc) BY DEF RoundTripInv
  <2> QED BY <1>1, <1>3, <2>1, <2>2, <2>3 DEF Resolves
<1>11. Resolves(doc, values)' BY <1>1, <1>3, <1>4, <1>6, <1>8 DEF Resolves
<1>12. Stable(doc') BY <1>3, <1>9 DEF Stable
<1> QED BY <1>3, <1>10, <1>11, <1>12 DEF RoundTripInv

\* Resolving a staged document gives back what was read, at every path, and it can be ingested again with
\* nothing more found in it (RoundTrip), for every document and every sequence of marks: what identify,
\* coalesce, the guard and holdersRemoved refuse is enough for substitute and Resolve to be inverse.
THEOREM ResolvesToRead == ExtractionSpec => []RoundTrip
<1>1. ExtractionInit => RoundTripInv
  <2> SUFFICES ASSUME ExtractionInit PROVE RoundTripInv OBVIOUS
  <2>1. Document(doc) /\ Regular(doc) /\ \A n \in DOMAIN doc : doc[n].kind # "ref"
    BY ExtractionAssumption DEF ExtractionInit
  <2>2. step = "read" /\ original = doc /\ values = [n \in {} |-> {}] /\ round = 0 BY DEF ExtractionInit
  <2> QED BY <2>1, <2>2 DEF RoundTripInv, Resolves
<1>2. RoundTripInv /\ [ExtractionNext]_extractionVars => RoundTripInv'
  <2> SUFFICES ASSUME RoundTripInv, [ExtractionNext]_extractionVars PROVE RoundTripInv' OBVIOUS
  <2>1. ASSUME NEW marks \in Marks(doc), ExtractDocument(marks) PROVE RoundTripInv'
    <3> DEFINE x == Extracted(doc, marks)
    <3>1. step = "read" /\ persisted' = [doc |-> doc, values |-> values] BY <2>1 DEF ExtractDocument
    <3>2. CASE x.rule = None
      <4>1. Candidate(x) BY <2>1, <3>2 DEF ExtractDocument
      <4> QED BY <3>1, <3>2, <4>1, CandidateRoundTrips
    <3>3. CASE x.rule # None
      <4>1. step' = "refused" BY <2>1, <3>3 DEF ExtractDocument
      <4> QED BY <4>1 DEF RoundTripInv
    <3> QED BY <3>2, <3>3
  <2>2. ASSUME NEW marks \in Marks(doc), Remark(marks) PROVE RoundTripInv'
    <3> DEFINE x == Extracted(doc, marks)
    <3>1. step = "staged" /\ persisted' = [doc |-> doc, values |-> values] BY <2>2 DEF Remark
    <3>2. CASE x.rule = None /\ RewritesOnlyMarked(doc, x.doc)
      <4>1. Candidate(x) BY <2>2, <3>2 DEF Remark
      <4> QED BY <3>1, <3>2, <4>1, CandidateRoundTrips
    <3>3. CASE ~(x.rule = None /\ RewritesOnlyMarked(doc, x.doc))
      <4>1. step' = step /\ doc' = doc /\ values' = values /\ original' = original BY <2>2, <3>3 DEF Remark
      <4> QED BY <3>1, <4>1 DEF RoundTripInv, Resolves
    <3> QED BY <3>2, <3>3
  <2>3. CASE Create
    <3>1. /\ step' = step /\ doc' = doc /\ values' = values /\ original' = original
          /\ round' = round /\ persisted' = persisted
      BY <2>3 DEF Create
    <3> QED BY <3>1 DEF RoundTripInv, Resolves
  <2>4. CASE CreateFails
    <3>1. /\ step = "create" /\ doc' = persisted.doc /\ values' = persisted.values /\ original' = original
          /\ step' = "refused" \/ (step' = "staged" /\ round > 1)
      BY <2>4 DEF CreateFails
    <3> QED BY <3>1 DEF RoundTripInv, Resolves
  <2>5. CASE Seal
    <3>1. step = "create" /\ step' = "staged" /\ doc' = doc /\ values' = values /\ original' = original BY <2>5 DEF Seal
    <3> QED BY <3>1 DEF RoundTripInv, Resolves
  <2>6. CASE UNCHANGED extractionVars BY <2>6 DEF extractionVars, RoundTripInv, Resolves
  <2> QED BY <2>1, <2>2, <2>3, <2>4, <2>5, <2>6 DEF ExtractionNext
<1>3. RoundTripInv => RoundTrip BY DEF RoundTripInv, RoundTrip, Resolves, Stable
<1> QED BY <1>1, <1>2, <1>3, PTL DEF ExtractionSpec


-----------------------------------------------------------------------------
(* The compiler's provenance.                                              *)

\* The smallest of a set of numbers, and the greatest of a bounded one.
LEMMA MinFacts ==
    ASSUME NEW T, T \subseteq Nat, T # {}
    PROVE  Min(T) \in T /\ \A y \in T : Min(T) <= y
<1> DEFINE R == OpToRel(<, Nat)
<1>1. PICK x \in T : \A y \in T : ~ (<<y, x>> \in R)
  <2> HIDE DEF R
  <2> QED
    BY WFMin, NatLessThanWellFounded DEF R
<1>2. R = {ss \in Nat \X Nat : ss[1] < ss[2]}
  BY DEF OpToRel
<1>3. \A y \in Nat, z \in Nat : y < z => <<y, z>> \in R
  BY <1>2
<1> HIDE DEF R
<1>4. \A y \in T : ~ (y < x)
  BY <1>1, <1>3
<1>5. \E z \in T : \A y \in T : z <= y
  BY <1>4
<1> QED
  BY <1>5 DEF Min

\* A member no other is smaller than is the smallest.
LEMMA LeastIsMin ==
    ASSUME NEW T, T \subseteq Nat, NEW x \in T, \A y \in T : x <= y
    PROVE  Min(T) = x
<1> DEFINE m == Min(T)
<1>1. m \in T /\ \A y \in T : m <= y
  BY MinFacts
<1> HIDE DEF m
<1>2. m \in Nat /\ x \in Nat /\ m <= x /\ x <= m
  BY <1>1
<1>3. m = x
  BY <1>2
<1> QED
  BY <1>3 DEF m

LEMMA MaxFacts ==
    ASSUME NEW S, NEW n \in Nat, S \subseteq 1 .. n, S # {}
    PROVE  Max(S) \in S /\ \A y \in S : y <= Max(S)
<1> DEFINE T == {m \in Nat : n - m \in S}
<1>1. T # {} /\ T \subseteq Nat
  <2>1. PICK x \in S : TRUE
    OBVIOUS
  <2>2. n - x \in Nat /\ n - (n - x) = x
    BY <2>1
  <2> QED
    BY <2>1, <2>2
<1>2. PICK x \in T : \A y \in T : x <= y
  <2> HIDE DEF T
  <2> QED
    BY <1>1, MinFacts
<1>3. \A y \in S : y <= n - x
  <2> SUFFICES ASSUME NEW y \in S PROVE y <= n - x
    OBVIOUS
  <2>1. y \in Nat /\ n - y \in Nat /\ n - (n - y) = y
    OBVIOUS
  <2> QED
    BY <1>2, <2>1
<1>4. n - x \in S /\ n - x \in Int /\ S \subseteq Int
  OBVIOUS
<1>5. Max(S) \in S /\ \A y \in S : Max(S) >= y
  BY <1>3, <1>4 DEF Max
<1> QED
  BY <1>4, <1>5

\* The places of a source.
Spots == Range(Places)

LEMMA PlacesFinite == IsFiniteSet(Spots)
<1>1. Spots = {"o", "p", "q"} BY DEF Spots, Places, Range
<1>2. IsFiniteSet({} \cup {"o"}) BY FS_EmptySet, FS_AddElement
<1>3. IsFiniteSet(({} \cup {"o"}) \cup {"p"}) BY <1>2, FS_AddElement
<1>4. IsFiniteSet((({} \cup {"o"}) \cup {"p"}) \cup {"q"}) BY <1>3, FS_AddElement
<1>5. (({} \cup {"o"}) \cup {"p"}) \cup {"q"} = Spots BY <1>1
<1> QED BY <1>4, <1>5

\* What the assumption on compositions says of the one compiled.
Sources ==
    /\ N \in Nat \ {0}
    /\ \A i \in 1..N, p \in Spots : input[i][p].kind = "alias" => input[i][p].to \in Spots

\* The last source that says something at a place.
LEMMA LastAtFacts ==
    ASSUME NEW n \in Nat, NEW p
    PROVE  /\ LastAt(input, n, p) \in 0..n
           /\ LastAt(input, n, p) # 0 => input[LastAt(input, n, p)][p].kind # "absent"
           /\ \A i \in 1..n : input[i][p].kind # "absent" => LastAt(input, n, p) # 0 /\ i <= LastAt(input, n, p)
<1> DEFINE S == {i \in 1..n : input[i][p].kind # "absent"}
<1>1. LastAt(input, n, p) = IF S = {} THEN 0 ELSE Max(S) BY DEF LastAt
<1>2. S \subseteq 1..n OBVIOUS
<1>3. CASE S = {} BY <1>1, <1>3
<1>4. CASE S # {}
  <2>1. Max(S) \in S /\ \A y \in S : y <= Max(S)
    <3> HIDE DEF S
    <3> QED BY <1>2, <1>4, MaxFacts
  <2> QED BY <1>1, <1>4, <2>1
<1> QED BY <1>3, <1>4

LEMMA TracerFacts ==
    /\ \A t \in Ts : /\ t.source \in 1..N /\ t.place \in Spots /\ input[t.source][t.place].kind = "ref"
                     /\ t = [source |-> t.source, place |-> t.place, name |-> input[t.source][t.place].name]
    /\ \A i \in 1..N, p \in Spots : input[i][p].kind = "ref" => \E t \in Ts : t.source = i /\ t.place = p
<1>1. Ts = UNION {{[source |-> i, place |-> p, name |-> input[i][p].name] : p \in {q \in Spots : input[i][q].kind = "ref"}} : i \in 1..N}
  BY DEF Ts, Tracers, Spots, N
<1>2. ASSUME NEW t \in Ts
      PROVE  \E i \in 1..N, p \in Spots : input[i][p].kind = "ref" /\ t = [source |-> i, place |-> p, name |-> input[i][p].name]
  BY <1>1
<1>3. ASSUME NEW i \in 1..N, NEW p \in Spots, input[i][p].kind = "ref"
      PROVE  [source |-> i, place |-> p, name |-> input[i][p].name] \in Ts
  BY <1>1, <1>3
<1>4. ASSUME NEW t \in Ts
      PROVE  /\ t.source \in 1..N /\ t.place \in Spots /\ input[t.source][t.place].kind = "ref"
             /\ t = [source |-> t.source, place |-> t.place, name |-> input[t.source][t.place].name]
  <2>1. PICK i \in 1..N, p \in Spots : input[i][p].kind = "ref" /\ t = [source |-> i, place |-> p, name |-> input[i][p].name]
    BY <1>2
  <2>2. t.source = i /\ t.place = p BY <2>1
  <2> QED BY <2>1, <2>2
<1>5. ASSUME NEW i \in 1..N, NEW p \in Spots, input[i][p].kind = "ref" PROVE \E t \in Ts : t.source = i /\ t.place = p
  <2> DEFINE t == [source |-> i, place |-> p, name |-> input[i][p].name]
  <2>1. t.source = i /\ t.place = p OBVIOUS
  <2>2. t \in Ts BY <1>3, <1>5
  <2> QED BY <2>1, <2>2
<1> QED BY <1>4, <1>5

LEMMA TracerUnique ==
    ASSUME NEW t \in Ts, NEW u \in Ts, t.source = u.source, t.place = u.place
    PROVE  t = u
BY TracerFacts, Zenon

LEMMA TracersFinite ==
    ASSUME N \in Nat
    PROVE  IsFiniteSet(Ts)
<1> DEFINE f == [t \in Ts |-> <<t.source, t.place>>]
<1>1. f \in [Ts -> (1..N) \X Spots] BY TracerFacts
<1>2. \A t, u \in Ts : f[t] = f[u] => t = u BY TracerUnique
<1>3. f \in Injection(Ts, (1..N) \X Spots) BY <1>1, <1>2 DEF Injection, IsInjective
<1>4. IsFiniteSet((1..N) \X Spots)
  <2>1. 1 \in Int /\ N \in Int OBVIOUS
  <2>2. IsFiniteSet(1..N) BY <2>1, FS_Interval
  <2> QED BY <2>2, PlacesFinite, FS_Product
<1> QED BY <1>3, <1>4, FS_Injection

\* What the value of t is, at a place of its own.
LEMMA FlowsFacts ==
    ASSUME NEW t, NEW n, NEW p \in Flows(t, n)
    PROVE  /\ p \in Spots /\ LastAt(input, n, p) = t.source
           /\ input[t.source][p].kind \in {"ref", "alias"}
           /\ t.place = (IF input[t.source][p].kind = "alias" THEN input[t.source][p].to ELSE p)
BY DEF Flows, Spots

LEMMA FlowsDisjoint ==
    ASSUME NEW t \in Ts, NEW u \in Ts, NEW n, NEW p \in Flows(t, n), p \in Flows(u, n)
    PROVE  t = u
<1>1. t.source = u.source BY FlowsFacts
<1>2. t.place = u.place BY <1>1, FlowsFacts
<1> QED BY <1>1, <1>2, TracerUnique

\* What the output shows of a text at p.
Shown(p, text) == IF p \in Omitted /\ text = "false" THEN Nothing ELSE text

LEMMA LeafOfTracer ==
    ASSUME Sources, NEW t \in Ts, NEW n \in 1..N, NEW p \in Flows(t, n), NEW pass
    PROVE  LeafAt(input, Ts, pass, n, p) = Shown(p, pass[t])
<1>1. /\ p \in Spots /\ LastAt(input, n, p) = t.source /\ input[t.source][p].kind \in {"ref", "alias"}
      /\ t.place = (IF input[t.source][p].kind = "alias" THEN input[t.source][p].to ELSE p)
  BY FlowsFacts
<1>2. t.source \in 1..N /\ input[t.source][t.place].kind = "ref" BY TracerFacts
<1>3. t.source # 0 /\ input[t.source][p].kind # "delete" BY <1>1, <1>2 DEF Sources
<1> DEFINE c == CHOOSE u \in Ts : u.source = t.source /\ u.place = t.place
<1>4. c \in Ts /\ c.source = t.source /\ c.place = t.place OBVIOUS
<1>5. c = t
  <2> HIDE DEF c
  <2> QED BY <1>4, TracerUnique
<1>6. ItemText(input, Ts, pass, t.source, p) = pass[c] BY <1>1, <1>2, Zenon DEF ItemText
<1> QED BY <1>1, <1>3, <1>5, <1>6 DEF LeafAt, Shown

LEMMA LeafOfNone ==
    ASSUME Sources, NEW n \in 1..N, NEW p \in Spots, \A t \in Ts : p \notin Flows(t, n), NEW pass, NEW other
    PROVE  LeafAt(input, Ts, pass, n, p) = LeafAt(input, Ts, other, n, p)
<1> DEFINE i == LastAt(input, n, p)
           at == IF input[i][p].kind = "alias" THEN input[i][p].to ELSE p
<1>1. n \in Nat /\ n <= N /\ N \in Nat BY DEF Sources
<1>2. i \in 0..n BY <1>1, LastAtFacts
<1>3. CASE i = 0 BY <1>3 DEF LeafAt
<1>4. CASE i # 0
  <2>1. i \in 1..N BY <1>1, <1>2, <1>4
  <2>2. at \in Spots BY <2>1 DEF Sources
  <2>3. input[i][at].kind # "ref"
    <3> SUFFICES ASSUME input[i][at].kind = "ref" PROVE FALSE OBVIOUS
    <3>1. PICK t \in Ts : t.source = i /\ t.place = at BY <2>1, <2>2, TracerFacts
    <3>2. input[i][p].kind \in {"ref", "alias"} OBVIOUS
    <3>3. p \in Flows(t, n) BY <3>1, <3>2, Zenon DEF Flows, Spots
    <3> QED BY <3>3
  <2>4. ItemText(input, Ts, pass, i, p) = ItemText(input, Ts, other, i, p) BY <2>3, Zenon DEF ItemText
  <2> QED BY <2>4, Zenon DEF LeafAt
<1> QED BY <1>3, <1>4

(* The passes.                                                             *)

\* The other truth value, and the leaves of the pass that has it for tracer b.
Flipped(t) == IF Real(t) = "true" THEN "false" ELSE "true"
FlipLeaves(b, n) == Compose(input, Ts, FlipPass(Ts, b), n)

LEMMA PassFacts ==
    ASSUME Sources, NEW n \in 1..N
    PROVE  /\ DOMAIN RealLeaves(n) = Spots /\ DOMAIN TraceLeaves(n) = Spots /\ \A b : DOMAIN FlipLeaves(b, n) = Spots
           /\ \A t \in Ts : \A p \in Flows(t, n) :
                /\ RealLeaves(n)[p] = Shown(p, Real(t)) /\ TraceLeaves(n)[p] = Shown(p, StandIn(Ts, t))
                /\ \A b : FlipLeaves(b, n)[p] = Shown(p, IF t # b THEN StandIn(Ts, t) ELSE Flipped(t))
           /\ \A p \in Spots : (\A t \in Ts : p \notin Flows(t, n)) =>
                /\ RealLeaves(n)[p] = TraceLeaves(n)[p] /\ \A b : FlipLeaves(b, n)[p] = TraceLeaves(n)[p]
<1>1. /\ DOMAIN RealLeaves(n) = Spots /\ DOMAIN TraceLeaves(n) = Spots /\ \A b : DOMAIN FlipLeaves(b, n) = Spots
      /\ \A p \in Spots : /\ RealLeaves(n)[p] = LeafAt(input, Ts, RealPass(Ts), n, p)
                      /\ TraceLeaves(n)[p] = LeafAt(input, Ts, TracePass(Ts), n, p)
                      /\ \A b : FlipLeaves(b, n)[p] = LeafAt(input, Ts, FlipPass(Ts, b), n, p)
  BY DEF RealLeaves, TraceLeaves, FlipLeaves, Compose, Spots
<1>2. ASSUME NEW t \in Ts, NEW p \in Flows(t, n)
      PROVE  /\ RealLeaves(n)[p] = Shown(p, Real(t)) /\ TraceLeaves(n)[p] = Shown(p, StandIn(Ts, t))
             /\ \A b : FlipLeaves(b, n)[p] = Shown(p, IF t # b THEN StandIn(Ts, t) ELSE Flipped(t))
  <2>1. p \in Spots BY FlowsFacts
  <2>2. \A pass : LeafAt(input, Ts, pass, n, p) = Shown(p, pass[t]) BY LeafOfTracer
  <2>3. RealPass(Ts)[t] = Real(t) /\ TracePass(Ts)[t] = StandIn(Ts, t) BY DEF RealPass, TracePass
  <2>4. \A b : FlipPass(Ts, b)[t] = IF t # b THEN StandIn(Ts, t) ELSE Flipped(t) BY DEF FlipPass, Flipped
  <2> QED BY <1>1, <2>1, <2>2, <2>3, <2>4
<1>3. ASSUME NEW p \in Spots, \A t \in Ts : p \notin Flows(t, n)
      PROVE  RealLeaves(n)[p] = TraceLeaves(n)[p] /\ \A b : FlipLeaves(b, n)[p] = TraceLeaves(n)[p]
  <2>1. \A pass, other : LeafAt(input, Ts, pass, n, p) = LeafAt(input, Ts, other, n, p) BY <1>3, LeafOfNone
  <2> QED BY <1>1, <2>1
<1> QED BY <1>1, <1>2, <1>3

\* A stand-in of a text is never a boolean, or nothing.
LEMMA StandInShown ==
    ASSUME Sources, ~Indistinct(Ts), NEW t \in Ts, ~IsBoolean(t)
    PROVE  StandIn(Ts, t) \notin {"false", Nothing}
<1>1. CASE ~Long(Real(t))
  <2>1. StandIn(Ts, t) = "x" BY <1>1 DEF StandIn
  <2> QED BY <2>1 DEF Nothing
<1>2. CASE Long(Real(t))
  <2> DEFINE at(p) == CHOOSE j \in DOMAIN Places : Places[j] = p
             B == {u \in Ts : u.source < t.source \/ (u.source = t.source /\ at(u.place) < at(t.place))}
  <2>1. StandIn(Ts, t) = Heads[1 + Cardinality(B)] BY <1>2, Zenon DEF StandIn, Id
  <2>2. IsFiniteSet(Ts) BY TracersFinite DEF Sources
  <2>3. Cardinality(Ts) \in Nat /\ Cardinality(Ts) <= 4
    <3>1. Len(Heads) = 4 BY DEF Heads
    <3>2. Cardinality(Ts) \in Nat BY <2>2, FS_CardinalityType
    <3>3. ~(Cardinality(Ts) > Len(Heads)) BY DEF Indistinct
    <3> QED BY <3>1, <3>2, <3>3
  <2>4. Cardinality(Ts \ {t}) = Cardinality(Ts) - 1 /\ IsFiniteSet(Ts \ {t}) BY <2>2, FS_RemoveElement
  <2>5. t \notin B
    <3>1. t.source \in Int BY TracerFacts
    <3>2. at(t.place) \in Int
      <4>1. PICK j \in DOMAIN Places : Places[j] = t.place BY TracerFacts DEF Spots, Range
      <4>2. DOMAIN Places \subseteq Int BY DEF Places
      <4> QED BY <4>1, <4>2
    <3> HIDE DEF at
    <3> QED BY <3>1, <3>2
  <2>6. B \in SUBSET (Ts \ {t}) BY <2>5
  <2> HIDE DEF B
  <2>7. IsFiniteSet(B) /\ Cardinality(B) <= Cardinality(Ts \ {t}) BY <2>4, <2>6, FS_Subset
  <2>8. Cardinality(B) \in Nat BY <2>7, FS_CardinalityType
  <2>9. 1 + Cardinality(B) \in 1..4 BY <2>3, <2>4, <2>7, <2>8
  <2>10. \A j \in 1..4 : Heads[j] \notin {"false", Nothing}
    <3>1. \A j \in 1..4 : j = 1 \/ j = 2 \/ j = 3 \/ j = 4 OBVIOUS
    <3> QED BY <3>1 DEF Heads, Nothing
  <2> QED BY <2>1, <2>9, <2>10
<1> QED BY <1>1, <1>2

LEMMA TextFlows ==
    ASSUME Sources, ~Indistinct(Ts), NEW t \in Ts, ~IsBoolean(t), NEW n \in 1..N
    PROVE  {p \in CarriedAt(Ts, t, TraceLeaves(n)) : RealLeaves(n)[p] # TraceLeaves(n)[p]} = Flows(t, n)
<1> DEFINE real == RealLeaves(n)
           trace == TraceLeaves(n)
<1>1. ASSUME NEW p \in Flows(t, n) PROVE p \in CarriedAt(Ts, t, trace) /\ real[p] # trace[p]
  <2>1. p \in Spots BY FlowsFacts
  <2>2. StandIn(Ts, t) \notin {"false", Nothing} BY StandInShown
  <2>3. trace[p] = StandIn(Ts, t) BY <2>2, PassFacts DEF Shown
  <2>4. real[p] = Real(t)
    <3>1. Real(t) # "false" BY DEF IsBoolean
    <3> QED BY <3>1, PassFacts DEF Shown
  <2>5. StandIn(Ts, t) # Real(t) BY DEF Indistinct
  <2>6. Carried(Ts, t, trace[p]) BY <2>3 DEF Carried, Has
  <2>7. p \in Leaves(trace) BY <2>1, <2>2, <2>3, PassFacts DEF Leaves
  <2> QED BY <2>3, <2>4, <2>5, <2>6, <2>7 DEF CarriedAt
<1>2. ASSUME NEW p \in CarriedAt(Ts, t, trace), real[p] # trace[p] PROVE p \in Flows(t, n)
  <2>1. p \in Spots /\ Carried(Ts, t, trace[p]) BY PassFacts DEF CarriedAt, Leaves
  <2>2. PICK u \in Ts : p \in Flows(u, n) BY <1>2, <2>1, PassFacts
  <2>3. ~IsBoolean(u)
    <3> SUFFICES ASSUME IsBoolean(u) PROVE FALSE OBVIOUS
    <3>1. StandIn(Ts, u) = Real(u) BY DEF StandIn
    <3> QED BY <1>2, <2>2, <3>1, PassFacts
  <2>4. trace[p] = StandIn(Ts, u) BY <2>2, <2>3, StandInShown, PassFacts DEF Shown
  <2>5. u = t BY <2>1, <2>3, <2>4 DEF Indistinct
  <2> QED BY <2>2, <2>5
<1>3. CarriedAt(Ts, t, trace) \subseteq Spots BY PassFacts DEF CarriedAt, Leaves
<1> QED BY <1>1, <1>2

LEMMA BooleanFlows ==
    ASSUME Sources, NEW b \in Ts, IsBoolean(b), NEW n \in 1..N, ~ShapeDiffers(TraceLeaves(n), FlipLeaves(b, n))
    PROVE  Changed(TraceLeaves(n), FlipLeaves(b, n)) = Flows(b, n)
<1> DEFINE trace == TraceLeaves(n)
           flip == FlipLeaves(b, n)
<1>1. ASSUME NEW p \in Flows(b, n) PROVE p \in Leaves(trace) /\ trace[p] # flip[p]
  <2>1. p \in Spots BY FlowsFacts
  <2>2. trace[p] = Shown(p, Real(b)) /\ flip[p] = Shown(p, Flipped(b))
    <3>1. StandIn(Ts, b) = Real(b) BY DEF StandIn
    <3> QED BY <3>1, PassFacts
  <2>3. p \in Leaves(trace) <=> p \in Leaves(flip) BY DEF ShapeDiffers
  <2>4. (p \in Leaves(trace) <=> trace[p] # Nothing) /\ (p \in Leaves(flip) <=> flip[p] # Nothing)
    BY <2>1, PassFacts DEF Leaves
  <2>5. {Real(b), Flipped(b)} = {"true", "false"} BY DEF IsBoolean, Flipped
  <2> HIDE DEF trace, flip
  <2>6. CASE p \in Omitted
    <3>1. Shown(p, "false") = Nothing /\ Shown(p, "true") = "true" BY <2>6 DEF Shown
    <3>2. Nothing # "true" BY DEF Nothing
    <3>3. (trace[p] = Nothing /\ flip[p] = "true") \/ (trace[p] = "true" /\ flip[p] = Nothing)
      BY <2>2, <2>5, <3>1
    <3> QED BY <2>3, <2>4, <3>2, <3>3
  <2>7. CASE p \notin Omitted
    <3>1. trace[p] = Real(b) /\ flip[p] = Flipped(b) BY <2>2, <2>7 DEF Shown
    <3>2. Real(b) # Flipped(b) BY <2>5
    <3>3. Real(b) # Nothing BY <2>5 DEF Nothing
    <3> QED BY <2>4, <3>1, <3>2, <3>3
  <2> QED BY <2>6, <2>7
<1>2. ASSUME NEW p \in Leaves(trace), trace[p] # flip[p] PROVE p \in Flows(b, n)
  <2>1. p \in Spots BY PassFacts DEF Leaves
  <2>2. PICK u \in Ts : p \in Flows(u, n) BY <1>2, <2>1, PassFacts
  <2>3. u = b BY <1>2, <2>2, PassFacts
  <2> QED BY <2>2, <2>3
<1> QED BY <1>1, <1>2 DEF Changed

(* The counts, and the outcomes read off them.                             *)

LEMMA CountIs ==
    ASSUME Sources, ~Indistinct(Ts), NEW t \in Ts, NEW n \in 1..N,
           IsBoolean(t) => ~ShapeDiffers(TraceLeaves(n), FlipLeaves(t, n))
    PROVE  CountAt(input, Ts, t, n) = Cardinality(Flows(t, n))
<1>1. CountAt(input, Ts, t, n) = Count(Ts, t, RealLeaves(n), TraceLeaves(n), FlipLeaves(t, n))
  BY DEF CountAt, RealLeaves, TraceLeaves, FlipLeaves
<1>2. CASE IsBoolean(t) BY <1>1, <1>2, BooleanFlows DEF Count
<1>3. CASE ~IsBoolean(t) BY <1>1, <1>3, TextFlows DEF Count
<1> QED BY <1>2, <1>3

\* A later source only takes places from an occurrence.
LEMMA FlowsShrink ==
    ASSUME Sources, NEW t \in Ts, NEW n \in 1..N, NEW m \in 1..N, t.source <= n, n <= m
    PROVE  Flows(t, m) \subseteq Flows(t, n)
<1> SUFFICES ASSUME NEW p \in Flows(t, m) PROVE p \in Flows(t, n) OBVIOUS
<1>1. /\ p \in Spots /\ LastAt(input, m, p) = t.source /\ input[t.source][p].kind \in {"ref", "alias"}
      /\ t.place = (IF input[t.source][p].kind = "alias" THEN input[t.source][p].to ELSE p)
  BY FlowsFacts
<1>2. t.source \in 1..N /\ m \in Nat /\ n \in Nat BY TracerFacts
<1>3. LastAt(input, n, p) = t.source
  <2> DEFINE l == LastAt(input, n, p)
  <2>1. l # 0 /\ t.source <= l
    <3>1. t.source \in 1..n /\ input[t.source][p].kind # "absent" BY <1>1, <1>2
    <3> QED BY <1>2, <3>1, LastAtFacts
  <2>2. l \in 0..n /\ input[l][p].kind # "absent" BY <1>2, <2>1, LastAtFacts
  <2>3. l \in 1..m BY <1>2, <2>1, <2>2
  <2>4. l <= t.source BY <1>1, <1>2, <2>2, <2>3, LastAtFacts
  <2> HIDE DEF l
  <2>5. l = t.source BY <1>2, <2>1, <2>2, <2>4
  <2> QED BY <2>5 DEF l
<1> QED BY <1>1, <1>3, Zenon DEF Flows, Spots

LEMMA FlowsCounted ==
    ASSUME NEW t, NEW n
    PROVE  /\ IsFiniteSet(Flows(t, n)) /\ Cardinality(Flows(t, n)) \in Nat
           /\ Cardinality(Flows(t, n)) = 0 <=> Flows(t, n) = {}
<1>1. Flows(t, n) \in SUBSET Spots BY DEF Flows, Spots
<1>2. IsFiniteSet(Flows(t, n)) BY <1>1, PlacesFinite, FS_Subset
<1> QED BY <1>2, FS_CardinalityType, FS_EmptySet

LEMMA FlowsCompared ==
    ASSUME Sources, NEW t \in Ts, NEW n \in 1..N, NEW m \in 1..N, t.source <= n, n <= m
    PROVE  /\ Cardinality(Flows(t, m)) <= Cardinality(Flows(t, n))
           /\ Cardinality(Flows(t, m)) = Cardinality(Flows(t, n)) <=> Flows(t, m) = Flows(t, n)
<1>1. Flows(t, m) \in SUBSET Flows(t, n) BY FlowsShrink
<1>2. IsFiniteSet(Flows(t, n)) BY FlowsCounted
<1> QED BY <1>1, <1>2, FS_Subset

LEMMA MinShifted ==
    ASSUME NEW L, L \subseteq Nat, L # {}, \A x \in L : x >= 2
    PROVE  Min({x - 2 : x \in L}) = Min(L) - 2 /\ Min(L) - 2 \in Nat
<1> DEFINE S == {x - 2 : x \in L}
           l == Min(L)
           m == Min(S)
<1>1. l \in L /\ \A y \in L : l <= y BY MinFacts
<1> HIDE DEF l
<1>2. l \in Nat /\ l >= 2 BY <1>1
<1>3. \A x \in L : x \in Nat /\ x - 2 \in Nat /\ l - 2 <= x - 2
  <2> SUFFICES ASSUME NEW x \in L PROVE x \in Nat /\ x - 2 \in Nat /\ l - 2 <= x - 2 OBVIOUS
  <2>1. x \in Nat /\ x >= 2 /\ l <= x BY <1>1
  <2> QED BY <1>2, <2>1
<1>4. S \subseteq Nat /\ l - 2 \in S BY <1>1, <1>3
<1>5. \A y \in S : l - 2 <= y BY <1>3
<1>6. m \in S /\ \A y \in S : m <= y
  <2> HIDE DEF S
  <2> QED BY <1>4, MinFacts
<1> HIDE DEF S, m
<1>7. m \in Nat /\ m <= l - 2 /\ l - 2 <= m BY <1>4, <1>5, <1>6
<1>8. m = l - 2 /\ l - 2 \in Nat BY <1>2, <1>7
<1> QED BY <1>8 DEF m, l, S

LEMMA LastOf ==
    ASSUME NEW n \in Nat \ {0}, NEW f, DOMAIN f = 1..n, f = [i \in 1..n |-> f[i]]
    PROVE  Last(f) = f[n]
<1>1. f \in Seq({f[i] : i \in 1..n}) OBVIOUS
<1>2. Len(f) = n BY <1>1
<1> QED BY <1>2 DEF Last

\* The sources at which an occurrence is lost.
Losses(t) ==
    {m \in (t.source + 1)..N :
       IF t.source = 1 /\ Flows(t, N) # {} THEN Flows(t, m) # Flows(t, 1) ELSE Flows(t, m) = {}}

LEMMA LostFacts ==
    ASSUME Sources, NEW t \in Ts
    PROVE  /\ LostBy(t) = {n - 2 : n \in Losses(t)}
           /\ Losses(t) \subseteq Nat /\ \A x \in Losses(t) : x >= 2
           /\ Losses(t) # {} => Min(LostBy(t)) = Min(Losses(t)) - 2 /\ Min(Losses(t)) - 2 \in Nat
<1>1. LostBy(t) = {n - 2 : n \in Losses(t)} BY DEF LostBy, Losses
<1>2. t.source \in Nat \ {0} BY TracerFacts
<1>3. Losses(t) \subseteq Nat /\ \A x \in Losses(t) : x >= 2 BY <1>2 DEF Losses, Sources
<1> QED BY <1>1, <1>3, MinShifted

\* Outcome o tells the truth of t: where it shows, and the source that lost it.
Told(t, o) ==
    /\ o.places = Flows(t, N)
    /\ LostBy(t) = {} => o.by = -1
    /\ LostBy(t) # {} => o.by = Min(LostBy(t)) /\ o.by \in Nat

LEMMA OutcomeTold ==
    ASSUME Sources, ~Indistinct(Ts), NEW t \in Ts, NEW full, full = Flows(t, N),
           \A n \in Asked(input, Ts, t, full) : ~PrefixUnfaithful(input, Ts, t, n),
           NEW o, o = OutcomeOf(t, full, Counts(input, Ts, t, full)), o.by # -2
    PROVE  Told(t, o)
<1> DEFINE c == Counts(input, Ts, t, full)
           src == t.source
           k(n) == Cardinality(Flows(t, n))
<1>1. src \in 1..N /\ N \in Nat \ {0} BY TracerFacts DEF Sources
<1>2. /\ DOMAIN c = 1..N /\ c = [n \in 1..N |-> c[n]] /\ c[N] = k(N)
      /\ \A n \in 1..N : n # N => c[n] = CountAt(input, Ts, t, n)
  BY <1>1 DEF Counts, N
<1>3. ASSUME NEW n \in Asked(input, Ts, t, full), n \in 1..(N - 1) PROVE c[n] = k(n)
  <2>1. n \in 1..N /\ n # N BY <1>1, <1>3
  <2>2. ~PrefixUnfaithful(input, Ts, t, n) OBVIOUS
  <2>3. IsBoolean(t) => ~ShapeDiffers(TraceLeaves(n), FlipLeaves(t, n))
    BY <2>2 DEF PrefixUnfaithful, TraceLeaves, FlipLeaves
  <2>4. CountAt(input, Ts, t, n) = k(n) BY <2>1, <2>3, CountIs
  <2> QED BY <1>2, <2>1, <2>4
<1>4. o.places = full /\ o.by = (IF full = {} THEN Overrider(c, src) ELSE IF src = 1 THEN Narrowed(c) ELSE -1)
  BY DEF OutcomeOf
<1>5. \A n \in 1..N : k(n) \in Nat /\ (k(n) = 0 <=> Flows(t, n) = {}) BY FlowsCounted
<1> HIDE DEF c, k
<1>6. CASE full = {}
  <2>1. Asked(input, Ts, t, full) = src..(N - 1) BY <1>6 DEF Asked, N
  <2>2. ASSUME NEW n \in src..N PROVE c[n] = k(n) /\ n \in 1..N
    <3>1. n \in 1..N BY <1>1
    <3>2. CASE n = N BY <1>2, <3>1, <3>2
    <3>3. CASE n # N
      <4>1. n \in src..(N - 1) /\ n \in 1..(N - 1) BY <1>1, <3>3
      <4> QED BY <1>3, <2>1, <3>1, <4>1
    <3> QED BY <3>2, <3>3
  <2> DEFINE gone == {n \in DOMAIN c : n > src /\ c[n] = 0}
  <2>3. gone = Losses(t)
    <3>1. gone = {n \in (src + 1)..N : c[n] = 0} BY <1>1, <1>2
    <3>2. \A n \in (src + 1)..N : n \in src..N BY <1>1
    <3>3. Losses(t) = {n \in (src + 1)..N : Flows(t, n) = {}} BY <1>6 DEF Losses
    <3> QED BY <1>5, <2>2, <3>1, <3>2, <3>3
  <2>4. Overrider(c, src) = IF c[src] = 0 \/ gone = {} THEN -2 ELSE Min(gone) - 2 BY DEF Overrider
  <2> HIDE DEF gone
  <2>5. gone # {} /\ o.by = Min(gone) - 2 BY <1>4, <1>6, <2>4
  <2>6. LostBy(t) # {} BY <2>3, <2>5, LostFacts
  <2>7. o.by = Min(LostBy(t)) /\ o.by \in Nat BY <2>3, <2>5, LostFacts
  <2> QED BY <1>4, <2>6, <2>7 DEF Told
<1>7. CASE full # {} /\ src # 1
  <2>1. o.by = -1 BY <1>4, <1>7
  <2>2. Losses(t) = {}
    <3> SUFFICES ASSUME NEW m \in (src + 1)..N, Flows(t, m) = {} PROVE FALSE BY <1>7 DEF Losses
    <3>1. m \in 1..N /\ src <= m /\ m <= N /\ N \in 1..N BY <1>1
    <3> QED BY <1>7, <3>1, FlowsShrink
  <2>3. LostBy(t) = {} BY <2>2, LostFacts
  <2> QED BY <1>4, <2>1, <2>3 DEF Told
<1>8. CASE full # {} /\ src = 1
  <2> DEFINE other == {n \in DOMAIN c : c[n] # c[1]}
  <2>1. Narrowed(c) = IF c[N] = c[1] THEN -1
                      ELSE IF c[Min(other)] < c[1] THEN Min(other) - 2 ELSE -2
    BY <1>1, <1>2, LastOf, Zenon DEF Narrowed
  <2> HIDE DEF other
  <2>2. Losses(t) = {m \in 2..N : Flows(t, m) # Flows(t, 1)} BY <1>8 DEF Losses
  <2>3. \A m \in 1..N : k(m) <= k(1) /\ k(N) <= k(m) /\ (k(m) = k(1) <=> Flows(t, m) = Flows(t, 1))
    <3> SUFFICES ASSUME NEW m \in 1..N
                 PROVE  k(m) <= k(1) /\ k(N) <= k(m) /\ (k(m) = k(1) <=> Flows(t, m) = Flows(t, 1))
      OBVIOUS
    <3>1. 1 \in 1..N /\ N \in 1..N /\ 1 <= m /\ m <= N /\ src <= 1 /\ src <= m BY <1>1, <1>8
    <3> QED BY <3>1, FlowsCompared DEF k
  <2>4. c[1] = k(1)
    <3>1. CASE N = 1 BY <1>2, <3>1
    <3>2. CASE N # 1
      <4>1. 1 \in 1..(N - 1) BY <1>1, <3>2
      <4>2. 1 \in Asked(input, Ts, t, full) BY <1>8, <3>2, <4>1 DEF Asked, N
      <4> QED BY <1>3, <4>1, <4>2
    <3> QED BY <3>1, <3>2
  <2>5. CASE c[N] = c[1]
    <3>1. \A m \in 1..N : Flows(t, m) = Flows(t, 1) BY <1>1, <1>2, <1>5, <2>3, <2>4, <2>5
    <3>2. Losses(t) = {} BY <1>1, <2>2, <3>1
    <3>3. LostBy(t) = {} BY <3>2, LostFacts
    <3> QED BY <1>4, <1>8, <2>1, <2>5, <3>3 DEF Told
  <2>6. CASE c[N] # c[1]
    <3>1. N # 1 BY <2>6
    <3>2. N \in other /\ other \subseteq 1..N BY <1>1, <1>2, <2>6 DEF other
    <3> DEFINE first == Min(other)
    <3>3. first \in other /\ \A m \in 1..N : m < first => m \notin other
      <4>1. other \subseteq Nat /\ other # {} BY <3>2
      <4>2. first \in other /\ \A m \in other : first <= m BY <4>1, MinFacts
      <4> HIDE DEF first, other
      <4>3. \A m \in 1..N : m < first => m \notin other
        <5>1. first \in Nat BY <4>1, <4>2
        <5> QED BY <1>1, <4>2, <5>1
      <4> QED BY <4>2, <4>3
    <3> HIDE DEF first
    <3>4. first \in 1..N /\ c[first] # c[1] /\ \A m \in 1..N : m < first => c[m] = c[1]
      BY <1>2, <3>2, <3>3 DEF other
    <3>5. \A n \in 1..N : n <= first => c[n] = k(n)
      <4>1. CountAt(input, Ts, t, 1) # Cardinality(full) BY <1>1, <1>2, <2>6, <3>1 DEF k
      <4> SUFFICES ASSUME NEW n \in 1..N, n <= first, n # N PROVE c[n] = k(n) BY <1>1, <1>2
      <4>2. n \in 1..(N - 1) BY <1>1
      <4>3. ASSUME NEW m \in 1..(n - 1) PROVE CountAt(input, Ts, t, m) = CountAt(input, Ts, t, 1)
        <5>1. m \in 1..N /\ m < first /\ m # N /\ 1 \in 1..N /\ 1 # N BY <1>1, <3>1, <3>4, <4>2
        <5> QED BY <1>2, <3>4, <5>1
      <4>4. n \in Asked(input, Ts, t, full) BY <1>8, <3>1, <4>1, <4>2, <4>3 DEF Asked, N
      <4> QED BY <1>3, <4>2, <4>4
    <3>6. first \in Losses(t) /\ \A m \in Losses(t) : first <= m
      <4>1. k(first) # k(1) /\ \A m \in 1..N : m < first => k(m) = k(1)
        BY <1>1, <2>4, <3>4, <3>5
      <4>2. first # 1 BY <4>1
      <4>3. first \in 2..N BY <1>1, <3>4, <4>2
      <4>4. first \in Losses(t) BY <2>2, <2>3, <3>4, <4>1, <4>3
      <4>5. ASSUME NEW m \in Losses(t), ~(first <= m) PROVE FALSE
        <5>1. m \in 1..N /\ Flows(t, m) # Flows(t, 1) /\ m < first BY <1>1, <2>2, <3>4, <4>5
        <5> QED BY <2>3, <4>1, <5>1
      <4> QED BY <4>4, <4>5
    <3>7. Min(Losses(t)) = first BY <3>6, LostFacts, LeastIsMin
    <3>8. o.by = first - 2 BY <1>4, <1>8, <2>1, <2>6, <3>4 DEF first
    <3>9. LostBy(t) # {} /\ o.by = Min(LostBy(t)) /\ o.by \in Nat BY <3>6, <3>7, <3>8, LostFacts
    <3> QED BY <1>4, <3>9 DEF Told
  <2> QED BY <2>5, <2>6
<1> QED BY <1>6, <1>7, <1>8

(* The invariant.                                                          *)

\* What a refusal's message quotes.
MessageSafe ==
    message.shown \notin {Nothing, Token, Withheld} =>
        /\ message.of \notin UNION {Flows(t, message.upto) : t \in Ts}
        /\ \A v \in Held(Ts) : Long(v) => ~Has(message.shown, v)

\* The attributions, and then the outcomes, are what the sources really do with each reference.
CompileInv ==
    /\ input \in Compositions
    /\ stage = "flip" => /\ ~Indistinct(Ts) /\ DOMAIN attrs = Ts
                         /\ \A t \in Ts : ~IsBoolean(t) => attrs[t] = Flows(t, N)
    /\ stage = "outcomes" => /\ ~Indistinct(Ts) /\ DOMAIN attrs = Ts /\ \A t \in Ts : attrs[t] = Flows(t, N)
    /\ stage \in {"check", "validate", "compiled"} => DOMAIN outcomes = Ts /\ \A t \in Ts : Told(t, outcomes[t])
    /\ stage \in {"validate", "compiled"} => OutputRule(RealLeaves(N), Ts, outcomes) = Nothing
    /\ MessageSafe

LEMMA SourcesHold == ASSUME input \in Compositions PROVE Sources
BY CompileAssumption DEF Sources, N, Spots

\* What depends on the input alone.
LEMMA InputFixed ==
    ASSUME input' = input
    PROVE  /\ Ts' = Ts /\ N' = N /\ \A n : RealLeaves(n)' = RealLeaves(n) /\ TraceLeaves(n)' = TraceLeaves(n)
           /\ \A t, n : Flows(t, n)' = Flows(t, n)
           /\ \A t : LostBy(t)' = LostBy(t)
BY DEF Ts, N, RealLeaves, TraceLeaves, Flows, LostBy

LEMMA RejectedSafe ==
    ASSUME Sources, NEW n \in 1..N, NEW p \in Spots, NEW alike \in BOOLEAN, NEW r, Rejected(n, p, alike, r),
           input' = input, MessageSafe
    PROVE  MessageSafe'
<1> DEFINE real == RealLeaves(n)[p]
           trace == TraceLeaves(n)[p]
           both == alike /\ ~Indistinct(Ts)
           m == MessageShown(Ts, real, trace, both, n)
           quoted == {t \in Ts : ~Headless(t) /\ Carried(Ts, t, trace)}
<1>1. message' = [shown |-> m, of |-> p, upto |-> n] BY DEF Rejected
<1>2. message'.shown = m /\ message'.of = p /\ message'.upto = n BY <1>1
<1>3. m = IF ~both \/ ~Marked(Ts, n) THEN Withheld
          ELSE IF quoted # {} THEN Token
          ELSE IF real # trace THEN Withheld
          ELSE IF Copied(real, Ts) THEN Token ELSE real
  BY DEF MessageShown
<1> HIDE DEF m, quoted
<1>4. Ts' = Ts /\ \A t : Flows(t, n)' = Flows(t, n) BY InputFixed
<1>5. ASSUME m \notin {Nothing, Token, Withheld}
      PROVE  p \notin UNION {Flows(t, n) : t \in Ts} /\ \A v \in Held(Ts) : Long(v) => ~Has(m, v)
  <2>1. both /\ Marked(Ts, n) /\ real = trace /\ ~Copied(real, Ts) /\ m = real BY <1>3, <1>5
  <2>2. ASSUME NEW t \in Ts, p \in Flows(t, n) PROVE FALSE
    <3>1. t.source <= n
      <4>1. n \in Nat BY DEF Sources
      <4> QED BY <2>2, <4>1, FlowsFacts, LastAtFacts
    <3>2. ~IsBoolean(t) BY <2>1, <3>1 DEF Marked
    <3>3. StandIn(Ts, t) # Real(t) BY <2>1, <3>2 DEF Indistinct
    <3>4. trace = StandIn(Ts, t) BY <2>1, <2>2, <3>2, StandInShown, PassFacts DEF Shown
    <3>5. real = Real(t)
      <4>1. Real(t) # "false" BY <3>2 DEF IsBoolean
      <4> QED BY <2>2, <4>1, PassFacts DEF Shown
    <3> QED BY <2>1, <3>3, <3>4, <3>5
  <2> QED BY <2>1, <2>2 DEF Copied
<1>6. Held(Ts)' = Held(Ts) BY <1>4 DEF Held, Real, IsBoolean, IsMember
<1> HIDE DEF real, trace, both
<1>7. UNION {Flows(t, message.upto) : t \in Ts}' = UNION {Flows(t, n) : t \in Ts}
  <2>1. \A t : Flows(t, message.upto)' = Flows(t, n) BY <1>2, InputFixed DEF Flows, Ts, LastAt
  <2> QED BY <1>4, <2>1
<1> QED BY <1>2, <1>5, <1>6, <1>7 DEF MessageSafe

LEMMA MessageKept ==
    ASSUME MessageSafe, input' = input, message' = message
    PROVE  MessageSafe'
<1>1. Ts' = Ts BY InputFixed
<1>2. Held(Ts)' = Held(Ts) BY <1>1 DEF Held, Real, IsBoolean, IsMember
<1>3. \A t : Flows(t, message.upto)' = Flows(t, message.upto) BY DEF Flows, Ts, LastAt
<1>4. UNION {Flows(t, message.upto) : t \in Ts}' = UNION {Flows(t, message.upto) : t \in Ts} BY <1>1, <1>3
<1> QED BY <1>2, <1>4 DEF MessageSafe

LEMMA IndistinctFixed ==
    ASSUME input' = input
    PROVE  Indistinct(Ts)' <=> Indistinct(Ts)
BY InputFixed DEF Indistinct, StandIn, Id, Carried, IsBoolean, Real, Headless

LEMMA ToldKept ==
    ASSUME input' = input, outcomes' = outcomes, DOMAIN outcomes = Ts, \A t \in Ts : Told(t, outcomes[t])
    PROVE  (DOMAIN outcomes = Ts /\ \A t \in Ts : Told(t, outcomes[t]))'
BY InputFixed DEF Told

LEMMA AttributeKeeps ==
    ASSUME CompileInv, Attribute
    PROVE  CompileInv'
<1>1. input' = input /\ message' = message /\ stage' \in {"refused", "flip"} BY DEF Attribute, Refuse
<1>2. input' \in Compositions /\ Sources /\ MessageSafe' BY <1>1, SourcesHold, MessageKept DEF CompileInv
<1>3. ASSUME stage' = "flip"
      PROVE  /\ ~Indistinct(Ts) /\ ~Unfaithful(Ts, RealLeaves(N), TraceLeaves(N))
             /\ attrs' = [t \in Ts |-> CarriedAt(Ts, t, TraceLeaves(N))]
  BY <1>3 DEF Attribute, Refuse
<1>4. ASSUME stage' = "flip", NEW t \in Ts, ~IsBoolean(t) PROVE attrs'[t] = Flows(t, N)
  <2> DEFINE real == RealLeaves(N)
             trace == TraceLeaves(N)
             C == CarriedAt(Ts, t, trace)
  <2>1. N \in 1..N BY <1>2 DEF Sources
  <2>2. attrs'[t] = C BY <1>3, <1>4
  <2>3. \A p \in C : real[p] # trace[p] BY <1>3, <1>4 DEF Unfaithful, CarriedAt
  <2>4. {p \in C : real[p] # trace[p]} = Flows(t, N) BY <1>2, <1>3, <1>4, <2>1, TextFlows
  <2> HIDE DEF C
  <2> QED BY <2>2, <2>3, <2>4
<1>5. stage' = "flip" => (~Indistinct(Ts) /\ DOMAIN attrs = Ts /\ \A t \in Ts : ~IsBoolean(t) => attrs[t] = Flows(t, N))'
  <2> SUFFICES ASSUME stage' = "flip"
               PROVE  /\ ~Indistinct(Ts)' /\ DOMAIN attrs' = Ts'
                      /\ \A t \in Ts' : ~IsBoolean(t) => attrs'[t] = Flows(t, N)'
    BY DEF IsBoolean, Real
  <2>1. ~Indistinct(Ts)' BY <1>1, <1>3, IndistinctFixed
  <2>2. DOMAIN attrs' = Ts' BY <1>1, <1>3, InputFixed
  <2>3. \A t : Flows(t, N)' = Flows(t, N) BY <1>1, InputFixed DEF Flows, Ts, LastAt
  <2> QED BY <1>1, <1>4, <2>1, <2>2, <2>3, InputFixed
<1> QED BY <1>1, <1>2, <1>5 DEF CompileInv

LEMMA FlipKeeps ==
    ASSUME CompileInv, Flip
    PROVE  CompileInv'
<1>1. input' = input /\ message' = message /\ stage = "flip" /\ stage' \in {"refused", "outcomes"} BY DEF Flip, Refuse
<1>2. input' \in Compositions /\ Sources /\ MessageSafe' BY <1>1, SourcesHold, MessageKept DEF CompileInv
<1>3. /\ ~Indistinct(Ts) /\ DOMAIN attrs = Ts /\ \A t \in Ts : ~IsBoolean(t) => attrs[t] = Flows(t, N)
  BY <1>1 DEF CompileInv
<1> DEFINE booleans == {t \in Ts : IsBoolean(t)}
           flips == [t \in booleans |-> FlipLeaves(t, N)]
<1>4. ASSUME stage' = "outcomes"
      PROVE  /\ \A t \in booleans : ~ShapeDiffers(TraceLeaves(N), flips[t])
             /\ attrs' = [t \in Ts |-> IF t \in booleans THEN Changed(TraceLeaves(N), flips[t]) ELSE attrs[t]]
  BY <1>4 DEF Flip, Refuse, FlipLeaves
<1>5. ASSUME stage' = "outcomes", NEW t \in Ts PROVE attrs'[t] = Flows(t, N)
  <2>1. N \in 1..N BY <1>2 DEF Sources
  <2>2. CASE IsBoolean(t)
    <3>1. flips[t] = FlipLeaves(t, N) /\ t \in booleans BY <2>2
    <3>2. attrs'[t] = Changed(TraceLeaves(N), FlipLeaves(t, N)) BY <1>4, <1>5, <3>1
    <3>3. ~ShapeDiffers(TraceLeaves(N), FlipLeaves(t, N)) BY <1>4, <1>5, <3>1
    <3> QED BY <1>2, <2>1, <2>2, <3>2, <3>3, BooleanFlows
  <2>3. CASE ~IsBoolean(t) BY <1>3, <1>4, <1>5, <2>3
  <2> QED BY <2>2, <2>3
<1>6. stage' = "outcomes" => (~Indistinct(Ts) /\ DOMAIN attrs = Ts /\ \A t \in Ts : attrs[t] = Flows(t, N))'
  <2> SUFFICES ASSUME stage' = "outcomes"
               PROVE  ~Indistinct(Ts)' /\ DOMAIN attrs' = Ts' /\ \A t \in Ts' : attrs'[t] = Flows(t, N)'
    OBVIOUS
  <2>1. ~Indistinct(Ts)' BY <1>1, <1>3, IndistinctFixed
  <2>2. DOMAIN attrs' = Ts' BY <1>1, <1>4, InputFixed
  <2>3. \A t : Flows(t, N)' = Flows(t, N) BY <1>1, InputFixed DEF Flows, Ts, LastAt
  <2> QED BY <1>1, <1>5, <2>1, <2>2, <2>3, InputFixed
<1> QED BY <1>1, <1>2, <1>6 DEF CompileInv

LEMMA OutcomesKeeps ==
    ASSUME CompileInv, Outcomes
    PROVE  CompileInv'
<1>1. input' = input /\ message' = message /\ stage = "outcomes" /\ stage' \in {"refused", "check"} BY DEF Outcomes, Refuse
<1>2. input' \in Compositions /\ Sources /\ MessageSafe' BY <1>1, SourcesHold, MessageKept DEF CompileInv
<1>3. /\ ~Indistinct(Ts) /\ DOMAIN attrs = Ts /\ \A t \in Ts : attrs[t] = Flows(t, N) BY <1>1 DEF CompileInv
<1> DEFINE outs == [t \in Ts |-> OutcomeOf(t, attrs[t], Counts(input, Ts, t, attrs[t]))]
<1>4. ASSUME stage' = "check"
      PROVE  /\ \A t \in Ts : \A n \in Asked(input, Ts, t, attrs[t]) : ~PrefixUnfaithful(input, Ts, t, n)
             /\ \A t \in Ts : outs[t].by # -2
             /\ outcomes' = outs
  BY <1>4 DEF Outcomes, Refuse
<1>5. ASSUME stage' = "check", NEW t \in Ts PROVE Told(t, outcomes'[t])
  <2>1. outcomes'[t] = OutcomeOf(t, attrs[t], Counts(input, Ts, t, attrs[t])) /\ outcomes'[t].by # -2
    BY <1>4, <1>5
  <2> QED BY <1>2, <1>3, <1>4, <1>5, <2>1, OutcomeTold
<1>6. stage' = "check" => (DOMAIN outcomes = Ts /\ \A t \in Ts : Told(t, outcomes[t]))'
  <2> SUFFICES ASSUME stage' = "check" PROVE DOMAIN outcomes' = Ts' /\ \A t \in Ts' : Told(t, outcomes[t])' OBVIOUS
  <2>1. DOMAIN outcomes' = Ts' BY <1>1, <1>4, InputFixed
  <2>2. \A t : Flows(t, N)' = Flows(t, N) BY <1>1, InputFixed DEF Flows, Ts, LastAt
  <2> QED BY <1>1, <1>5, <2>1, <2>2, InputFixed DEF Told
<1> QED BY <1>1, <1>2, <1>6 DEF CompileInv

LEMMA RuleFixed ==
    ASSUME input' = input, outcomes' = outcomes
    PROVE  OutputRule(RealLeaves(N), Ts, outcomes)' = OutputRule(RealLeaves(N), Ts, outcomes)
BY DEF OutputRule, RealLeaves, Ts, N

\* What checkOutput found nothing of.
LEMMA OutputPassed ==
    ASSUME NEW real, NEW ts, NEW outs, OutputRule(real, ts, outs) = Nothing
    PROVE  /\ \A t \in ts : t.source = 1 => ~(outs[t].by >= 0)
           /\ \A p \in Leaves(real) \ Attributed(outs) : ~Copied(real[p], ts)
<1> DEFINE A == \E t \in ts : t.source = 1 /\ outs[t].by >= 0
           B == \E p \in Leaves(real) \ Attributed(outs) : Copied(real[p], ts)
           C == \E p \in Leaves(real) \ PlacedKeys(ts, outs) : Copied(KeyOf[p], ts)
<1>1. OutputRule(real, ts, outs) = CASE A -> "base-override" [] B -> "exact-copy" [] C -> "exact-copy" [] OTHER -> Nothing
  BY DEF OutputRule
<1> HIDE DEF A, B, C
<1>2. ~A /\ ~B BY <1>1 DEF Nothing
<1> QED BY <1>2 DEF A, B

\* At every stage of the compiler the traced attributions and outcomes are the real flows of the values,
\* and a refusal's message quotes no text a value flows into (traceAll, flip, outcomes, refuse).
THEOREM CompileInvariant == CompileSpec => []CompileInv
<1>1. CompileInit => CompileInv
  BY DEF CompileInit, CompileInv, MessageSafe, NoMessage
<1>2. CompileInv /\ [CompileNext]_compileVars => CompileInv'
  <2> SUFFICES ASSUME CompileInv, [CompileNext]_compileVars PROVE CompileInv' OBVIOUS
  <2>1. Sources /\ MessageSafe BY SourcesHold DEF CompileInv
  <2>2. CASE Composes
    <3>1. input' = input /\ outcomes' = outcomes /\ stage' \in {"trace", "refused"} BY <2>2 DEF Composes, Rejected, Refuse
    <3>2. MessageSafe'
      <4>1. CASE message' = message BY <2>1, <3>1, <4>1, MessageKept
      <4>2. CASE \E n \in 1..N, p \in Range(Places), alike \in BOOLEAN : Rejected(n, p, alike, "rejected")
        BY <2>1, <3>1, <4>2, RejectedSafe DEF Spots
      <4> QED BY <2>2, <4>1, <4>2 DEF Composes
    <3> QED BY <3>1, <3>2 DEF CompileInv
  <2>3. CASE Attribute BY <2>3, AttributeKeeps
  <2>4. CASE Flip BY <2>4, FlipKeeps
  <2>5. CASE Outcomes BY <2>5, OutcomesKeeps
  <2>6. CASE Check
    <3>1. /\ input' = input /\ outcomes' = outcomes /\ message' = message /\ stage = "check"
          /\ stage' \in {"validate", "refused"}
          /\ stage' = "validate" => OutputRule(RealLeaves(N), Ts, outcomes) = Nothing
      BY <2>6 DEF Check, Refuse
    <3>2. MessageSafe' BY <2>1, <3>1, MessageKept
    <3>3. (DOMAIN outcomes = Ts /\ \A t \in Ts : Told(t, outcomes[t]))' BY <3>1, ToldKept DEF CompileInv
    <3>4. stage' = "validate" => OutputRule(RealLeaves(N), Ts, outcomes)' = Nothing BY <3>1, RuleFixed
    <3> QED BY <3>1, <3>2, <3>3, <3>4 DEF CompileInv
  <2>7. CASE Validates
    <3>1. /\ input' = input /\ outcomes' = outcomes /\ stage = "validate" /\ stage' \in {"compiled", "refused"}
      BY <2>7 DEF Validates, Rejected, Refuse
    <3>2. MessageSafe'
      <4>1. CASE message' = message BY <2>1, <3>1, <4>1, MessageKept
      <4>2. CASE \E p \in Range(Places), alike \in BOOLEAN : Rejected(N, p, alike, "invalid")
        <5>1. N \in 1..N BY <2>1 DEF Sources
        <5> QED BY <2>1, <3>1, <4>2, <5>1, RejectedSafe DEF Spots
      <4> QED BY <2>7, <4>1, <4>2 DEF Validates
    <3>3. (DOMAIN outcomes = Ts /\ \A t \in Ts : Told(t, outcomes[t]))' BY <3>1, ToldKept DEF CompileInv
    <3>4. OutputRule(RealLeaves(N), Ts, outcomes)' = Nothing BY <3>1, RuleFixed DEF CompileInv
    <3> QED BY <3>1, <3>2, <3>3, <3>4 DEF CompileInv
  <2>8. CASE UNCHANGED compileVars
    <3>1. input' = input /\ outcomes' = outcomes /\ message' = message /\ stage' = stage /\ attrs' = attrs BY <2>8 DEF compileVars
    <3>2. MessageSafe' BY <2>1, <3>1, MessageKept
    <3>3. (DOMAIN outcomes = Ts /\ \A t \in Ts : Told(t, outcomes[t]))' <=> (DOMAIN outcomes = Ts /\ \A t \in Ts : Told(t, outcomes[t]))
      BY <3>1, InputFixed DEF Told
    <3>4. OutputRule(RealLeaves(N), Ts, outcomes)' = OutputRule(RealLeaves(N), Ts, outcomes) BY <3>1, RuleFixed
    <3>5. Indistinct(Ts)' <=> Indistinct(Ts) BY <3>1, IndistinctFixed
    <3>6. Ts' = Ts /\ \A t : Flows(t, N)' = Flows(t, N) /\ (IsBoolean(t)' <=> IsBoolean(t))
      BY <3>1, InputFixed DEF Flows, Ts, LastAt, IsBoolean, Real
    <3> QED BY <3>1, <3>2, <3>3, <3>4, <3>5, <3>6 DEF CompileInv
  <2> QED BY <2>2, <2>3, <2>4, <2>5, <2>6, <2>7, <2>8 DEF CompileNext
<1> QED BY <1>1, <1>2, PTL DEF CompileSpec

\* Provenance is what happened (ProvenanceTrue), for every composition of sources: the stand-ins of Trace,
\* its flip passes and the passes over prefixes find the places that hold each reference's value, the
\* fragment that overrode it and no other, whatever literals and values look alike (attribute, overrider).
THEOREM ProvenanceTold == CompileSpec => []ProvenanceTrue
<1>1. CompileInv => ProvenanceTrue
  <2> SUFFICES ASSUME CompileInv PROVE ProvenanceTrue OBVIOUS
  <2>1. Sources BY SourcesHold DEF CompileInv
  <2>2. ASSUME stage \in {"check", "validate", "compiled"}
        PROVE  /\ Provenance = UNION {IF LostBy(t) # {} THEN {<<t, "overridden", Min(LostBy(t))>>}
                                      ELSE {<<t, "reached", p>> : p \in Flows(t, N)} : t \in Ts}
               /\ Effective = {t.name : t \in {u \in Ts : Flows(u, N) # {}}}
    <3>1. DOMAIN outcomes = Ts /\ \A t \in Ts : Told(t, outcomes[t]) BY <2>2 DEF CompileInv
    <3> DEFINE rows(t) == IF outcomes[t].by >= 0 THEN {<<t, "overridden", outcomes[t].by>>}
                          ELSE {<<t, "reached", p>> : p \in outcomes[t].places}
               true(t) == IF LostBy(t) # {} THEN {<<t, "overridden", Min(LostBy(t))>>}
                          ELSE {<<t, "reached", p>> : p \in Flows(t, N)}
    <3>2. ASSUME NEW t \in Ts PROVE rows(t) = true(t)
      <4>1. CASE LostBy(t) = {}
        <5>1. outcomes[t].by = -1 /\ outcomes[t].places = Flows(t, N) BY <3>1, <4>1 DEF Told
        <5>2. ~(outcomes[t].by >= 0) BY <5>1
        <5> QED BY <4>1, <5>1, <5>2
      <4>2. CASE LostBy(t) # {}
        <5>1. outcomes[t].by = Min(LostBy(t)) /\ outcomes[t].by \in Nat BY <3>1, <4>2 DEF Told
        <5>2. outcomes[t].by >= 0 BY <5>1
        <5> QED BY <4>2, <5>1, <5>2
      <4> QED BY <4>1, <4>2
    <3>3. Provenance = UNION {rows(t) : t \in Ts} BY <3>1 DEF Provenance
    <3> HIDE DEF rows, true
    <3>4. UNION {rows(t) : t \in Ts} = UNION {true(t) : t \in Ts} BY <3>2
    <3>5. Effective = {t.name : t \in {u \in Ts : Flows(u, N) # {}}}
      <4>1. {u \in DOMAIN outcomes : outcomes[u].places # {}} = {u \in Ts : Flows(u, N) # {}} BY <3>1 DEF Told
      <4> QED BY <4>1 DEF Effective
    <3> QED BY <3>3, <3>4, <3>5 DEF true
  <2>3. ASSUME stage = "compiled", NEW t \in Ts, t.source = 1 PROVE LostBy(t) = {}
    <3>1. Told(t, outcomes[t]) /\ OutputRule(RealLeaves(N), Ts, outcomes) = Nothing BY <2>3 DEF CompileInv
    <3>2. ~(outcomes[t].by >= 0) BY <2>3, <3>1, OutputPassed
    <3> QED BY <3>1, <3>2 DEF Told
  <2> QED BY <2>2, <2>3 DEF ProvenanceTrue
<1> QED BY <1>1, CompileInvariant, PTL

\* No value is shown outside the configuration (NoValueShown), for every composition of sources: not by
\* a compiled machine's literals, its redacted text and its records, nor by the message of a refusal
\* (checkOutput, redactedText, redactor, redactMessage).
THEOREM NothingShown == CompileSpec => []NoValueShown
<1>1. CompileInv => NoValueShown
  <2> SUFFICES ASSUME CompileInv PROVE NoValueShown OBVIOUS
  <2> DEFINE strings == Held(Ts)
             discloses(text) == text # Token /\ (text \in strings \/ \E v \in strings : Long(v) /\ Has(text, v))
             flows(n) == UNION {Flows(t, n) : t \in Ts}
             real == RealLeaves(N)
             shown == Redacted(real, Ts, outcomes)
  <2>1. \A text : ~discloses(ValueShown(text, Ts)) BY DEF ValueShown, Copied
  <2>2. ASSUME stage = "compiled", NEW p \in Leaves(real)
        PROVE  /\ p \notin flows(N) => \A v \in strings : Long(v) => ~Has(real[p], v)
               /\ p \in flows(N) => shown[p].leaf = Token
               /\ ~discloses(shown[p].leaf) /\ ~discloses(shown[p].key)
               /\ ~discloses(ShownPlace(p, Ts))
    <3>1. /\ DOMAIN outcomes = Ts /\ \A t \in Ts : Told(t, outcomes[t])
          /\ OutputRule(real, Ts, outcomes) = Nothing
      BY <2>2 DEF CompileInv
    <3>2. Attributed(outcomes) = flows(N)
      <4>1. \A t \in Ts : outcomes[t].places = Flows(t, N) BY <3>1 DEF Told
      <4> QED BY <3>1, <4>1 DEF Attributed
    <3>3. p \notin Attributed(outcomes) => ~Copied(real[p], Ts) BY <3>1, OutputPassed
    <3>4. /\ shown[p].leaf = IF p \in Attributed(outcomes) \cup SchemaSecrets THEN Token ELSE ValueShown(real[p], Ts)
          /\ shown[p].key = IF p \in PlacedKeys(Ts, outcomes) THEN Token ELSE ValueShown(KeyOf[p], Ts)
      BY DEF Redacted
    <3>5. ShownPlace(p, Ts) = ValueShown(KeyOf[p], Ts) BY DEF ShownPlace, ValueShown
    <3>6. ~discloses(Token) OBVIOUS
    <3>7. p \notin flows(N) => \A v \in strings : Long(v) => ~Has(real[p], v) BY <3>2, <3>3 DEF Copied
    <3> HIDE DEF discloses, shown, real
    <3> QED BY <2>1, <3>2, <3>4, <3>5, <3>6, <3>7
  <2>3. message.shown \notin {Nothing, Token, Withheld} =>
            /\ message.of \notin flows(message.upto)
            /\ \A v \in strings : Long(v) => ~Has(message.shown, v)
    BY DEF CompileInv, MessageSafe
  <2>4. stage = "compiled" =>
            \E r \in {real} : \E s \in {Redacted(r, Ts, outcomes)} :
              \A p \in Leaves(r) :
                 /\ p \notin flows(N) => \A v \in strings : Long(v) => ~Has(r[p], v)
                 /\ p \in flows(N) => s[p].leaf = Token
                 /\ ~discloses(s[p].leaf) /\ ~discloses(s[p].key)
                 /\ ~discloses(ShownPlace(p, Ts))
    <3> HIDE DEF discloses, flows, strings, real
    <3> QED BY <2>2
  <2> QED BY <2>3, <2>4 DEF NoValueShown
<1> QED BY <1>1, CompileInvariant, PTL

=============================================================================
