----------------------------- MODULE WriteProofs ------------------------------
(***************************************************************************)
(* Theorems about one logical write, for every number of sends, principals *)
(* and inputs, every choice of the limits and every number of entries.     *)
(***************************************************************************)
EXTENDS Write, SequenceTheorems, WellFoundedInduction, TLAPS

MaybeRecord == Record \cup {NoRecord}
SendPc == {"unsent", "arrived", "looking", "relook", "prepare", "begin", "committing", "resolving",
           "answered", "gone"}
SendRow ==
  [pc : SendPc, who : Principals, expected : 1 .. MaxEpoch, ifMatch : Nat, input : Inputs,
   seen : MaybeRecord, tries : Nat, tx : {"none", "open", "committed", "aborted"},
   stores : {"ok", "refused"}, reply : Replies, replayed : BOOLEAN, heard : BOOLEAN, overtook : BOOLEAN]
ClientRow ==
  [run : Nat \ {0}, pc : {"start", "context", "ready", "waiting", "repeat", "over"}, token : Principals,
   who : Principals, ref : 1 .. MaxEpoch, ifMatch : Nat, input : Inputs, try : Nat, ambiguous : BOOLEAN,
   renewed : BOOLEAN, waited : BOOLEAN, send : {0} \cup Sends, out : Outcomes, overtook : BOOLEAN]

ServerTyped ==
  /\ route \in {"plain", "draft", "fragment"} /\ service \in BOOLEAN /\ blocked \in BOOLEAN
  /\ limits \in Limits /\ left \in Nat
  /\ epoch \in 1 .. MaxEpoch /\ etags \in Nat \ {0} /\ draft \in 1 .. etags
  /\ claim \in [Principals -> {0} \cup Sends]
  /\ record \in [Principals -> MaybeRecord]
  /\ backup \in (1 .. etags) \X [Principals -> MaybeRecord]
  /\ commits \in Seq(Inputs)
  /\ req \in [Sends -> SendRow]
  /\ \A h \in Sends : req[h].tries <= limits.attempts
ClientTyped ==
  /\ store \in Principals /\ kept \in [epoch : 1 .. MaxEpoch, tag : 1 .. etags]
  /\ cli \in ClientRow /\ cli.try <= limits.repeats /\ (cli.out = "none" <=> cli.pc # "over")

\* The process sends in the order of its sends, under one principal, epoch and If-Match.
ClientFits ==
  /\ cli.ref <= epoch /\ cli.ifMatch <= etags
  /\ cli.pc \in {"ready", "waiting"} => cli.token = cli.who
  /\ cli.pc = "waiting" => cli.send \in Sends
  /\ cli.run > 1 => cli.ambiguous
  /\ cli.run > 1 => cli.out # "not sent"
  /\ cli.run = 1 => \A h \in Sends : req[h].pc # "unsent" => h <= cli.send
  /\ \A g, h \in Sends : g < h /\ req[h].pc # "unsent" => req[g].pc # "unsent"
  /\ cli.pc = "waiting" /\ req[cli.send].pc # "gone" => req[cli.send].input = cli.input

Early == {"arrived", "looking", "relook", "prepare", "begin"}
Late == {"committing", "resolving", "answered", "gone"}
AliveRow(r) == r.pc \notin {"unsent", "gone"} \/ r.tx = "open"
Dead(h) == ~Running(h) /\ ~Open(h)
Quiet(h) == req[h].pc \in {"unsent", "gone"} /\ ~Open(h)

\* No send can commit any more: the key has a record, or its epoch is over.
Closed == record[cli.who] # NoRecord \/ epoch # cli.ref
\* No send can commit its effect any more: it is closed, or the draft has left the If-Match.
Barred == Closed \/ (route # "plain" /\ draft # cli.ifMatch)

\* Nothing was sent before the process has its context.
Fresh == cli.run = 1 /\ (cli.pc \in {"start", "context"} \/ cli.out = "not sent") =>
  /\ commits = <<>> /\ \A h \in Sends : req[h].pc = "unsent"
  /\ \A p \in Principals : record[p] = NoRecord /\ backup[2][p] = NoRecord

\* What a record says, in the database, in a backup or in a send's snapshot.
RecordTrue(r) == r # NoRecord =>
  /\ Closed /\ r.epoch = cli.ref
  /\ r.status = "ok" => commits = <<r.input>>
  /\ r.status = "refused" => commits = <<>>
RecordOf(p, r) == r # NoRecord =>
  /\ p = cli.who /\ req[r.by].pc # "unsent"
  /\ req[r.by].pc # "gone" => r.input = req[r.by].input
RecordsTrue == \A p \in Principals :
  /\ RecordTrue(record[p]) /\ RecordTrue(backup[2][p])
  /\ RecordOf(p, record[p]) /\ RecordOf(p, backup[2][p])

\* A send carries the write's principal, epoch and If-Match, and commits only after its checks.
RowFits(r) ==
  /\ AliveRow(r) => r.who = cli.who /\ r.expected = cli.ref /\ r.ifMatch = cli.ifMatch
  /\ r.pc = "unsent" => r.tx = "none" /\ r.seen = NoRecord
  /\ r.pc \in Early => r.tx = "none"
  /\ r.pc = "prepare" => route = "fragment"
  /\ r.tx = "open" => r.pc \in Late
  /\ RecordTrue(r.seen)

\* An open transaction holds the key: there is no record, and no entry passed.
RowHolds(r) == r.tx = "open" =>
  /\ record[cli.who] = NoRecord /\ epoch = cli.ref
  /\ route # "plain" /\ r.stores = "ok" => draft = cli.ifMatch

\* What a send's transaction did, and what its answer says of it.
RowTrue(h, r) ==
  /\ r.pc \in {"committing", "resolving"} /\ r.tx = "committed" =>
       /\ record[cli.who] # NoRecord /\ record[cli.who].by = h /\ record[cli.who].status = r.stores
  /\ r.pc = "answered" =>
       /\ r.tx = "open" => r.reply = "internal"
       /\ r.tx = "committed" => r.reply \in {"ok", "stored", "internal"}
       /\ r.reply = "ok" => commits = <<r.input>>
       /\ r.reply = "stored" => Closed /\ commits = <<>>
       /\ r.reply = "moved" => Barred /\ commits = <<>>

SendsTrue ==
  /\ \A h \in Sends : RowFits(req[h]) /\ RowHolds(req[h]) /\ RowTrue(h, req[h])
  /\ \A g, h \in Sends : Open(g) /\ Open(h) => g = h

Once == Len(commits) <= 1 /\ (commits # <<>> => Closed)

\* A conflict that overtook nothing leaves nothing that could still commit.
ConflictTrue ==
  cli.run = 1 /\ cli.pc = "waiting" /\ req[cli.send].pc = "answered" /\ req[cli.send].reply = "conflict"
    /\ ~req[cli.send].overtook => commits = <<>> /\ \A g \in Sends : Dead(g)

\* Without an ambiguous attempt, nothing but the send that is waited for can have committed.
Calm == ~cli.ambiguous =>
  /\ cli.pc \in {"start", "context", "ready", "repeat"} => commits = <<>> /\ \A g \in Sends : Quiet(g)
  /\ cli.pc = "waiting" =>
       /\ \A g \in Sends \ {cli.send} : Quiet(g)
       /\ commits # <<>> => req[cli.send].pc = "gone" \/ req[cli.send].tx = "committed"

\* What was reported, for good.
Reported ==
  /\ cli.out = "done" => commits = <<cli.input>>
  /\ \/ cli.out \in {"stored", "moved", "not done", "set aside"}
     \/ cli.out = "refused" /\ ~cli.overtook
     => commits = <<>> /\ (Barred \/ \A g \in Sends : Dead(g))

WriteInv ==
  /\ ServerTyped /\ ClientTyped /\ ClientFits /\ Fresh /\ RecordsTrue /\ SendsTrue
  /\ Once /\ ConflictTrue /\ Calm /\ Reported

-----------------------------------------------------------------------------
LEMMA LeqTrans == \A a, b, c \in Nat : a <= b /\ b <= c => a <= c
OBVIOUS

LEMMA OneIsOne == ~(1 > 1)
OBVIOUS

LEMMA Unsent0 == NoSend \in SendRow /\ NoSend.pc = "unsent" /\ NoSend.tx = "none" /\ NoSend.seen = NoRecord
                 /\ NoSend.tries = 0 /\ NoSend.heard = TRUE
BY RequestsAssumption DEF NoSend, SendRow, MaybeRecord, SendPc, Replies

\* Of a send that is over, only an open transaction is left.
LEMMA OverIs ==
  ASSUME NEW r \in SendRow
  PROVE  /\ Over(r) \in SendRow /\ Over(r).pc = "gone" /\ Over(r).tries <= r.tries
         /\ r.tx = "open" => /\ Over(r).tx = "open" /\ Over(r).who = r.who /\ Over(r).expected = r.expected
                             /\ Over(r).ifMatch = r.ifMatch /\ Over(r).seen = r.seen
                             /\ Over(r).stores = r.stores /\ Over(r).input = r.input
         /\ r.tx # "open" => Over(r).tx = "none" /\ Over(r).seen = NoRecord
<1>1. CASE r.tx = "open" BY <1>1 DEF Over, SendRow, SendPc
<1>2. CASE r.tx # "open"
  <2>1. PICK n \in SendRow : n = NoSend BY Unsent0
  <2>2. Over(r) = [n EXCEPT !.pc = "gone"] BY <1>2, <2>1 DEF Over
  <2>3. [n EXCEPT !.pc = "gone"] \in SendRow /\ [n EXCEPT !.pc = "gone"].pc = "gone"
        /\ [n EXCEPT !.pc = "gone"].tx = n.tx /\ [n EXCEPT !.pc = "gone"].seen = n.seen
        /\ [n EXCEPT !.pc = "gone"].tries = n.tries
    BY DEF SendRow, SendPc
  <2>4. r.tries \in Nat BY DEF SendRow
  <2> QED BY <1>2, <2>1, <2>2, <2>3, <2>4, Unsent0
<1> QED BY <1>1, <1>2

\* Only sends that are over commit nothing: what holds of a send after a step of its own.
RowStep(h, r) ==
  /\ r \in SendRow /\ r.tries <= limits.attempts /\ r.pc # "unsent"
  /\ AliveRow(r) => /\ r.who = req[h].who /\ r.expected = req[h].expected
                    /\ r.ifMatch = req[h].ifMatch /\ r.input = req[h].input
                    /\ AliveRow(req[h])
  /\ r.pc \notin {"unsent", "gone"} => req[h].pc \notin {"unsent", "gone"}
  /\ r.pc \notin {"unsent", "answered", "gone"} => Running(h)
  /\ r.tx = "open" => Open(h) \/ ~\E g \in Sends : Open(g)
  /\ r.tx = "open" => Open(h) \/ Running(h)
  /\ req[h].pc = "gone" \/ req[h].tx = "committed" => r.pc = "gone" \/ r.tx = "committed"
  /\ RowFits(r) /\ RowHolds(r) /\ RowTrue(h, r)

\* What a step of one send leaves alone.
Kept == /\ UNCHANGED <<limits, route, service, epoch, draft, etags, blocked, record, backup, commits, writeVars>>
        /\ claim' \in [Principals -> {0} \cup Sends] /\ left' \in Nat

\* A step of one send that touches no row of the database.
LEMMA SendStep ==
  ASSUME WriteInv, NEW h \in Sends, NEW r, RowStep(h, r), req' = [req EXCEPT ![h] = r],
         req[h].pc # "unsent",
         r.pc = "answered" /\ r.reply = "conflict" /\ ~r.overtook
           /\ cli.run = 1 /\ cli.pc = "waiting" /\ cli.send = h
           => \/ req[h].pc = "answered" /\ req[h].reply = "conflict" /\ ~req[h].overtook
              \/ commits = <<>> /\ ~Open(h) /\ r.tx # "open" /\ (\A g \in Sends \ {h} : Dead(g)),
         Kept
  PROVE  WriteInv'
<1>1. req \in [Sends -> SendRow] /\ r \in SendRow /\ r.pc # "unsent"
  BY DEF WriteInv, ServerTyped, RowStep
<1>2. req' \in [Sends -> SendRow] /\ req'[h] = r /\ \A g \in Sends \ {h} : req'[g] = req[g] BY <1>1
<1>3. UNCHANGED <<cli, record, backup, commits, epoch, draft, etags, route, store, kept, limits>> BY DEF Kept, writeVars
<1>4. (Closed' <=> Closed) /\ (Barred' <=> Barred) BY <1>3 DEF Closed, Barred
<1>5. ServerTyped'
  <2>1. \A g \in Sends : req'[g].tries <= limits.attempts
    BY <1>2 DEF WriteInv, ServerTyped, RowStep
  <2> QED BY <1>2, <1>3, <2>1 DEF WriteInv, ServerTyped, Kept
<1>6. ClientTyped' BY <1>3 DEF WriteInv, ClientTyped
<1>7. ClientFits'
  <2>1. ClientFits BY DEF WriteInv
  <2>2. \A g \in Sends : req'[g].pc # "unsent" <=> req[g].pc # "unsent" BY <1>1, <1>2
  <2>3. cli.pc = "waiting" /\ req'[cli.send].pc # "gone" => req'[cli.send].input = cli.input
    <3>1. CASE cli.send = h BY <1>2, <2>1, <3>1 DEF ClientFits, RowStep, AliveRow
    <3>2. CASE cli.send # h BY <1>2, <2>1, <3>2 DEF ClientFits
    <3> QED BY <3>1, <3>2
  <2> QED BY <1>3, <2>1, <2>2, <2>3 DEF ClientFits
<1>8. Fresh'
  <2>1. Fresh BY DEF WriteInv
  <2> QED BY <1>3, <2>1 DEF Fresh
<1>9. RecordsTrue'
  <2>1. ASSUME NEW p \in Principals, NEW x \in MaybeRecord, RecordTrue(x) /\ RecordOf(p, x)
        PROVE  RecordTrue(x)' /\ RecordOf(p, x)'
    <3>1. RecordTrue(x)' BY <1>3, <1>4, <2>1 DEF RecordTrue
    <3>2. x # NoRecord => x.by \in Sends BY DEF MaybeRecord, Record
    <3>3. RecordOf(p, x)'
      <4>1. CASE x # NoRecord /\ x.by = h BY <1>1, <1>2, <1>3, <2>1, <4>1 DEF RecordOf, RowStep, AliveRow
      <4>2. CASE ~(x # NoRecord /\ x.by = h) BY <1>2, <1>3, <2>1, <3>2, <4>2 DEF RecordOf
      <4> QED BY <4>1, <4>2
    <3> QED BY <3>1, <3>3
  <2>2. ASSUME NEW p \in Principals
        PROVE  (RecordTrue(record[p]) /\ RecordOf(p, record[p]))'
               /\ (RecordTrue(backup[2][p]) /\ RecordOf(p, backup[2][p]))'
    <3>1. PICK x \in MaybeRecord, y \in MaybeRecord : x = record[p] /\ y = backup[2][p]
      BY DEF WriteInv, ServerTyped
    <3>2. RecordTrue(x) /\ RecordOf(p, x) /\ RecordTrue(y) /\ RecordOf(p, y)
      BY <3>1 DEF WriteInv, RecordsTrue
    <3>3. RecordTrue(x)' /\ RecordOf(p, x)' /\ RecordTrue(y)' /\ RecordOf(p, y)' BY <2>1, <3>2
    <3>4. x = record'[p] /\ y = backup'[2][p] BY <1>3, <3>1
    <3> QED BY <3>3, <3>4 DEF RecordTrue, RecordOf
  <2> QED BY <2>2 DEF RecordsTrue
<1>10. SendsTrue'
  <2>1. ASSUME NEW g \in Sends, NEW x, RowFits(x) /\ RowHolds(x) /\ RowTrue(g, x)
        PROVE  RowFits(x)' /\ RowHolds(x)' /\ RowTrue(g, x)'
    BY <1>3, <1>4, <2>1 DEF RowFits, RowHolds, RowTrue, RecordTrue
  <2>2. ASSUME NEW g \in Sends PROVE (RowFits(req[g]) /\ RowHolds(req[g]) /\ RowTrue(g, req[g]))'
    <3>1. PICK x : x = req'[g] OBVIOUS
    <3>2. RowFits(x) /\ RowHolds(x) /\ RowTrue(g, x)
      <4>1. CASE g = h
        <5>1. x = r BY <1>2, <3>1, <4>1
        <5> QED BY <4>1, <5>1 DEF RowStep
      <4>2. CASE g # h
        <5>1. x = req[g] BY <1>2, <3>1, <4>2
        <5>2. RowFits(req[g]) /\ RowHolds(req[g]) /\ RowTrue(g, req[g]) BY DEF WriteInv, SendsTrue
        <5> QED BY <5>1, <5>2 DEF RowFits, RowHolds, RowTrue
      <4> QED BY <4>1, <4>2
    <3>3. RowFits(x)' /\ RowHolds(x)' /\ RowTrue(g, x)' BY <2>1, <3>2
    <3> QED BY <3>1, <3>3 DEF RowFits, RowHolds, RowTrue
  <2>3. \A g, k \in Sends : Open(g)' /\ Open(k)' => g = k
    BY <1>2 DEF WriteInv, SendsTrue, RowStep, Open
  <2> QED BY <2>2, <2>3 DEF SendsTrue
<1>11. Once' BY <1>3, <1>4 DEF WriteInv, Once
<1>12. \A g \in Sends : Dead(g) => Dead(g)' BY <1>2 DEF Dead, Open, Running, RowStep
<1>13. ConflictTrue'
  <2>1. ConflictTrue BY DEF WriteInv
  <2>2. ASSUME cli.send = h, cli.run = 1, cli.pc = "waiting", r.pc = "answered", r.reply = "conflict", ~r.overtook
        PROVE  commits = <<>> /\ \A g \in Sends : Dead(g)'
    <3>1. CASE req[h].pc = "answered" /\ req[h].reply = "conflict" /\ ~req[h].overtook
      BY <1>12, <2>1, <2>2, <3>1 DEF ConflictTrue
    <3>2. CASE commits = <<>> /\ ~Open(h) /\ r.tx # "open" /\ \A g \in Sends \ {h} : Dead(g)
      <4>1. Dead(h)' BY <1>2, <2>2, <3>2 DEF Dead, Running, Open
      <4> QED BY <1>12, <3>2, <4>1
    <3> QED BY <2>2, <3>1, <3>2
  <2>3. ASSUME cli.run = 1, cli.pc = "waiting", req'[cli.send].pc = "answered",
               req'[cli.send].reply = "conflict", ~req'[cli.send].overtook
        PROVE  commits = <<>> /\ \A g \in Sends : Dead(g)'
    <3>1. cli.send \in Sends BY <2>3 DEF WriteInv, ClientFits
    <3>2. CASE cli.send = h BY <1>2, <2>2, <2>3, <3>2
    <3>3. CASE cli.send # h BY <1>2, <1>12, <2>1, <2>3, <3>1, <3>3 DEF ConflictTrue
    <3> QED BY <3>2, <3>3
  <2> QED BY <1>3, <2>3 DEF ConflictTrue
<1>14. Calm'
  <2>1. Calm BY DEF WriteInv
  <2>2. \A g \in Sends : Quiet(g) => Quiet(g)' BY <1>2 DEF Quiet, Open, RowStep, Running
  <2>3. ASSUME cli.pc = "waiting", commits # <<>>, req[cli.send].pc = "gone" \/ req[cli.send].tx = "committed"
        PROVE  req'[cli.send].pc = "gone" \/ req'[cli.send].tx = "committed"
    <3>1. cli.send \in Sends BY <2>3 DEF WriteInv, ClientFits
    <3> QED BY <1>1, <1>2, <2>3, <3>1 DEF RowStep
  <2> QED BY <1>3, <2>1, <2>2, <2>3 DEF Calm
<1>15. Reported'
  <2>1. Reported BY DEF WriteInv
  <2> QED BY <1>3, <1>4, <1>12, <2>1 DEF Reported
<1> QED BY <1>5, <1>6, <1>7, <1>8, <1>9, <1>10, <1>11, <1>13, <1>14, <1>15 DEF WriteInv

\* A send ends: it is answered, or its process gave it up.
LEMMA OverStep ==
  ASSUME WriteInv, NEW h \in Sends, req[h].pc # "unsent", req' = [req EXCEPT ![h] = Over(@)],
         Kept
  PROVE  WriteInv'
<1>1. req \in [Sends -> SendRow] /\ limits \in Limits /\ req[h].tries <= limits.attempts BY DEF WriteInv, ServerTyped
<1>2. PICK r : r = Over(req[h]) OBVIOUS
<1>3. req' = [req EXCEPT ![h] = r] BY <1>1, <1>2
<1>4. req[h] \in SendRow BY <1>1
<1>5. /\ r \in SendRow /\ r.pc = "gone" /\ r.tries <= req[h].tries
      /\ req[h].tx = "open" => /\ r.tx = "open" /\ r.who = req[h].who /\ r.expected = req[h].expected
                               /\ r.ifMatch = req[h].ifMatch /\ r.seen = req[h].seen
                               /\ r.stores = req[h].stores /\ r.input = req[h].input
      /\ req[h].tx # "open" => r.tx = "none" /\ r.seen = NoRecord
  BY <1>2, <1>4, OverIs
<1>6. RowFits(req[h]) /\ RowHolds(req[h]) BY DEF WriteInv, SendsTrue
<1>7. RowFits(r) BY <1>5, <1>6 DEF RowFits, AliveRow, Early, Late, RecordTrue
<1>8. RowHolds(r) /\ RowTrue(h, r) BY <1>5, <1>6 DEF RowHolds, RowTrue
<1>9. r.tries <= limits.attempts
  <2>1. r.tries \in Nat /\ req[h].tries \in Nat BY <1>4, <1>5 DEF SendRow
  <2>2. limits.attempts \in Nat BY <1>1, RequestsAssumption
  <2> QED BY <1>1, <1>5, <2>1, <2>2
<1>10. RowStep(h, r) BY <1>5, <1>7, <1>8, <1>9 DEF RowStep, AliveRow, Open
<1> QED BY <1>3, <1>5, <1>10, SendStep

LEMMA AnswerStep ==
  ASSUME WriteInv, NEW h \in Sends, NEW code \in Replies, NEW replayed \in BOOLEAN,
         Running(h), Answer(h, code, replayed),
         Open(h) => code = "internal",
         req[h].tx = "committed" => code \in {"ok", "stored", "internal"},
         code = "ok" => commits = <<req[h].input>>,
         code = "stored" => Closed /\ commits = <<>>,
         code = "moved" => Barred /\ commits = <<>>,
         code = "conflict" => commits = <<>> /\ ~\E g \in Sends : Open(g),
         Kept
  PROVE  WriteInv'
<1>1. req \in [Sends -> SendRow] /\ req[h].tries <= limits.attempts BY DEF WriteInv, ServerTyped
<1>2. req[h] \in SendRow /\ req[h].pc \notin {"unsent", "answered", "gone"} BY <1>1 DEF Running
<1>3. CASE ~req[h].heard
  <2>1. req' = [req EXCEPT ![h] = Over(@)] BY <1>3 DEF Answer
  <2> QED BY <1>2, <2>1, OverStep
<1>4. CASE req[h].heard
  <2>1. PICK over \in BOOLEAN : over = \E g \in Sends : g < h /\ Running(g) OBVIOUS
  <2>2. PICK r : r = [req[h] EXCEPT !.pc = "answered", !.reply = code, !.replayed = replayed, !.overtook = over]
    OBVIOUS
  <2>3. req' = [req EXCEPT ![h] = r] BY <1>1, <1>4, <2>1, <2>2 DEF Answer
  <2>4. /\ r \in SendRow /\ r.pc = "answered" /\ r.reply = code /\ r.overtook = over
        /\ r.tries = req[h].tries /\ r.who = req[h].who /\ r.expected = req[h].expected
        /\ r.ifMatch = req[h].ifMatch /\ r.seen = req[h].seen /\ r.tx = req[h].tx
        /\ r.stores = req[h].stores /\ r.input = req[h].input
    BY <1>2, <2>2 DEF SendRow, SendPc
  <2>5. RowFits(req[h]) /\ RowHolds(req[h]) BY DEF WriteInv, SendsTrue
  <2>6. RowFits(r) BY <1>2, <2>4, <2>5 DEF RowFits, AliveRow, Early, Late, RecordTrue
  <2>7. RowHolds(r) BY <2>4, <2>5 DEF RowHolds
  <2>8. RowTrue(h, r) BY <2>4 DEF RowTrue, Open
  <2>9. RowStep(h, r) BY <1>1, <1>2, <2>4, <2>6, <2>7, <2>8 DEF RowStep, AliveRow, Open, Running
  <2>10. ASSUME code = "conflict", ~over, cli.run = 1, cli.send = h
         PROVE  commits = <<>> /\ ~Open(h) /\ r.tx # "open" /\ \A g \in Sends \ {h} : Dead(g)
    <3>1. commits = <<>> /\ \A g \in Sends : ~Open(g) BY <2>10
    <3>2. \A g \in Sends : g < h => ~Running(g) BY <2>1, <2>10
    <3>3. \A g \in Sends : req[g].pc # "unsent" => g <= h BY <2>10 DEF WriteInv, ClientFits
    <3>4. Sends \subseteq Nat BY RequestsAssumption
    <3>5. \A g \in Sends \ {h} : ~Running(g)
      <4>1. SUFFICES ASSUME NEW g \in Sends \ {h} PROVE ~Running(g) OBVIOUS
      <4>2. CASE g < h BY <3>2, <4>2
      <4>3. CASE ~(g < h)
        <5>1. ~(g <= h) BY <3>4, <4>1, <4>3
        <5> QED BY <3>3, <4>1, <5>1 DEF Running
      <4> QED BY <4>2, <4>3
    <3> QED BY <2>4, <3>1, <3>5 DEF Dead, Open
  <2> QED BY <1>2, <2>3, <2>4, <2>9, <2>10, SendStep
<1> QED BY <1>3, <1>4

-----------------------------------------------------------------------------
\* A send goes on, before its COMMIT or after it.
LEMMA MoveStep ==
  ASSUME WriteInv, NEW h \in Sends, NEW r \in SendRow, Kept, req' = [req EXCEPT ![h] = r],
         r.tx = req[h].tx, r.who = req[h].who, r.expected = req[h].expected,
         r.ifMatch = req[h].ifMatch, r.input = req[h].input, r.stores = req[h].stores,
         r.tries <= limits.attempts, RecordTrue(r.seen), r.pc = "prepare" => route = "fragment",
         (req[h].pc \in Early /\ r.pc \in Early) \/ (req[h].pc = "committing" /\ r.pc = "resolving")
  PROVE  WriteInv'
<1>1. RowFits(req[h]) /\ RowHolds(req[h]) /\ RowTrue(h, req[h]) BY DEF WriteInv, SendsTrue
<1>2. RowFits(r) BY <1>1 DEF RowFits, AliveRow, Early, Late, RecordTrue
<1>3. RowHolds(r) BY <1>1 DEF RowHolds
<1>4. RowTrue(h, r) BY <1>1 DEF RowTrue, Early
<1>5. RowStep(h, r) BY <1>2, <1>3, <1>4 DEF RowStep, AliveRow, Open, Running, Early
<1> QED BY <1>5, SendStep DEF Early

LEMMA KeyFreeIs ==
  ASSUME WriteInv, NEW h \in Sends, AliveRow(req[h]), KeyFree(req[h].who)
  PROVE  ~\E g \in Sends : Open(g)
<1>1. \A g \in Sends : Open(g) => req[g].who = cli.who
  BY DEF WriteInv, SendsTrue, RowFits, AliveRow, Open
<1>2. req[h].who = cli.who BY DEF WriteInv, SendsTrue, RowFits
<1> QED BY <1>1, <1>2 DEF KeyFree

LEMMA AdmitsIs ==
  ASSUME WriteInv, NEW h \in Sends, AliveRow(req[h]), Admits(h)
  PROVE  ~Closed /\ commits = <<>>
<1>1. req[h].who = cli.who /\ req[h].expected = cli.ref BY DEF WriteInv, SendsTrue, RowFits
<1>2. ~Closed BY <1>1 DEF Admits, Found, Closed
<1> QED BY <1>2 DEF WriteInv, Once

LEMMA CommitStep ==
  ASSUME WriteInv, NEW h \in Sends, NEW stores \in {"ok", "refused"}, req[h].pc = "begin", Kept,
         KeyFree(req[h].who), Admits(h), Commit(h, stores),
         route # "plain" /\ stores = "ok" => draft = req[h].ifMatch
  PROVE  WriteInv'
<1>1. req \in [Sends -> SendRow] /\ req[h].tries <= limits.attempts BY DEF WriteInv, ServerTyped
<1>2. PICK r : r = [req[h] EXCEPT !.pc = "committing", !.tx = "open", !.stores = stores] OBVIOUS
<1>3. req' = [req EXCEPT ![h] = r] BY <1>1, <1>2 DEF Commit
<1>4. /\ r \in SendRow /\ r.pc = "committing" /\ r.tx = "open" /\ r.stores = stores
      /\ r.tries = req[h].tries /\ r.who = req[h].who /\ r.expected = req[h].expected
      /\ r.ifMatch = req[h].ifMatch /\ r.seen = req[h].seen /\ r.input = req[h].input
  BY <1>1, <1>2 DEF SendRow, SendPc
<1>5. AliveRow(req[h]) BY DEF AliveRow
<1>6. RowFits(req[h]) BY DEF WriteInv, SendsTrue
<1>7. RowFits(r) BY <1>4, <1>5, <1>6 DEF RowFits, Early, Late, RecordTrue
<1>8. RowHolds(r)
  <2>1. ~Closed BY <1>5, AdmitsIs
  <2> QED BY <1>4, <1>5, <1>6, <2>1 DEF RowHolds, RowFits, Closed
<1>9. RowTrue(h, r) BY <1>4 DEF RowTrue
<1>10. ~\E g \in Sends : Open(g) BY <1>5, KeyFreeIs
<1>11. req[h].tx = "none" BY <1>6 DEF RowFits, Early
<1>12. RowStep(h, r)
  BY <1>1, <1>4, <1>5, <1>7, <1>8, <1>9, <1>10, <1>11 DEF RowStep, AliveRow, Running
<1> QED BY <1>3, <1>4, <1>12, SendStep

\* What answer and lookup make of a record and of the state.
LEMMA RecordedStep ==
  ASSUME WriteInv, NEW h \in Sends, req[h].pc \in Early, Kept, NEW r \in Record, RecordTrue(r), Recorded(h, r)
  PROVE  WriteInv'
<1>1. req[h].tx = "none" /\ Running(h) BY DEF WriteInv, SendsTrue, RowFits, Early, Running
<1>2. r # NoRecord BY RequestsAssumption
<1>3. CASE Answer(h, "earlier", FALSE) BY <1>1, <1>3, AnswerStep DEF Open, Replies
<1>4. CASE Answer(h, "reused", FALSE) BY <1>1, <1>4, AnswerStep DEF Open, Replies
<1>5. CASE Same(h, r) /\ Answer(h, IF r.status = "ok" THEN "ok" ELSE "stored", TRUE)
  <2>1. CASE r.status = "ok"
    <3>1. Answer(h, "ok", TRUE) BY <1>5, <2>1 DEF Answer
    <3>2. commits = <<req[h].input>> BY <1>2, <1>5, <2>1 DEF RecordTrue, Same
    <3> QED BY <1>1, <3>1, <3>2, AnswerStep DEF Open, Replies
  <2>2. CASE r.status # "ok"
    <3>1. Answer(h, "stored", TRUE) BY <1>5, <2>2 DEF Answer
    <3>2. r.status = "refused" BY <2>2 DEF Record
    <3>3. Closed /\ commits = <<>> BY <1>2, <3>2 DEF RecordTrue
    <3> QED BY <1>1, <3>1, <3>3, AnswerStep DEF Open, Replies
  <2> QED BY <2>1, <2>2
<1> QED BY <1>3, <1>4, <1>5 DEF Recorded

LEMMA PlainAnswer ==
  ASSUME WriteInv, NEW h \in Sends, req[h].pc \in Early, Kept,
         NEW code \in {"unauthenticated", "forbidden", "superseded", "unavailable", "internal", "ingesting", "mismatch"},
         Answer(h, code, FALSE)
  PROVE  WriteInv'
<1>1. req[h].tx = "none" /\ Running(h) BY DEF WriteInv, SendsTrue, RowFits, Early, Running
<1>2. code \in Replies BY DEF Replies
<1> QED BY <1>1, <1>2, AnswerStep DEF Open

LEMMA RefusesStep ==
  ASSUME WriteInv, NEW h \in Sends, req[h].pc \in Early, Kept, Refuses(h)
  PROVE  WriteInv'
<1>1. CASE Answer(h, "unauthenticated", FALSE) BY <1>1, PlainAnswer
<1>2. CASE Answer(h, "mismatch", FALSE) BY <1>2, PlainAnswer
<1>3. CASE Found(h) # NoRecord /\ Recorded(h, Found(h))
  <2>1. req[h].who \in Principals /\ record \in [Principals -> MaybeRecord]
    BY DEF WriteInv, ServerTyped, SendRow
  <2>2. PICK r : r = Found(h) OBVIOUS
  <2>3. r \in Record BY <1>3, <2>1, <2>2 DEF Found, MaybeRecord
  <2>4. RecordTrue(r) BY <2>1, <2>2 DEF WriteInv, RecordsTrue, Found, RecordTrue
  <2>5. Recorded(h, r) BY <1>3, <2>2 DEF Recorded, Same, Answer
  <2> QED BY <2>3, <2>4, <2>5, RecordedStep
<1> QED BY <1>1, <1>2, <1>3 DEF Refuses

-----------------------------------------------------------------------------
\* The server's steps on one send.
LEMMA StepMoves ==
  ASSUME WriteInv, NEW h \in Sends, NEW pc, Kept, Step(h, pc), pc = "prepare" => route = "fragment",
         (req[h].pc \in Early /\ pc \in Early) \/ (req[h].pc = "committing" /\ pc = "resolving")
  PROVE  WriteInv'
<1>1. req \in [Sends -> SendRow] /\ req[h].tries <= limits.attempts BY DEF WriteInv, ServerTyped
<1>2. PICK r : r = [req[h] EXCEPT !.pc = pc] OBVIOUS
<1>3. req' = [req EXCEPT ![h] = r] BY <1>1, <1>2 DEF Step
<1>4. pc \in SendPc BY DEF SendPc, Early
<1>5. /\ r \in SendRow /\ r.pc = pc /\ r.tx = req[h].tx /\ r.stores = req[h].stores
      /\ r.tries = req[h].tries /\ r.who = req[h].who /\ r.expected = req[h].expected
      /\ r.ifMatch = req[h].ifMatch /\ r.seen = req[h].seen /\ r.input = req[h].input
  BY <1>1, <1>2, <1>4 DEF SendRow
<1>6. RecordTrue(r.seen) BY <1>5 DEF WriteInv, SendsTrue, RowFits, RecordTrue
<1> QED BY <1>1, <1>3, <1>5, <1>6, MoveStep

LEMMA RowsKept ==
  ASSUME WriteInv, UNCHANGED Rows, UNCHANGED writeVars
  PROVE  Kept
BY DEF WriteInv, ServerTyped, Rows, Kept

LEMMA RouteStep ==
  ASSUME WriteInv, NEW h \in Sends, Route(h), UNCHANGED writeVars PROVE WriteInv'
<1>1. Kept /\ req[h].pc = "arrived" BY RowsKept DEF Route
<1>2. CASE req' = [req EXCEPT ![h].pc = "looking", ![h].seen = record[req[h].who]]
  <2>1. req \in [Sends -> SendRow] /\ req[h].tries <= limits.attempts
        /\ record \in [Principals -> MaybeRecord] /\ req[h].who \in Principals
    BY DEF WriteInv, ServerTyped, SendRow
  <2>2. PICK s \in MaybeRecord : s = record[req[h].who] BY <2>1
  <2>3. PICK r : r = [req[h] EXCEPT !.pc = "looking", !.seen = s] OBVIOUS
  <2>4. req' = [req EXCEPT ![h] = r] BY <1>2, <2>1, <2>2, <2>3
  <2>5. /\ r \in SendRow /\ r.pc = "looking" /\ r.tx = req[h].tx /\ r.stores = req[h].stores
        /\ r.tries = req[h].tries /\ r.who = req[h].who /\ r.expected = req[h].expected
        /\ r.ifMatch = req[h].ifMatch /\ r.seen = s /\ r.input = req[h].input
    BY <2>1, <2>3 DEF SendRow, SendPc
  <2>6. RecordTrue(r.seen) BY <2>1, <2>2, <2>5 DEF WriteInv, RecordsTrue, RecordTrue
  <2> QED BY <1>1, <2>1, <2>4, <2>5, <2>6, MoveStep DEF Early
<1>3. CASE Answer(h, "unauthenticated", FALSE) BY <1>1, <1>3, PlainAnswer DEF Early
<1>4. CASE \E code \in {"forbidden", "unavailable"} : Answer(h, code, FALSE)
  BY <1>1, <1>4, PlainAnswer DEF Early
<1> QED BY <1>2, <1>3, <1>4 DEF Route

LEMMA LookedStep ==
  ASSUME WriteInv, NEW h \in Sends, Looked(h), UNCHANGED writeVars PROVE WriteInv'
<1>1. Kept /\ req[h].pc = "looking" BY RowsKept DEF Looked
<1>2. CASE req[h].seen # NoRecord /\ Recorded(h, req[h].seen)
  <2>1. PICK r : r = req[h].seen OBVIOUS
  <2>2. r \in Record BY <1>2, <2>1 DEF WriteInv, ServerTyped, SendRow, MaybeRecord
  <2>3. RecordTrue(r) BY <2>1 DEF WriteInv, SendsTrue, RowFits, RecordTrue
  <2>4. Recorded(h, r) BY <1>2, <2>1 DEF Recorded, Same, Answer
  <2> QED BY <1>1, <2>2, <2>3, <2>4, RecordedStep DEF Early
<1>3. CASE Step(h, "relook") BY <1>1, <1>3, StepMoves DEF Early
<1>4. CASE Step(h, IF route = "fragment" THEN "prepare" ELSE "begin")
  <2>1. CASE Step(h, "prepare") /\ route = "fragment" BY <1>1, <2>1, StepMoves DEF Early
  <2>2. CASE Step(h, "begin") BY <1>1, <2>2, StepMoves DEF Early
  <2> QED BY <1>4, <2>1, <2>2 DEF Step
<1>5. CASE Answer(h, "unauthenticated", FALSE) BY <1>1, <1>5, PlainAnswer DEF Early
<1>6. CASE Answer(h, "unavailable", FALSE) BY <1>1, <1>6, PlainAnswer DEF Early
<1> QED BY <1>2, <1>3, <1>4, <1>5, <1>6 DEF Looked

LEMMA RelookStep ==
  ASSUME WriteInv, NEW h \in Sends, Relook(h), UNCHANGED writeVars PROVE WriteInv'
BY RowsKept, RefusesStep DEF Relook, Early

\* A draft that has moved, or a conflict, found under the locks by a request that was admitted.
LEMMA DraftAnswer ==
  ASSUME WriteInv, NEW h \in Sends, req[h].pc \in Early, Kept, Admits(h), ~\E g \in Sends : Open(g),
         \/ Answer(h, "conflict", FALSE)
         \/ Answer(h, LockDraft(h), FALSE) /\ LockDraft(h) # "ok" /\ route # "plain"
  PROVE  WriteInv'
<1>1. req[h].tx = "none" /\ Running(h) /\ AliveRow(req[h])
  BY DEF WriteInv, SendsTrue, RowFits, Early, Running, AliveRow
<1>2. commits = <<>> BY <1>1, AdmitsIs
<1>3. CASE Answer(h, "conflict", FALSE) BY <1>1, <1>2, <1>3, AnswerStep DEF Open, Replies
<1>4. CASE Answer(h, LockDraft(h), FALSE) /\ LockDraft(h) # "ok" /\ route # "plain"
  <2>1. CASE draft # req[h].ifMatch
    <3>1. Answer(h, "moved", FALSE) BY <1>4, <2>1 DEF LockDraft, Answer
    <3>2. Barred BY <1>1, <1>4, <2>1 DEF Barred, WriteInv, SendsTrue, RowFits
    <3> QED BY <1>1, <1>2, <3>1, <3>2, AnswerStep DEF Open, Replies
  <2>2. CASE draft = req[h].ifMatch
    <3>1. Answer(h, "conflict", FALSE) BY <1>4, <2>2 DEF LockDraft, Answer
    <3> QED BY <1>3, <3>1
  <2> QED BY <2>1, <2>2
<1> QED BY <1>3, <1>4

LEMMA PrepareStep ==
  ASSUME WriteInv, NEW h \in Sends, Prepare(h), UNCHANGED writeVars PROVE WriteInv'
<1>1. req[h].pc = "prepare" /\ ~(\E g \in Sends : Open(g)) BY DEF Prepare
<1>2. route = "fragment" BY <1>1 DEF WriteInv, SendsTrue, RowFits
<1>3. Kept
  <2>1. claim \in [Principals -> {0} \cup Sends] /\ left \in Nat BY DEF WriteInv, ServerTyped
  <2>2. claim' \in [Principals -> {0} \cup Sends] BY <2>1 DEF Prepare
  <2> QED BY <2>1, <2>2 DEF Prepare, Kept
<1>4. CASE Step(h, "begin") BY <1>1, <1>3, <1>4, StepMoves DEF Early
<1>5. CASE Refuses(h) BY <1>1, <1>3, <1>5, RefusesStep DEF Early
<1>6. CASE Answer(h, "ingesting", FALSE) BY <1>1, <1>3, <1>6, PlainAnswer DEF Early
<1>7. CASE Admits(h) /\ LockDraft(h) # "ok" /\ Answer(h, LockDraft(h), FALSE)
  BY <1>1, <1>2, <1>3, <1>7, DraftAnswer DEF Early
<1> QED BY <1>4, <1>5, <1>6, <1>7 DEF Prepare

LEMMA ExtractStep ==
  ASSUME WriteInv, NEW h \in Sends, ExtractFails(h), UNCHANGED writeVars PROVE WriteInv'
<1>1. Kept
  <2>1. claim \in [Principals -> {0} \cup Sends] /\ left \in Nat BY DEF WriteInv, ServerTyped
  <2>2. claim' \in [Principals -> {0} \cup Sends] BY <2>1 DEF ExtractFails
  <2> QED BY <2>1, <2>2 DEF ExtractFails, Kept
<1> QED BY <1>1, PlainAnswer DEF ExtractFails, Early

LEMMA EffectStep ==
  ASSUME WriteInv, NEW h \in Sends, req[h].pc = "begin", Kept, KeyFree(req[h].who), Admits(h), Effect(h)
  PROVE  WriteInv'
<1>1. AliveRow(req[h]) BY DEF AliveRow
<1>2. ~\E g \in Sends : Open(g) BY <1>1, KeyFreeIs
<1>3. CASE Answer(h, "conflict", FALSE) BY <1>2, <1>3, DraftAnswer DEF Early
<1>4. CASE route = "draft" /\ LockDraft(h) # "ok" /\ Answer(h, LockDraft(h), FALSE)
  BY <1>2, <1>4, DraftAnswer DEF Early
<1>5. CASE route = "plain" /\ Commit(h, "ok") BY <1>5, CommitStep
<1>6. CASE LockDraft(h) = "ok" /\ Commit(h, "ok")
  <2>1. draft = req[h].ifMatch BY <1>6 DEF LockDraft
  <2> QED BY <1>6, <2>1, CommitStep
<1>7. CASE Commit(h, "refused") BY <1>7, CommitStep
<1>8. CASE Answer(h, "internal", FALSE) BY <1>8, PlainAnswer DEF Early
<1> QED BY <1>3, <1>4, <1>5, <1>6, <1>7, <1>8 DEF Effect

LEMMA AttemptStep ==
  ASSUME WriteInv, NEW h \in Sends, Attempt(h), UNCHANGED writeVars PROVE WriteInv'
<1>1. Kept /\ req[h].pc = "begin" /\ KeyFree(req[h].who) BY RowsKept DEF Attempt
<1>2. CASE Refuses(h) BY <1>1, <1>2, RefusesStep DEF Early
<1>3. CASE Admits(h) /\ Effect(h) BY <1>1, <1>3, EffectStep
<1>4. CASE req[h].tries + 1 < limits.attempts /\ req' = [req EXCEPT ![h].tries = @ + 1]
  <2>1. req \in [Sends -> SendRow] /\ limits \in Limits BY DEF WriteInv, ServerTyped
  <2>2. req[h].tries \in Nat /\ limits.attempts \in Nat BY <2>1, RequestsAssumption DEF SendRow
  <2>3. PICK r : r = [req[h] EXCEPT !.tries = @ + 1] OBVIOUS
  <2>4. req' = [req EXCEPT ![h] = r] BY <1>4, <2>1, <2>3
  <2>5. /\ r \in SendRow /\ r.pc = req[h].pc /\ r.tx = req[h].tx /\ r.stores = req[h].stores
        /\ r.tries = req[h].tries + 1 /\ r.who = req[h].who /\ r.expected = req[h].expected
        /\ r.ifMatch = req[h].ifMatch /\ r.seen = req[h].seen /\ r.input = req[h].input
    BY <2>1, <2>2, <2>3 DEF SendRow
  <2>6. RecordTrue(r.seen) BY <2>5 DEF WriteInv, SendsTrue, RowFits, RecordTrue
  <2>7. r.tries <= limits.attempts BY <1>4, <2>2, <2>5
  <2> QED BY <1>1, <2>4, <2>5, <2>6, <2>7, MoveStep DEF Early
<1>5. CASE Answer(h, "unavailable", FALSE) BY <1>1, <1>5, PlainAnswer DEF Early
<1>6. CASE Answer(h, "superseded", FALSE) BY <1>1, <1>6, PlainAnswer DEF Early
<1> QED BY <1>2, <1>3, <1>4, <1>5, <1>6 DEF Attempt

\* A record says what its own send's transaction did.
LEMMA OwnRecord ==
  ASSUME WriteInv, NEW h \in Sends, req[h].pc \in {"committing", "resolving"}, Found(h) # NoRecord, Found(h).by = h
  PROVE  /\ Found(h).status = "ok" => commits = <<req[h].input>>
         /\ Found(h).status # "ok" => Closed /\ commits = <<>>
<1>1. req[h].who \in Principals /\ record \in [Principals -> MaybeRecord] BY DEF WriteInv, ServerTyped, SendRow
<1>2. Found(h) \in Record BY <1>1 DEF Found, MaybeRecord
<1>3. RecordTrue(Found(h)) /\ RecordOf(req[h].who, Found(h))
  BY <1>1 DEF WriteInv, RecordsTrue, Found, RecordTrue, RecordOf
<1> QED BY <1>2, <1>3 DEF RecordTrue, RecordOf, Record

LEMMA CommitReplyStep ==
  ASSUME WriteInv, NEW h \in Sends, CommitReply(h), UNCHANGED writeVars PROVE WriteInv'
<1>1. Kept /\ req[h].pc = "committing" BY RowsKept DEF CommitReply
<1>2. Running(h) /\ req[h].who = cli.who BY <1>1 DEF Running, WriteInv, SendsTrue, RowFits, AliveRow
<1>3. CASE req[h].tx = "aborted" /\ Answer(h, "internal", FALSE)
  BY <1>1, <1>2, <1>3, AnswerStep DEF Open, Replies
<1>4. CASE req[h].tx = "committed" /\ Answer(h, IF req[h].stores = "ok" THEN "ok" ELSE "stored", FALSE)
  <2>1. Found(h) # NoRecord /\ Found(h).by = h /\ Found(h).status = req[h].stores
    BY <1>1, <1>2, <1>4 DEF WriteInv, SendsTrue, RowTrue, Found
  <2>2. CASE req[h].stores = "ok"
    <3>1. Answer(h, "ok", FALSE) BY <1>4, <2>2 DEF Answer
    <3>2. commits = <<req[h].input>> BY <1>1, <2>1, <2>2, OwnRecord
    <3> QED BY <1>1, <1>2, <1>4, <3>1, <3>2, AnswerStep DEF Open, Replies
  <2>3. CASE req[h].stores # "ok"
    <3>1. Answer(h, "stored", FALSE) BY <1>4, <2>3 DEF Answer
    <3>2. Closed /\ commits = <<>> BY <1>1, <2>1, <2>3, OwnRecord
    <3> QED BY <1>1, <1>2, <1>4, <3>1, <3>2, AnswerStep DEF Open, Replies
  <2> QED BY <2>2, <2>3
<1> QED BY <1>3, <1>4 DEF CommitReply

LEMMA ResolveStep ==
  ASSUME WriteInv, NEW h \in Sends, ResolveCommit(h), UNCHANGED writeVars PROVE WriteInv'
<1>1. Kept /\ req[h].pc = "resolving" BY RowsKept DEF ResolveCommit
<1>2. Running(h) /\ AliveRow(req[h]) BY <1>1 DEF Running, AliveRow
<1>3. CASE Answer(h, "internal", FALSE) BY <1>1, <1>2, <1>3, AnswerStep DEF Open, Replies
<1>4. CASE ReadBack(h)
  <2>1. ~Open(h) BY <1>2, <1>4, KeyFreeIs DEF ReadBack
  <2>2. req[h].who = cli.who BY <1>2 DEF WriteInv, SendsTrue, RowFits
  <2>3. CASE Found(h) # NoRecord /\ Found(h).by = h
             /\ Answer(h, IF Found(h).status = "ok" THEN "ok" ELSE "stored", FALSE)
    <3>1. CASE Found(h).status = "ok"
      <4>1. Answer(h, "ok", FALSE) BY <2>3, <3>1 DEF Answer
      <4>2. commits = <<req[h].input>> BY <1>1, <2>3, <3>1, OwnRecord
      <4> QED BY <1>1, <1>2, <2>1, <4>1, <4>2, AnswerStep DEF Replies
    <3>2. CASE Found(h).status # "ok"
      <4>1. Answer(h, "stored", FALSE) BY <2>3, <3>2 DEF Answer
      <4>2. Closed /\ commits = <<>> BY <1>1, <2>3, <3>2, OwnRecord
      <4> QED BY <1>1, <1>2, <2>1, <4>1, <4>2, AnswerStep DEF Replies
    <3> QED BY <3>1, <3>2
  <2>4. CASE (Found(h) # NoRecord => Found(h).by # h) /\ Answer(h, "unavailable", FALSE)
    <3>1. req[h].tx # "committed" BY <1>1, <2>2, <2>4 DEF WriteInv, SendsTrue, RowTrue, Found
    <3> QED BY <1>1, <1>2, <2>1, <2>4, <3>1, AnswerStep DEF Replies
  <2> QED BY <1>4, <2>3, <2>4 DEF ReadBack
<1> QED BY <1>3, <1>4 DEF ResolveCommit

LEMMA DieStep ==
  ASSUME WriteInv, NEW h \in Sends, Die(h), UNCHANGED writeVars PROVE WriteInv'
<1>1. Kept
  <2>1. claim \in [Principals -> {0} \cup Sends] /\ left \in Nat BY DEF WriteInv, ServerTyped
  <2>2. left' \in Nat BY <2>1 DEF Die, Spend
  <2> QED BY <2>1, <2>2 DEF Die, Kept, rows
<1> QED BY <1>1, OverStep DEF Die, Running

-----------------------------------------------------------------------------
\* The database ends a transaction.
LEMMA EndedIs ==
  ASSUME NEW r \in SendRow, NEW tx \in {"committed", "aborted"}
  PROVE  /\ Ended(r, tx) \in SendRow /\ Ended(r, tx).pc = r.pc /\ Ended(r, tx).tries <= r.tries
         /\ r.pc = "gone" => Ended(r, tx).tx = "none" /\ Ended(r, tx).seen = NoRecord
         /\ r.pc # "gone" => /\ Ended(r, tx).tx = tx /\ Ended(r, tx).who = r.who
                             /\ Ended(r, tx).expected = r.expected /\ Ended(r, tx).ifMatch = r.ifMatch
                             /\ Ended(r, tx).seen = r.seen /\ Ended(r, tx).stores = r.stores
                             /\ Ended(r, tx).input = r.input /\ Ended(r, tx).reply = r.reply
                             /\ Ended(r, tx).overtook = r.overtook
<1>1. PICK s : s = [r EXCEPT !.tx = tx] OBVIOUS
<1>2. /\ s \in SendRow /\ s.pc = r.pc /\ s.tx = tx /\ s.who = r.who /\ s.expected = r.expected
      /\ s.ifMatch = r.ifMatch /\ s.seen = r.seen /\ s.stores = r.stores /\ s.input = r.input
      /\ s.reply = r.reply /\ s.tries = r.tries /\ s.overtook = r.overtook
  BY <1>1 DEF SendRow
<1>3. Ended(r, tx) = IF r.pc = "gone" THEN Over(s) ELSE s BY <1>1 DEF Ended
<1>4. s.tries \in Nat BY <1>2 DEF SendRow
<1> QED BY <1>2, <1>3, <1>4, OverIs

LEMMA AbortStep ==
  ASSUME WriteInv, NEW h \in Sends, Open(h), req' = [req EXCEPT ![h] = Ended(@, "aborted")], Kept
  PROVE  WriteInv'
<1>1. req \in [Sends -> SendRow] /\ limits \in Limits /\ req[h].tries <= limits.attempts BY DEF WriteInv, ServerTyped
<1>2. req[h] \in SendRow BY <1>1
<1>3. PICK r : r = Ended(req[h], "aborted") OBVIOUS
<1>4. req' = [req EXCEPT ![h] = r] BY <1>1, <1>3
<1>5. /\ r \in SendRow /\ r.pc = req[h].pc /\ r.tries <= req[h].tries /\ r.tx \notin {"open", "committed"}
      /\ req[h].pc = "gone" => r.seen = NoRecord
      /\ req[h].pc # "gone" =>
           /\ r.who = req[h].who /\ r.expected = req[h].expected /\ r.ifMatch = req[h].ifMatch
           /\ r.seen = req[h].seen /\ r.input = req[h].input /\ r.reply = req[h].reply
           /\ r.overtook = req[h].overtook
  BY <1>2, <1>3, EndedIs
<1>6. RowFits(req[h]) /\ RowTrue(h, req[h]) BY DEF WriteInv, SendsTrue
<1>7. req[h].pc \in Late BY <1>6 DEF RowFits, Open
<1>8. RowFits(r) BY <1>5, <1>6, <1>7 DEF RowFits, AliveRow, Early, Late, RecordTrue
<1>9. RowHolds(r) BY <1>5 DEF RowHolds
<1>10. RowTrue(h, r) BY <1>5, <1>6 DEF RowTrue
<1>11. r.tries <= limits.attempts
  <2>1. r.tries \in Nat /\ req[h].tries \in Nat BY <1>2, <1>5 DEF SendRow
  <2>2. limits.attempts \in Nat BY <1>1, RequestsAssumption
  <2> QED BY <1>1, <1>5, <2>1, <2>2
<1>12. RowStep(h, r)
  BY <1>5, <1>7, <1>8, <1>9, <1>10, <1>11 DEF RowStep, AliveRow, Open, Running, Late
<1>13. req[h].pc # "unsent" BY <1>7 DEF Late
<1> QED BY <1>4, <1>5, <1>12, <1>13, SendStep

\* Without a record and in its epoch, nothing is known of the write anywhere.
LEMMA NotClosed ==
  ASSUME WriteInv, ~Closed
  PROVE  /\ commits = <<>>
         /\ \A p \in Principals : record[p] = NoRecord /\ backup[2][p] = NoRecord
         /\ \A g \in Sends : req[g].seen = NoRecord
BY DEF WriteInv, Once, RecordsTrue, RecordTrue, SendsTrue, RowFits

LEMMA CommitTxStep ==
  ASSUME WriteInv, NEW h \in Sends, Open(h), req' = [req EXCEPT ![h] = Ended(@, "committed")],
         record' = [record EXCEPT ![req[h].who] = [by |-> h, input |-> req[h].input, tag |-> req[h].ifMatch,
                                                   epoch |-> epoch, status |-> req[h].stores]],
         claim' = IF Claimed(h) = h THEN [claim EXCEPT ![req[h].who] = 0] ELSE claim,
         commits' = IF req[h].stores = "ok" THEN Append(commits, req[h].input) ELSE commits,
         IF req[h].stores = "ok" /\ route # "plain" THEN draft' = etags + 1 /\ etags' = etags + 1
                                                    ELSE UNCHANGED <<draft, etags>>,
         UNCHANGED <<limits, route, service, epoch, blocked, backup, left, writeVars>>
  PROVE  WriteInv'
<1>1. UNCHANGED <<cli, store, kept, epoch, route, limits, backup>> BY DEF writeVars
<1>2. req \in [Sends -> SendRow] /\ req[h] \in SendRow BY DEF WriteInv, ServerTyped
<1>3. RowFits(req[h]) /\ RowHolds(req[h]) /\ RowTrue(h, req[h]) BY DEF WriteInv, SendsTrue
<1>4. req[h].who = cli.who /\ req[h].pc \in Late BY <1>3 DEF RowFits, AliveRow, Open
<1>5. ~Closed BY <1>3 DEF RowHolds, Open, Closed
<1>6. epoch = cli.ref BY <1>5 DEF Closed
<1>7. commits = <<>> /\ (\A p \in Principals : record[p] = NoRecord /\ backup[2][p] = NoRecord)
      /\ \A g \in Sends : req[g].seen = NoRecord
  BY <1>5, NotClosed
<1>8. PICK r : r = Ended(req[h], "committed") OBVIOUS
<1>9. req'[h] = r /\ \A g \in Sends \ {h} : req'[g] = req[g] BY <1>2, <1>8
<1>10. /\ r \in SendRow /\ r.pc = req[h].pc /\ r.tries <= req[h].tries /\ r.tx # "open"
       /\ req[h].pc = "gone" => r.seen = NoRecord
       /\ req[h].pc # "gone" =>
            /\ r.tx = "committed" /\ r.stores = req[h].stores
            /\ r.who = req[h].who /\ r.expected = req[h].expected /\ r.ifMatch = req[h].ifMatch
            /\ r.seen = req[h].seen /\ r.input = req[h].input /\ r.reply = req[h].reply
            /\ r.overtook = req[h].overtook
  BY <1>2, <1>8, EndedIs
<1>11. PICK rec : rec = [by |-> h, input |-> req[h].input, tag |-> req[h].ifMatch,
                         epoch |-> epoch, status |-> req[h].stores]
  OBVIOUS
<1>12. rec \in Record /\ rec # NoRecord
  <2>1. rec \in Record BY <1>2, <1>11 DEF Record, SendRow, WriteInv, ServerTyped
  <2> QED BY <2>1, RequestsAssumption
<1>13. rec.by = h /\ rec.input = req[h].input /\ rec.epoch = epoch /\ rec.status = req[h].stores BY <1>11
<1>14. cli.who \in Principals /\ record \in [Principals -> MaybeRecord]
  BY DEF WriteInv, ServerTyped, ClientTyped, ClientRow
<1>15. record' = [record EXCEPT ![cli.who] = rec] BY <1>4, <1>11
<1>16. record'[cli.who] = rec /\ \A p \in Principals \ {cli.who} : record'[p] = NoRecord BY <1>7, <1>14, <1>15
<1>17. commits' = IF req[h].stores = "ok" THEN <<req[h].input>> ELSE <<>> BY <1>7
<1>18. Closed' /\ Barred' BY <1>1, <1>12, <1>16 DEF Closed, Barred
<1>19. etags \in Nat \ {0} /\ draft \in 1 .. etags /\ etags' \in Nat \ {0} /\ draft' \in 1 .. etags' /\ etags <= etags'
  <2>1. etags \in Nat \ {0} /\ draft \in 1 .. etags BY DEF WriteInv, ServerTyped
  <2> QED BY <2>1
<1>20. ServerTyped'
  <2>1. record' \in [Principals -> MaybeRecord] BY <1>12, <1>14, <1>15 DEF MaybeRecord
  <2>2. req' \in [Sends -> SendRow] BY <1>2, <1>8, <1>10
  <2>3. commits' \in Seq(Inputs)
    <3>1. req[h].input \in Inputs BY <1>2 DEF SendRow
    <3>2. <<req[h].input>> \in Seq(Inputs) /\ <<>> \in Seq(Inputs) BY <3>1
    <3> QED BY <1>17, <3>2
  <2>4. claim' \in [Principals -> {0} \cup Sends] BY DEF WriteInv, ServerTyped
  <2>5. \A g \in Sends : req'[g].tries <= limits.attempts
    <3>1. r.tries \in Nat /\ req[h].tries \in Nat BY <1>2, <1>10 DEF SendRow
    <3>2. limits.attempts \in Nat BY RequestsAssumption DEF WriteInv, ServerTyped
    <3>3. \A g \in Sends : req[g].tries <= limits.attempts BY DEF WriteInv, ServerTyped
    <3> QED BY <1>9, <1>10, <3>1, <3>2, <3>3
  <2>6. backup \in (1 .. etags') \X [Principals -> MaybeRecord]
    <3>1. backup \in (1 .. etags) \X [Principals -> MaybeRecord] BY DEF WriteInv, ServerTyped
    <3>2. 1 .. etags \subseteq 1 .. etags' BY <1>19
    <3> QED BY <3>1, <3>2
  <2> QED BY <1>1, <1>19, <2>1, <2>2, <2>3, <2>4, <2>5, <2>6 DEF WriteInv, ServerTyped
<1>21. ClientTyped'
  <2>1. 1 .. etags \subseteq 1 .. etags' BY <1>19
  <2> QED BY <1>1, <2>1 DEF WriteInv, ClientTyped
<1>22. ClientFits'
  <2>1. ClientFits /\ cli.ifMatch \in Nat BY DEF WriteInv, ClientTyped, ClientRow
  <2>2. \A g \in Sends : req'[g].pc = req[g].pc BY <1>9, <1>10
  <2>3. cli.pc = "waiting" /\ req'[cli.send].pc # "gone" => req'[cli.send].input = cli.input
    <3>1. cli.pc = "waiting" => cli.send \in Sends /\ (req[cli.send].pc # "gone" => req[cli.send].input = cli.input)
      BY <2>1 DEF ClientFits
    <3>2. \A g \in Sends : req[g].pc # "gone" => req'[g].input = req[g].input BY <1>9, <1>10
    <3> QED BY <2>2, <3>1, <3>2
  <2>4. cli.ifMatch <= etags'
    <3>1. cli.ifMatch <= etags BY <2>1 DEF ClientFits
    <3> QED BY <1>19, <2>1, <3>1
  <2>5. cli.pc = "waiting" => cli.send \in Sends BY <2>1 DEF ClientFits
  <2> QED BY <1>1, <2>1, <2>2, <2>3, <2>4, <2>5 DEF ClientFits
<1>23. Fresh' BY <1>1, <1>4, <1>9, <1>10 DEF WriteInv, Fresh, Late
<1>24. RecordsTrue'
  <2>1. \A p \in Principals : backup'[2][p] = NoRecord BY <1>1, <1>7
  <2>2. RecordTrue(rec)' BY <1>1, <1>2, <1>6, <1>13, <1>17, <1>18 DEF RecordTrue, SendRow
  <2>3. RecordOf(cli.who, rec)' BY <1>1, <1>4, <1>9, <1>10, <1>13 DEF RecordOf, Late
  <2>4. ASSUME NEW p \in Principals
        PROVE  RecordTrue(record[p])' /\ RecordOf(p, record[p])'
               /\ RecordTrue(backup[2][p])' /\ RecordOf(p, backup[2][p])'
    <3>1. CASE p = cli.who BY <1>1, <1>16, <2>1, <2>2, <2>3, <3>1 DEF RecordTrue, RecordOf
    <3>2. CASE p # cli.who BY <1>16, <2>1, <3>2 DEF RecordTrue, RecordOf
    <3> QED BY <3>1, <3>2
  <2> QED BY <2>4 DEF RecordsTrue
<1>25. \A g \in Sends : ~Open(g)' BY <1>9, <1>10 DEF WriteInv, SendsTrue, Open
<1>26. req[h].stores = "ok" => ~Barred BY <1>3, <1>5 DEF Barred, RowHolds, Open
<1>27. req[h].stores # "ok" => commits' = <<>> BY <1>17
<1>28. SendsTrue'
  <2>1. ASSUME NEW g \in Sends PROVE RowFits(req[g])' /\ RowHolds(req[g])' /\ RowTrue(g, req[g])'
    <3>1. RowHolds(req[g])' BY <1>25 DEF RowHolds, Open
    <3>2. CASE g = h
      <4>1. RowFits(req[g])' BY <1>1, <1>3, <1>4, <1>7, <1>9, <1>10, <3>2 DEF RowFits, AliveRow, Early, Late, RecordTrue, Open
      <4>2. RowTrue(g, req[g])'
        BY <1>1, <1>3, <1>9, <1>10, <1>12, <1>13, <1>16, <3>2 DEF RowTrue, Open
      <4> QED BY <3>1, <4>1, <4>2
    <3>3. CASE g # h
      <4>1. req'[g] = req[g] /\ RowFits(req[g]) /\ RowTrue(g, req[g]) BY <1>9, <3>3 DEF WriteInv, SendsTrue
      <4>2. RowFits(req[g])' BY <1>1, <1>7, <4>1 DEF RowFits, AliveRow, RecordTrue
      <4>3. ~Open(g) BY <3>3 DEF WriteInv, SendsTrue
      <4>4. req[g].pc \in {"committing", "resolving"} => req[g].tx # "committed"
        BY <1>5, <4>1 DEF RowTrue, Closed
      <4>5. req[g].pc = "answered" =>
              /\ req[g].reply \notin {"ok", "stored"}
              /\ req[g].reply = "moved" => Barred
        BY <1>5, <1>7, <4>1 DEF RowTrue
      <4>6. RowTrue(g, req[g])' BY <1>18, <1>26, <1>27, <4>1, <4>3, <4>4, <4>5 DEF RowTrue, Open
      <4> QED BY <3>1, <4>2, <4>6
    <3> QED BY <3>2, <3>3
  <2> QED BY <1>25, <2>1 DEF SendsTrue
<1>29. Once' BY <1>17, <1>18 DEF Once
<1>30. ~Dead(h) /\ ~Quiet(h) BY DEF Dead, Quiet
<1>31. ConflictTrue'
  <2>1. ASSUME cli.run = 1, cli.pc = "waiting", req'[cli.send].pc = "answered",
               req'[cli.send].reply = "conflict", ~req'[cli.send].overtook
        PROVE  FALSE
    <3>1. cli.send \in Sends BY <2>1 DEF WriteInv, ClientFits
    <3>2. CASE cli.send = h BY <1>3, <1>9, <1>10, <2>1, <3>2 DEF RowTrue, Open
    <3>3. CASE cli.send # h BY <1>9, <1>30, <2>1, <3>1, <3>3 DEF WriteInv, ConflictTrue
    <3> QED BY <3>2, <3>3
  <2> QED BY <1>1, <2>1 DEF ConflictTrue
<1>32. Calm'
  <2>1. SUFFICES ASSUME ~cli.ambiguous PROVE Calm' BY <1>1 DEF Calm
  <2>2. cli.pc \notin {"start", "context", "ready", "repeat"} BY <1>30, <2>1 DEF WriteInv, Calm
  <2>3. cli.pc = "waiting" => cli.send = h /\ \A g \in Sends \ {h} : Quiet(g) BY <1>30, <2>1 DEF WriteInv, Calm
  <2>4. \A g \in Sends \ {h} : Quiet(g) => Quiet(g)' BY <1>9 DEF Quiet, Open
  <2>5. r.pc = "gone" \/ r.tx = "committed" BY <1>10
  <2> QED BY <1>1, <1>9, <2>2, <2>3, <2>4, <2>5 DEF Calm
<1>33. Reported'
  <2>1. cli.out # "done" BY <1>7 DEF WriteInv, Reported
  <2>2. cli.out \in {"stored", "moved", "not done", "set aside"} \/ (cli.out = "refused" /\ ~cli.overtook) => Barred
    BY <1>30 DEF WriteInv, Reported
  <2> QED BY <1>1, <1>18, <1>26, <1>27, <2>1, <2>2 DEF Reported
<1> QED BY <1>20, <1>21, <1>22, <1>23, <1>24, <1>28, <1>29, <1>31, <1>32, <1>33 DEF WriteInv

LEMMA EndTxStep ==
  ASSUME WriteInv, NEW h \in Sends, EndTx(h), UNCHANGED writeVars PROVE WriteInv'
<1>1. CASE req' = [req EXCEPT ![h] = Ended(@, "aborted")] /\ UNCHANGED <<draft, etags, record, claim, commits>>
  <2>1. Kept BY <1>1 DEF EndTx, Kept, WriteInv, ServerTyped
  <2> QED BY <1>1, <2>1, AbortStep DEF EndTx
<1>2. CASE ~(req' = [req EXCEPT ![h] = Ended(@, "aborted")] /\ UNCHANGED <<draft, etags, record, claim, commits>>)
  BY <1>2, CommitTxStep DEF EndTx
<1> QED BY <1>1, <1>2

-----------------------------------------------------------------------------
\* Steps of others: the draft and the epoch move only while no transaction is open.
LEMMA WorldStep ==
  ASSUME WriteInv, UNCHANGED <<req, record, commits, route, service, limits, writeVars>>,
         epoch' \in epoch .. MaxEpoch,
         \/ UNCHANGED <<draft, etags>>
         \/ draft' = etags + 1 /\ etags' = etags + 1,
         UNCHANGED <<epoch, draft>> \/ ~(\E g \in Sends : Open(g)),
         backup' \in {backup, <<draft, record>>},
         claim' \in [Principals -> {0} \cup Sends], blocked' \in BOOLEAN, left' \in Nat
  PROVE  WriteInv'
<1>1. UNCHANGED <<cli, store, kept>> BY DEF writeVars
<1>2. epoch \in 1 .. MaxEpoch /\ etags \in Nat \ {0} /\ draft \in 1 .. etags
      /\ record \in [Principals -> MaybeRecord] /\ backup \in (1 .. etags) \X [Principals -> MaybeRecord]
  BY DEF WriteInv, ServerTyped
<1>3. etags' \in Nat \ {0} /\ draft' \in 1 .. etags' /\ etags <= etags' /\ epoch' \in 1 .. MaxEpoch /\ epoch <= epoch'
  <2>1. MaxEpoch \in Nat BY RequestsAssumption
  <2> QED BY <1>2, <2>1
<1>4. 1 .. etags \subseteq 1 .. etags' BY <1>2, <1>3
<1>5. cli.ref \in 1 .. MaxEpoch /\ cli.ref <= epoch /\ cli.ifMatch \in Nat /\ cli.ifMatch <= etags
  BY DEF WriteInv, ClientTyped, ClientRow, ClientFits
<1>6. Closed => Closed' BY <1>1, <1>2, <1>3, <1>5 DEF Closed
<1>7. draft # cli.ifMatch => draft' # cli.ifMatch BY <1>2, <1>5
<1>8. Barred => Barred' BY <1>1, <1>6, <1>7 DEF Barred
<1>9. ServerTyped'
  <2>1. backup' \in (1 .. etags') \X [Principals -> MaybeRecord]
    <3>1. backup \in (1 .. etags') \X [Principals -> MaybeRecord] BY <1>2, <1>4
    <3>2. <<draft, record>> \in (1 .. etags') \X [Principals -> MaybeRecord] BY <1>2, <1>4
    <3> QED BY <3>1, <3>2
  <2> QED BY <1>3, <2>1 DEF WriteInv, ServerTyped
<1>10. ClientTyped' BY <1>1, <1>4 DEF WriteInv, ClientTyped
<1>11. ClientFits'
  <2>1. cli.ref <= epoch' /\ cli.ifMatch <= etags' BY <1>2, <1>3, <1>5
  <2> QED BY <1>1, <2>1 DEF WriteInv, ClientFits
<1>12. \A p \in Principals : backup'[2][p] \in {record[p], backup[2][p]} BY <1>2
<1>13. Fresh' BY <1>1, <1>12 DEF WriteInv, Fresh
<1>14. ASSUME NEW x, RecordTrue(x) PROVE RecordTrue(x)' BY <1>1, <1>6, <1>14 DEF RecordTrue
<1>15. RecordsTrue'
  <2>1. ASSUME NEW p \in Principals, NEW x, RecordTrue(x) /\ RecordOf(p, x)
        PROVE  RecordTrue(x)' /\ RecordOf(p, x)'
    BY <1>1, <1>14, <2>1 DEF RecordOf
  <2>2. ASSUME NEW p \in Principals
        PROVE  RecordTrue(record[p])' /\ RecordOf(p, record[p])'
               /\ RecordTrue(backup[2][p])' /\ RecordOf(p, backup[2][p])'
    <3>1. PICK x, y : x = record'[p] /\ y = backup'[2][p] OBVIOUS
    <3>2. x = record[p] /\ y \in {record[p], backup[2][p]} BY <1>12, <3>1
    <3>3. RecordTrue(x) /\ RecordOf(p, x) /\ RecordTrue(y) /\ RecordOf(p, y)
      BY <3>2 DEF WriteInv, RecordsTrue, RecordTrue, RecordOf
    <3>4. RecordTrue(x)' /\ RecordOf(p, x)' /\ RecordTrue(y)' /\ RecordOf(p, y)' BY <2>1, <3>3
    <3> QED BY <3>1, <3>4 DEF RecordTrue, RecordOf
  <2> QED BY <2>2 DEF RecordsTrue
<1>16. SendsTrue'
  <2>1. ASSUME NEW g \in Sends PROVE RowFits(req[g])' /\ RowHolds(req[g])' /\ RowTrue(g, req[g])'
    <3>1. RowFits(req[g]) /\ RowHolds(req[g]) /\ RowTrue(g, req[g]) BY DEF WriteInv, SendsTrue
    <3>2. PICK s : s = req[g].seen OBVIOUS
    <3>3. RecordTrue(s) BY <3>1, <3>2 DEF RowFits, RecordTrue
    <3>4. RecordTrue(s)' BY <1>14, <3>3
    <3>5. RecordTrue(req[g].seen)' BY <3>2, <3>4 DEF RecordTrue
    <3>6. RowFits(req[g])' BY <1>1, <3>1, <3>5 DEF RowFits, AliveRow
    <3>7. RowHolds(req[g])' BY <1>1, <3>1 DEF RowHolds, Open
    <3>8. RowTrue(g, req[g])' BY <1>1, <1>6, <1>8, <3>1 DEF RowTrue
    <3> QED BY <3>6, <3>7, <3>8
  <2> QED BY <2>1 DEF WriteInv, SendsTrue, Open
<1>17. Once' BY <1>6 DEF WriteInv, Once
<1>18. ConflictTrue' /\ Calm' BY <1>1 DEF WriteInv, ConflictTrue, Calm, Dead, Quiet, Open, Running
<1>19. Reported' BY <1>1, <1>8 DEF WriteInv, Reported, Dead, Open, Running
<1> QED BY <1>9, <1>10, <1>11, <1>13, <1>15, <1>16, <1>17, <1>18, <1>19 DEF WriteInv

LEMMA OthersStep ==
  ASSUME WriteInv, LapseClaim \/ OtherWrite \/ OtherChange \/ TakeBackup \/ Enter, UNCHANGED writeVars
  PROVE  WriteInv'
<1>1. /\ epoch \in 1 .. MaxEpoch /\ left \in Nat /\ claim \in [Principals -> {0} \cup Sends]
      /\ blocked \in BOOLEAN /\ MaxEpoch \in Nat
  BY RequestsAssumption DEF WriteInv, ServerTyped
<1>2. CASE LapseClaim BY <1>1, <1>2, WorldStep DEF LapseClaim, Spend
<1>3. CASE OtherWrite BY <1>1, <1>3, WorldStep DEF OtherWrite, Spend
<1>4. CASE OtherChange BY <1>1, <1>4, WorldStep DEF OtherChange, Spend
<1>5. CASE TakeBackup BY <1>1, <1>5, WorldStep DEF TakeBackup, Spend
<1>6. CASE Enter BY <1>1, <1>6, WorldStep DEF Enter, Spend
<1> QED BY <1>2, <1>3, <1>4, <1>5, <1>6

\* A restore begins a new epoch, in which no send of the write runs or can commit.
LEMMA RestoreStep ==
  ASSUME WriteInv, Restore, UNCHANGED writeVars
  PROVE  WriteInv'
<1>1. UNCHANGED <<cli, store, kept>> BY DEF writeVars
<1>2. /\ epoch \in 1 .. MaxEpoch /\ left \in Nat /\ MaxEpoch \in Nat /\ etags \in Nat \ {0}
      /\ backup \in (1 .. etags) \X [Principals -> MaybeRecord] /\ req \in [Sends -> SendRow]
  BY RequestsAssumption DEF WriteInv, ServerTyped
<1>3. cli.ref \in 1 .. MaxEpoch /\ cli.ref <= epoch BY DEF WriteInv, ClientTyped, ClientRow, ClientFits
<1>4. epoch' = epoch + 1 /\ epoch' \in 1 .. MaxEpoch /\ left' \in Nat BY <1>2 DEF Restore, Spend
<1>5. Closed' /\ Barred' BY <1>1, <1>2, <1>3, <1>4 DEF Closed, Barred
<1>6. UNCHANGED <<limits, route, service, etags, blocked, backup, commits>> /\ record' = backup[2] /\ draft' = backup[1]
  BY DEF Restore
<1>7. ASSUME NEW g \in Sends
      PROVE  \/ req'[g] = req[g] /\ ~Running(g) /\ ~Open(g)
             \/ /\ req'[g] \in SendRow /\ req'[g].pc = "gone" /\ req'[g].tx = "none"
                /\ req'[g].seen = NoRecord /\ req'[g].tries <= req[g].tries
                /\ (Running(g) \/ Open(g))
  <2>1. CASE ~(Running(g) \/ Open(g)) BY <2>1 DEF Restore
  <2>2. CASE Running(g) \/ Open(g)
    <3>1. PICK s : s = [req[g] EXCEPT !.tx = "aborted"] OBVIOUS
    <3>2. s \in SendRow /\ s.tx = "aborted" /\ s.tries = req[g].tries BY <1>2, <3>1 DEF SendRow
    <3>3. req'[g] = Over(s) BY <2>2, <3>1 DEF Restore
    <3> QED BY <2>2, <3>2, <3>3, OverIs
  <2> QED BY <2>1, <2>2
<1>8. \A g \in Sends : RowFits(req[g]) /\ RowTrue(g, req[g]) BY DEF WriteInv, SendsTrue
<1>9. \A g \in Sends : Running(g) \/ Open(g) => req[g].pc # "unsent" BY <1>8 DEF RowFits, Running, Open
<1>10. \A g \in Sends : (req'[g].pc = "unsent" <=> req[g].pc = "unsent") BY <1>7, <1>9
<1>11. \A g \in Sends : Dead(g)' BY <1>7 DEF Dead, Running, Open
<1>12. ServerTyped'
  <2>1. req' \in [Sends -> SendRow]
    <3>1. \A g \in Sends : req'[g] \in SendRow BY <1>2, <1>7
    <3>2. req' = [g \in Sends |-> req'[g]] BY DEF Restore
    <3> QED BY <3>1, <3>2
  <2>2. \A g \in Sends : req'[g].tries <= limits.attempts
    <3>1. SUFFICES ASSUME NEW g \in Sends PROVE req'[g].tries <= limits.attempts OBVIOUS
    <3>2. req'[g].tries \in Nat /\ req[g].tries \in Nat BY <1>2, <2>1 DEF SendRow
    <3>3. limits.attempts \in Nat /\ req[g].tries <= limits.attempts BY RequestsAssumption DEF WriteInv, ServerTyped
    <3>4. req'[g].tries <= req[g].tries BY <1>7, <3>2
    <3> QED BY <3>2, <3>3, <3>4
  <2>3. claim' \in [Principals -> {0} \cup Sends] BY DEF Restore
  <2>4. draft' \in 1 .. etags /\ record' \in [Principals -> MaybeRecord] BY <1>2, <1>6
  <2> QED BY <1>4, <1>6, <2>1, <2>2, <2>3, <2>4 DEF WriteInv, ServerTyped
<1>13. ClientTyped' BY <1>1, <1>6 DEF WriteInv, ClientTyped
<1>14. ClientFits'
  <2>1. ClientFits BY DEF WriteInv
  <2>2. cli.ref <= epoch' BY <1>2, <1>3, <1>4
  <2>3. cli.pc = "waiting" /\ req'[cli.send].pc # "gone" => req'[cli.send].input = cli.input
    <3>1. cli.pc = "waiting" => cli.send \in Sends /\ (req[cli.send].pc # "gone" => req[cli.send].input = cli.input)
      BY <2>1 DEF ClientFits
    <3> QED BY <1>7, <3>1
  <2> QED BY <1>1, <1>6, <1>10, <2>1, <2>2, <2>3 DEF ClientFits
<1>15. Fresh' BY <1>1, <1>6, <1>10 DEF WriteInv, Fresh
<1>16. ASSUME NEW x, RecordTrue(x) PROVE RecordTrue(x)' BY <1>1, <1>5, <1>6, <1>16 DEF RecordTrue
<1>17. RecordsTrue'
  <2>1. ASSUME NEW p \in Principals
        PROVE  RecordTrue(record[p])' /\ RecordOf(p, record[p])'
               /\ RecordTrue(backup[2][p])' /\ RecordOf(p, backup[2][p])'
    <3>1. PICK x \in MaybeRecord : x = backup[2][p] BY <1>2
    <3>2. RecordTrue(x) /\ RecordOf(p, x) BY <3>1 DEF WriteInv, RecordsTrue, RecordTrue, RecordOf
    <3>3. RecordTrue(x)' BY <1>16, <3>2
    <3>4. RecordOf(p, x)'
      <4>1. x # NoRecord => x.by \in Sends BY DEF MaybeRecord, Record
      <4> QED BY <1>1, <1>7, <1>10, <3>2, <4>1 DEF RecordOf
    <3>5. x = record'[p] /\ x = backup'[2][p] BY <1>6, <3>1
    <3> QED BY <3>3, <3>4, <3>5 DEF RecordTrue, RecordOf
  <2> QED BY <2>1 DEF RecordsTrue
<1>18. SendsTrue'
  <2>1. ASSUME NEW g \in Sends PROVE RowFits(req[g])' /\ RowHolds(req[g])' /\ RowTrue(g, req[g])'
    <3>1. ~Open(g)' BY <1>11 DEF Dead
    <3>2. RowHolds(req[g])' BY <3>1 DEF RowHolds, Open
    <3>3. CASE req'[g].pc = "gone" /\ req'[g].tx = "none" /\ req'[g].seen = NoRecord
      BY <3>2, <3>3 DEF RowFits, RowTrue, AliveRow, Early, RecordTrue
    <3>4. CASE req'[g] = req[g] /\ ~Running(g) /\ ~Open(g)
      <4>1. PICK s : s = req[g].seen OBVIOUS
      <4>2. RecordTrue(s) BY <1>8, <4>1 DEF RowFits, RecordTrue
      <4>3. RecordTrue(s)' BY <1>16, <4>2
      <4>4. RecordTrue(req[g].seen)' BY <3>4, <4>1, <4>3 DEF RecordTrue
      <4>5. RowFits(req[g])' BY <1>1, <1>6, <1>8, <3>4, <4>4 DEF RowFits, AliveRow, Open, Running, Early
      <4>6. RowTrue(g, req[g])' BY <1>5, <1>6, <1>8, <3>4 DEF RowTrue, Open, Running
      <4> QED BY <3>2, <4>5, <4>6
    <3> QED BY <1>7, <3>3, <3>4
  <2> QED BY <1>11, <2>1 DEF SendsTrue, Dead
<1>19. Once' BY <1>5, <1>6 DEF WriteInv, Once
<1>20. ConflictTrue'
  <2>1. ASSUME cli.run = 1, cli.pc = "waiting", req'[cli.send].pc = "answered",
               req'[cli.send].reply = "conflict", ~req'[cli.send].overtook
        PROVE  commits = <<>>
    <3>1. cli.send \in Sends BY <2>1 DEF WriteInv, ClientFits
    <3>2. req'[cli.send] = req[cli.send] BY <1>7, <2>1, <3>1
    <3> QED BY <2>1, <3>2 DEF WriteInv, ConflictTrue
  <2> QED BY <1>1, <1>6, <1>11, <2>1 DEF ConflictTrue
<1>21. Calm'
  <2>1. \A g \in Sends : Quiet(g) => Quiet(g)' BY <1>7 DEF Quiet, Open, Running
  <2>2. cli.pc = "waiting" => cli.send \in Sends BY DEF WriteInv, ClientFits
  <2>3. \A g \in Sends : req[g].pc = "gone" \/ req[g].tx = "committed" => req'[g].pc = "gone" \/ req'[g].tx = "committed"
    BY <1>7
  <2> QED BY <1>1, <1>6, <2>1, <2>2, <2>3 DEF WriteInv, Calm
<1>22. Reported' BY <1>1, <1>5, <1>6 DEF WriteInv, Reported
<1> QED BY <1>12, <1>13, <1>14, <1>15, <1>17, <1>18, <1>19, <1>20, <1>21, <1>22 DEF WriteInv

-----------------------------------------------------------------------------
\* The process. A send it no longer listens to is over, or only unheard.
Hung(g) ==
  /\ req'[g].tries <= req[g].tries
  /\ \/ /\ req'[g].pc = req[g].pc /\ req'[g].tx = req[g].tx /\ req'[g].who = req[g].who
        /\ req'[g].expected = req[g].expected /\ req'[g].ifMatch = req[g].ifMatch
        /\ req'[g].seen = req[g].seen /\ req'[g].stores = req[g].stores /\ req'[g].input = req[g].input
        /\ req'[g].reply = req[g].reply
     \/ /\ req'[g].pc = "gone" /\ req[g].pc # "unsent"
        /\ IF Open(g) THEN /\ req'[g].tx = "open" /\ req'[g].who = req[g].who
                           /\ req'[g].expected = req[g].expected /\ req'[g].ifMatch = req[g].ifMatch
                           /\ req'[g].seen = req[g].seen /\ req'[g].stores = req[g].stores
           ELSE req'[g].tx = "none" /\ req'[g].seen = NoRecord

\* The same write, further on.
Follows(c) ==
  /\ c \in ClientRow /\ c.try <= limits.repeats /\ (c.out = "none" <=> c.pc # "over")
  /\ c.who = cli.who /\ c.ref = cli.ref /\ c.ifMatch = cli.ifMatch /\ c.pc # "waiting"
  /\ c.run > 1 \/ (c.run = cli.run /\ c.send = cli.send)
  /\ c.pc = "ready" => c.token = c.who
  /\ c.run > 1 => c.ambiguous /\ c.out # "not sent"
  /\ c.run = 1 /\ (c.pc \in {"start", "context"} \/ c.out = "not sent")
       => cli.run = 1 /\ (cli.pc \in {"start", "context"} \/ cli.out = "not sent")

LEMMA ClientMove ==
  ASSUME WriteInv, NEW c, cli' = c, Follows(c), UNCHANGED Rows, store' \in Principals,
         kept' \in [epoch : 1 .. MaxEpoch, tag : 1 .. etags],
         req' \in [Sends -> SendRow], \A g \in Sends : Hung(g),
         ~c.ambiguous /\ c.pc # "over" => commits = <<>> /\ (\A g \in Sends : Quiet(g)'),
         c.out = "done" => commits = <<c.input>>,
         c.out \in {"stored", "moved", "not done", "set aside"} \/ (c.out = "refused" /\ ~c.overtook)
           => commits = <<>> /\ (Barred \/ \A g \in Sends : Dead(g)')
  PROVE  WriteInv'
<1>1. UNCHANGED <<limits, route, service, epoch, draft, etags, blocked, record, claim, backup, commits, left>>
  BY DEF Rows
<1>2. c.who = cli.who /\ c.ref = cli.ref /\ c.ifMatch = cli.ifMatch /\ c \in ClientRow BY DEF Follows
<1>3. (Closed' <=> Closed) /\ (Barred' <=> Barred) BY <1>1, <1>2 DEF Closed, Barred
<1>4. ServerTyped'
  <2>1. req' \in [Sends -> SendRow] OBVIOUS
  <2>2. \A g \in Sends : req'[g].tries <= limits.attempts
    <3>1. SUFFICES ASSUME NEW g \in Sends PROVE req'[g].tries <= limits.attempts OBVIOUS
    <3>2. req'[g].tries \in Nat /\ req[g].tries \in Nat BY <2>1 DEF SendRow, WriteInv, ServerTyped
    <3>3. limits.attempts \in Nat /\ req[g].tries <= limits.attempts BY RequestsAssumption DEF WriteInv, ServerTyped
    <3>4. req'[g].tries <= req[g].tries BY DEF Hung
    <3> QED BY <3>2, <3>3, <3>4, LeqTrans, Zenon
  <2> QED BY <1>1, <2>1, <2>2 DEF WriteInv, ServerTyped
<1>5. ClientTyped' BY <1>1 DEF Follows, ClientTyped
<1>6. \A g \in Sends : (req'[g].pc = "unsent" <=> req[g].pc = "unsent") BY DEF Hung
<1>7. ClientFits'
  <2>1. ClientFits BY DEF WriteInv
  <2>2. c.run = 1 => \A h \in Sends : req'[h].pc # "unsent" => h <= c.send
    <3>1. c.run = 1 => ~(c.run > 1) BY OneIsOne, Zenon
    <3>2. c.run > 1 \/ (c.run = cli.run /\ c.send = cli.send) BY DEF Follows
    <3> QED BY <1>6, <2>1, <3>1, <3>2 DEF ClientFits
  <2>3. \A g, h \in Sends : g < h /\ req'[h].pc # "unsent" => req'[g].pc # "unsent" BY <1>6, <2>1 DEF ClientFits
  <2> QED BY <1>1, <2>1, <2>2, <2>3 DEF ClientFits, Follows
<1>8. Fresh' BY <1>1, <1>6 DEF WriteInv, Fresh, Follows
<1>9. ASSUME NEW x, RecordTrue(x) PROVE RecordTrue(x)' BY <1>1, <1>2, <1>3, <1>9 DEF RecordTrue
<1>10. RecordsTrue'
  <2>1. ASSUME NEW p \in Principals, NEW x \in MaybeRecord, RecordTrue(x) /\ RecordOf(p, x)
        PROVE  RecordTrue(x)' /\ RecordOf(p, x)'
    <3>1. x # NoRecord => x.by \in Sends BY DEF MaybeRecord, Record
    <3>2. RecordOf(p, x)' BY <1>2, <2>1, <3>1 DEF RecordOf, Hung
    <3> QED BY <1>9, <2>1, <3>2
  <2>2. ASSUME NEW p \in Principals
        PROVE  RecordTrue(record[p])' /\ RecordOf(p, record[p])'
               /\ RecordTrue(backup[2][p])' /\ RecordOf(p, backup[2][p])'
    <3>1. PICK x \in MaybeRecord, y \in MaybeRecord : x = record[p] /\ y = backup[2][p]
      BY DEF WriteInv, ServerTyped
    <3>2. RecordTrue(x) /\ RecordOf(p, x) /\ RecordTrue(y) /\ RecordOf(p, y)
      BY <3>1 DEF WriteInv, RecordsTrue, RecordTrue, RecordOf
    <3>3. RecordTrue(x)' /\ RecordOf(p, x)' /\ RecordTrue(y)' /\ RecordOf(p, y)' BY <2>1, <3>2
    <3>4. x = record'[p] /\ y = backup'[2][p] BY <1>1, <3>1
    <3> QED BY <3>3, <3>4 DEF RecordTrue, RecordOf
  <2> QED BY <2>2 DEF RecordsTrue
<1>11. SendsTrue'
  <2>1. ASSUME NEW g \in Sends PROVE RowFits(req[g])' /\ RowHolds(req[g])' /\ RowTrue(g, req[g])'
    <3>1. RowFits(req[g]) /\ RowHolds(req[g]) /\ RowTrue(g, req[g]) /\ Hung(g) BY DEF WriteInv, SendsTrue
    <3>2. PICK s : s = req[g].seen OBVIOUS
    <3>3. RecordTrue(s) BY <3>1, <3>2 DEF RowFits, RecordTrue
    <3>4. RecordTrue(s)' BY <1>9, <3>3
    <3>5. RecordTrue(req[g].seen)' BY <3>1, <3>2, <3>4 DEF RecordTrue, Hung
    <3>6. RowFits(req[g])' BY <1>1, <1>2, <3>1, <3>5 DEF RowFits, AliveRow, Hung, Open, Early, Late
    <3>7. RowHolds(req[g])' BY <1>1, <1>2, <3>1 DEF RowHolds, Open, Hung
    <3>8. RowTrue(g, req[g])' BY <1>1, <1>2, <1>3, <3>1 DEF RowTrue, Hung
    <3> QED BY <3>6, <3>7, <3>8
  <2>2. \A g \in Sends : Open(g)' => Open(g) BY DEF Hung, Open
  <2> QED BY <2>1, <2>2 DEF WriteInv, SendsTrue
<1>12. Once' BY <1>1, <1>3 DEF WriteInv, Once
<1>13. ConflictTrue' BY DEF ConflictTrue, Follows
<1>14. Calm' BY <1>1 DEF Calm, Follows
<1>15. Reported' BY <1>1, <1>3 DEF Reported
<1> QED BY <1>4, <1>5, <1>7, <1>8, <1>10, <1>11, <1>12, <1>13, <1>14, <1>15 DEF WriteInv

-----------------------------------------------------------------------------
LEMMA LeastOf ==
  ASSUME NEW S \in SUBSET Nat, S # {}
  PROVE  \E x \in S : \A y \in S : x <= y
<1> DEFINE R == OpToRel(<, Nat)
<1>1. PICK x \in S : \A y \in S : ~ (<<y, x>> \in R)
  <2> HIDE DEF R
  <2> QED BY WFMin, NatLessThanWellFounded DEF R
<1>2. \A y \in Nat, z \in Nat : y < z => <<y, z>> \in R
  <2>1. R = {ss \in Nat \X Nat : ss[1] < ss[2]} BY DEF OpToRel
  <2> QED BY <2>1
<1> HIDE DEF R
<1>3. \A y \in S : ~(y < x) BY <1>1, <1>2
<1> QED BY <1>3

LEMMA NextSendIs ==
  ASSUME WriteInv, Unsent # {}
  PROVE  /\ NextSend \in Sends /\ req[NextSend].pc = "unsent"
         /\ \A g \in Sends : g < NextSend => req[g].pc # "unsent"
         /\ \A g \in Sends : req[g].pc # "unsent" => g < NextSend
<1>1. Sends \subseteq Nat /\ limits.sends \in Nat BY RequestsAssumption DEF WriteInv, ServerTyped
<1>2. Unsent \in SUBSET Nat BY <1>1 DEF Unsent
<1>3. \E x \in Unsent : \A y \in Unsent : x <= y BY <1>2, LeastOf
<1>4. NextSend \in Unsent /\ \A y \in Unsent : NextSend <= y BY <1>3 DEF NextSend
<1>5. PICK n : n = NextSend OBVIOUS
<1>6. n \in Sends /\ n <= limits.sends /\ req[n].pc = "unsent" BY <1>4, <1>5 DEF Unsent
<1>7. \A g \in Sends : g < n => req[g].pc # "unsent"
  <2>1. SUFFICES ASSUME NEW g \in Sends, g < n, req[g].pc = "unsent" PROVE FALSE OBVIOUS
  <2>2. g \in Nat /\ n \in Nat BY <1>1, <1>6
  <2>3. g <= limits.sends BY <1>1, <1>6, <2>1, <2>2
  <2>4. g \in Unsent BY <2>1, <2>3 DEF Unsent
  <2> QED BY <1>4, <1>5, <2>1, <2>2, <2>4
<1>8. \A g \in Sends : req[g].pc # "unsent" => g < n
  <2>1. SUFFICES ASSUME NEW g \in Sends, req[g].pc # "unsent", ~(g < n) PROVE FALSE OBVIOUS
  <2>2. g \in Nat /\ n \in Nat BY <1>1, <1>6
  <2>3. n < g \/ n = g BY <2>1, <2>2
  <2>4. n < g => req[n].pc # "unsent" BY <1>6, <2>1 DEF WriteInv, ClientFits
  <2> QED BY <1>6, <2>1, <2>3, <2>4
<1> QED BY <1>5, <1>6, <1>7, <1>8

LEMMA PostStep ==
  ASSUME WriteInv, Post
  PROVE  WriteInv'
<1>1. UNCHANGED <<limits, route, service, epoch, draft, etags, blocked, record, claim, backup, commits, left, store, kept>>
  BY DEF Post, Rows
<1>2. cli \in ClientRow /\ cli.pc = "ready" /\ cli.token = cli.who /\ cli.out = "none"
  BY DEF WriteInv, ClientTyped, ClientFits, Post
<1>3. PICK h : h = NextSend OBVIOUS
<1>4. /\ h \in Sends /\ req[h].pc = "unsent" /\ (\A g \in Sends : g < h => req[g].pc # "unsent")
      /\ \A g \in Sends : req[g].pc # "unsent" => g < h
  BY <1>3, NextSendIs DEF Post
<1>5. PICK c : c = [cli EXCEPT !.pc = "waiting", !.send = h] OBVIOUS
<1>6. /\ cli' = c /\ c \in ClientRow /\ c.pc = "waiting" /\ c.send = h /\ c.who = cli.who /\ c.token = cli.token
      /\ c.ref = cli.ref /\ c.ifMatch = cli.ifMatch /\ c.run = cli.run /\ c.input = cli.input
      /\ c.ambiguous = cli.ambiguous /\ c.try = cli.try /\ c.out = cli.out
  <2>1. cli' = c BY <1>3, <1>5 DEF Post
  <2> QED BY <1>2, <1>4, <1>5, <2>1 DEF ClientRow
<1>7. PICK r : r = [NoSend EXCEPT !.pc = "arrived", !.who = cli.token, !.expected = cli.ref,
                                  !.ifMatch = cli.ifMatch, !.input = cli.input]
  OBVIOUS
<1>8. /\ r \in SendRow /\ r.pc = "arrived" /\ r.who = cli.who /\ r.expected = cli.ref /\ r.ifMatch = cli.ifMatch
      /\ r.input = cli.input /\ r.tx = "none" /\ r.seen = NoRecord /\ r.tries = 0
  <2>1. PICK n \in SendRow : n = NoSend BY Unsent0
  <2>2. n.tx = "none" /\ n.seen = NoRecord /\ n.tries = 0 BY <2>1, Unsent0
  <2>3. r = [n EXCEPT !.pc = "arrived", !.who = cli.token, !.expected = cli.ref,
                      !.ifMatch = cli.ifMatch, !.input = cli.input]
    BY <1>7, <2>1
  <2>4. cli.token \in Principals /\ cli.ref \in 1 .. MaxEpoch /\ cli.ifMatch \in Nat /\ cli.input \in Inputs
    BY <1>2 DEF ClientRow
  <2> QED BY <1>2, <2>2, <2>3, <2>4 DEF SendRow, SendPc
<1>9. req \in [Sends -> SendRow] BY DEF WriteInv, ServerTyped
<1>10. req' = [req EXCEPT ![h] = r] BY <1>3, <1>7 DEF Post
<1>11. req'[h] = r /\ \A g \in Sends \ {h} : req'[g] = req[g] BY <1>4, <1>9, <1>10
<1>12. (Closed' <=> Closed) /\ (Barred' <=> Barred) BY <1>1, <1>6 DEF Closed, Barred
<1>13. RowFits(req[h]) BY <1>4 DEF WriteInv, SendsTrue
<1>14. ServerTyped'
  <2>1. req' \in [Sends -> SendRow] BY <1>4, <1>8, <1>9, <1>10
  <2>2. 0 <= limits.attempts BY RequestsAssumption DEF WriteInv, ServerTyped
  <2>3. \A g \in Sends : req'[g].tries <= limits.attempts BY <1>8, <1>11, <2>2 DEF WriteInv, ServerTyped
  <2> QED BY <1>1, <2>1, <2>3 DEF WriteInv, ServerTyped
<1>15. ClientTyped' BY <1>1, <1>2, <1>6 DEF WriteInv, ClientTyped
<1>16. ClientFits'
  <2>1. ClientFits /\ Sends \subseteq Nat BY RequestsAssumption DEF WriteInv
  <2>2. \A g \in Sends : req'[g].pc # "unsent" => g <= h
    <3>1. \A g \in Sends : req[g].pc # "unsent" => g <= h BY <1>4, <2>1
    <3>2. h <= h BY <1>4, <2>1
    <3> QED BY <1>11, <3>1, <3>2
  <2>3. \A g, k \in Sends : g < k /\ req'[k].pc # "unsent" => req'[g].pc # "unsent"
    <3>1. SUFFICES ASSUME NEW g \in Sends, NEW k \in Sends, g < k, req'[k].pc # "unsent", g # h
                   PROVE  req[g].pc # "unsent"
      BY <1>8, <1>11
    <3>2. CASE k = h BY <1>4, <3>1, <3>2
    <3>3. CASE k # h BY <1>11, <2>1, <3>1, <3>3 DEF ClientFits
    <3> QED BY <3>2, <3>3
  <2> QED BY <1>1, <1>2, <1>4, <1>6, <1>8, <1>11, <2>1, <2>2, <2>3 DEF ClientFits
<1>17. Fresh' BY <1>2, <1>6 DEF Fresh
<1>18. ASSUME NEW x, RecordTrue(x) PROVE RecordTrue(x)' BY <1>1, <1>6, <1>12, <1>18 DEF RecordTrue
<1>19. RecordsTrue'
  <2>1. ASSUME NEW p \in Principals, NEW x \in MaybeRecord, RecordTrue(x) /\ RecordOf(p, x)
        PROVE  RecordTrue(x)' /\ RecordOf(p, x)'
    <3>1. x # NoRecord => x.by \in Sends BY DEF MaybeRecord, Record
    <3>2. RecordOf(p, x)' BY <1>4, <1>6, <1>11, <2>1, <3>1 DEF RecordOf
    <3> QED BY <1>18, <2>1, <3>2
  <2>2. ASSUME NEW p \in Principals
        PROVE  RecordTrue(record[p])' /\ RecordOf(p, record[p])'
               /\ RecordTrue(backup[2][p])' /\ RecordOf(p, backup[2][p])'
    <3>1. PICK x \in MaybeRecord, y \in MaybeRecord : x = record[p] /\ y = backup[2][p]
      BY DEF WriteInv, ServerTyped
    <3>2. RecordTrue(x) /\ RecordOf(p, x) /\ RecordTrue(y) /\ RecordOf(p, y)
      BY <3>1 DEF WriteInv, RecordsTrue, RecordTrue, RecordOf
    <3>3. RecordTrue(x)' /\ RecordOf(p, x)' /\ RecordTrue(y)' /\ RecordOf(p, y)' BY <2>1, <3>2
    <3>4. x = record'[p] /\ y = backup'[2][p] BY <1>1, <3>1
    <3> QED BY <3>3, <3>4 DEF RecordTrue, RecordOf
  <2> QED BY <2>2 DEF RecordsTrue
<1>20. SendsTrue'
  <2>1. ASSUME NEW g \in Sends PROVE RowFits(req[g])' /\ RowHolds(req[g])' /\ RowTrue(g, req[g])'
    <3>1. CASE g = h
      <4>1. req'[g] = r BY <1>11, <3>1
      <4>2. RowFits(req[g])' BY <1>6, <1>8, <4>1 DEF RowFits, RecordTrue, Early, Late
      <4>3. RowHolds(req[g])' /\ RowTrue(g, req[g])' BY <1>8, <4>1 DEF RowHolds, RowTrue
      <4> QED BY <4>2, <4>3
    <3>2. CASE g # h
      <4>1. RowFits(req[g]) /\ RowHolds(req[g]) /\ RowTrue(g, req[g]) /\ req'[g] = req[g]
        BY <1>11, <3>2 DEF WriteInv, SendsTrue
      <4>2. PICK s : s = req[g].seen OBVIOUS
      <4>3. RecordTrue(s) BY <4>1, <4>2 DEF RowFits, RecordTrue
      <4>4. RecordTrue(s)' BY <1>18, <4>3
      <4>5. RecordTrue(req[g].seen)' BY <4>1, <4>2, <4>4 DEF RecordTrue
      <4>6. RowFits(req[g])' BY <1>1, <1>6, <4>1, <4>5 DEF RowFits, AliveRow
      <4>7. RowHolds(req[g])' BY <1>1, <1>6, <4>1 DEF RowHolds
      <4>8. RowTrue(g, req[g])' BY <1>1, <1>6, <1>12, <4>1 DEF RowTrue
      <4> QED BY <4>6, <4>7, <4>8
    <3> QED BY <3>1, <3>2
  <2>2. \A g \in Sends : Open(g)' => Open(g) BY <1>8, <1>11 DEF Open
  <2> QED BY <2>1, <2>2 DEF WriteInv, SendsTrue
<1>21. Once' BY <1>1, <1>12 DEF WriteInv, Once
<1>22. ConflictTrue' BY <1>6, <1>8, <1>11 DEF ConflictTrue
<1>23. Calm'
  <2>1. SUFFICES ASSUME ~cli.ambiguous PROVE Calm' BY <1>6 DEF Calm
  <2>2. commits = <<>> /\ \A g \in Sends : Quiet(g) BY <1>2, <2>1 DEF WriteInv, Calm
  <2>3. \A g \in Sends \ {h} : Quiet(g)' BY <1>11, <2>2 DEF Quiet, Open
  <2> QED BY <1>1, <1>6, <2>2, <2>3 DEF Calm
<1>24. Reported' BY <1>2, <1>6 DEF Reported
<1> QED BY <1>14, <1>15, <1>16, <1>17, <1>19, <1>20, <1>21, <1>22, <1>23, <1>24 DEF WriteInv

\* The context of the first process: the principal, the epoch and the If-Match of every send.
LEMMA ReadyStep ==
  ASSUME WriteInv, NEW c \in ClientRow, cli' = c, UNCHANGED <<serverVars, store, kept>>,
         cli.run = 1, cli.pc = "context", c.run = 1, c.pc = "ready", c.token = c.who, c.ref = epoch,
         c.ifMatch <= etags, c.out = "none", c.send = cli.send, c.try = cli.try
  PROVE  WriteInv'
<1>1. UNCHANGED <<limits, route, service, epoch, draft, etags, blocked, record, claim, backup, req, commits, left, store, kept>>
  BY DEF serverVars, Rest
<1>2. commits = <<>> /\ (\A h \in Sends : req[h].pc = "unsent")
      /\ \A p \in Principals : record[p] = NoRecord /\ backup[2][p] = NoRecord
  BY DEF WriteInv, Fresh
<1>3. \A h \in Sends : req[h].tx = "none" /\ req[h].seen = NoRecord BY <1>2 DEF WriteInv, SendsTrue, RowFits
<1>4. ServerTyped' BY <1>1 DEF WriteInv, ServerTyped
<1>5. ClientTyped' BY <1>1 DEF WriteInv, ClientTyped
<1>6. epoch \in Nat BY DEF WriteInv, ServerTyped
<1>7. ClientFits' BY <1>1, <1>2, <1>6 DEF WriteInv, ClientFits
<1>8. Fresh' BY DEF Fresh
<1>9. RecordsTrue' BY <1>1, <1>2 DEF RecordsTrue, RecordTrue, RecordOf
<1>10. SendsTrue'
  BY <1>1, <1>2, <1>3 DEF SendsTrue, RowFits, RowHolds, RowTrue, RecordTrue, AliveRow, Early, Open
<1>11. Once' /\ ConflictTrue' /\ Reported' BY <1>1, <1>2 DEF Once, ConflictTrue, Reported
<1>12. Calm' BY <1>1, <1>2, <1>3 DEF Calm, Quiet, Open
<1> QED BY <1>4, <1>5, <1>7, <1>8, <1>9, <1>10, <1>11, <1>12 DEF WriteInv

-----------------------------------------------------------------------------
SameWrite(c) ==
  /\ c \in ClientRow /\ c.who = cli.who /\ c.ref = cli.ref /\ c.ifMatch = cli.ifMatch /\ c.run = cli.run
  /\ c.send = cli.send /\ c.input = cli.input /\ c.try = cli.try
  /\ cli.ambiguous => c.ambiguous

\* What the process may do to its sends, and to what it keeps, as it goes on.
Unheard ==
  /\ UNCHANGED Rows /\ store' \in Principals /\ kept' \in [epoch : 1 .. MaxEpoch, tag : 1 .. etags]
  /\ req' \in [Sends -> SendRow] /\ \A g \in Sends : Hung(g)

\* Nothing was committed, and nothing is left that could.
AllQuiet == commits = <<>> /\ \A g \in Sends : Quiet(g)'

LEMMA EndsStep ==
  ASSUME WriteInv, NEW c, SameWrite(c), NEW out \in Outcomes \ {"none"}, Ends(c, out), Unheard,
         out = "not sent" => cli.run = 1 /\ cli.pc \in {"start", "context"},
         out = "done" => commits = <<cli.input>>,
         out \in {"stored", "moved", "not done", "set aside"} \/ (out = "refused" /\ ~c.overtook)
           => commits = <<>> /\ (Barred \/ \A g \in Sends : Dead(g)')
  PROVE  WriteInv'
<1>1. PICK d : d = [c EXCEPT !.pc = "over", !.out = out] OBVIOUS
<1>2. /\ d \in ClientRow /\ d.pc = "over" /\ d.out = out /\ d.who = c.who /\ d.ref = c.ref /\ d.ifMatch = c.ifMatch
      /\ d.run = c.run /\ d.send = c.send /\ d.input = c.input /\ d.try = c.try
      /\ d.ambiguous = c.ambiguous /\ d.overtook = c.overtook
  BY <1>1 DEF SameWrite, ClientRow
<1>3. cli' = d BY <1>1 DEF Ends
<1>4. d.run > 1 => ~(d.run = 1) BY OneIsOne, Zenon
<1>5. (cli.run > 1 => cli.ambiguous) /\ cli.try <= limits.repeats BY DEF WriteInv, ClientFits, ClientTyped
<1>6. Follows(d) BY <1>2, <1>4, <1>5 DEF Follows, SameWrite
<1> QED BY <1>2, <1>3, <1>6, ClientMove DEF Unheard, SameWrite

\* The same process goes on to another point of Send.
LEMMA GoesOn ==
  ASSUME WriteInv, NEW c, NEW d, SameWrite(c), cli.pc # "over", Unheard, cli' = d, d \in ClientRow,
         d.who = c.who, d.ref = c.ref, d.ifMatch = c.ifMatch, d.run = c.run, d.send = c.send,
         d.try <= limits.repeats, d.ambiguous = c.ambiguous, d.out = "none",
         d.pc \in {"context", "ready", "repeat"},
         d.pc = "ready" => d.token = d.who,
         d.pc = "context" => cli.pc = "start",
         ~c.ambiguous => AllQuiet
  PROVE  WriteInv'
<1>1. cli.run > 1 => cli.ambiguous BY DEF WriteInv, ClientFits
<1>2. Follows(d) BY <1>1 DEF Follows, SameWrite
<1> QED BY <1>2, ClientMove DEF Unheard, AllQuiet

LEMMA QuietIsDead == AllQuiet => commits = <<>> /\ \A g \in Sends : Dead(g)'
BY DEF AllQuiet, Quiet, Dead, Running, Open

LEMMA AfterStep ==
  ASSUME WriteInv, NEW c, SameWrite(c), Unheard, After(c), ~c.ambiguous => AllQuiet
  PROVE  WriteInv'
<1>1. CASE c.ambiguous
  <2>1. Ends(c, "unknown") BY <1>1 DEF After, Ends
  <2> QED BY <2>1, EndsStep DEF Outcomes
<1>2. CASE ~c.ambiguous
  <2>1. Ends(c, "refused") BY <1>2 DEF After, Ends
  <2>2. commits = <<>> /\ \A g \in Sends : Dead(g)' BY <1>2, QuietIsDead
  <2> QED BY <2>1, <2>2, EndsStep DEF Outcomes
<1> QED BY <1>1, <1>2

LEMMA SetAsideStep ==
  ASSUME WriteInv, NEW c, SameWrite(c), Unheard, SetAside(c), ~c.ambiguous => AllQuiet
  PROVE  WriteInv'
<1>1. CASE c.ambiguous
  <2>1. Ends(c, "set aside, ambiguous") BY <1>1 DEF SetAside, Ends
  <2> QED BY <2>1, EndsStep DEF Outcomes
<1>2. CASE ~c.ambiguous
  <2>1. Ends(c, "set aside") BY <1>2 DEF SetAside, Ends
  <2>2. commits = <<>> /\ \A g \in Sends : Dead(g)' BY <1>2, QuietIsDead
  <2> QED BY <2>1, <2>2, EndsStep DEF Outcomes
<1> QED BY <1>1, <1>2

LEMMA AgainStep ==
  ASSUME WriteInv, NEW c, SameWrite(c), c.out = "none", cli.pc # "over", Unheard, Again(c), ~c.ambiguous => AllQuiet
  PROVE  WriteInv'
<1>1. CASE c.try < limits.repeats
  <2>1. PICK d : d = [c EXCEPT !.pc = "repeat", !.try = @ + 1, !.overtook = FALSE] OBVIOUS
  <2>2. cli' = d BY <1>1, <2>1 DEF Again
  <2>3. c.try \in Nat /\ limits.repeats \in Nat BY RequestsAssumption DEF SameWrite, ClientRow, WriteInv, ServerTyped
  <2>6. PICK t \in Nat : t = c.try + 1 BY <2>3
  <2>7. d = [c EXCEPT !.pc = "repeat", !.try = t, !.overtook = FALSE] /\ c \in ClientRow BY <2>1, <2>6 DEF SameWrite
  <2>4. /\ d \in ClientRow /\ d.pc = "repeat" /\ d.try = c.try + 1 /\ d.who = c.who /\ d.ref = c.ref
        /\ d.ifMatch = c.ifMatch /\ d.run = c.run /\ d.send = c.send /\ d.ambiguous = c.ambiguous /\ d.out = c.out
    BY <2>6, <2>7 DEF ClientRow
  <2>5. d.try <= limits.repeats BY <1>1, <2>3, <2>4
  <2> QED BY <2>2, <2>4, <2>5, GoesOn
<1>2. CASE ~(c.try < limits.repeats) /\ c.ambiguous
  <2>1. Ends(c, "unknown") BY <1>2 DEF Again, Ends
  <2> QED BY <2>1, EndsStep DEF Outcomes
<1>3. CASE ~(c.try < limits.repeats) /\ ~c.ambiguous
  <2>1. Ends(c, "not done") BY <1>3 DEF Again, Ends
  <2>2. commits = <<>> /\ \A g \in Sends : Dead(g)' BY <1>3, QuietIsDead
  <2> QED BY <2>1, <2>2, EndsStep DEF Outcomes
<1> QED BY <1>1, <1>2, <1>3

\* Steps that leave the server and its sends alone.
LEMMA StillUnheard ==
  ASSUME WriteInv, UNCHANGED <<serverVars, store, kept>>
  PROVE  Unheard /\ \A g \in Sends : Quiet(g)' <=> Quiet(g)
<1>1. UNCHANGED <<Rows, req, store, kept>> BY DEF serverVars, Rest, Rows
<1>2. req \in [Sends -> SendRow] BY DEF WriteInv, ServerTyped
<1>3. \A g \in Sends : req[g].tries <= req[g].tries
  <2>1. \A g \in Sends : req[g].tries \in Nat BY <1>2 DEF SendRow
  <2> QED BY <2>1
<1>4. \A g \in Sends : Hung(g) BY <1>1, <1>3 DEF Hung
<1>5. \A g \in Sends : Quiet(g)' <=> Quiet(g) BY <1>1 DEF Quiet, Open
<1> QED BY <1>1, <1>2, <1>4, <1>5 DEF Unheard, WriteInv, ClientTyped

LEMMA SameIs == ASSUME WriteInv PROVE SameWrite(cli) /\ (cli.pc # "over" => cli.out = "none")
BY DEF WriteInv, ClientTyped, SameWrite

LEMMA CheckRepeatStep == ASSUME WriteInv, CheckRepeat PROVE WriteInv'
<1>1. Unheard /\ (\A g \in Sends : Quiet(g)' <=> Quiet(g)) BY StillUnheard DEF CheckRepeat
<1>2. PICK c : c = cli OBVIOUS
<1>3. SameWrite(c) /\ c.out = "none" /\ cli.pc = "start" BY <1>2, SameIs DEF CheckRepeat, SameWrite
<1>4. ~c.ambiguous => AllQuiet BY <1>1, <1>2, <1>3 DEF WriteInv, Calm, AllQuiet
<1>5. CASE Ends(cli, "repeat refused")
  <2>1. Ends(c, "repeat refused") BY <1>2, <1>5 DEF Ends
  <2> QED BY <1>1, <1>3, <2>1, EndsStep DEF Outcomes
<1>6. CASE cli' = [cli EXCEPT !.pc = "context"]
  <2>1. PICK d : d = [c EXCEPT !.pc = "context"] OBVIOUS
  <2>2. /\ d \in ClientRow /\ d.pc = "context" /\ d.try = c.try /\ d.who = c.who /\ d.ref = c.ref
        /\ d.ifMatch = c.ifMatch /\ d.run = c.run /\ d.send = c.send /\ d.ambiguous = c.ambiguous /\ d.out = c.out
    BY <1>3, <2>1 DEF SameWrite, ClientRow
  <2>3. cli' = d BY <1>2, <1>6, <2>1
  <2>4. d.try <= limits.repeats BY <1>2, <2>2 DEF WriteInv, ClientTyped
  <2> QED BY <1>1, <1>3, <1>4, <2>2, <2>3, <2>4, GoesOn
<1> QED BY <1>5, <1>6 DEF CheckRepeat

LEMMA ContextUseStep ==
  ASSUME WriteInv, NEW c, SameWrite(c), c.out = "none", c.ambiguous = cli.ambiguous,
         cli.pc = "context", ContextUse(c), UNCHANGED <<serverVars, store, kept>>
  PROVE  WriteInv'
<1>1. Unheard /\ (\A g \in Sends : Quiet(g)' <=> Quiet(g)) BY StillUnheard
<1>2. ~c.ambiguous => AllQuiet BY <1>1 DEF WriteInv, Calm, AllQuiet
<1>3. c \in ClientRow /\ c.run = cli.run /\ c.try = cli.try /\ c.send = cli.send BY DEF SameWrite
<1>4. CASE c.run = 1 /\ Ends(c, "not sent") BY <1>1, <1>3, <1>4, EndsStep DEF Outcomes
<1>5. CASE Ends(c, "repeat refused") BY <1>1, <1>5, EndsStep DEF Outcomes
<1>6. CASE c.run = 1 /\ cli' = [c EXCEPT !.pc = "ready", !.who = c.token, !.ref = epoch,
                                !.ifMatch = IF route = "plain" THEN 0 ELSE kept.tag]
  <2>1. PICK m : m = IF route = "plain" THEN 0 ELSE kept.tag OBVIOUS
  <2>2. m \in Nat /\ m <= etags /\ epoch \in 1 .. MaxEpoch BY <2>1 DEF WriteInv, ServerTyped, ClientTyped
  <2>3. PICK d : d = [c EXCEPT !.pc = "ready", !.who = c.token, !.ref = epoch, !.ifMatch = m] OBVIOUS
  <2>4. /\ d \in ClientRow /\ d.pc = "ready" /\ d.who = c.token /\ d.token = c.token /\ d.ref = epoch /\ d.ifMatch = m
        /\ d.run = c.run /\ d.out = c.out /\ d.send = c.send /\ d.try = c.try
    BY <1>3, <2>2, <2>3 DEF ClientRow
  <2>5. cli' = d BY <1>6, <2>1, <2>3
  <2> QED BY <1>3, <1>6, <2>2, <2>4, <2>5, ReadyStep
<1>7. CASE c.token = c.who /\ cli' = [c EXCEPT !.pc = "ready"]
  <2>1. PICK d : d = [c EXCEPT !.pc = "ready"] OBVIOUS
  <2>2. /\ d \in ClientRow /\ d.pc = "ready" /\ d.try = c.try /\ d.who = c.who /\ d.ref = c.ref /\ d.token = c.token
        /\ d.ifMatch = c.ifMatch /\ d.run = c.run /\ d.send = c.send /\ d.ambiguous = c.ambiguous /\ d.out = c.out
    BY <1>3, <2>1 DEF ClientRow
  <2>3. cli' = d BY <1>7, <2>1
  <2>4. d.try <= limits.repeats BY <1>3, <2>2 DEF WriteInv, ClientTyped
  <2> QED BY <1>1, <1>2, <1>7, <2>2, <2>3, <2>4, GoesOn
<1> QED BY <1>4, <1>5, <1>6, <1>7 DEF ContextUse, Ends

LEMMA ContextStep == ASSUME WriteInv, Context PROVE WriteInv'
<1>1. cli.pc = "context" /\ cli.out = "none" /\ cli \in ClientRow /\ store \in Principals
  BY DEF Context, WriteInv, ClientTyped
<1>2. CASE ContextUse(cli)
  <2>1. PICK c : c = cli OBVIOUS
  <2>2. SameWrite(c) BY <2>1, SameIs DEF SameWrite
  <2>3. ContextUse(c) BY <1>2, <2>1 DEF ContextUse, Ends
  <2> QED BY <1>1, <2>1, <2>2, <2>3, ContextUseStep DEF Context
<1>3. CASE ContextUse(Renewed(cli))
  <2>1. PICK c : c = Renewed(cli) OBVIOUS
  <2>2. SameWrite(c) /\ c.out = "none" /\ c.ambiguous = cli.ambiguous BY <1>1, <2>1 DEF SameWrite, Renewed, ClientRow
  <2>3. ContextUse(c) BY <1>3, <2>1 DEF ContextUse, Ends
  <2> QED BY <1>1, <2>2, <2>3, ContextUseStep DEF Context
<1> QED BY <1>2, <1>3 DEF Context

LEMMA NoConnectionStep == ASSUME WriteInv, NoConnection PROVE WriteInv'
<1>1. Unheard /\ (\A g \in Sends : Quiet(g)' <=> Quiet(g)) BY StillUnheard DEF NoConnection
<1>2. PICK c : c = cli OBVIOUS
<1>3. SameWrite(c) /\ c.out = "none" /\ cli.pc = "ready" BY <1>2, SameIs DEF NoConnection, SameWrite
<1>4. ~c.ambiguous => AllQuiet BY <1>1, <1>2, <1>3 DEF WriteInv, Calm, AllQuiet
<1>5. CASE Again(cli)
  <2>1. Again(c) BY <1>2, <1>5 DEF Again, Ends
  <2> QED BY <1>1, <1>3, <1>4, <2>1, AgainStep
<1>6. CASE After(cli)
  <2>1. After(c) BY <1>2, <1>6 DEF After, Ends
  <2> QED BY <1>1, <1>3, <1>4, <2>1, AfterStep
<1> QED BY <1>5, <1>6 DEF NoConnection

LEMMA RepeatStep == ASSUME WriteInv, Repeat PROVE WriteInv'
<1>1. Unheard /\ (\A g \in Sends : Quiet(g)' <=> Quiet(g)) BY StillUnheard DEF Repeat
<1>2. PICK c : c = cli OBVIOUS
<1>3. SameWrite(c) /\ c.out = "none" /\ cli.pc = "repeat" BY <1>2, SameIs DEF Repeat, SameWrite
<1>4. ~c.ambiguous => AllQuiet BY <1>1, <1>2, <1>3 DEF WriteInv, Calm, AllQuiet
<1>5. CASE SetAside(cli)
  <2>1. SetAside(c) BY <1>2, <1>5 DEF SetAside, Ends
  <2> QED BY <1>1, <1>3, <1>4, <2>1, SetAsideStep
<1>6. CASE Ends(cli, "unknown")
  <2>1. Ends(c, "unknown") BY <1>2, <1>6 DEF Ends
  <2> QED BY <1>1, <1>3, <2>1, EndsStep DEF Outcomes
<1>7. CASE cli.token = cli.who /\ cli' = [cli EXCEPT !.pc = "ready"]
  <2>1. PICK d : d = [c EXCEPT !.pc = "ready"] OBVIOUS
  <2>2. /\ d \in ClientRow /\ d.pc = "ready" /\ d.try = c.try /\ d.who = c.who /\ d.ref = c.ref /\ d.token = c.token
        /\ d.ifMatch = c.ifMatch /\ d.run = c.run /\ d.send = c.send /\ d.ambiguous = c.ambiguous /\ d.out = c.out
    BY <1>3, <2>1 DEF SameWrite, ClientRow
  <2>3. cli' = d BY <1>2, <1>7, <2>1
  <2>4. d.try <= limits.repeats BY <1>2, <2>2 DEF WriteInv, ClientTyped
  <2> QED BY <1>1, <1>2, <1>3, <1>4, <1>7, <2>2, <2>3, <2>4, GoesOn
<1> QED BY <1>5, <1>6, <1>7 DEF Repeat, CheckedRepeat

LEMMA OperatorRepeatStep == ASSUME WriteInv, OperatorRepeat PROVE WriteInv'
<1>1. Unheard BY StillUnheard DEF OperatorRepeat
<1>2. PICK i \in Inputs : cli' = [Process(cli.run + 1, store) EXCEPT !.who = cli.who, !.ref = cli.ref,
                                                                     !.ifMatch = cli.ifMatch, !.input = i]
  BY DEF OperatorRepeat
<1>3. cli \in ClientRow /\ store \in Principals /\ limits.repeats \in Nat
  BY RequestsAssumption DEF WriteInv, ServerTyped, ClientTyped
<1>4. PICK n : n = cli.run + 1 OBVIOUS
<1>5. n \in Nat \ {0} /\ n > 1 BY <1>3, <1>4 DEF ClientRow
<1>6. PICK p : p = Process(n, store) OBVIOUS
<1>7. /\ p \in ClientRow /\ p.run = n /\ p.pc = "start" /\ p.ambiguous = TRUE /\ p.out = "none" /\ p.try = 0
  <2>1. (CHOOSE j \in Inputs : TRUE) \in Inputs BY RequestsAssumption
  <2>2. 1 \in 1 .. MaxEpoch BY RequestsAssumption
  <2>3. (n > 1) = TRUE BY <1>5
  <2> QED BY <1>3, <1>5, <1>6, <2>1, <2>2, <2>3 DEF Process, ClientRow, Outcomes
<1>8. PICK c : c = [p EXCEPT !.who = cli.who, !.ref = cli.ref, !.ifMatch = cli.ifMatch, !.input = i] OBVIOUS
<1>9. /\ c \in ClientRow /\ c.run = n /\ c.pc = "start" /\ c.ambiguous = TRUE /\ c.out = "none" /\ c.try = 0
      /\ c.who = cli.who /\ c.ref = cli.ref /\ c.ifMatch = cli.ifMatch
  <2>1. cli.who \in Principals /\ cli.ref \in 1 .. MaxEpoch /\ cli.ifMatch \in Nat BY <1>3 DEF ClientRow
  <2> QED BY <1>7, <1>8, <2>1 DEF ClientRow
<1>10. cli' = c BY <1>2, <1>4, <1>6, <1>8
<1>11. 0 <= limits.repeats BY <1>3
<1>12. ~(c.run = 1) BY <1>5, <1>9, OneIsOne, Zenon
<1>13. Follows(c) BY <1>5, <1>9, <1>11, <1>12 DEF Follows
<1> QED BY <1>1, <1>9, <1>10, <1>13, ClientMove DEF Unheard

\* Steps of other processes on the operator's machine.
LEMMA StoreStep ==
  ASSUME WriteInv, UNCHANGED <<Rest, cli>>, left' \in Nat, store' \in Principals,
         kept' \in [epoch : 1 .. MaxEpoch, tag : 1 .. etags]
  PROVE  WriteInv'
<1>1. UNCHANGED <<limits, route, service, epoch, draft, etags, blocked, record, claim, backup, req, commits, cli>>
  BY DEF Rest
<1>2. (Closed' <=> Closed) /\ (Barred' <=> Barred) BY <1>1 DEF Closed, Barred
<1>3. ServerTyped' /\ ClientTyped' BY <1>1 DEF WriteInv, ServerTyped, ClientTyped
<1>4. ClientFits' /\ Fresh' BY <1>1 DEF WriteInv, ClientFits, Fresh
<1>5. RecordsTrue' BY <1>1, <1>2 DEF WriteInv, RecordsTrue, RecordTrue, RecordOf
<1>6. SendsTrue' BY <1>1, <1>2 DEF WriteInv, SendsTrue, RowFits, RowHolds, RowTrue, RecordTrue, AliveRow, Open
<1>7. Once' /\ ConflictTrue' /\ Calm' /\ Reported'
  BY <1>1, <1>2 DEF WriteInv, Once, ConflictTrue, Calm, Reported, Dead, Quiet, Open, Running
<1> QED BY <1>3, <1>4, <1>5, <1>6, <1>7 DEF WriteInv

LEMMA OtherProcessStep == ASSUME WriteInv, OtherSignIn \/ ReadAgain PROVE WriteInv'
<1>1. /\ left \in Nat /\ store \in Principals /\ kept \in [epoch : 1 .. MaxEpoch, tag : 1 .. etags]
      /\ epoch \in 1 .. MaxEpoch /\ draft \in 1 .. etags
  BY DEF WriteInv, ServerTyped, ClientTyped
<1>2. CASE OtherSignIn BY <1>1, <1>2, StoreStep DEF OtherSignIn, Spend
<1>3. CASE ReadAgain BY <1>1, <1>3, StoreStep DEF ReadAgain, serverVars
<1> QED BY <1>2, <1>3

\* The process stops listening to the send it waits for.
LEMMA OverIsHung ==
  ASSUME WriteInv, cli.send \in Sends, UNCHANGED Rows, UNCHANGED store,
         kept' \in [epoch : 1 .. MaxEpoch, tag : 1 .. etags],
         req[cli.send].pc # "unsent", req' = [req EXCEPT ![cli.send] = Over(@)]
  PROVE  /\ Unheard /\ req'[cli.send].pc = "gone" /\ (req[cli.send].tx # "open" => req'[cli.send].tx # "open")
         /\ \A g \in Sends \ {cli.send} : req'[g] = req[g]
<1>1. req \in [Sends -> SendRow] /\ store \in Principals BY DEF WriteInv, ServerTyped, ClientTyped
<1>2. PICK h \in Sends : h = cli.send OBVIOUS
<1>3. PICK r : r = Over(req[h]) OBVIOUS
<1>4. req[h] \in SendRow BY <1>1
<1>5. /\ r \in SendRow /\ r.pc = "gone" /\ r.tries <= req[h].tries
      /\ req[h].tx = "open" => /\ r.tx = "open" /\ r.who = req[h].who /\ r.expected = req[h].expected
                               /\ r.ifMatch = req[h].ifMatch /\ r.seen = req[h].seen
                               /\ r.stores = req[h].stores /\ r.input = req[h].input
      /\ req[h].tx # "open" => r.tx = "none" /\ r.seen = NoRecord
  BY <1>3, <1>4, OverIs
<1>6. req'[h] = r /\ (\A g \in Sends \ {h} : req'[g] = req[g]) /\ req' \in [Sends -> SendRow]
  BY <1>1, <1>2, <1>3, <1>5
<1>7. \A g \in Sends : req[g].tries <= req[g].tries
  <2>1. \A g \in Sends : req[g].tries \in Nat BY <1>1 DEF SendRow
  <2> QED BY <2>1
<1>8. ASSUME NEW g \in Sends PROVE Hung(g)
  <2>1. CASE g = h BY <1>2, <1>5, <1>6, <2>1 DEF Hung, Open
  <2>2. CASE g # h BY <1>6, <1>7, <2>2 DEF Hung
  <2> QED BY <2>1, <2>2
<1>9. Unheard BY <1>1, <1>6, <1>8 DEF Unheard
<1> QED BY <1>2, <1>5, <1>6, <1>9 DEF Open

LEMMA HangUpIsHung ==
  ASSUME WriteInv, cli.send \in Sends, UNCHANGED Rows, UNCHANGED store,
         kept' \in [epoch : 1 .. MaxEpoch, tag : 1 .. etags], HangUp
  PROVE  Unheard
<1>1. CASE req[cli.send].pc = "answered"
  <2>1. req' = [req EXCEPT ![cli.send] = Over(@)] BY <1>1 DEF HangUp
  <2> QED BY <1>1, <2>1, OverIsHung
<1>2. CASE req[cli.send].pc # "answered"
  <2>1. req \in [Sends -> SendRow] /\ store \in Principals BY DEF WriteInv, ServerTyped, ClientTyped
  <2>2. PICK h \in Sends : h = cli.send OBVIOUS
  <2>3. PICK r : r = [req[h] EXCEPT !.heard = FALSE] OBVIOUS
  <2>4. /\ r \in SendRow /\ r.pc = req[h].pc /\ r.tx = req[h].tx /\ r.who = req[h].who
        /\ r.expected = req[h].expected /\ r.ifMatch = req[h].ifMatch /\ r.seen = req[h].seen
        /\ r.stores = req[h].stores /\ r.input = req[h].input /\ r.reply = req[h].reply /\ r.tries = req[h].tries
    <3>1. PICK x \in SendRow : x = req[h] BY <2>1
    <3>2. r = [x EXCEPT !.heard = FALSE] BY <2>3, <3>1
    <3> QED BY <3>1, <3>2 DEF SendRow
  <2>5. req' = [req EXCEPT ![h] = r] BY <1>2, <2>1, <2>2, <2>3 DEF HangUp
  <2>6. req'[h] = r /\ (\A g \in Sends \ {h} : req'[g] = req[g]) /\ req' \in [Sends -> SendRow]
    BY <2>1, <2>4, <2>5
  <2>7. \A g \in Sends : req[g].tries <= req[g].tries
    <3>1. \A g \in Sends : req[g].tries \in Nat BY <2>1 DEF SendRow
    <3> QED BY <3>1
  <2>8. ASSUME NEW g \in Sends PROVE Hung(g)
    <3>1. CASE g = h BY <2>4, <2>6, <2>7, <3>1 DEF Hung
    <3>2. CASE g # h BY <2>6, <2>7, <3>2 DEF Hung
    <3> QED BY <3>1, <3>2
  <2> QED BY <2>1, <2>6, <2>8 DEF Unheard
<1> QED BY <1>1, <1>2

\* Without an ambiguous attempt before it, a plain refusal of the send that is waited for says that
\* nothing was committed and nothing is left.
LEMMA RefusedIsQuiet ==
  ASSUME WriteInv, cli.pc = "waiting", ~cli.ambiguous, UNCHANGED Rows, UNCHANGED store,
         kept' \in [epoch : 1 .. MaxEpoch, tag : 1 .. etags],
         req' = [req EXCEPT ![cli.send] = Over(@)],
         \/ req[cli.send].pc = "answered" /\ req[cli.send].reply \notin {"ok", "stored", "internal"}
         \/ req[cli.send].pc = "arrived"
  PROVE  AllQuiet
<1>1. cli.send \in Sends /\ RowFits(req[cli.send]) /\ RowTrue(cli.send, req[cli.send])
  BY DEF WriteInv, ClientFits, SendsTrue
<1>2. req[cli.send].tx \notin {"open", "committed"} BY <1>1 DEF RowFits, RowTrue, Early
<1>3. /\ req'[cli.send].pc = "gone" /\ (req[cli.send].tx # "open" => req'[cli.send].tx # "open")
      /\ \A g \in Sends \ {cli.send} : req'[g] = req[g]
  BY <1>1, OverIsHung
<1>4. commits = <<>> /\ \A g \in Sends \ {cli.send} : Quiet(g) BY <1>2 DEF WriteInv, Calm
<1>5. \A g \in Sends : ~Open(g)'
  <2>1. SUFFICES ASSUME NEW g \in Sends PROVE ~Open(g)' OBVIOUS
  <2>2. CASE g = cli.send BY <1>2, <1>3, <2>2 DEF Open
  <2>3. CASE g # cli.send BY <1>3, <1>4, <2>3 DEF Quiet, Open
  <2> QED BY <2>2, <2>3
<1>6. \A g \in Sends : req'[g].pc \in {"unsent", "gone"} BY <1>3, <1>4 DEF Quiet
<1> QED BY <1>4, <1>5, <1>6 DEF AllQuiet, Quiet

LEMMA CutStep == ASSUME WriteInv, Cut PROVE WriteInv'
<1>1. cli.send \in Sends /\ cli.pc = "waiting" /\ kept' \in [epoch : 1 .. MaxEpoch, tag : 1 .. etags]
  BY DEF Cut, WriteInv, ClientFits, ClientTyped
<1>2. Unheard BY <1>1, HangUpIsHung DEF Cut
<1>3. PICK c : c = [cli EXCEPT !.ambiguous = TRUE] OBVIOUS
<1>4. SameWrite(c) /\ c.out = "none" /\ c.ambiguous = TRUE BY <1>1, <1>3 DEF SameWrite, ClientRow, WriteInv, ClientTyped
<1>5. Again(c) BY <1>3 DEF Cut, Again, Ends
<1> QED BY <1>1, <1>2, <1>4, <1>5, AgainStep

LEMMA ForeignAnswerStep == ASSUME WriteInv, ForeignAnswer PROVE WriteInv'
<1>1. cli.send \in Sends /\ cli.pc = "waiting" /\ kept' \in [epoch : 1 .. MaxEpoch, tag : 1 .. etags]
      /\ UNCHANGED Rows /\ UNCHANGED store
  BY DEF ForeignAnswer, WriteInv, ClientFits, ClientTyped
<1>2. PICK c : c = cli OBVIOUS
<1>3. SameWrite(c) /\ c.out = "none" BY <1>1, <1>2, SameIs DEF SameWrite
<1>4. CASE Ends(cli, "unknown") /\ HangUp
  <2>1. Unheard BY <1>1, <1>4, HangUpIsHung
  <2>2. Ends(c, "unknown") BY <1>2, <1>4 DEF Ends
  <2> QED BY <1>3, <2>1, <2>2, EndsStep DEF Outcomes
<1>5. CASE req[cli.send].pc = "arrived" /\ After(cli) /\ req' = [req EXCEPT ![cli.send] = Over(@)]
  <2>1. Unheard BY <1>1, <1>5, OverIsHung
  <2>2. After(c) BY <1>2, <1>5 DEF After, Ends
  <2>3. ~c.ambiguous => AllQuiet BY <1>1, <1>2, <1>5, RefusedIsQuiet
  <2> QED BY <1>3, <2>1, <2>2, <2>3, AfterStep
<1>6. CASE req[cli.send].pc = "answered" /\ req[cli.send].reply \notin {"ok", "internal", "unavailable", "superseded"}
           /\ After(cli) /\ HangUp
  <2>1. Unheard BY <1>1, <1>6, HangUpIsHung
  <2>2. After(c) BY <1>2, <1>6 DEF After, Ends
  <2>3. req' = [req EXCEPT ![cli.send] = Over(@)] BY <1>6 DEF HangUp
  <2>4. CASE req[cli.send].reply # "stored"
    <3>1. ~c.ambiguous => AllQuiet BY <1>1, <1>2, <1>6, <2>3, <2>4, RefusedIsQuiet
    <3> QED BY <1>3, <2>1, <2>2, <3>1, AfterStep
  <2>5. CASE req[cli.send].reply = "stored"
    <3>1. Closed /\ commits = <<>> BY <1>1, <1>6, <2>5 DEF WriteInv, SendsTrue, RowTrue
    <3>2. Barred BY <3>1 DEF Barred
    <3>3. Ends(c, "unknown") \/ Ends(c, "refused") BY <2>2 DEF After, Ends
    <3> QED BY <1>3, <2>1, <3>1, <3>2, <3>3, EndsStep DEF Outcomes
  <2> QED BY <2>4, <2>5
<1> QED BY <1>4, <1>5, <1>6 DEF ForeignAnswer

\* What Send makes of a problem.
LEMMA RefusalStep ==
  ASSUME WriteInv, cli.pc = "waiting", NEW c, SameWrite(c), c.out = "none", c.ambiguous = cli.ambiguous,
         c.overtook = req[cli.send].overtook, store \in Principals, Unheard,
         req[cli.send].pc = "answered", NEW code, code = req[cli.send].reply, Refusal(c, code),
         code \notin {"ok", "stored", "internal"} => (~c.ambiguous => AllQuiet),
         code = "conflict" /\ ~c.overtook /\ c.run = 1 => commits = <<>> /\ (\A g \in Sends : Dead(g)')
  PROVE  WriteInv'
<1>1. c \in ClientRow /\ cli.send \in Sends BY DEF SameWrite, WriteInv, ClientFits
<1>2. CASE code = "internal" /\ Again([c EXCEPT !.ambiguous = TRUE])
  <2>1. PICK d : d = [c EXCEPT !.ambiguous = TRUE] OBVIOUS
  <2>2. SameWrite(d) /\ d.out = "none" /\ d.ambiguous = TRUE BY <1>1, <2>1 DEF SameWrite, ClientRow
  <2>3. Again(d) BY <1>2, <2>1 DEF Again, Ends
  <2> QED BY <2>2, <2>3, AgainStep
<1>3. CASE code = "unavailable" /\ Again(c) BY <1>3, AgainStep
<1>4. CASE code = "unauthenticated" /\ Again([Renewed(c) EXCEPT !.renewed = TRUE])
  <2>1. PICK d : d = [Renewed(c) EXCEPT !.renewed = TRUE] OBVIOUS
  <2>2. SameWrite(d) /\ d.out = "none" /\ d.ambiguous = c.ambiguous
    <3>1. PICK e : e = Renewed(c) OBVIOUS
    <3>2. SameWrite(e) /\ e.out = "none" /\ e.ambiguous = c.ambiguous BY <1>1, <3>1 DEF Renewed, SameWrite, ClientRow
    <3>3. e \in ClientRow /\ d = [e EXCEPT !.renewed = TRUE] BY <2>1, <3>1, <3>2 DEF SameWrite
    <3> QED BY <3>2, <3>3 DEF SameWrite, ClientRow
  <2>3. Again(d) BY <1>4, <2>1 DEF Again, Ends
  <2> QED BY <1>4, <2>2, <2>3, AgainStep
<1>5. CASE code \in {"unauthenticated", "forbidden", "superseded"} /\ After(c) BY <1>5, AfterStep
<1>6. CASE code = "ingesting" /\ cli' = [c EXCEPT !.pc = "repeat", !.waited = TRUE, !.overtook = FALSE]
  <2>1. PICK d : d = [c EXCEPT !.pc = "repeat", !.waited = TRUE, !.overtook = FALSE] OBVIOUS
  <2>2. /\ d \in ClientRow /\ d.pc = "repeat" /\ d.try = c.try /\ d.who = c.who /\ d.ref = c.ref
        /\ d.ifMatch = c.ifMatch /\ d.run = c.run /\ d.send = c.send /\ d.ambiguous = c.ambiguous /\ d.out = c.out
    BY <1>1, <2>1 DEF ClientRow
  <2>3. cli' = d BY <1>6, <2>1
  <2>4. d.try <= limits.repeats BY <2>2 DEF WriteInv, ClientTyped, SameWrite
  <2>5. ~c.ambiguous => AllQuiet BY <1>6
  <2>6. cli.pc # "over" OBVIOUS
  <2> QED BY <2>2, <2>3, <2>4, <2>5, <2>6, GoesOn
<1>7. CASE Ends(c, "unknown") BY <1>7, EndsStep DEF Outcomes
<1>8. CASE code \in {"earlier", "mismatch"} /\ SetAside(c) BY <1>8, SetAsideStep
<1>9. CASE code = "moved" /\ Ends(c, "moved")
  <2>1. Barred /\ commits = <<>> BY <1>1, <1>9 DEF WriteInv, SendsTrue, RowTrue
  <2> QED BY <1>9, <2>1, EndsStep DEF Outcomes
<1>10. CASE code = "conflict" /\ c.run = 1 /\ Ends(c, "refused") BY <1>10, EndsStep DEF Outcomes
<1>11. \/ code = "internal" /\ Again([c EXCEPT !.ambiguous = TRUE])
       \/ code = "unavailable" /\ Again(c)
       \/ code = "unauthenticated" /\ Again([Renewed(c) EXCEPT !.renewed = TRUE])
       \/ code \in {"unauthenticated", "forbidden", "superseded"} /\ After(c)
       \/ code = "ingesting" /\ cli' = [c EXCEPT !.pc = "repeat", !.waited = TRUE, !.overtook = FALSE]
       \/ Ends(c, "unknown")
       \/ code \in {"earlier", "mismatch"} /\ SetAside(c)
       \/ code = "moved" /\ Ends(c, "moved")
       \/ code = "conflict" /\ c.run = 1 /\ Ends(c, "refused")
  BY DEF Refusal
<1> QED BY <1>2, <1>3, <1>4, <1>5, <1>6, <1>7, <1>8, <1>9, <1>10, <1>11

LEMMA ReceiveStep == ASSUME WriteInv, Receive PROVE WriteInv'
<1>1. cli.send \in Sends /\ cli.pc = "waiting" /\ store \in Principals /\ req[cli.send].pc = "answered"
      /\ UNCHANGED Rows /\ UNCHANGED store /\ HangUp
  BY DEF Receive, WriteInv, ClientFits, ClientTyped
<1>2. kept' \in [epoch : 1 .. MaxEpoch, tag : 1 .. etags]
  <2>1. /\ epoch \in 1 .. MaxEpoch /\ draft \in 1 .. etags /\ kept \in [epoch : 1 .. MaxEpoch, tag : 1 .. etags]
    BY DEF WriteInv, ServerTyped, ClientTyped
  <2>2. kept' = [epoch |-> epoch, tag |-> draft] \/ kept' = kept BY DEF Receive
  <2> QED BY <2>1, <2>2
<1>3. Unheard BY <1>1, <1>2, HangUpIsHung
<1>4. PICK c : c = cli OBVIOUS
<1>5. SameWrite(c) /\ c.out = "none" BY <1>1, <1>4, SameIs DEF SameWrite
<1>6. RowTrue(cli.send, req[cli.send]) BY <1>1 DEF WriteInv, SendsTrue
<1>7. req' = [req EXCEPT ![cli.send] = Over(@)] BY <1>1 DEF HangUp
<1>8. CASE req[cli.send].reply = "ok" /\ Ends(cli, "done")
  <2>1. commits = <<cli.input>> BY <1>1, <1>6, <1>8 DEF RowTrue, WriteInv, ClientFits
  <2>2. Ends(c, "done") BY <1>4, <1>8 DEF Ends
  <2> QED BY <1>3, <1>5, <2>1, <2>2, EndsStep DEF Outcomes
<1>9. CASE req[cli.send].reply = "stored" /\ (Ends(cli, "stored") \/ Ends(cli, "refused") \/ Ends(cli, "unknown"))
  <2>1. Closed /\ commits = <<>> BY <1>1, <1>6, <1>9 DEF RowTrue
  <2>2. Barred BY <2>1 DEF Barred
  <2>3. Ends(c, "stored") \/ Ends(c, "refused") \/ Ends(c, "unknown") BY <1>4, <1>9 DEF Ends
  <2> QED BY <1>3, <1>5, <2>1, <2>2, <2>3, EndsStep DEF Outcomes
<1>10. CASE Refusal([cli EXCEPT !.overtook = req[cli.send].overtook], req[cli.send].reply)
  <2>1. PICK d : d = [cli EXCEPT !.overtook = req[cli.send].overtook] OBVIOUS
  <2>2. PICK code : code = req[cli.send].reply OBVIOUS
  <2>3. cli \in ClientRow /\ req[cli.send].overtook \in BOOLEAN
    BY <1>1 DEF WriteInv, ClientTyped, ServerTyped, SendRow
  <2>4. SameWrite(d) /\ d.out = cli.out /\ d.ambiguous = cli.ambiguous /\ d.overtook = req[cli.send].overtook
    BY <2>1, <2>3 DEF SameWrite, ClientRow
  <2>5. Refusal(d, code) BY <1>10, <2>1, <2>2 DEF Refusal, Again, After, Ends, SetAside, Renewed, IsRepeat
  <2>6. code \notin {"ok", "stored", "internal"} => (~d.ambiguous => AllQuiet)
    BY <1>1, <1>2, <1>7, <2>2, <2>4, RefusedIsQuiet
  <2>7. ASSUME code = "conflict", ~d.overtook, d.run = 1
        PROVE  commits = <<>> /\ \A g \in Sends : Dead(g)'
    <3>1. commits = <<>> /\ \A g \in Sends : Dead(g)
      BY <1>1, <2>2, <2>4, <2>7 DEF WriteInv, ConflictTrue, SameWrite
    <3>2. \A g \in Sends : Hung(g) BY <1>3 DEF Unheard
    <3>3. \A g \in Sends : Dead(g) => Dead(g)' BY <3>2 DEF Hung, Dead, Open, Running
    <3> QED BY <3>1, <3>3
  <2>8. d.out = "none" BY <1>4, <1>5, <2>4
  <2> QED BY <1>1, <1>3, <2>2, <2>4, <2>5, <2>6, <2>7, <2>8, RefusalStep
<1>11. \/ req[cli.send].reply = "ok" /\ Ends(cli, "done")
       \/ req[cli.send].reply = "stored" /\ (Ends(cli, "stored") \/ Ends(cli, "refused") \/ Ends(cli, "unknown"))
       \/ Refusal([cli EXCEPT !.overtook = req[cli.send].overtook], req[cli.send].reply)
  BY DEF Receive, Ends
<1> QED BY <1>8, <1>9, <1>10, <1>11

-----------------------------------------------------------------------------
LEMMA WriteStarts == WriteInit => WriteInv
<1> SUFFICES ASSUME WriteInit PROVE WriteInv OBVIOUS
<1>1. /\ epoch = 1 /\ draft = 1 /\ etags = 1 /\ commits = <<>> /\ limits \in Limits /\ left = limits.faults
      /\ record = [p \in Principals |-> NoRecord] /\ claim = [p \in Principals |-> 0]
      /\ backup = <<draft, record>> /\ req = [h \in Sends |-> NoSend]
      /\ route \in {"plain", "draft", "fragment"} /\ service \in BOOLEAN /\ blocked \in BOOLEAN
  BY DEF WriteInit, RequestInit
<1>2. /\ limits.faults \in Nat /\ limits.repeats \in Nat /\ 0 <= limits.attempts /\ 0 <= limits.repeats
      /\ 1 \in 1 .. MaxEpoch
  BY <1>1, RequestsAssumption
<1>3. store \in Principals BY RequestsAssumption DEF WriteInit
<1>4. /\ cli \in ClientRow /\ cli.run = 1 /\ cli.pc = "start" /\ cli.ambiguous = FALSE /\ cli.out = "none" /\ cli.try = 0
      /\ cli.ref = 1 /\ cli.ifMatch = 0 /\ cli.send = 0
  <2>1. (CHOOSE j \in Inputs : TRUE) \in Inputs BY RequestsAssumption
  <2>2. PICK n \in Nat \ {0} : n = 1 OBVIOUS
  <2>3. (n > 1) = FALSE BY <2>2
  <2>4. cli = Process(n, store) BY <2>2 DEF WriteInit
  <2> QED BY <1>2, <1>3, <2>1, <2>2, <2>3, <2>4 DEF Process, ClientRow, Outcomes
<1>5. \A h \in Sends : /\ req[h] \in SendRow /\ req[h].pc = "unsent" /\ req[h].tx = "none" /\ req[h].seen = NoRecord
                       /\ req[h].tries = 0
  BY <1>1, Unsent0
<1>6. \A p \in Principals : record[p] = NoRecord /\ backup[2][p] = NoRecord BY <1>1
<1>7. ServerTyped
  <2>1. req \in [Sends -> SendRow] BY <1>1, Unsent0
  <2>2. record \in [Principals -> MaybeRecord] BY <1>1 DEF MaybeRecord
  <2>3. commits \in Seq(Inputs) BY <1>1
  <2> QED BY <1>1, <1>2, <1>5, <2>1, <2>2, <2>3 DEF ServerTyped
<1>8. ClientTyped BY <1>1, <1>2, <1>3, <1>4 DEF ClientTyped, WriteInit
<1>9. ClientFits BY <1>1, <1>4, <1>5, OneIsOne DEF ClientFits
<1>10. Fresh /\ RecordsTrue BY <1>1, <1>5, <1>6 DEF Fresh, RecordsTrue, RecordTrue, RecordOf
<1>11. SendsTrue
  BY <1>5 DEF SendsTrue, RowFits, RowHolds, RowTrue, RecordTrue, AliveRow, Early, Open
<1>12. Once /\ ConflictTrue /\ Reported BY <1>1, <1>4 DEF Once, ConflictTrue, Reported
<1>13. Calm BY <1>1, <1>4, <1>5 DEF Calm, Quiet, Open
<1> QED BY <1>7, <1>8, <1>9, <1>10, <1>11, <1>12, <1>13 DEF WriteInv

LEMMA WriteGoesOn == WriteInv /\ [Next]_vars => WriteInv'
<1> SUFFICES ASSUME WriteInv, [Next]_vars PROVE WriteInv' OBVIOUS
<1>1. CASE UNCHANGED vars
  <2>1. UNCHANGED <<Rest, left, store, kept, cli>> BY <1>1 DEF vars, serverVars, writeVars
  <2>2. left \in Nat /\ store \in Principals /\ kept \in [epoch : 1 .. MaxEpoch, tag : 1 .. etags]
    BY DEF WriteInv, ServerTyped, ClientTyped
  <2> QED BY <2>1, <2>2, StoreStep
<1>2. CASE ClientStep
  BY <1>2, CheckRepeatStep, ContextStep, PostStep, NoConnectionStep, CutStep, ForeignAnswerStep, ReceiveStep,
     RepeatStep, OperatorRepeatStep, OtherProcessStep DEF ClientStep
<1>3. CASE ServerStep /\ UNCHANGED writeVars
  <2>1. ASSUME NEW h \in Sends, CommitLost(h) PROVE WriteInv'
    <3>1. Kept BY <1>3, <2>1, RowsKept DEF CommitLost
    <3> QED BY <2>1, <3>1, StepMoves DEF CommitLost
  <2>2. ASSUME NEW h \in Sends,
               \/ Route(h) \/ Looked(h) \/ Relook(h) \/ Prepare(h) \/ ExtractFails(h) \/ Attempt(h) \/ EndTx(h)
               \/ CommitReply(h) \/ CommitLost(h) \/ ResolveCommit(h) \/ Die(h)
        PROVE  WriteInv'
    BY <1>3, <2>1, <2>2, RouteStep, LookedStep, RelookStep, PrepareStep, ExtractStep, AttemptStep, EndTxStep,
       CommitReplyStep, ResolveStep, DieStep
  <2> QED BY <1>3, <2>2, OthersStep, RestoreStep DEF ServerStep
<1> QED BY <1>1, <1>2, <1>3 DEF Next

LEMMA WriteInvariant == Spec => []WriteInv
BY WriteStarts, WriteGoesOn, PTL DEF Spec

\* However the sends of a write interleave, over lost answers, dead processes, restores, entries,
\* changed sign-ins and the operator's later repeat, its effect commits at most once.
THEOREM CommitsOnce == Spec => []ExecutedOnce
<1>1. WriteInv => ExecutedOnce
  <2> SUFFICES ASSUME WriteInv PROVE ExecutedOnce OBVIOUS
  <2>1. \A h \in Sends : /\ req[h] \in SendRow /\ req[h].tries <= limits.attempts /\ RowFits(req[h])
    BY DEF WriteInv, ServerTyped, SendsTrue
  <2>2. \A h \in Sends : /\ req[h].pc \in SendPc /\ req[h].reply \in Replies /\ req[h].tries \in 0 .. limits.attempts
                         /\ (Open(h) => req[h].pc \in Late)
    <3>1. limits.attempts \in Nat BY RequestsAssumption DEF WriteInv, ServerTyped
    <3> QED BY <2>1, <3>1 DEF SendRow, RowFits, Open
  <2>3. \A i \in 1 .. Len(commits) : commits[i] \in Inputs BY DEF WriteInv, ServerTyped
  <2>4. cli.try \in 0 .. limits.repeats
    <3>1. limits.repeats \in Nat /\ cli.try \in Nat /\ cli.try <= limits.repeats
      BY RequestsAssumption DEF WriteInv, ServerTyped, ClientTyped, ClientRow
    <3> QED BY <3>1
  <2>5. TypeOK
    BY <2>2, <2>3, <2>4 DEF TypeOK, WriteInv, ServerTyped, ClientTyped, ClientRow, SendPc, Late, MaybeRecord
  <2> QED BY <2>5 DEF ExecutedOnce, WriteInv, Once
<1> QED BY <1>1, WriteInvariant, PTL

\* What the command reports of a write is true when it is reported, and stays true.
THEOREM ReportsTruly == Spec => []ReportIsTrue
<1>1. WriteInv => ReportIsTrue
  <2> SUFFICES ASSUME WriteInv PROVE ReportIsTrue OBVIOUS
  <2>1. cli.out = "not sent" => commits = <<>>
    <3>1. cli.run > 1 => cli.out # "not sent" BY DEF WriteInv, ClientFits
    <3>2. cli.run \in Nat \ {0} BY DEF WriteInv, ClientTyped, ClientRow
    <3>3. cli.run = 1 \/ cli.run > 1 BY <3>2
    <3> QED BY <3>1, <3>3 DEF WriteInv, Fresh
  <2>2. cli.out = "done" => \E k \in 1 .. Len(commits) : commits[k] = cli.input
    <3>1. SUFFICES ASSUME commits = <<cli.input>> PROVE \E k \in 1 .. Len(commits) : commits[k] = cli.input
      BY DEF WriteInv, Reported
    <3>2. 1 \in 1 .. Len(commits) /\ commits[1] = cli.input BY <3>1
    <3> QED BY <3>2
  <2> QED BY <2>1, <2>2 DEF ReportIsTrue, WriteInv, Reported
<1> QED BY <1>1, WriteInvariant, PTL
=============================================================================
