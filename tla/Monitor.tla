------------------------------- MODULE Monitor -------------------------------
(***************************************************************************)
(* The dependency monitor (internal/monitor): the passes, watchdogs and    *)
(* loggers of several server processes over one database, for one          *)
(* monitored provider object version, beside the provider that changes it  *)
(* and the publications that name it (internal/api publish.go).            *)
(*                                                                         *)
(* The passes share a session-level advisory lock per dependency, the      *)
(* status row's lock and the DependencyMonitor row's lock; the loggers a   *)
(* transaction-level advisory lock. Every lock is read off the holders'    *)
(* program counters. Loops are not scheduled here: a pass starts, and a    *)
(* watchdog looks, at any time, which includes every delay of a process.   *)
(* Columns that are only served (first_retained_at, answer_date,           *)
(* deletion_warned, last_pass) are left out.                               *)
(***************************************************************************)
EXTENDS Classify, FiniteSets, FiniteSetsExt

CONSTANTS
    Processes,   \* server instances
    Releases,    \* releases that a publication may commit, each naming the version
    Stall,       \* watchdog.go stallIntervals, in seconds of the clock
    Persistent,  \* timing.go Persistent
    Batch,       \* logger.go batch
    Limits       \* the bounds of each behaviour, one of which Init chooses

\* The version is of a provider; passes, dogs and loggers are the processes whose passes, watchdogs
\* and loggers get to run; clock bounds the time; the provider makes so many changes, the releases
\* are published, and so many faults happen, requests failing in these ways.
ASSUME MonitorAssumption ==
    /\ Stall \in Nat \ {0} /\ Persistent \in Nat \ {0} /\ Batch \in Nat \ {0}
    /\ Limits \subseteq [provider : {"kv", "transit"}, passes : SUBSET Processes, dogs : SUBSET Processes,
                         loggers : SUBSET Processes, releases : SUBSET Releases, clock : Nat, changes : Nat,
                         faults : Nat, failures : SUBSET {"none", "403", "503", "500", "undated", "garbled"}]

VARIABLES
    now,      \* the database's clock
    object,   \* what the provider keeps of the object; "absent" once its metadata is gone
    status,   \* the DependencyStatus row
    pub,      \* the publications
    row,      \* the DependencyMonitor row: progress, last_stalled, last_logged
    alerts,   \* the DependencyAlert rows committed
    nextSeq,  \* dependency_alert_seq
    pass,     \* each process's pass
    dog,      \* each process's watchdog
    log,      \* each process's logger
    wake,     \* each process's wake channel
    written,  \* the sequences whose line is in the log
    left      \* what is left of the limits

vars == <<now, object, status, pub, row, alerts, nextSeq, pass, dog, log, wake, written, left>>
world == <<now, object, left>>
processVars == <<pass, dog, log, wake>>

NoRow == [class |-> None]
NoPass(pc) == [pc |-> pc, live |-> FALSE, res |-> Result(None, None), asOf |-> 0,
               new |-> NoRow, kind |-> None, at |-> NoTime, names |-> {}, seq |-> 0, progress |-> NoTime]
NoDog == [pc |-> "wait", at |-> NoTime, seq |-> 0]
NoLog == [pc |-> "idle", last |-> 0, lines |-> {}, n |-> 0, late |-> 0]
Later(x, y) == IF x < y THEN y ELSE x

\* The identity under which the version was first recorded, and the one it has when created again.
Created == 1
Recreated == 2
Kept == [NoEntry EXCEPT !.created = Created]

\* Every process starts with the installation or later; progress is the installation time.
Init ==
    /\ now = 1 /\ status = NoRow /\ alerts = {} /\ nextSeq = 1 /\ written = {}
    /\ left \in Limits
    /\ object = IF left.provider = "kv" THEN KV(1, 0, TRUE, Kept) ELSE Transit(1, 0, 1, TRUE, FALSE, Kept)
    /\ pub = [r \in Releases |-> [pc |-> "none", began |-> NoTime, res |-> Result(None, None), asOf |-> 0]]
    /\ row = [progress |-> 1, stalled |-> NoTime, logged |-> 0]
    /\ pass = [p \in Processes |-> NoPass("idle")]
    /\ dog = [p \in Processes |-> NoDog] /\ log = [p \in Processes |-> NoLog]
    /\ wake = [p \in Processes |-> FALSE]

Running(p) == pass[p].pc # "off"
Spend == left.faults > 0 /\ left' = [left EXCEPT !.faults = @ - 1]

-----------------------------------------------------------------------------
\* The holders of the locks. A session that the server ended holds nothing.
AdvisoryHeld == \E p \in Processes : pass[p].live
StatusHeld == \E p \in Processes : pass[p].pc \in {"status", "row"}
RowHeld == \E p \in Processes : pass[p].pc = "row" \/ dog[p].pc = "row"
LoggerHeld == \E p \in Processes : log[p].pc \in {"locked", "writing"}

-----------------------------------------------------------------------------
\* The clock and the provider.
Tick ==
    /\ now < left.clock /\ now' = now + 1
    /\ UNCHANGED <<object, status, pub, row, alerts, nextSeq, processVars, written, left>>

\* What an operator or the provider's own schedule can make of an object: a KV version deleted,
\* scheduled for deletion, undeleted, destroyed, pruned behind newer versions, its metadata deleted
\* and its path written again; a Transit key trimmed, its decryption floor moved, the key deleted
\* softly or restored, or created again. A key version below a floor may or may not be listed.
KVChanges(o) ==
    IF o.provider = "absent" THEN {KV(1, 0, TRUE, [Kept EXCEPT !.created = Recreated])}
    ELSE {[provider |-> "absent"]} \cup
         IF ~o.listed \/ o.entry.destroyed THEN {}
         ELSE {[o EXCEPT !.entry.deletion = t] : t \in {NoTime} \cup now .. left.clock} \cup
              {[o EXCEPT !.entry.destroyed = TRUE], KV(2, 2, FALSE, NoEntry)}
Floored(o, available) ==
    {[o EXCEPT !.latest = 2, !.minAvailable = available, !.minDecryption = 2, !.listed = b] : b \in BOOLEAN}
TransitChanges(o) ==
    IF o.provider = "absent" THEN {Transit(1, 0, 1, TRUE, FALSE, [Kept EXCEPT !.created = Recreated])}
    ELSE {[provider |-> "absent"], [o EXCEPT !.softDeleted = ~@]} \cup
         IF o.minAvailable = 2 THEN {}
         ELSE {[o EXCEPT !.minDecryption = 1, !.listed = TRUE]} \cup Floored(o, 0) \cup Floored(o, 2)
ProviderChanges ==
    /\ left.changes > 0 /\ left' = [left EXCEPT !.changes = @ - 1]
    /\ object' \in (IF left.provider = "kv" THEN KVChanges(object) ELSE TransitChanges(object)) \ {object}
    /\ UNCHANGED <<now, status, pub, row, alerts, nextSeq, processVars, written>>

\* The provider's answer to one metadata request, or the failure of one.
Answer(s, d, ok) == [status |-> s, date |-> d, readable |-> ok, body |-> object]
TrueAnswer == Answer(IF object.provider = "absent" THEN "404" ELSE "200", now, TRUE)
FailedAnswers ==
    {Answer(s, now, TRUE) : s \in left.failures \ {"undated", "garbled"}} \cup
    {Answer("200", IF f = "undated" THEN NoTime ELSE now, f = "undated") :
        f \in {f \in left.failures \cap {"undated", "garbled"} : object.provider # "absent"}}
Answered(a) ==
    \/ a = TrueAnswer /\ UNCHANGED left
    \/ a \in FailedAnswers /\ Spend

-----------------------------------------------------------------------------
\* A publication of a release that names the version: it classifies the version, and commits.
BeginPublication(r) ==
    /\ r \in left.releases /\ pub[r].pc = "none"
    /\ pub' = [pub EXCEPT ![r].pc = "began", ![r].began = now]
    /\ UNCHANGED <<world, status, row, alerts, nextSeq, processVars, written>>

\* It refuses a version that is not retained.
PublicationClassifies(r) ==
    /\ pub[r].pc = "began"
    /\ \E res \in {ClassifyAnswer(NoTime, TrueAnswer)} :
          pub' = [pub EXCEPT ![r].pc = IF res.class = "retained" THEN "classified" ELSE "refused",
                             ![r].res = res, ![r].asOf = left.changes]
    /\ UNCHANGED <<world, status, row, alerts, nextSeq, processVars, written>>

\* A defect: a class recorded in the second in which publication began counts as older.
RecordedAfter(s, began) == s.class # "retained" /\ s.recordedAt > began

\* recheckStatuses of a row under the identity that the publication names.
RecordedSince(s, began) == s.class # "retained" /\ s.recordedAt >= began

\* The commit: seedStatuses, then recheckStatuses, whose FOR SHARE waits for a pass that is
\* recording. A KV version recorded under another creation time is refused; a Transit key created
\* again is another dependency.
Seeded(s, r) ==
    IF s # NoRow THEN s
    ELSE [class |-> "retained", reason |-> pub[r].res.reason, created |-> pub[r].res.created,
          unknownSince |-> NoTime, persistentAt |-> NoTime, deletion |-> pub[r].res.deletion,
          recordedAt |-> now, asOf |-> pub[r].asOf]
Outcome(s, r) ==
    IF s.created # pub[r].res.created THEN IF left.provider = "kv" THEN "refused" ELSE "elsewhere"
    ELSE IF RecordedSince(s, pub[r].began) THEN "refused" ELSE "published"
PublicationCommits(r) ==
    /\ pub[r].pc = "classified" /\ ~StatusHeld
    /\ pub' = [pub EXCEPT ![r].pc = Outcome(Seeded(status, r), r)]
    /\ status' = IF pub'[r].pc = "published" THEN Seeded(status, r) ELSE status
    /\ UNCHANGED <<world, row, alerts, nextSeq, processVars, written>>

-----------------------------------------------------------------------------
\* The pass. Run's loop starts one after another; each wakes the logger and reads the monitored
\* dependencies.
StartPass(p) ==
    /\ p \in left.passes /\ pass[p].pc = "idle"
    /\ pass' = [pass EXCEPT ![p].pc = IF status = NoRow THEN "classified" ELSE "next"]
    /\ wake' = [wake EXCEPT ![p] = TRUE]
    /\ UNCHANGED <<world, status, pub, row, alerts, nextSeq, dog, log, written>>

\* classifyOne steps 1 and 2: the advisory lock on a session, or another instance is classifying.
\* observed_from, read next, is only served.
TakeLock(p) ==
    /\ pass[p].pc = "next"
    /\ pass' = [pass EXCEPT ![p] = IF AdvisoryHeld THEN NoPass("classified")
                                   ELSE [@ EXCEPT !.pc = "locked", !.live = TRUE]]
    /\ UNCHANGED <<world, status, pub, row, alerts, nextSeq, dog, log, wake, written>>

\* Steps 3 and 4: the request, with no transaction open.
Ask(p) ==
    /\ pass[p].pc = "locked"
    /\ \E a \in {TrueAnswer} \cup FailedAnswers :
          /\ Answered(a)
          /\ pass' = [pass EXCEPT ![p].pc = "asked", ![p].res = ClassifyAnswer(status.created, a),
                                  ![p].asOf = left.changes]
    /\ UNCHANGED <<now, object, status, pub, row, alerts, nextSeq, dog, log, wake, written>>

\* transition: the status to record and the alert that the transition itself raises, if any.
persistentDue(old, at) ==
    /\ old.class = "unknown"
    /\ at >= (IF old.persistentAt = NoTime THEN old.unknownSince ELSE old.persistentAt) + Persistent
transition(old, res, at) ==
    [old EXCEPT !.class = res.class, !.reason = res.reason,
                !.deletion = IF res.reason = "deletion-scheduled" THEN res.deletion ELSE NoTime,
                !.unknownSince = CASE res.class # "unknown" -> NoTime
                                   [] res.class = "unknown" /\ old.class # "unknown" -> at
                                   [] OTHER -> @,
                !.persistentAt = CASE res.class # "unknown" -> NoTime
                                   [] res.class = "unknown" /\ persistentDue(old, at) -> at
                                   [] OTHER -> @,
                !.recordedAt = at]
transitionKind(old, res, at) ==
    CASE res.class \in {"lost", "blocked"} /\ old.class # res.class -> res.class
      [] res.class = "unknown" /\ old.class \in {"retained", "blocked"} -> "regression"
      [] res.class = "unknown" /\ persistentDue(old, at) -> "persistent"
      [] OTHER -> None

\* The releases read under the row lock, and those that no earlier warning of this time names.
Referencing == {r \in Releases : pub[r].pc = "published"}
unwarned(t) == Referencing \ UNION {a.releases : a \in {a \in alerts : a.kind = "deletion-scheduled" /\ a.deletion = t}}

\* Step 5, on the session that holds the advisory lock: the status row's lock, the time read after
\* it, the transition and the alert.
Classified(p) ==
    /\ \E new \in {[transition(status, pass[p].res, now) EXCEPT !.asOf = pass[p].asOf]} :
       \E kind \in {transitionKind(status, pass[p].res, now)} :
       \E warn \in {new.reason = "deletion-scheduled" /\ unwarned(new.deletion) # {}} :
          pass' = [pass EXCEPT ![p].pc = "status", ![p].at = now, ![p].new = new,
                               ![p].kind = IF warn THEN "deletion-scheduled" ELSE kind,
                               ![p].names = CASE warn -> unwarned(new.deletion)
                                              [] ~warn /\ kind # None -> Referencing
                                              [] OTHER -> {}]
    /\ UNCHANGED <<world, status, pub, row, alerts, nextSeq, dog, log, wake, written>>

\* A defect: a process that lost its session records on another.
LockStatusReconnected(p) == pass[p].pc = "asked" /\ ~StatusHeld /\ Classified(p)

LockStatus(p) == pass[p].pc = "asked" /\ pass[p].live /\ ~StatusHeld /\ Classified(p)

\* Then the DependencyMonitor row's lock, the alert's sequence and the progress at that time.
LockRow(p) ==
    /\ pass[p].pc = "status" /\ ~RowHeld
    /\ pass' = [pass EXCEPT ![p].pc = "row", ![p].seq = nextSeq, ![p].progress = now]
    /\ nextSeq' = IF pass[p].kind = None THEN nextSeq ELSE nextSeq + 1
    /\ UNCHANGED <<world, status, pub, row, alerts, dog, log, wake, written>>

\* The commit, the release of the advisory lock, and logSoon after an alert.
Commit(p) ==
    /\ pass[p].pc = "row"
    /\ status' = pass[p].new
    /\ alerts' = IF pass[p].kind = None THEN alerts
                 ELSE alerts \cup {[seq |-> pass[p].seq, kind |-> pass[p].kind, at |-> pass[p].at,
                                    releases |-> pass[p].names, deletion |-> pass[p].new.deletion]}
    /\ row' = [row EXCEPT !.progress = Later(@, pass[p].progress)]
    /\ wake' = [wake EXCEPT ![p] = @ \/ pass[p].kind # None]
    /\ pass' = [pass EXCEPT ![p] = NoPass("classified")]
    /\ UNCHANGED <<world, pub, nextSeq, dog, log, written>>

\* A process that lost its session finds out when it records, and leaves the dependency.
RecordFails(p) ==
    /\ pass[p].pc = "asked" /\ ~pass[p].live
    /\ pass' = [pass EXCEPT ![p] = NoPass("classified")]
    /\ UNCHANGED <<world, status, pub, row, alerts, nextSeq, dog, log, wake, written>>

\* completed: the pass's own progress.
Completed(p) ==
    /\ pass[p].pc = "classified" /\ ~RowHeld
    /\ row' = [row EXCEPT !.progress = Later(@, now)]
    /\ pass' = [pass EXCEPT ![p].pc = "idle"]
    /\ UNCHANGED <<world, status, pub, alerts, nextSeq, dog, log, wake, written>>

\* The server ends a session that stays idle too long, as a stopped process's does, and a stuck
\* holder's transaction: its locks are free and a sequence it took is lost.
SessionEnds(p) ==
    /\ Spend /\ pass[p].live
    /\ pass' = [pass EXCEPT ![p] = IF @.pc \in {"status", "row"} THEN NoPass("classified") ELSE [@ EXCEPT !.live = FALSE]]
    /\ UNCHANGED <<now, object, status, pub, row, alerts, nextSeq, dog, log, wake, written>>

-----------------------------------------------------------------------------
\* The watchdog: a plain read finds an alert due; the row's lock; decided again and inserted; the
\* commit, which wakes the logger.
Due == now - Later(row.progress, row.stalled) >= Stall
Look(p) ==
    /\ p \in left.dogs /\ Running(p) /\ dog[p].pc = "wait" /\ Due
    /\ dog' = [dog EXCEPT ![p].pc = "due"]
    /\ UNCHANGED <<world, status, pub, row, alerts, nextSeq, pass, log, wake, written>>

DecideAgain(p) ==
    /\ dog[p].pc = "due" /\ ~RowHeld
    /\ dog' = [dog EXCEPT ![p] = IF Due THEN [pc |-> "row", at |-> now, seq |-> nextSeq] ELSE NoDog]
    /\ nextSeq' = IF Due THEN nextSeq + 1 ELSE nextSeq
    /\ UNCHANGED <<world, status, pub, row, alerts, pass, log, wake, written>>

Raise(p) ==
    /\ dog[p].pc = "row"
    /\ alerts' = alerts \cup {[seq |-> dog[p].seq, kind |-> "monitor-stalled", at |-> dog[p].at,
                               releases |-> {}, deletion |-> NoTime]}
    /\ row' = [row EXCEPT !.stalled = dog[p].at]
    /\ dog' = [dog EXCEPT ![p] = NoDog] /\ wake' = [wake EXCEPT ![p] = TRUE]
    /\ UNCHANGED <<world, status, pub, nextSeq, pass, log, written>>

\* Its lock wait times out, or the server ends its transaction.
WatchdogFails(p) ==
    /\ Spend /\ dog[p].pc # "wait"
    /\ dog' = [dog EXCEPT ![p] = NoDog]
    /\ UNCHANGED <<now, object, status, pub, row, alerts, nextSeq, pass, log, wake, written>>

-----------------------------------------------------------------------------
\* The logger: woken, or its last batch was full. It takes the process's writer, which a blocked
\* write keeps, and the loggers' lock, which another may hold, and reads the cursor.
LogTake(p) ==
    /\ p \in left.loggers
    /\ \/ log[p].pc = "idle" /\ wake[p] /\ wake' = [wake EXCEPT ![p] = FALSE]
       \/ log[p].pc = "again" /\ UNCHANGED wake
    /\ log' = [log EXCEPT ![p] = IF @.late # 0 \/ LoggerHeld THEN [NoLog EXCEPT !.late = log[p].late]
                                 ELSE [NoLog EXCEPT !.pc = "locked", !.last = row.logged]]
    /\ UNCHANGED <<world, status, pub, row, alerts, nextSeq, pass, dog, written>>

\* unlogged: waits for whoever is inserting an alert, and reads the next ones in recording order,
\* in which they are written.
NextLines(last) ==
    LET seqs == {a.seq : a \in {a \in alerts : a.seq > last}}
    IN  {k \in seqs : Cardinality({j \in seqs : j <= k}) <= Batch}
LogRead(p) ==
    /\ log[p].pc = "locked" /\ ~RowHeld
    /\ \E lines \in {NextLines(log[p].last)} :
          log' = [log EXCEPT ![p] = IF lines = {} THEN NoLog
                                    ELSE [@ EXCEPT !.pc = "writing", !.lines = lines, !.n = Cardinality(lines), !.last = Max(lines)]]
    /\ UNCHANGED <<world, status, pub, row, alerts, nextSeq, pass, dog, wake, written>>

LogWrite(p) ==
    /\ log[p].pc = "writing" /\ log[p].lines # {}
    /\ written' = written \cup {Min(log[p].lines)}
    /\ log' = [log EXCEPT ![p].lines = @ \ {Min(@)}]
    /\ UNCHANGED <<world, status, pub, row, alerts, nextSeq, pass, dog, wake>>

\* The write of a line outlasts its batch: the logger leaves, and the line is written whenever the
\* write returns. Until then the process's writer is held.
LogBlocked(p) ==
    /\ Spend /\ log[p].pc = "writing" /\ log[p].lines # {}
    /\ log' = [log EXCEPT ![p] = [NoLog EXCEPT !.late = Min(log[p].lines)]]
    /\ UNCHANGED <<now, object, status, pub, row, alerts, nextSeq, pass, dog, wake, written>>
WriteReturns(p) ==
    /\ log[p].late # 0
    /\ written' = written \cup {log[p].late}
    /\ log' = [log EXCEPT ![p].late = 0]
    /\ UNCHANGED <<world, status, pub, row, alerts, nextSeq, pass, dog, wake>>

\* A defect: the cursor moves to the newest alert.
LogAdvanceToNewest(p) ==
    /\ log[p].pc = "writing" /\ log[p].lines = {} /\ ~RowHeld
    /\ row' = [row EXCEPT !.logged = Max({a.seq : a \in alerts})]
    /\ log' = [log EXCEPT ![p] = [NoLog EXCEPT !.pc = IF log[p].n = Batch THEN "again" ELSE "idle"]]
    /\ UNCHANGED <<world, status, pub, alerts, nextSeq, pass, dog, wake, written>>

\* The cursor moves to the last line written; a full batch is followed by another.
LogAdvance(p) ==
    /\ log[p].pc = "writing" /\ log[p].lines = {} /\ ~RowHeld
    /\ row' = [row EXCEPT !.logged = log[p].last]
    /\ log' = [log EXCEPT ![p] = [NoLog EXCEPT !.pc = IF log[p].n = Batch THEN "again" ELSE "idle"]]
    /\ UNCHANGED <<world, status, pub, alerts, nextSeq, pass, dog, wake, written>>

\* The logger's transaction ends first: behind the holder that its read or its advance waits for,
\* or idle between two lines.
LogFails(p) ==
    /\ Spend /\ log[p].pc \in {"locked", "writing"}
    /\ log' = [log EXCEPT ![p] = NoLog]
    /\ UNCHANGED <<now, object, status, pub, row, alerts, nextSeq, pass, dog, wake, written>>

-----------------------------------------------------------------------------
\* A process ends with everything it held, and is started again.
Crash(p) ==
    /\ Spend /\ Running(p)
    /\ pass' = [pass EXCEPT ![p] = NoPass("off")] /\ dog' = [dog EXCEPT ![p] = NoDog]
    /\ log' = [log EXCEPT ![p] = NoLog] /\ wake' = [wake EXCEPT ![p] = FALSE]
    /\ UNCHANGED <<now, object, status, pub, row, alerts, nextSeq, written>>
Restart(p) ==
    /\ pass[p].pc = "off"
    /\ pass' = [pass EXCEPT ![p] = NoPass("idle")]
    /\ UNCHANGED <<world, status, pub, row, alerts, nextSeq, dog, log, wake, written>>

-----------------------------------------------------------------------------
PassStep(p) == TakeLock(p) \/ Ask(p) \/ LockStatus(p) \/ LockRow(p) \/ Commit(p) \/ RecordFails(p) \/ Completed(p)
WatchdogStep(p) == DecideAgain(p) \/ Raise(p)
LoggerStep(p) == LogTake(p) \/ LogRead(p) \/ LogWrite(p) \/ LogAdvance(p)

Next ==
    \/ Tick \/ ProviderChanges
    \/ \E r \in Releases : BeginPublication(r) \/ PublicationClassifies(r) \/ PublicationCommits(r)
    \/ \E p \in Processes :
          \/ StartPass(p) \/ PassStep(p) \/ SessionEnds(p)
          \/ Look(p) \/ WatchdogStep(p) \/ WatchdogFails(p)
          \/ LoggerStep(p) \/ LogBlocked(p) \/ WriteReturns(p) \/ LogFails(p)
          \/ Crash(p) \/ Restart(p)

Spec == Init /\ [][Next]_vars

\* Every loop goes on, a process that ended is started again, and a blocked write returns. A logger
\* that waits for the DependencyMonitor row gets it though passes keep taking it: PostgreSQL queues
\* the waiters.
Fairness ==
    \A p \in Processes :
       /\ WF_vars(StartPass(p)) /\ WF_vars(PassStep(p)) /\ WF_vars(WatchdogStep(p)) /\ SF_vars(LoggerStep(p))
       /\ WF_vars(WriteReturns(p)) /\ WF_vars(Restart(p))
FairSpec == Spec /\ Fairness

-----------------------------------------------------------------------------
\* Classifications are recorded in the order their answers were observed (monitor.go classifyOne,
\* record): an answer to a request sent before the provider changed never replaces one that saw the
\* change, though a process stops in between, loses its session and wakes up to record.
AnswersInOrder == [][status # NoRow => status'.asOf <= status.asOf]_vars

TypeOK ==
    /\ row.logged < nextSeq /\ written \subseteq 1 .. nextSeq - 1 /\ {a.seq : a \in alerts} \subseteq 1 .. nextSeq - 1
    /\ status.class \in {None, "retained", "blocked", "lost", "unknown"}
    /\ status # NoRow => (status.class = "unknown" <=> status.unknownSince # NoTime) /\ status.recordedAt \in 1 .. now
    /\ Cardinality({p \in Processes : pass[p].live}) <= 1

\* What the alerts say (monitor.go record, watchdog.go, publish.go recheckStatuses). While a version
\* is recorded lost or blocked, the alert of its entry names every release that references it and
\* was classified before that entry: a publication that raced the transition was refused or is
\* named. A release is warned of one scheduled time once. monitor-stalled alerts are raised Stall
\* apart, with no progress in the Stall before each, whichever processes look.
AlertsTrue ==
    /\ TypeOK
    /\ status.class \in {"lost", "blocked"} =>
          \E a \in {a \in alerts : a.kind = status.class} :
             /\ \A b \in alerts : b.kind = a.kind => b.seq <= a.seq
             /\ \A r \in Referencing : pub[r].began <= a.at => r \in a.releases
    /\ \A a, b \in {a \in alerts : a.kind = "deletion-scheduled"} :
          a # b /\ a.deletion = b.deletion => a.releases \cap b.releases = {}
    /\ \A a \in {a \in alerts : a.kind = "monitor-stalled"} :
          /\ row.progress \notin a.at - Stall + 1 .. a.at - 1
          /\ \A b \in alerts : b.kind = a.kind /\ b.seq > a.seq => b.at >= a.at + Stall

\* Every alert committed is written to the log in the end, by its own process or by another, and
\* the cursor never passes one that is not written (logger.go logBatch): through rolled-back
\* sequences, batches that fail or block half way, and processes that end before or after a line.
\* Alerts are bounded here, so that each is written if again and again all are; it is said of the
\* behaviours in which a logger gets to run.
AlertsLogged ==
    /\ [](\A a \in alerts : a.seq <= row.logged => a.seq \in written)
    /\ []<>(left.loggers = {} \/ \A a \in alerts : a.seq \in written)

=============================================================================
