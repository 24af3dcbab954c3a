---------------------------- MODULE MonitorProofs ----------------------------
(***************************************************************************)
(* Theorems about Monitor, for every set of processes and of releases, and *)
(* every stall interval, batch and bound.                                  *)
(***************************************************************************)
EXTENDS Monitor, FiniteSetTheorems, WellFoundedInduction, TLAPS

\* The types of the variables.
Entries == [created : Nat, deletion : Nat, destroyed : BOOLEAN]
KVs == [provider : {"kv"}, current : Nat, oldest : Nat, listed : BOOLEAN, entry : Entries]
Transits == [provider : {"transit"}, latest : Nat, minAvailable : Nat, minDecryption : Nat,
             listed : BOOLEAN, softDeleted : BOOLEAN, entry : Entries]
Gone == [provider |-> "absent"]
Classes == {"retained", "blocked", "lost", "unknown"}
Reasons == {None, "unreachable", "denied", "absent", "unavailable", "unreadable", "deletion-time-undecidable",
            "soft-deleted", "deletion-scheduled", "destroyed", "pruned", "insufficient-evidence",
            "identity-mismatch", "soft-delete-unobserved", "trimmed-unverified", "trimmed",
            "below-decryption-floor-unverified", "below-decryption-floor"}
Results == [class : Classes \cup {None}, reason : Reasons, created : Nat, deletion : Nat]
Statuses == [class : Classes, reason : Reasons, created : Nat, unknownSince : Nat, persistentAt : Nat,
             deletion : Nat, recordedAt : Nat, asOf : Nat]
Kinds == {None, "lost", "blocked", "regression", "persistent", "deletion-scheduled"}
Passes == [pc : {"off", "idle", "next", "locked", "asked", "status", "row", "classified"}, live : BOOLEAN,
           res : Results, asOf : Nat, new : Statuses \cup {NoRow}, kind : Kinds, at : Nat,
           names : SUBSET Releases, seq : Nat, progress : Nat]
Dogs == [pc : {"wait", "due", "row"}, at : Nat, seq : Nat]
Logs == [pc : {"idle", "again", "locked", "writing"}, last : Nat, lines : SUBSET Nat, n : Nat, late : Nat]
Pubs == [pc : {"none", "began", "classified", "refused", "published", "elsewhere"}, began : Nat,
         res : Results, asOf : Nat]
Alerts == [seq : Nat, kind : (Kinds \ {None}) \cup {"monitor-stalled"}, at : Nat, releases : SUBSET Releases,
           deletion : Nat]
Left == [provider : {"kv", "transit"}, passes : SUBSET Processes, dogs : SUBSET Processes,
         loggers : SUBSET Processes, releases : SUBSET Releases, clock : Nat, changes : Nat,
         faults : Nat, failures : SUBSET {"none", "403", "503", "500", "undated", "garbled"}]
Rows == [progress : Nat, stalled : Nat, logged : Nat]

Typed ==
    /\ now \in Nat \ {0} /\ nextSeq \in Nat \ {0} /\ left \in Left /\ row \in Rows
    /\ status \in Statuses \cup {NoRow} /\ alerts \in SUBSET Alerts /\ written \in SUBSET Nat
    /\ pub \in [Releases -> Pubs] /\ pass \in [Processes -> Passes] /\ dog \in [Processes -> Dogs]
    /\ log \in [Processes -> Logs] /\ wake \in [Processes -> BOOLEAN]
    /\ object = Gone \/ object \in (IF left.provider = "kv" THEN KVs ELSE Transits)

\* A status says since when it is unknown, and is of an answer that some process had.
StatusFits(s, n, changes) ==
    /\ s.class = "unknown" <=> s.unknownSince # NoTime
    /\ s.recordedAt \in 1 .. n /\ changes <= s.asOf
StatusStands == status # NoRow => StatusFits(status, now, left.changes)

\* A publication classified a version after it began.
PubsStand == \A r \in Releases : pub[r].pc = "classified" => left.changes <= pub[r].asOf /\ pub[r].res.class = "retained"

\* One session has the advisory lock, and one transaction the monitor's row.
LocksHeld ==
    /\ \A p, q \in Processes : pass[p].live /\ pass[q].live => p = q
    /\ \A p \in Processes : pass[p].pc \in {"status", "row"} => pass[p].live
    /\ \A p, q \in Processes : /\ dog[p].pc = "row" /\ dog[q].pc = "row" => p = q
                               /\ ~(pass[p].pc = "row" /\ dog[q].pc = "row")

\* An answer is not older than what is recorded while its session lives.
Asked(p) ==
    /\ pass[p].pc \in {"next", "locked", "asked", "status", "row"} => status # NoRow
    /\ pass[p].pc = "asked" => /\ pass[p].res.class \in Classes
                               /\ pass[p].res.reason = "deletion-scheduled" => pass[p].res.class = "retained"
    /\ pass[p].live /\ pass[p].pc \in {"asked", "status", "row"} =>
          left.changes <= pass[p].asOf /\ pass[p].asOf <= status.asOf

\* Under the status row's lock, what a pass will record is of the current status and publications.
Decided(p) == pass[p].pc \in {"status", "row"} =>
    /\ pass[p].new \in Statuses /\ StatusFits(pass[p].new, now, left.changes)
    /\ pass[p].new.asOf = pass[p].asOf /\ pass[p].new.recordedAt = pass[p].at /\ status.recordedAt <= pass[p].at
    /\ pass[p].kind \in {"lost", "blocked"} => pass[p].new.class = pass[p].kind /\ pass[p].names = Referencing
    /\ pass[p].new.class \in {"lost", "blocked"} => pass[p].new.class \in {pass[p].kind, status.class}
    /\ pass[p].kind = "deletion-scheduled" =>
          \A a \in alerts : a.kind = "deletion-scheduled" /\ a.deletion = pass[p].new.deletion =>
                               a.releases \cap pass[p].names = {}
PassesStand == \A p \in Processes : Asked(p) /\ Decided(p)

\* A sequence taken under the row's lock is above every alert and every logger's cursor.
Newest(seq) ==
    /\ seq \in 1 .. nextSeq - 1 /\ row.logged < seq /\ \A a \in alerts : a.seq < seq
    /\ \A q \in Processes : log[q].pc \in {"locked", "writing"} => log[q].last < seq
RowStands ==
    /\ \A p \in Processes : pass[p].pc = "row" =>
          /\ pass[p].kind # None => Newest(pass[p].seq)
          /\ \A a \in alerts : a.kind = "monitor-stalled" => a.at <= pass[p].progress
    /\ \A p \in Processes : dog[p].pc = "row" =>
          /\ Newest(dog[p].seq) /\ dog[p].at <= now
          /\ row.progress + Stall <= dog[p].at /\ row.stalled + Stall <= dog[p].at

\* The alert that entered the class recorded now, and those of the watchdogs.
EntryNamed ==
    status.class \in {"lost", "blocked"} =>
       \E a \in alerts :
          /\ a.kind = status.class /\ a.at <= status.recordedAt
          /\ \A b \in alerts : b.kind = a.kind => b.seq <= a.seq
          /\ \A r \in Referencing : pub[r].began <= a.at => r \in a.releases
WarnedOnce ==
    \A a, b \in alerts : a.kind = "deletion-scheduled" /\ b.kind = "deletion-scheduled" /\ a # b
                         /\ a.deletion = b.deletion => a.releases \cap b.releases = {}
StallsApart ==
    \A a \in alerts : a.kind = "monitor-stalled" =>
       /\ a.at <= row.stalled /\ a.at <= now /\ row.progress \notin a.at - Stall + 1 .. a.at - 1
       /\ \A b \in alerts : b.kind = "monitor-stalled" /\ b.seq > a.seq => b.at >= a.at + Stall

\* The cursor never passes an alert whose line is not in the log: the safety half of AlertsLogged.
LoggedAreWritten == \A a \in alerts : a.seq <= row.logged => a.seq \in written

\* The cursor, the loggers' cursors and what they still have to write.
Cursors ==
    /\ row.logged < nextSeq /\ written \subseteq 1 .. nextSeq - 1 /\ \A a \in alerts : a.seq \in 1 .. nextSeq - 1
    /\ \A p \in Processes : /\ log[p].lines \subseteq 1 .. nextSeq - 1 /\ log[p].late \in 0 .. nextSeq - 1
                            /\ log[p].pc \in {"locked", "writing"} => log[p].last < nextSeq
LogsStand ==
    \A p \in Processes :
       /\ log[p].pc = "locked" => \A a \in alerts : a.seq <= log[p].last => a.seq \in written
       /\ log[p].pc = "writing" => \A a \in alerts : a.seq <= log[p].last => a.seq \in written \cup log[p].lines

MonitorInv ==
    /\ Typed /\ StatusStands /\ PubsStand /\ LocksHeld /\ PassesStand /\ RowStands
    /\ EntryNamed /\ WarnedOnce /\ StallsApart /\ LoggedAreWritten /\ Cursors /\ LogsStand

-----------------------------------------------------------------------------
(* Answers and what they are classified as.                                *)

\* An answer that can be classified: a failure by its status, or a body that can be read.
Answers == [status : {"404", "200", "none", "403", "503", "500"}, date : Nat, readable : BOOLEAN, body : KVs \cup Transits \cup {Gone}]
Sound(a) == a.body = Gone => statusReason(a) # None \/ ~a.readable

\* A result of a classification.
Classification(r) ==
    /\ r \in Results /\ r.class \in Classes
    /\ r.reason = "deletion-scheduled" => r.class = "retained"

LEMMA ResultFacts ==
    ASSUME NEW c \in Classes, NEW reason \in Reasons, reason = "deletion-scheduled" => c = "retained"
    PROVE  Classification(Result(c, reason))
BY DEF Result, Classification, Results, NoTime, Classes

LEMMA DatedFacts ==
    ASSUME NEW r, Classification(r), NEW created \in Nat, NEW deletion \in Nat
    PROVE  /\ Classification([r EXCEPT !.created = created, !.deletion = deletion])
           /\ Classification([r EXCEPT !.created = created])
BY DEF Classification, Results

LEMMA DeletionFacts ==
    ASSUME NEW entry \in Entries, NEW date \in Nat
    PROVE  Classification(deletionResult(entry, date))
<1> DEFINE r == CASE entry.deletion = NoTime -> Result("retained", None)
                  [] entry.deletion # NoTime /\ date \in {NoTime, entry.deletion} -> Result("unknown", "deletion-time-undecidable")
                  [] entry.deletion # NoTime /\ date # NoTime /\ entry.deletion < date -> Result("blocked", "soft-deleted")
                  [] OTHER -> Result("retained", "deletion-scheduled")
<1>1. r \in {Result("retained", None), Result("unknown", "deletion-time-undecidable"), Result("blocked", "soft-deleted"),
             Result("retained", "deletion-scheduled")}
  OBVIOUS
<1>2. Classification(r)
  <2>1. Classification(Result("retained", None)) /\ Classification(Result("unknown", "deletion-time-undecidable"))
        /\ Classification(Result("blocked", "soft-deleted")) /\ Classification(Result("retained", "deletion-scheduled"))
    BY ResultFacts DEF Classes, Reasons, None
  <2> QED
    BY <1>1, <2>1
<1>3. deletionResult(entry, date) = [r EXCEPT !.created = entry.created, !.deletion = entry.deletion]
  BY DEF deletionResult
<1>4. entry.created \in Nat /\ entry.deletion \in Nat
  BY DEF Entries
<1> HIDE DEF r
<1>5. Classification([r EXCEPT !.created = entry.created, !.deletion = entry.deletion])
  BY <1>2, <1>4, DatedFacts
<1> QED
  BY <1>3, <1>5

LEMMA KVFacts ==
    ASSUME NEW created, NEW data \in KVs, NEW date \in Nat
    PROVE  Classification(classifyKV(created, data, date))
<1>1. /\ Classification(Result("lost", "destroyed")) /\ Classification(Result("lost", "pruned"))
      /\ Classification(Result("unknown", "insufficient-evidence")) /\ Classification(Result("unknown", "identity-mismatch"))
  BY ResultFacts DEF Classes, Reasons
<1>2. Classification(deletionResult(data.entry, date))
  BY DeletionFacts DEF KVs
<1> QED
  BY <1>1, <1>2 DEF classifyKV

LEMMA TransitFacts ==
    ASSUME NEW created, NEW data \in Transits
    PROVE  Classification(classifyTransit(created, data))
<1> DEFINE belowAvailable == data.minAvailable > 0 /\ Version < data.minAvailable
           belowDecryption == Version < data.minDecryption
           d == CASE belowAvailable -> Result("lost", "trimmed")
                  [] ~belowAvailable /\ belowDecryption -> Result("blocked", "below-decryption-floor")
                  [] OTHER -> Result("retained", None)
           reason == CASE belowAvailable -> "trimmed-unverified"
                       [] ~belowAvailable /\ belowDecryption -> "below-decryption-floor-unverified"
                       [] OTHER -> "insufficient-evidence"
<1>1. /\ Classification(Result("unknown", "identity-mismatch")) /\ Classification(Result("unknown", "soft-delete-unobserved"))
      /\ Classification(Result("unknown", "insufficient-evidence"))
      /\ Classification(Result("lost", "trimmed")) /\ Classification(Result("blocked", "below-decryption-floor"))
      /\ Classification(Result("retained", None))
      /\ Classification(Result("unknown", "trimmed-unverified"))
      /\ Classification(Result("unknown", "below-decryption-floor-unverified"))
  BY ResultFacts DEF Classes, Reasons, None
<1>2. d \in {Result("lost", "trimmed"), Result("blocked", "below-decryption-floor"), Result("retained", None)}
  OBVIOUS
<1>3. reason \in {"trimmed-unverified", "below-decryption-floor-unverified", "insufficient-evidence"}
  OBVIOUS
<1>4. Classification(d) /\ Classification(Result("unknown", reason))
  BY <1>1, <1>2, <1>3
<1>5. data.entry.created \in Nat
  BY DEF Transits, Entries
<1>6. classifyTransit(created, data) =
        IF data.listed /\ created \notin {NoTime, data.entry.created} THEN Result("unknown", "identity-mismatch")
        ELSE IF data.softDeleted THEN Result("unknown", "soft-delete-unobserved")
        ELSE IF Version > data.latest THEN Result("unknown", "insufficient-evidence")
        ELSE IF ~data.listed THEN Result("unknown", reason)
        ELSE [d EXCEPT !.created = data.entry.created]
  BY DEF classifyTransit
<1> HIDE DEF d, reason
<1>7. Classification([d EXCEPT !.created = data.entry.created])
  <2>1. NoTime \in Nat
    BY DEF NoTime
  <2> QED
    BY <1>4, <1>5, DatedFacts
<1> QED
  BY <1>1, <1>4, <1>6, <1>7

LEMMA AnswerFacts ==
    ASSUME NEW created, NEW a \in Answers, Sound(a)
    PROVE  Classification(ClassifyAnswer(created, a))
<1>1. statusReason(a) # None => Classification(Result("unknown", statusReason(a)))
  <2>1. statusReason(a) \in {"unreachable", "denied", "absent", "unavailable", "unreadable", None}
    BY DEF statusReason
  <2> QED
    BY <2>1, ResultFacts DEF Classes, Reasons, None
<1>2. Classification(Result("unknown", "unreadable"))
  BY ResultFacts DEF Classes, Reasons
<1>3. ASSUME a.body # Gone
      PROVE  Classification(IF a.body.provider = "kv" THEN classifyKV(created, a.body, a.date) ELSE classifyTransit(created, a.body))
  <2>1. a.date \in Nat /\ a.body \in KVs \cup Transits
    BY <1>3 DEF Answers
  <2>2. CASE a.body \in KVs
    <3>1. a.body.provider = "kv"
      BY <2>2 DEF KVs
    <3> QED
      BY <2>1, <2>2, <3>1, KVFacts
  <2>3. CASE a.body \in Transits
    <3>1. a.body.provider # "kv"
      BY <2>3 DEF Transits
    <3> QED
      BY <2>3, <3>1, TransitFacts
  <2> QED
    BY <2>1, <2>2, <2>3
<1> QED
  BY <1>1, <1>2, <1>3 DEF ClassifyAnswer, Sound

LEMMA TrueAnswerFacts ==
    ASSUME Typed
    PROVE  TrueAnswer \in Answers /\ Sound(TrueAnswer)
<1>1. object \in KVs \cup Transits \cup {Gone} /\ now \in Nat
  BY DEF Typed
<1> DEFINE code == IF object.provider = "absent" THEN "404" ELSE "200"
<1>2. TrueAnswer = [status |-> code, date |-> now, readable |-> TRUE, body |-> object]
  BY DEF TrueAnswer, Answer
<1>3. code \in {"404", "200"} /\ (object = Gone => code = "404")
  BY DEF Gone
<1> HIDE DEF code
<1>4. TrueAnswer \in Answers /\ TrueAnswer.status = code /\ TrueAnswer.body = object
  BY <1>1, <1>2, <1>3 DEF Answers
<1> QED
  BY <1>3, <1>4 DEF Sound, statusReason, None

LEMMA FailedAnswerFacts ==
    ASSUME Typed, NEW a \in FailedAnswers
    PROVE  a \in Answers /\ Sound(a)
<1>1. object \in KVs \cup Transits \cup {Gone} /\ now \in Nat /\ NoTime \in Nat
      /\ left.failures \subseteq {"none", "403", "503", "500", "undated", "garbled"}
  BY DEF Typed, Left, NoTime
<1>2. CASE a \in {Answer(s, now, TRUE) : s \in left.failures \ {"undated", "garbled"}}
  <2>1. PICK s \in {"none", "403", "503", "500"} : a = [status |-> s, date |-> now, readable |-> TRUE, body |-> object]
    BY <1>1, <1>2 DEF Answer
  <2>2. a \in Answers /\ a.status = s
    BY <1>1, <2>1 DEF Answers
  <2>3. statusReason(a) # None
    BY <2>2 DEF statusReason, None
  <2> QED
    BY <2>2, <2>3 DEF Sound
<1>3. CASE a \notin {Answer(s, now, TRUE) : s \in left.failures \ {"undated", "garbled"}}
  <2>1. PICK f \in left.failures : /\ object.provider # "absent"
                                   /\ a = Answer("200", IF f = "undated" THEN NoTime ELSE now, f = "undated")
    BY <1>3 DEF FailedAnswers
  <2> DEFINE date == IF f = "undated" THEN NoTime ELSE now
             readable == f = "undated"
  <2>2. a = [status |-> "200", date |-> date, readable |-> readable, body |-> object]
    BY <2>1 DEF Answer
  <2>5. date \in Nat /\ readable \in BOOLEAN
    BY <1>1
  <2> HIDE DEF date, readable
  <2>3. a \in Answers /\ a.body = object
    BY <1>1, <2>2, <2>5 DEF Answers
  <2>4. object # Gone
    BY <2>1 DEF Gone
  <2> QED
    BY <2>3, <2>4 DEF Sound
<1> QED
  BY <1>2, <1>3

-----------------------------------------------------------------------------
(* What each step does, in the terms of the invariant.                     *)

LEMMA Facts ==
    ASSUME Typed
    PROVE  /\ now \in Nat /\ now >= 1 /\ nextSeq \in Nat /\ nextSeq >= 1 /\ left.changes \in Nat /\ left.faults \in Nat
           /\ row.progress \in Nat /\ row.stalled \in Nat /\ row.logged \in Nat
           /\ \A a \in alerts : /\ a.seq \in Nat /\ a.at \in Nat /\ a.releases \subseteq Releases
                                /\ a.deletion \in Nat
           /\ \A p \in Processes :
                 /\ pass[p] \in Passes /\ pass[p].res \in Results /\ pass[p].asOf \in Nat
                 /\ pass[p].new \in Statuses \cup {NoRow}
                 /\ pass[p].at \in Nat /\ pass[p].seq \in Nat /\ pass[p].progress \in Nat /\ pass[p].live \in BOOLEAN
                 /\ dog[p] \in Dogs /\ dog[p].at \in Nat /\ dog[p].seq \in Nat
                 /\ log[p] \in Logs /\ log[p].last \in Nat /\ log[p].lines \subseteq Nat /\ log[p].late \in Nat
           /\ \A r \in Releases : pub[r] \in Pubs /\ pub[r].began \in Nat /\ pub[r].asOf \in Nat /\ pub[r].res \in Results
BY DEF Typed, Left, Rows, Alerts, Passes, Dogs, Logs, Pubs

LEMMA NoRowFacts == NoRow \notin Statuses /\ NoRow.class = None
BY DEF NoRow, Statuses, None, Classes

\* A pass's step leaves the others'.
PassOf(p) == pass' \in [Processes -> Passes] /\ \A q \in Processes \ {p} : pass'[q] = pass[q]
DogOf(p) == dog' \in [Processes -> Dogs] /\ \A q \in Processes \ {p} : dog'[q] = dog[q]
LogOf(p) == log' \in [Processes -> Logs] /\ \A q \in Processes \ {p} : log'[q] = log[q]

LEMMA NoPassFacts ==
    ASSUME NEW pc \in {"off", "idle", "classified"}
    PROVE  NoPass(pc) \in Passes /\ NoPass(pc).pc = pc /\ NoPass(pc).live = FALSE
<1>1. Result(None, None) \in Results
  BY DEF Result, Results, NoTime, Reasons
<1> QED
  BY <1>1 DEF NoPass, Passes, NoTime, Kinds

\* A fault leaves of the limits all but the number of faults.
LEMMA SpendFacts ==
    ASSUME Typed, Spend
    PROVE  left' \in Left /\ left'.changes = left.changes /\ left'.provider = left.provider
BY DEF Typed, Spend, Left

LEMMA StartPassDoes ==
    ASSUME Typed, NEW p \in Processes, StartPass(p)
    PROVE  PassOf(p) /\ pass'[p].pc \in {"classified", "next"} /\ pass'[p].live = pass[p].live
           /\ (pass'[p].pc = "next" => status # NoRow)
BY DEF Typed, StartPass, PassOf, Passes

LEMMA TakeLockDoes ==
    ASSUME Typed, NEW p \in Processes, TakeLock(p)
    PROVE  /\ PassOf(p) /\ pass'[p].pc \in {"classified", "locked"}
           /\ pass'[p].pc = "classified" => ~pass'[p].live
           /\ pass'[p].pc = "locked" => pass[p].pc = "next" /\ ~AdvisoryHeld
<1>1. CASE AdvisoryHeld
  <2>1. pass' = [pass EXCEPT ![p] = NoPass("classified")]
    BY <1>1 DEF TakeLock
  <2> QED
    BY <2>1, NoPassFacts DEF Typed, PassOf
<1>2. CASE ~AdvisoryHeld
  <2> DEFINE s == [pass[p] EXCEPT !.pc = "locked", !.live = TRUE]
  <2>1. pass' = [pass EXCEPT ![p] = s] /\ pass[p].pc = "next"
    BY <1>2 DEF TakeLock
  <2>2. s \in Passes /\ s.pc = "locked"
    BY Facts DEF Passes
  <2> HIDE DEF s
  <2> QED
    BY <1>2, <2>1, <2>2 DEF Typed, PassOf
<1> QED
  BY <1>1, <1>2

LEMMA AskDoes ==
    ASSUME Typed, NEW p \in Processes, Ask(p)
    PROVE  /\ PassOf(p) /\ pass'[p].pc = "asked" /\ pass'[p].live = pass[p].live /\ pass'[p].asOf = left.changes
           /\ Classification(pass'[p].res) /\ pass[p].pc = "locked"
           /\ left' \in Left /\ left'.changes = left.changes /\ left'.provider = left.provider
<1>1. PICK a \in {TrueAnswer} \cup FailedAnswers :
         /\ Answered(a)
         /\ pass' = [pass EXCEPT ![p].pc = "asked", ![p].res = ClassifyAnswer(status.created, a), ![p].asOf = left.changes]
  BY DEF Ask
<1>2. a \in Answers /\ Sound(a)
  BY TrueAnswerFacts, FailedAnswerFacts
<1> DEFINE res == ClassifyAnswer(status.created, a)
<1>3. Classification(res)
  BY <1>2, AnswerFacts
<1>4. res \in Results
  BY <1>3 DEF Classification
<1>5. left' \in Left /\ left'.changes = left.changes /\ left'.provider = left.provider
  BY <1>1, SpendFacts DEF Answered, Typed
<1> DEFINE s == [pass[p] EXCEPT !.pc = "asked", !.res = res, !.asOf = left.changes]
<1>6. pass' = [pass EXCEPT ![p] = s]
  BY <1>1 DEF Typed
<1> HIDE DEF res
<1>7. s \in Passes /\ s.pc = "asked" /\ s.live = pass[p].live /\ s.asOf = left.changes /\ s.res = res
  BY <1>4, Facts DEF Passes
<1> HIDE DEF s
<1>8. pass'[p] = s /\ PassOf(p)
  BY <1>6, <1>7 DEF Typed, PassOf
<1> QED
  BY <1>3, <1>5, <1>7, <1>8 DEF Ask

LEMMA LockRowDoes ==
    ASSUME Typed, NEW p \in Processes, LockRow(p)
    PROVE  /\ PassOf(p) /\ pass'[p].pc = "row" /\ pass[p].pc = "status" /\ ~RowHeld
           /\ pass'[p].live = pass[p].live /\ pass'[p].res = pass[p].res /\ pass'[p].asOf = pass[p].asOf
           /\ pass'[p].new = pass[p].new /\ pass'[p].kind = pass[p].kind /\ pass'[p].at = pass[p].at
           /\ pass'[p].names = pass[p].names /\ pass'[p].seq = nextSeq /\ pass'[p].progress = now
           /\ nextSeq' = (IF pass[p].kind = None THEN nextSeq ELSE nextSeq + 1)
BY DEF Typed, LockRow, PassOf, Passes

\* The steps after which a process has no dependency in hand.
LEMMA LeavesDoes ==
    ASSUME Typed, NEW p \in Processes, Commit(p) \/ RecordFails(p) \/ Crash(p) \/ Restart(p)
    PROVE  PassOf(p) /\ pass'[p].pc \in {"off", "idle", "classified"} /\ ~pass'[p].live
<1>1. PICK pc \in {"off", "idle", "classified"} : pass' = [pass EXCEPT ![p] = NoPass(pc)]
  BY DEF Commit, RecordFails, Crash, Restart
<1> QED
  BY <1>1, NoPassFacts DEF Typed, PassOf

LEMMA CompletedDoes ==
    ASSUME Typed, NEW p \in Processes, Completed(p)
    PROVE  /\ PassOf(p) /\ pass'[p].pc = "idle" /\ pass'[p].live = pass[p].live /\ ~RowHeld
           /\ row' \in Rows /\ row'.progress \in {row.progress, now} /\ row'.stalled = row.stalled /\ row'.logged = row.logged
<1>1. pass' = [pass EXCEPT ![p].pc = "idle"] /\ ~RowHeld /\ row' = [row EXCEPT !.progress = Later(@, now)]
  BY DEF Completed
<1>2. PassOf(p) /\ pass'[p].pc = "idle" /\ pass'[p].live = pass[p].live
  BY <1>1 DEF Typed, PassOf, Passes
<1>3. Later(row.progress, now) \in {row.progress, now}
  BY DEF Later
<1>4. row \in Rows /\ now \in Nat /\ row.progress \in Nat
  BY Facts DEF Typed
<1> QED
  BY <1>1, <1>2, <1>3, <1>4 DEF Rows

LEMMA SessionEndsDoes ==
    ASSUME Typed, NEW p \in Processes, SessionEnds(p)
    PROVE  /\ PassOf(p) /\ ~pass'[p].live /\ pass'[p].pc \notin {"status", "row"}
           /\ pass'[p].pc = "classified" \/ (pass'[p].pc = pass[p].pc /\ pass'[p].res = pass[p].res)
           /\ left' \in Left /\ left'.changes = left.changes /\ left'.provider = left.provider
<1>1. left' \in Left /\ left'.changes = left.changes /\ left'.provider = left.provider
  BY SpendFacts DEF SessionEnds
<1>2. CASE pass[p].pc \in {"status", "row"}
  <2>1. pass' = [pass EXCEPT ![p] = NoPass("classified")]
    BY <1>2 DEF SessionEnds
  <2> QED
    BY <1>1, <2>1, NoPassFacts DEF Typed, PassOf
<1>3. CASE pass[p].pc \notin {"status", "row"}
  <2> DEFINE s == [pass[p] EXCEPT !.live = FALSE]
  <2>1. pass' = [pass EXCEPT ![p] = s]
    BY <1>3 DEF SessionEnds
  <2>2. s \in Passes /\ s.pc = pass[p].pc /\ s.res = pass[p].res /\ s.live = FALSE
    BY Facts DEF Passes
  <2> HIDE DEF s
  <2> QED
    BY <1>1, <1>3, <2>1, <2>2 DEF Typed, PassOf
<1> QED
  BY <1>2, <1>3

\* The status a pass records, and the alert of the transition.
LEMMA TransitionFacts ==
    ASSUME NEW old \in Statuses, NEW res, Classification(res), NEW at \in Nat, at >= 1, NEW asOf \in Nat,
           NEW n \in Nat, at <= n, NEW changes \in Nat, changes <= asOf,
           old.class = "unknown" <=> old.unknownSince # NoTime
    PROVE  LET new == [transition(old, res, at) EXCEPT !.asOf = asOf]
           IN  /\ new \in Statuses /\ new.class = res.class /\ new.reason = res.reason /\ new.recordedAt = at
               /\ new.asOf = asOf /\ StatusFits(new, n, changes)
<1> DEFINE del == IF res.reason = "deletion-scheduled" THEN res.deletion ELSE NoTime
           since == CASE res.class # "unknown" -> NoTime
                      [] res.class = "unknown" /\ old.class # "unknown" -> at
                      [] OTHER -> old.unknownSince
           persistent == CASE res.class # "unknown" -> NoTime
                           [] res.class = "unknown" /\ persistentDue(old, at) -> at
                           [] OTHER -> old.persistentAt
           t == [old EXCEPT !.class = res.class, !.reason = res.reason, !.deletion = del, !.unknownSince = since,
                            !.persistentAt = persistent, !.recordedAt = at]
           new == [t EXCEPT !.asOf = asOf]
<1>1. transition(old, res, at) = t
  BY DEF transition
<1>2. /\ old.unknownSince \in Nat /\ old.persistentAt \in Nat /\ res.class \in Classes /\ res.reason \in Reasons
      /\ res.deletion \in Nat /\ NoTime \in Nat
  BY DEF Statuses, Classification, Results, NoTime
<1>3. del \in Nat /\ since \in Nat /\ persistent \in Nat
  BY <1>2
<1>4. res.class = "unknown" <=> since # NoTime
  BY <1>2 DEF NoTime
<1> HIDE DEF del, since, persistent
<1>5. t \in Statuses
  BY <1>2, <1>3 DEF Statuses
<1>6. t.class = res.class /\ t.reason = res.reason /\ t.unknownSince = since /\ t.recordedAt = at
  BY DEF Statuses
<1> HIDE DEF t
<1>7. /\ new \in Statuses /\ new.class = t.class /\ new.reason = t.reason /\ new.recordedAt = t.recordedAt
      /\ new.unknownSince = t.unknownSince /\ new.asOf = asOf
  BY <1>5 DEF Statuses
<1> HIDE DEF new
<1>8. StatusFits(new, n, changes)
  BY <1>4, <1>6, <1>7 DEF StatusFits
<1> QED
  BY <1>1, <1>6, <1>7, <1>8 DEF new

LEMMA KindFacts ==
    ASSUME NEW old, NEW res, NEW at
    PROVE  /\ transitionKind(old, res, at) \in Kinds \ {"deletion-scheduled"}
           /\ transitionKind(old, res, at) \in {"lost", "blocked"} => transitionKind(old, res, at) = res.class
           /\ res.class \in {"lost", "blocked"} => res.class \in {transitionKind(old, res, at), old.class}
BY DEF transitionKind, Kinds, None

LEMMA LockStatusDoes ==
    ASSUME Typed, StatusStands, NEW p \in Processes, Asked(p), LockStatus(p)
    PROVE  /\ PassOf(p) /\ pass'[p].pc = "status" /\ pass'[p].live = pass[p].live /\ pass'[p].asOf = pass[p].asOf
           /\ pass[p].pc = "asked" /\ pass[p].live /\ ~StatusHeld
           /\ Decided(p)'
<1> DEFINE r == pass[p]
           new == [transition(status, r.res, now) EXCEPT !.asOf = r.asOf]
           kind == transitionKind(status, r.res, now)
           warn == new.reason = "deletion-scheduled" /\ unwarned(new.deletion) # {}
           k == IF warn THEN "deletion-scheduled" ELSE kind
           names == CASE warn -> unwarned(new.deletion) [] ~warn /\ kind # None -> Referencing [] OTHER -> {}
           s == [r EXCEPT !.pc = "status", !.at = now, !.new = new, !.kind = k, !.names = names]
<1>1. /\ r.pc = "asked" /\ r.live /\ ~StatusHeld /\ pass' = [pass EXCEPT ![p] = s]
      /\ UNCHANGED <<status, pub, alerts, now, left>>
  <2>1. Classified(p) /\ r.pc = "asked" /\ r.live /\ ~StatusHeld
    BY DEF LockStatus
  <2>2. pass' = [pass EXCEPT ![p].pc = "status", ![p].at = now, ![p].new = new, ![p].kind = k, ![p].names = names]
    BY <2>1 DEF Classified
  <2>3. UNCHANGED <<status, pub, alerts, now, left>>
    BY <2>1 DEF Classified, world
  <2> HIDE DEF new, k, names
  <2>4. pass' = [pass EXCEPT ![p] = s]
    BY <2>2 DEF Typed
  <2> QED
    BY <2>1, <2>3, <2>4
<1>2. /\ status \in Statuses /\ r \in Passes /\ r.res \in Results /\ r.asOf \in Nat /\ now \in Nat /\ now >= 1
      /\ left.changes \in Nat /\ left.changes <= r.asOf /\ StatusFits(status, now, left.changes) /\ Classification(r.res)
  BY <1>1, Facts DEF Asked, Typed, StatusStands, Classification
<1>3. /\ new \in Statuses /\ new.class = r.res.class /\ new.reason = r.res.reason /\ new.recordedAt = now
      /\ new.asOf = r.asOf /\ StatusFits(new, now, left.changes)
  BY <1>2, TransitionFacts DEF StatusFits
<1>4. /\ kind \in Kinds \ {"deletion-scheduled"} /\ (kind \in {"lost", "blocked"} => kind = r.res.class)
      /\ r.res.class \in {"lost", "blocked"} => r.res.class \in {kind, status.class}
  BY KindFacts
<1>5. warn => r.res.class = "retained"
  BY <1>2, <1>3 DEF Classification
<1>6. Referencing \subseteq Releases /\ unwarned(new.deletion) \subseteq Releases
  BY DEF Referencing, unwarned
<1> HIDE DEF new, kind
<1>7. /\ k \in Kinds /\ names \in SUBSET Releases
      /\ k \in {"lost", "blocked"} => new.class = k /\ names = Referencing
      /\ new.class \in {"lost", "blocked"} => new.class \in {k, status.class}
      /\ k = "deletion-scheduled" => names = unwarned(new.deletion)
  <2>1. CASE warn
    BY <1>3, <1>5, <1>6, <2>1 DEF Kinds
  <2>2. CASE ~warn
    BY <1>3, <1>4, <1>6, <2>2 DEF None
  <2> QED
    BY <2>1, <2>2
<1> HIDE DEF k, names, warn
<1>8. /\ s \in Passes /\ s.pc = "status" /\ s.live = r.live /\ s.asOf = r.asOf /\ s.at = now /\ s.new = new
      /\ s.kind = k /\ s.names = names
  BY <1>2, <1>3, <1>7 DEF Passes
<1> HIDE DEF s
<1>9. pass'[p] = s /\ PassOf(p)
  BY <1>1, <1>8 DEF Typed, PassOf
<1>10. ASSUME k = "deletion-scheduled", NEW a \in alerts, a.kind = "deletion-scheduled", a.deletion = new.deletion
       PROVE  a.releases \cap names = {}
  BY <1>7, <1>10 DEF unwarned
<1>11. Referencing' = Referencing
  BY <1>1 DEF Referencing
<1>12. status.recordedAt <= now
  BY <1>2 DEF StatusFits
<1> QED
  BY <1>1, <1>2, <1>3, <1>7, <1>8, <1>9, <1>10, <1>11, <1>12 DEF Decided, StatusFits

\* The smallest of a set of numbers, and the greatest of a bounded one.
LEMMA MinFacts ==
    ASSUME NEW T, T \subseteq Nat, T # {}
    PROVE  Min(T) \in T /\ \A y \in T : Min(T) <= y
<1> DEFINE R == OpToRel(<, Nat)
<1>1. PICK x \in T : \A y \in T : ~ (<<y, x>> \in R)
  <2> HIDE DEF R
  <2> QED
    BY WFMin, NatLessThanWellFounded DEF R
<1>2. R = {ss \in Nat \X Nat : ss[1] < ss[2]}
  BY DEF OpToRel
<1>3. \A y \in Nat, z \in Nat : y < z => <<y, z>> \in R
  BY <1>2
<1> HIDE DEF R
<1>4. \A y \in T : ~ (y < x)
  BY <1>1, <1>3
<1>5. \E z \in T : \A y \in T : z <= y
  BY <1>4
<1> QED
  BY <1>5 DEF Min

LEMMA MaxFacts ==
    ASSUME NEW S, NEW n \in Nat, S \subseteq 1 .. n, S # {}
    PROVE  Max(S) \in S /\ \A y \in S : y <= Max(S)
<1> DEFINE T == {m \in Nat : n - m \in S}
<1>1. T # {} /\ T \subseteq Nat
  <2>1. PICK x \in S : TRUE
    OBVIOUS
  <2>2. n - x \in Nat /\ n - (n - x) = x
    BY <2>1
  <2> QED
    BY <2>1, <2>2
<1>2. PICK x \in T : \A y \in T : x <= y
  <2> HIDE DEF T
  <2> QED
    BY <1>1, MinFacts
<1>3. \A y \in S : y <= n - x
  <2> SUFFICES ASSUME NEW y \in S PROVE y <= n - x
    OBVIOUS
  <2>1. y \in Nat /\ n - y \in Nat /\ n - (n - y) = y
    OBVIOUS
  <2> QED
    BY <1>2, <2>1
<1>4. n - x \in S /\ n - x \in Int /\ S \subseteq Int
  OBVIOUS
<1>5. Max(S) \in S /\ \A y \in S : Max(S) >= y
  BY <1>3, <1>4 DEF Max
<1> QED
  BY <1>4, <1>5

\* unlogged reads an initial part of what is after the cursor.
LEMMA NextLinesFacts ==
    ASSUME Typed, Cursors, NEW last \in Nat
    PROVE  /\ NextLines(last) \subseteq 1 .. nextSeq - 1 /\ Cardinality(NextLines(last)) \in Nat
           /\ \A j \in NextLines(last) : j > last
           /\ \A a \in alerts, k \in NextLines(last) : a.seq <= k => a.seq <= last \/ a.seq \in NextLines(last)
<1> DEFINE seqs == {a.seq : a \in {a \in alerts : a.seq > last}}
<1>1. NextLines(last) = {k \in seqs : Cardinality({j \in seqs : j <= k}) <= Batch}
  BY DEF NextLines
<1>2. seqs \subseteq 1 .. nextSeq - 1 /\ \A a \in alerts : a.seq > last => a.seq \in seqs
  BY DEF Cursors
<1>3. \A j \in seqs : j > last
  OBVIOUS
<1>4. IsFiniteSet(1 .. nextSeq - 1) /\ nextSeq \in Nat /\ nextSeq >= 1
  BY Facts, FS_Interval
<1> HIDE DEF seqs
<1>8. 1 .. nextSeq - 1 \subseteq Nat /\ seqs \subseteq Nat
  BY <1>2, <1>4
<1>5. NextLines(last) \subseteq 1 .. nextSeq - 1
  BY <1>1, <1>2
<1>6. Cardinality(NextLines(last)) \in Nat
  BY <1>4, <1>5, FS_Subset, FS_CardinalityType
<1>7. ASSUME NEW a \in alerts, NEW k \in NextLines(last), a.seq <= k, ~(a.seq <= last)
      PROVE  a.seq \in NextLines(last)
  <2> DEFINE A == {j \in seqs : j <= a.seq}
             K == {j \in seqs : j <= k}
  <2>1. a.seq \in Nat /\ a.seq > last /\ k \in seqs /\ Cardinality(K) <= Batch /\ k \in Nat
    <3>1. a.seq \in Nat
      BY Facts
    <3>2. k \in seqs /\ Cardinality(K) <= Batch
      BY <1>1
    <3> HIDE DEF K
    <3> QED
      BY <1>7, <1>8, <3>1, <3>2
  <2>2. a.seq \in seqs
    BY <1>2, <2>1
  <2>3. A \subseteq K /\ K \subseteq 1 .. nextSeq - 1
    <3>1. ASSUME NEW j \in seqs, j <= a.seq
          PROVE  j <= k
      <4>1. j \in Nat
        BY <1>8
      <4> QED
        BY <1>7, <2>1, <3>1, <4>1
    <3>2. K \subseteq seqs
      OBVIOUS
    <3> QED
      BY <1>2, <3>1, <3>2
  <2>4. IsFiniteSet(K)
    BY <1>4, <2>3, FS_Subset
  <2>5. Cardinality(A) <= Cardinality(K) /\ Cardinality(A) \in Nat /\ Cardinality(K) \in Nat
    <3> HIDE DEF A, K
    <3> QED
      BY <2>3, <2>4, FS_Subset, FS_CardinalityType
  <2>6. Cardinality(A) <= Batch
    <3>1. Batch \in Nat
      BY MonitorAssumption
    <3> HIDE DEF A, K
    <3> QED
      BY <2>1, <2>5, <3>1
  <2> QED
    BY <1>1, <2>2, <2>6
<1> QED
  BY <1>1, <1>3, <1>5, <1>6, <1>7

\* The loggers' steps.
LEMMA NoLogFacts ==
    ASSUME NEW late \in Nat, NEW last \in Nat, NEW pc \in {"idle", "again"}
    PROVE  /\ NoLog \in Logs /\ NoLog.pc = "idle" /\ NoLog.lines = {} /\ NoLog.late = 0
           /\ [NoLog EXCEPT !.late = late] \in Logs /\ [NoLog EXCEPT !.late = late].pc = "idle"
           /\ [NoLog EXCEPT !.late = late].lines = {} /\ [NoLog EXCEPT !.late = late].late = late
           /\ [NoLog EXCEPT !.pc = "locked", !.last = last] \in Logs
           /\ [NoLog EXCEPT !.pc = "locked", !.last = last].pc = "locked"
           /\ [NoLog EXCEPT !.pc = "locked", !.last = last].last = last
           /\ [NoLog EXCEPT !.pc = "locked", !.last = last].lines = {}
           /\ [NoLog EXCEPT !.pc = "locked", !.last = last].late = 0
           /\ [NoLog EXCEPT !.pc = pc] \in Logs /\ [NoLog EXCEPT !.pc = pc].pc = pc
           /\ [NoLog EXCEPT !.pc = pc].lines = {} /\ [NoLog EXCEPT !.pc = pc].late = 0
<1>1. /\ NoLog \in Logs /\ NoLog.pc = "idle" /\ NoLog.lines = {} /\ NoLog.late = 0
  BY DEF NoLog, Logs
<1> QED
  BY <1>1 DEF Logs

LEMMA LogTakeDoes ==
    ASSUME Typed, NEW p \in Processes, LogTake(p)
    PROVE  /\ LogOf(p) /\ log'[p].lines = {} /\ log'[p].late \in {0, log[p].late}
           /\ \/ log'[p].pc = "idle"
              \/ log'[p].pc = "locked" /\ log'[p].last = row.logged
           /\ wake' \in [Processes -> BOOLEAN]
<1> DEFINE s == [NoLog EXCEPT !.late = log[p].late]
           t == [NoLog EXCEPT !.pc = "locked", !.last = row.logged]
<1>1. log' = [log EXCEPT ![p] = IF log[p].late # 0 \/ LoggerHeld THEN s ELSE t]
  BY DEF LogTake, Typed
<1>2. /\ s \in Logs /\ s.pc = "idle" /\ s.lines = {} /\ s.late = log[p].late
      /\ t \in Logs /\ t.pc = "locked" /\ t.last = row.logged /\ t.lines = {} /\ t.late = 0
  BY Facts, NoLogFacts
<1>3. wake' \in [Processes -> BOOLEAN]
  BY DEF LogTake, Typed
<1> HIDE DEF s, t
<1> QED
  BY <1>1, <1>2, <1>3 DEF LogOf, Typed

LEMMA LogReadDoes ==
    ASSUME Typed, Cursors, NEW p \in Processes, LogRead(p)
    PROVE  /\ LogOf(p) /\ log[p].pc = "locked" /\ ~RowHeld
           /\ log'[p].late \in {0, log[p].late} /\ log'[p].lines \subseteq 1 .. nextSeq - 1
           /\ \/ log'[p].pc = "idle"
              \/ /\ log'[p].pc = "writing" /\ log'[p].lines = NextLines(log[p].last)
                 /\ log'[p].last \in NextLines(log[p].last)
<1> DEFINE lines == NextLines(log[p].last)
           s == [log[p] EXCEPT !.pc = "writing", !.lines = lines, !.n = Cardinality(lines), !.last = Max(lines)]
<1>1. log[p].pc = "locked" /\ ~RowHeld /\ log' = [log EXCEPT ![p] = IF lines = {} THEN NoLog ELSE s]
  BY DEF LogRead, Typed
<1>2. lines \subseteq 1 .. nextSeq - 1 /\ Cardinality(lines) \in Nat /\ nextSeq - 1 \in Nat
  BY Facts, NextLinesFacts
<1>3. lines # {} => Max(lines) \in lines
  <2> HIDE DEF lines
  <2> QED
    BY <1>2, MaxFacts
<1>4. CASE lines = {}
  <2>1. log' = [log EXCEPT ![p] = NoLog]
    BY <1>1, <1>4
  <2>2. NoLog \in Logs /\ NoLog.pc = "idle" /\ NoLog.lines = {} /\ NoLog.late = 0
    BY NoLogFacts
  <2> QED
    BY <1>1, <2>1, <2>2 DEF LogOf, Typed
<1>5. CASE lines # {}
  <2>1. log' = [log EXCEPT ![p] = s]
    BY <1>1, <1>5
  <2> HIDE DEF lines
  <2>2. lines \in SUBSET Nat /\ Max(lines) \in Nat
    <3>1. nextSeq \in Nat
      BY Facts
    <3>2. 1 .. nextSeq - 1 \subseteq Nat
      BY <3>1
    <3> QED
      BY <1>2, <1>3, <1>5, <3>2
  <2>3. s \in Logs /\ s.pc = "writing" /\ s.lines = lines /\ s.last = Max(lines) /\ s.late = log[p].late
    BY <1>2, <2>2, Facts DEF Logs
  <2> HIDE DEF s
  <2>4. LogOf(p) /\ log'[p] = s
    BY <2>1, <2>3 DEF LogOf, Typed
  <2> QED
    BY <1>1, <1>2, <1>3, <1>5, <2>3, <2>4 DEF lines
<1> QED
  BY <1>4, <1>5

LEMMA LogWriteDoes ==
    ASSUME Typed, Cursors, NEW p \in Processes, LogWrite(p)
    PROVE  /\ LogOf(p) /\ log[p].pc = "writing" /\ log'[p].pc = "writing" /\ log'[p].last = log[p].last
           /\ log'[p].late = log[p].late
           /\ \E k \in log[p].lines : log'[p].lines = log[p].lines \ {k} /\ written' = written \cup {k}
<1> DEFINE k == Min(log[p].lines)
           lines == log[p].lines \ {k}
           s == [log[p] EXCEPT !.lines = lines]
<1>1. k \in log[p].lines
  BY Facts, MinFacts DEF LogWrite
<1>2. log' = [log EXCEPT ![p] = s] /\ written' = written \cup {k} /\ log[p].pc = "writing"
  BY DEF LogWrite, Typed
<1> HIDE DEF k
<1>3. s \in Logs /\ s.pc = log[p].pc /\ s.lines = lines /\ s.last = log[p].last /\ s.late = log[p].late
  BY Facts DEF Logs
<1> HIDE DEF s
<1> QED
  BY <1>1, <1>2, <1>3 DEF LogOf, Typed

LEMMA WriteReturnsDoes ==
    ASSUME Typed, NEW p \in Processes, WriteReturns(p)
    PROVE  /\ LogOf(p) /\ log'[p].pc = log[p].pc /\ log'[p].last = log[p].last /\ log'[p].lines = log[p].lines
           /\ log'[p].late = 0 /\ log[p].late # 0 /\ written' = written \cup {log[p].late}
<1> DEFINE s == [log[p] EXCEPT !.late = 0]
<1>1. log' = [log EXCEPT ![p] = s] /\ log[p].late # 0 /\ written' = written \cup {log[p].late}
  BY DEF WriteReturns, Typed
<1>2. s \in Logs /\ s.pc = log[p].pc /\ s.lines = log[p].lines /\ s.last = log[p].last /\ s.late = 0
  BY Facts DEF Logs
<1> HIDE DEF s
<1> QED
  BY <1>1, <1>2 DEF LogOf, Typed

\* The steps after which a logger holds nothing.
LEMMA LogLeavesDoes ==
    ASSUME Typed, Cursors, NEW p \in Processes, LogBlocked(p) \/ LogAdvance(p) \/ LogFails(p) \/ Crash(p)
    PROVE  /\ LogOf(p) /\ log'[p].pc \in {"idle", "again"} /\ log'[p].lines = {} /\ log'[p].late \in 0 .. nextSeq - 1
<1>0. 0 \in 0 .. nextSeq - 1
  BY Facts
<1>1. CASE LogBlocked(p)
  <2> DEFINE s == [NoLog EXCEPT !.late = Min(log[p].lines)]
  <2>1. log' = [log EXCEPT ![p] = s] /\ log[p].lines # {}
    BY <1>1 DEF LogBlocked
  <2>2. Min(log[p].lines) \in log[p].lines
    BY <2>1, Facts, MinFacts
  <2>3. Min(log[p].lines) \in 0 .. nextSeq - 1 /\ Min(log[p].lines) \in Nat
    BY <2>2, Facts DEF Cursors
  <2>4. s \in Logs /\ s.pc = "idle" /\ s.lines = {} /\ s.late = Min(log[p].lines)
    BY <2>3, NoLogFacts
  <2> HIDE DEF s
  <2> QED
    BY <2>1, <2>3, <2>4 DEF LogOf, Typed
<1>2. CASE LogAdvance(p)
  <2> DEFINE pc == IF log[p].n = Batch THEN "again" ELSE "idle"
             s == [NoLog EXCEPT !.pc = pc]
  <2>1. log' = [log EXCEPT ![p] = s]
    BY <1>2 DEF LogAdvance
  <2>2. s \in Logs /\ s.pc \in {"idle", "again"} /\ s.lines = {} /\ s.late = 0
    <3>1. pc \in {"idle", "again"}
      OBVIOUS
    <3> HIDE DEF pc
    <3> QED
      BY <3>1, NoLogFacts
  <2> HIDE DEF s
  <2> QED
    BY <1>0, <2>1, <2>2 DEF LogOf, Typed
<1>3. CASE LogFails(p) \/ Crash(p)
  <2>1. log' = [log EXCEPT ![p] = NoLog]
    BY <1>3 DEF LogFails, Crash
  <2>2. NoLog \in Logs /\ NoLog.pc = "idle" /\ NoLog.lines = {} /\ NoLog.late = 0
    BY NoLogFacts
  <2> QED
    BY <1>0, <2>1, <2>2 DEF LogOf, Typed
<1> QED
  BY <1>1, <1>2, <1>3

\* The watchdogs' steps.
LEMMA NoDogFacts == NoDog \in Dogs /\ NoDog.pc = "wait"
BY DEF NoDog, Dogs, NoTime

LEMMA LookDoes ==
    ASSUME Typed, NEW p \in Processes, Look(p)
    PROVE  DogOf(p) /\ dog'[p].pc = "due"
BY DEF Typed, Look, DogOf, Dogs

LEMMA DecideAgainDoes ==
    ASSUME Typed, NEW p \in Processes, DecideAgain(p)
    PROVE  /\ DogOf(p) /\ ~RowHeld
           /\ \/ dog'[p].pc = "wait" /\ nextSeq' = nextSeq
              \/ /\ dog'[p].pc = "row" /\ dog'[p].at = now /\ dog'[p].seq = nextSeq /\ nextSeq' = nextSeq + 1
                 /\ row.progress + Stall <= now /\ row.stalled + Stall <= now
<1>1. ~RowHeld
  BY DEF DecideAgain
<1>2. CASE Due
  <2> DEFINE s == [pc |-> "row", at |-> now, seq |-> nextSeq]
  <2>1. dog' = [dog EXCEPT ![p] = s] /\ nextSeq' = nextSeq + 1
    BY <1>2 DEF DecideAgain
  <2>2. s \in Dogs /\ s.pc = "row" /\ s.at = now /\ s.seq = nextSeq
    BY Facts DEF Dogs
  <2>3. row.progress + Stall <= now /\ row.stalled + Stall <= now
    BY <1>2, Facts, MonitorAssumption DEF Due, Later
  <2> HIDE DEF s
  <2> QED
    BY <1>1, <2>1, <2>2, <2>3 DEF DogOf, Typed
<1>3. CASE ~Due
  BY <1>1, <1>3, NoDogFacts DEF DecideAgain, DogOf, Typed
<1> QED
  BY <1>2, <1>3

LEMMA DogLeavesDoes ==
    ASSUME Typed, NEW p \in Processes, Raise(p) \/ WatchdogFails(p) \/ Crash(p)
    PROVE  DogOf(p) /\ dog'[p].pc = "wait"
<1>1. dog' = [dog EXCEPT ![p] = NoDog]
  BY DEF Raise, WatchdogFails, Crash
<1> QED
  BY <1>1, NoDogFacts DEF DogOf, Typed

\* The alert that a watchdog or a pass commits.
Stalled(p) == [seq |-> dog[p].seq, kind |-> "monitor-stalled", at |-> dog[p].at, releases |-> {}, deletion |-> NoTime]
Raised(p) == [seq |-> pass[p].seq, kind |-> pass[p].kind, at |-> pass[p].at, releases |-> pass[p].names,
              deletion |-> pass[p].new.deletion]

LEMMA RaiseDoes ==
    ASSUME Typed, NEW p \in Processes, Raise(p)
    PROVE  /\ dog[p].pc = "row" /\ alerts' = alerts \cup {Stalled(p)} /\ Stalled(p) \in Alerts
           /\ row' \in Rows /\ row'.stalled = dog[p].at /\ row'.progress = row.progress /\ row'.logged = row.logged
           /\ wake' \in [Processes -> BOOLEAN]
<1>1. dog[p].pc = "row" /\ alerts' = alerts \cup {Stalled(p)} /\ row' = [row EXCEPT !.stalled = dog[p].at]
  BY DEF Raise, Stalled
<1>2. Stalled(p) \in Alerts
  BY Facts DEF Stalled, Alerts, NoTime
<1>3. row' \in Rows /\ row'.stalled = dog[p].at /\ row'.progress = row.progress /\ row'.logged = row.logged
  BY <1>1, Facts DEF Typed, Rows
<1>4. wake' \in [Processes -> BOOLEAN]
  BY DEF Raise, Typed
<1> QED
  BY <1>1, <1>2, <1>3, <1>4

LEMMA CommitDoes ==
    ASSUME Typed, NEW p \in Processes, Decided(p), Commit(p)
    PROVE  /\ pass[p].pc = "row" /\ status' = pass[p].new /\ status' \in Statuses
           /\ alerts' = (IF pass[p].kind = None THEN alerts ELSE alerts \cup {Raised(p)})
           /\ pass[p].kind # None => Raised(p) \in Alerts
           /\ row' \in Rows /\ row'.progress \in {row.progress, pass[p].progress}
           /\ row'.stalled = row.stalled /\ row'.logged = row.logged
           /\ wake' \in [Processes -> BOOLEAN]
<1>1. /\ pass[p].pc = "row" /\ status' = pass[p].new /\ row' = [row EXCEPT !.progress = Later(@, pass[p].progress)]
      /\ alerts' = (IF pass[p].kind = None THEN alerts ELSE alerts \cup {Raised(p)})
  BY DEF Commit, Raised
<1>2. pass[p].new \in Statuses
  BY <1>1 DEF Decided
<1>3. pass[p].kind # None => Raised(p) \in Alerts
  <2>1. /\ pass[p].new.deletion \in Nat /\ pass[p].kind \in Kinds /\ pass[p].names \in SUBSET Releases
        /\ pass[p].seq \in Nat /\ pass[p].at \in Nat
    BY <1>2, Facts DEF Statuses, Passes
  <2> QED
    BY <2>1 DEF Raised, Alerts
<1>4. Later(row.progress, pass[p].progress) \in {row.progress, pass[p].progress}
  BY DEF Later
<1>5. row' \in Rows /\ row'.progress \in {row.progress, pass[p].progress} /\ row'.stalled = row.stalled /\ row'.logged = row.logged
  <2>1. row \in Rows /\ row.progress \in Nat /\ pass[p].progress \in Nat
    BY Facts DEF Typed
  <2> DEFINE l == Later(row.progress, pass[p].progress)
  <2>2. l \in Nat /\ l \in {row.progress, pass[p].progress} /\ row' = [row EXCEPT !.progress = l]
    BY <1>1, <1>4, <2>1
  <2> HIDE DEF l
  <2> QED
    BY <2>1, <2>2 DEF Rows
<1>6. wake' \in [Processes -> BOOLEAN]
  BY DEF Commit, Typed
<1> QED
  BY <1>1, <1>2, <1>3, <1>5, <1>6

LEMMA LogAdvanceDoes ==
    ASSUME Typed, NEW p \in Processes, LogAdvance(p)
    PROVE  /\ log[p].pc = "writing" /\ log[p].lines = {} /\ ~RowHeld
           /\ row' \in Rows /\ row'.progress = row.progress /\ row'.stalled = row.stalled /\ row'.logged = log[p].last
BY Facts DEF LogAdvance, Typed, Rows

\* The publications' steps.
PubOf(r) == pub' \in [Releases -> Pubs] /\ \A q \in Releases \ {r} : pub'[q] = pub[q]

LEMMA BeginPublicationDoes ==
    ASSUME Typed, NEW r \in Releases, BeginPublication(r)
    PROVE  PubOf(r) /\ pub[r].pc = "none" /\ pub'[r].pc = "began"
<1> DEFINE s == [pub[r] EXCEPT !.pc = "began", !.began = now]
<1>1. pub' = [pub EXCEPT ![r] = s] /\ pub[r].pc = "none"
  BY DEF BeginPublication, Typed
<1>2. s \in Pubs /\ s.pc = "began"
  BY Facts DEF Pubs
<1> HIDE DEF s
<1> QED
  BY <1>1, <1>2 DEF Typed, PubOf

LEMMA PublicationClassifiesDoes ==
    ASSUME Typed, NEW r \in Releases, PublicationClassifies(r)
    PROVE  /\ PubOf(r) /\ pub[r].pc = "began" /\ pub'[r].pc \in {"classified", "refused"} /\ pub'[r].asOf = left.changes
           /\ pub'[r].pc = "classified" => pub'[r].res.class = "retained"
<1> DEFINE res == ClassifyAnswer(NoTime, TrueAnswer)
           pc == IF res.class = "retained" THEN "classified" ELSE "refused"
           s == [pub[r] EXCEPT !.pc = pc, !.res = res, !.asOf = left.changes]
<1>1. pub' = [pub EXCEPT ![r].pc = pc, ![r].res = res, ![r].asOf = left.changes] /\ pub[r].pc = "began"
  BY DEF PublicationClassifies
<1>2. res \in Results
  <2>1. TrueAnswer \in Answers /\ Sound(TrueAnswer)
    BY TrueAnswerFacts
  <2> QED
    BY <2>1, AnswerFacts DEF Classification
<1>3. pc \in {"classified", "refused"} /\ (pc = "classified" => res.class = "retained")
  OBVIOUS
<1> HIDE DEF res, pc
<1>4. pub' = [pub EXCEPT ![r] = s]
  BY <1>1 DEF Typed
<1>5. s \in Pubs /\ s.pc = pc /\ s.res = res /\ s.asOf = left.changes
  BY <1>2, <1>3, Facts DEF Pubs
<1> HIDE DEF s
<1>6. PubOf(r) /\ pub'[r] = s
  BY <1>4, <1>5 DEF Typed, PubOf
<1> QED
  BY <1>1, <1>3, <1>5, <1>6

LEMMA PublicationCommitsDoes ==
    ASSUME Typed, PubsStand, NEW r \in Releases, PublicationCommits(r)
    PROVE  /\ PubOf(r) /\ pub[r].pc = "classified" /\ ~StatusHeld /\ pub'[r].pc \in {"published", "refused", "elsewhere"}
           /\ pub'[r].began = pub[r].began
           /\ \/ status' = status
              \/ /\ status = NoRow /\ status' \in Statuses /\ status'.class = "retained"
                 /\ StatusFits(status', now, left.changes)
           /\ pub'[r].pc = "published" => status' # NoRow /\ ~RecordedSince(status', pub[r].began)
<1> DEFINE seeded == Seeded(status, r)
           pc == Outcome(seeded, r)
           s == [pub[r] EXCEPT !.pc = pc]
<1>1. /\ pub[r].pc = "classified" /\ ~StatusHeld /\ pub' = [pub EXCEPT ![r].pc = pc]
      /\ status' = IF pub'[r].pc = "published" THEN seeded ELSE status
  BY DEF PublicationCommits
<1>2. pc \in {"published", "refused", "elsewhere"} /\ (pc = "published" => ~RecordedSince(seeded, pub[r].began))
  BY DEF Outcome
<1>3. \/ seeded = status /\ status # NoRow
      \/ status = NoRow /\ seeded \in Statuses /\ seeded.class = "retained" /\ StatusFits(seeded, now, left.changes)
  <2>1. CASE status # NoRow
    BY <2>1 DEF Seeded
  <2>2. CASE status = NoRow
    <3>1. seeded = [class |-> "retained", reason |-> pub[r].res.reason, created |-> pub[r].res.created,
                    unknownSince |-> NoTime, persistentAt |-> NoTime, deletion |-> pub[r].res.deletion,
                    recordedAt |-> now, asOf |-> pub[r].asOf]
      BY <2>2 DEF Seeded
    <3>2. /\ pub[r].res.reason \in Reasons /\ pub[r].res.created \in Nat /\ pub[r].res.deletion \in Nat
          /\ pub[r].asOf \in Nat /\ now \in Nat /\ now >= 1 /\ NoTime \in Nat /\ left.changes <= pub[r].asOf
      BY <1>1, Facts DEF Results, NoTime, PubsStand
    <3> HIDE DEF seeded
    <3>3. seeded \in Statuses
      BY <3>1, <3>2 DEF Statuses, Classes
    <3>4. StatusFits(seeded, now, left.changes) /\ seeded.class = "retained"
      BY <3>1, <3>2 DEF StatusFits
    <3> QED
      BY <2>2, <3>3, <3>4
  <2> QED
    BY <2>1, <2>2
<1> HIDE DEF seeded, pc
<1>4. pub' = [pub EXCEPT ![r] = s]
  BY <1>1 DEF Typed
<1>5. s \in Pubs /\ s.pc = pc /\ s.began = pub[r].began
  BY <1>2, Facts DEF Pubs
<1> HIDE DEF s
<1>6. PubOf(r) /\ pub'[r] = s
  BY <1>4, <1>5 DEF Typed, PubOf
<1>7. seeded # NoRow
  BY <1>3, NoRowFacts
<1>8. CASE pc = "published"
  <2>1. status' = seeded
    BY <1>1, <1>5, <1>6, <1>8
  <2> QED
    BY <1>1, <1>2, <1>3, <1>5, <1>6, <1>7, <1>8, <2>1
<1>9. CASE pc # "published"
  <2>1. status' = status
    BY <1>1, <1>5, <1>6, <1>9
  <2> QED
    BY <1>1, <1>2, <1>5, <1>6, <1>9, <2>1
<1> QED
  BY <1>8, <1>9

-----------------------------------------------------------------------------
(* The types are kept.                                                     *)

ProcessStep(p) ==
    \/ StartPass(p) \/ PassStep(p) \/ SessionEnds(p)
    \/ Look(p) \/ WatchdogStep(p) \/ WatchdogFails(p)
    \/ LoggerStep(p) \/ LogBlocked(p) \/ WriteReturns(p) \/ LogFails(p)
    \/ Crash(p) \/ Restart(p)
WorldStep ==
    \/ Tick \/ ProviderChanges
    \/ \E r \in Releases : BeginPublication(r) \/ PublicationClassifies(r) \/ PublicationCommits(r)

LEMMA Parts ==
    ASSUME MonitorInv
    PROVE  /\ Typed /\ StatusStands /\ PubsStand /\ LocksHeld /\ RowStands
           /\ EntryNamed /\ WarnedOnce /\ StallsApart /\ LoggedAreWritten /\ Cursors /\ LogsStand
           /\ \A p \in Processes : Asked(p) /\ Decided(p)
BY DEF MonitorInv, PassesStand

\* What can become of a provider object is an object.
LEMMA ObjectTyped ==
    ASSUME Typed, ProviderChanges
    PROVE  /\ object' = Gone \/ object' \in (IF left.provider = "kv" THEN KVs ELSE Transits)
           /\ left' \in Left /\ left'.changes = left.changes - 1 /\ left.changes > 0 /\ left'.provider = left.provider
<1>1. left' \in Left /\ left'.changes = left.changes - 1 /\ left.changes > 0 /\ left'.provider = left.provider
  BY DEF Typed, ProviderChanges, Left
<1>2. [Kept EXCEPT !.created = Recreated] \in Entries /\ NoEntry \in Entries
  <2>1. NoEntry \in Entries
    BY DEF NoEntry, NoTime, Entries
  <2>2. Kept \in Entries
    BY <2>1 DEF Kept, Created, Entries
  <2> QED
    BY <2>1, <2>2 DEF Recreated, Entries
<1>3. CASE left.provider = "kv"
  <2>1. object' \in KVChanges(object) /\ (object = Gone \/ object \in KVs)
    BY <1>3 DEF ProviderChanges, Typed
  <2>2. CASE object.provider = "absent"
    <3>1. object' = KV(1, 0, TRUE, [Kept EXCEPT !.created = Recreated])
      BY <2>1, <2>2 DEF KVChanges
    <3>2. object' \in KVs
      BY <1>2, <3>1 DEF KV, KVs
    <3> QED
      BY <1>1, <1>3, <3>2
  <2>3. CASE object.provider # "absent"
    <3>1. object \in KVs
      BY <2>1, <2>3 DEF Gone
    <3>2. \/ object' = Gone \/ object' = [object EXCEPT !.entry.destroyed = TRUE] \/ object' = KV(2, 2, FALSE, NoEntry)
          \/ \E t \in {NoTime} \cup now .. left.clock : object' = [object EXCEPT !.entry.deletion = t]
      BY <2>1, <2>3 DEF KVChanges, Gone
    <3>3. {NoTime} \cup now .. left.clock \subseteq Nat
      BY Facts DEF Typed, Left, NoTime
    <3>4. KV(2, 2, FALSE, NoEntry) \in KVs
      BY <1>2 DEF KV, KVs
    <3>5. [object EXCEPT !.entry.destroyed = TRUE] \in KVs
      BY <3>1 DEF KVs, Entries
    <3>6. \A t \in Nat : [object EXCEPT !.entry.deletion = t] \in KVs
      BY <3>1 DEF KVs, Entries
    <3> QED
      BY <1>1, <1>3, <3>2, <3>3, <3>4, <3>5, <3>6
  <2> QED
    BY <2>2, <2>3
<1>4. CASE left.provider # "kv"
  <2>1. object' \in TransitChanges(object) /\ (object = Gone \/ object \in Transits)
    BY <1>4 DEF ProviderChanges, Typed
  <2>2. CASE object.provider = "absent"
    <3>1. object' = Transit(1, 0, 1, TRUE, FALSE, [Kept EXCEPT !.created = Recreated])
      BY <2>1, <2>2 DEF TransitChanges
    <3>2. object' \in Transits
      BY <1>2, <3>1 DEF Transit, Transits
    <3> QED
      BY <1>1, <1>4, <3>2
  <2>3. CASE object.provider # "absent"
    <3>1. object \in Transits
      BY <2>1, <2>3 DEF Gone
    <3> DEFINE soft == [object EXCEPT !.softDeleted = ~@]
               floor == [object EXCEPT !.minDecryption = 1, !.listed = TRUE]
    <3>2. TransitChanges(object) \subseteq {Gone, soft} \cup ({floor} \cup Floored(object, 0) \cup Floored(object, 2))
      BY <2>3, Zenon DEF TransitChanges, Gone
    <3>3. soft \in Transits /\ floor \in Transits
      BY <3>1 DEF Transits
    <3>4. ASSUME NEW available \in Nat
          PROVE  Floored(object, available) \subseteq Transits
      <4>1. \A b \in BOOLEAN : [object EXCEPT !.latest = 2, !.minAvailable = available, !.minDecryption = 2, !.listed = b] \in Transits
        BY <3>1 DEF Transits
      <4> QED
        BY <4>1, Zenon DEF Floored
    <3> HIDE DEF soft, floor
    <3>5. object' = Gone \/ object' \in Transits
      BY <2>1, <3>2, <3>3, <3>4
    <3> QED
      BY <1>1, <1>4, <3>5
  <2> QED
    BY <2>2, <2>3
<1> QED
  BY <1>3, <1>4

LEMMA TypedProcess ==
    ASSUME MonitorInv, NEW p \in Processes, ProcessStep(p)
    PROVE  Typed'
<1>1. Typed /\ StatusStands /\ Cursors /\ Asked(p) /\ Decided(p)
  BY Parts
<1>2. CASE StartPass(p)
  BY <1>1, <1>2, StartPassDoes DEF StartPass, world, PassOf, Typed
<1>3. CASE TakeLock(p)
  BY <1>1, <1>3, TakeLockDoes DEF TakeLock, world, PassOf, Typed
<1>4. CASE Ask(p)
  BY <1>1, <1>4, AskDoes DEF Ask, PassOf, Typed
<1>5. CASE LockStatus(p)
  BY <1>1, <1>5, LockStatusDoes DEF LockStatus, Classified, world, PassOf, Typed
<1>6. CASE LockRow(p)
  <2>1. nextSeq' \in Nat \ {0} /\ PassOf(p)
    BY <1>1, <1>6, LockRowDoes DEF Typed
  <2> QED
    BY <1>1, <1>6, <2>1 DEF LockRow, world, PassOf, Typed
<1>7. CASE Commit(p)
  <2>1. PassOf(p)
    BY <1>1, <1>7, LeavesDoes
  <2>2. status' \in Statuses /\ alerts' \in SUBSET Alerts /\ row' \in Rows /\ wake' \in [Processes -> BOOLEAN]
    BY <1>1, <1>7, CommitDoes DEF Typed
  <2> QED
    BY <1>1, <1>7, <2>1, <2>2 DEF Commit, world, PassOf, Typed
<1>8. CASE RecordFails(p)
  BY <1>1, <1>8, LeavesDoes DEF RecordFails, world, PassOf, Typed
<1>9. CASE Completed(p)
  BY <1>1, <1>9, CompletedDoes DEF Completed, world, PassOf, Typed
<1>10. CASE SessionEnds(p)
  BY <1>1, <1>10, SessionEndsDoes DEF SessionEnds, PassOf, Typed
<1>11. CASE Look(p)
  BY <1>1, <1>11, LookDoes DEF Look, world, DogOf, Typed
<1>12. CASE DecideAgain(p)
  <2>1. nextSeq' \in Nat \ {0} /\ DogOf(p)
    BY <1>1, <1>12, DecideAgainDoes DEF Typed
  <2> QED
    BY <1>1, <1>12, <2>1 DEF DecideAgain, world, DogOf, Typed
<1>13. CASE Raise(p)
  <2>1. DogOf(p)
    BY <1>1, <1>13, DogLeavesDoes
  <2>2. alerts' \in SUBSET Alerts /\ row' \in Rows /\ wake' \in [Processes -> BOOLEAN]
    BY <1>1, <1>13, RaiseDoes DEF Typed
  <2> QED
    BY <1>1, <1>13, <2>1, <2>2 DEF Raise, world, DogOf, Typed
<1>14. CASE WatchdogFails(p)
  BY <1>1, <1>14, DogLeavesDoes, SpendFacts DEF WatchdogFails, DogOf, Typed
<1>15. CASE LogTake(p)
  BY <1>1, <1>15, LogTakeDoes DEF LogTake, world, LogOf, Typed
<1>16. CASE LogRead(p)
  BY <1>1, <1>16, LogReadDoes DEF LogRead, world, LogOf, Typed
<1>17. CASE LogWrite(p)
  <2>1. LogOf(p) /\ written' \in SUBSET Nat
    <3>1. PICK k \in log[p].lines : LogOf(p) /\ written' = written \cup {k}
      BY <1>1, <1>17, LogWriteDoes
    <3>2. k \in Nat /\ written \subseteq Nat
      BY <1>1, <3>1, Facts DEF Typed
    <3> QED
      BY <3>1, <3>2
  <2> QED
    BY <1>1, <1>17, <2>1 DEF LogWrite, world, LogOf, Typed
<1>18. CASE LogBlocked(p)
  BY <1>1, <1>18, LogLeavesDoes, SpendFacts DEF LogBlocked, LogOf, Typed
<1>19. CASE WriteReturns(p)
  <2>1. LogOf(p) /\ written' \in SUBSET Nat
    <3>1. LogOf(p) /\ written' = written \cup {log[p].late}
      BY <1>1, <1>19, WriteReturnsDoes
    <3>2. log[p].late \in Nat /\ written \subseteq Nat
      BY <1>1, Facts DEF Typed
    <3> QED
      BY <3>1, <3>2
  <2> QED
    BY <1>1, <1>19, <2>1 DEF WriteReturns, world, LogOf, Typed
<1>20. CASE LogAdvance(p)
  BY <1>1, <1>20, LogLeavesDoes, LogAdvanceDoes DEF LogAdvance, world, LogOf, Typed
<1>21. CASE LogFails(p)
  BY <1>1, <1>21, LogLeavesDoes, SpendFacts DEF LogFails, LogOf, Typed
<1>22. CASE Crash(p)
  <2>1. PassOf(p) /\ DogOf(p) /\ LogOf(p)
    BY <1>1, <1>22, LogLeavesDoes, LeavesDoes, DogLeavesDoes
  <2>2. left' \in Left /\ left'.provider = left.provider
    BY <1>1, <1>22, SpendFacts DEF Crash
  <2> QED
    BY <1>1, <1>22, <2>1, <2>2 DEF Crash, LogOf, PassOf, DogOf, Typed
<1>23. CASE Restart(p)
  BY <1>1, <1>23, LeavesDoes DEF Restart, world, PassOf, Typed
<1> QED
  BY <1>2, <1>3, <1>4, <1>5, <1>6, <1>7, <1>8, <1>9, <1>10, <1>11, <1>12, <1>13, <1>14, <1>15, <1>16, <1>17, <1>18,
     <1>19, <1>20, <1>21, <1>22, <1>23 DEF ProcessStep, PassStep, WatchdogStep, LoggerStep

LEMMA TypedWorld ==
    ASSUME MonitorInv, WorldStep
    PROVE  Typed'
<1>1. Typed /\ PubsStand
  BY Parts
<1>2. CASE Tick
  BY <1>1, <1>2, Facts DEF Tick, processVars, Typed
<1>3. CASE ProviderChanges
  BY <1>1, <1>3, ObjectTyped DEF ProviderChanges, processVars, Typed
<1>4. ASSUME NEW r \in Releases, BeginPublication(r)
      PROVE  Typed'
  BY <1>1, <1>4, BeginPublicationDoes DEF BeginPublication, world, processVars, PubOf, Typed
<1>5. ASSUME NEW r \in Releases, PublicationClassifies(r)
      PROVE  Typed'
  BY <1>1, <1>5, PublicationClassifiesDoes DEF PublicationClassifies, world, processVars, PubOf, Typed
<1>6. ASSUME NEW r \in Releases, PublicationCommits(r)
      PROVE  Typed'
  <2>1. PubOf(r) /\ status' \in Statuses \cup {NoRow}
    BY <1>1, <1>6, PublicationCommitsDoes DEF Typed
  <2> QED
    BY <1>1, <1>6, <2>1 DEF PublicationCommits, world, processVars, PubOf, Typed
<1> QED
  BY <1>2, <1>3, <1>4, <1>5, <1>6 DEF WorldStep

-----------------------------------------------------------------------------
(* What a step may change.                                                 *)

PassMoves(p) ==
    \/ StartPass(p) \/ TakeLock(p) \/ Ask(p) \/ LockStatus(p) \/ LockRow(p) \/ Commit(p) \/ RecordFails(p)
    \/ Completed(p) \/ SessionEnds(p) \/ Crash(p) \/ Restart(p)
DogMoves(p) == Look(p) \/ DecideAgain(p) \/ Raise(p) \/ WatchdogFails(p) \/ Crash(p)
LogMoves(p) ==
    \/ LogTake(p) \/ LogRead(p) \/ LogWrite(p) \/ LogBlocked(p) \/ WriteReturns(p) \/ LogAdvance(p) \/ LogFails(p)
    \/ Crash(p)

LEMMA ProcessCases ==
    ASSUME NEW p, ProcessStep(p)
    PROVE  PassMoves(p) \/ DogMoves(p) \/ LogMoves(p)
BY DEF ProcessStep, PassStep, WatchdogStep, LoggerStep, PassMoves, DogMoves, LogMoves

LEMMA Frames ==
    ASSUME Typed, NEW p \in Processes, ProcessStep(p)
    PROVE  /\ now' = now /\ pub' = pub /\ left'.changes = left.changes
           /\ Commit(p) \/ status' = status
           /\ Commit(p) \/ Raise(p) \/ alerts' = alerts
           /\ Commit(p) \/ Completed(p) \/ Raise(p) \/ LogAdvance(p) \/ row' = row
           /\ LockRow(p) \/ DecideAgain(p) \/ nextSeq' = nextSeq
           /\ LogWrite(p) \/ WriteReturns(p) \/ written' = written
           /\ PassMoves(p) \/ pass' = pass
           /\ DogMoves(p) \/ dog' = dog
           /\ LogMoves(p) \/ log' = log
<1>0. left' = left \/ Spend => left'.changes = left.changes
  BY SpendFacts
<1>1. CASE PassMoves(p)
  <2>1. CASE Ask(p)
    BY <1>1, <2>1, AskDoes DEF Ask
  <2>2. CASE LockStatus(p)
    BY <1>1, <2>2 DEF LockStatus, Classified, world
  <2>3. CASE Crash(p)
    BY <1>0, <1>1, <2>3 DEF Crash, DogMoves, LogMoves
  <2>4. CASE SessionEnds(p)
    BY <1>0, <1>1, <2>4 DEF SessionEnds
  <2>5. CASE StartPass(p) \/ TakeLock(p) \/ LockRow(p)
    BY <1>1, <2>5 DEF StartPass, TakeLock, LockRow, world
  <2>6. CASE Commit(p) \/ RecordFails(p) \/ Completed(p) \/ Restart(p)
    BY <1>1, <2>6 DEF Commit, RecordFails, Completed, Restart, world
  <2> QED
    BY <1>1, <2>1, <2>2, <2>3, <2>4, <2>5, <2>6 DEF PassMoves
<1>2. CASE DogMoves(p)
  <2>1. CASE Look(p) \/ DecideAgain(p) \/ Raise(p)
    BY <1>2, <2>1 DEF Look, DecideAgain, Raise, world
  <2>2. CASE WatchdogFails(p)
    BY <1>0, <1>2, <2>2 DEF WatchdogFails
  <2> QED
    BY <1>1, <1>2, <2>1, <2>2 DEF DogMoves, PassMoves
<1>3. CASE LogMoves(p)
  <2>1. CASE LogTake(p) \/ LogRead(p) \/ LogWrite(p)
    BY <1>3, <2>1 DEF LogTake, LogRead, LogWrite, world
  <2>2. CASE WriteReturns(p) \/ LogAdvance(p)
    BY <1>3, <2>2 DEF WriteReturns, LogAdvance, world
  <2>3. CASE LogBlocked(p) \/ LogFails(p)
    BY <1>0, <1>3, <2>3 DEF LogBlocked, LogFails
  <2> QED
    BY <1>1, <1>3, <2>1, <2>2, <2>3 DEF LogMoves, PassMoves
<1> QED
  BY <1>1, <1>2, <1>3, ProcessCases

\* The process's own pass.
LEMMA OwnPass ==
    ASSUME MonitorInv, NEW p \in Processes, ProcessStep(p)
    PROVE  /\ \A q \in Processes \ {p} : pass'[q] = pass[q]
           /\ pass'[p].live => pass[p].live \/ ~AdvisoryHeld
           /\ pass'[p].pc \in {"status", "row"} => pass'[p].live
           /\ pass'[p].pc = "row" => pass'[p] = pass[p] \/ LockRow(p)
           /\ pass'[p].pc = "status" => pass'[p] = pass[p] \/ LockStatus(p)
           /\ pass'[p].pc = "asked" => \/ Ask(p) \/ pass'[p] = pass[p]
                                       \/ pass[p].pc = "asked" /\ pass'[p].res = pass[p].res /\ ~pass'[p].live
           /\ pass'[p].pc \in {"next", "locked", "asked", "status", "row"} => status # NoRow
<1>1. Typed /\ StatusStands /\ LocksHeld /\ Asked(p) /\ Decided(p)
  BY Parts
<1>2. CASE pass' = pass
  BY <1>1, <1>2 DEF LocksHeld, Asked
<1>3. CASE StartPass(p)
  BY <1>1, <1>3, StartPassDoes DEF PassOf
<1>4. CASE TakeLock(p)
  BY <1>1, <1>4, TakeLockDoes DEF PassOf, Asked
<1>5. CASE Ask(p)
  BY <1>1, <1>5, AskDoes DEF PassOf, Asked
<1>6. CASE LockStatus(p)
  BY <1>1, <1>6, LockStatusDoes DEF PassOf, Asked
<1>7. CASE LockRow(p)
  BY <1>1, <1>7, LockRowDoes DEF PassOf, Asked, LocksHeld
<1>8. CASE Commit(p) \/ RecordFails(p) \/ Crash(p) \/ Restart(p)
  BY <1>1, <1>8, LeavesDoes DEF PassOf
<1>9. CASE Completed(p)
  BY <1>1, <1>9, CompletedDoes DEF PassOf
<1>10. CASE SessionEnds(p)
  BY <1>1, <1>10, SessionEndsDoes DEF PassOf, Asked
<1> QED
  BY <1>1, <1>2, <1>3, <1>4, <1>5, <1>6, <1>7, <1>8, <1>9, <1>10, Frames DEF PassMoves

LEMMA OwnDog ==
    ASSUME MonitorInv, NEW p \in Processes, ProcessStep(p)
    PROVE  /\ \A q \in Processes \ {p} : dog'[q] = dog[q]
           /\ dog'[p].pc = "row" => dog'[p] = dog[p] \/ DecideAgain(p)
<1>1. Typed
  BY Parts
<1>2. CASE dog' = dog
  BY <1>2
<1>3. CASE Look(p)
  BY <1>1, <1>3, LookDoes DEF DogOf
<1>4. CASE DecideAgain(p)
  BY <1>1, <1>4, DecideAgainDoes DEF DogOf
<1>5. CASE Raise(p) \/ WatchdogFails(p) \/ Crash(p)
  BY <1>1, <1>5, DogLeavesDoes DEF DogOf
<1> QED
  BY <1>1, <1>2, <1>3, <1>4, <1>5, Frames DEF DogMoves

LEMMA OwnLog ==
    ASSUME MonitorInv, NEW p \in Processes, ProcessStep(p)
    PROVE  /\ \A q \in Processes \ {p} : log'[q] = log[q]
           /\ log'[p].lines \subseteq 1 .. nextSeq - 1 /\ log'[p].late \in 0 .. nextSeq - 1
           /\ log'[p].pc = "locked" => \/ log[p].pc = "locked" /\ log'[p].last = log[p].last
                                       \/ log'[p].last = row.logged /\ LogTake(p)
           /\ log'[p].pc = "writing" => \/ LogRead(p)
                                        \/ /\ log[p].pc = "writing" /\ log'[p].last = log[p].last
                                           /\ \A k \in log[p].lines : k \in log'[p].lines \cup written'
<1>1. Typed /\ Cursors
  BY Parts
<1>2. log[p].lines \subseteq 1 .. nextSeq - 1 /\ log[p].late \in 0 .. nextSeq - 1 /\ 0 \in 0 .. nextSeq - 1
  BY <1>1, Facts DEF Cursors
<1>3. CASE log' = log
  BY <1>2, <1>3
<1>4. CASE LogTake(p)
  BY <1>1, <1>2, <1>4, LogTakeDoes DEF LogOf
<1>5. CASE LogRead(p)
  BY <1>1, <1>2, <1>5, LogReadDoes DEF LogOf
<1>6. CASE LogWrite(p)
  BY <1>1, <1>2, <1>6, LogWriteDoes DEF LogOf
<1>7. CASE WriteReturns(p)
  BY <1>1, <1>2, <1>7, WriteReturnsDoes DEF LogOf
<1>8. CASE LogBlocked(p) \/ LogAdvance(p) \/ LogFails(p) \/ Crash(p)
  BY <1>1, <1>8, LogLeavesDoes DEF LogOf
<1> QED
  BY <1>1, <1>3, <1>4, <1>5, <1>6, <1>7, <1>8, Frames DEF LogMoves

-----------------------------------------------------------------------------
(* Each part of the invariant is kept by a process's steps.                *)

\* The row has one holder, which nobody overtakes.
LEMMA Held ==
    ASSUME MonitorInv, NEW p \in Processes
    PROVE  /\ Commit(p) => pass[p].pc = "row" /\ pass[p].live
           /\ Raise(p) => dog[p].pc = "row"
           /\ pass[p].pc = "row" \/ dog[p].pc = "row" =>
                 /\ RowHeld
                 /\ \A q \in Processes : q # p => pass[q].pc # "row" /\ dog[q].pc # "row"
           /\ ~(pass[p].pc = "row" /\ dog[p].pc = "row")
<1>1. LocksHeld
  BY Parts
<1>2. Commit(p) => pass[p].pc = "row" /\ pass[p].live
  BY <1>1 DEF Commit, LocksHeld
<1>3. Raise(p) => dog[p].pc = "row"
  BY DEF Raise
<1> QED
  BY <1>1, <1>2, <1>3 DEF LocksHeld, RowHeld

\* Alerts are only added, with the newest sequence.
LEMMA AlertsGrow ==
    ASSUME MonitorInv, NEW p \in Processes, ProcessStep(p)
    PROVE  \/ alerts' = alerts /\ ~Raise(p) /\ (Commit(p) => pass[p].kind = None)
           \/ /\ Commit(p) /\ pass[p].kind # None /\ alerts' = alerts \cup {Raised(p)} /\ Newest(Raised(p).seq)
              /\ Raised(p).seq = pass[p].seq /\ Raised(p).kind = pass[p].kind /\ Raised(p).at = pass[p].at
              /\ Raised(p).releases = pass[p].names /\ Raised(p).deletion = pass[p].new.deletion
           \/ /\ Raise(p) /\ alerts' = alerts \cup {Stalled(p)} /\ Newest(Stalled(p).seq)
              /\ Stalled(p).seq = dog[p].seq /\ Stalled(p).kind = "monitor-stalled" /\ Stalled(p).at = dog[p].at
<1>1. Typed /\ Decided(p) /\ RowStands
  BY Parts
<1>2. CASE Raise(p)
  BY <1>1, <1>2, RaiseDoes DEF Stalled, RowStands
<1>3. CASE ~Raise(p) /\ Commit(p)
  BY <1>1, <1>3, CommitDoes DEF Raised, RowStands
<1>4. CASE ~Raise(p) /\ ~Commit(p)
  BY <1>1, <1>4, Frames
<1> QED
  BY <1>2, <1>3, <1>4

LEMMA RaisedKind ==
    ASSUME Typed, NEW p \in Processes
    PROVE  pass[p].kind \in Kinds /\ pass[p].kind # "monitor-stalled"
BY Facts DEF Passes, Kinds, None

LEMMA StatusProcess ==
    ASSUME MonitorInv, NEW p \in Processes, ProcessStep(p)
    PROVE  StatusStands' /\ PubsStand'
<1>1. Typed /\ Decided(p) /\ StatusStands /\ PubsStand
  BY Parts
<1>2. now' = now /\ pub' = pub /\ left'.changes = left.changes
  BY <1>1, Frames
<1>3. PubsStand'
  BY <1>1, <1>2 DEF PubsStand
<1>4. CASE Commit(p)
  <2>1. pass[p].pc = "row" /\ status' = pass[p].new
    BY <1>1, <1>4, CommitDoes
  <2> QED
    BY <1>1, <1>2, <1>3, <2>1 DEF Decided, StatusStands, StatusFits
<1>5. CASE ~Commit(p)
  BY <1>1, <1>2, <1>3, <1>5, Frames DEF StatusStands, StatusFits
<1> QED
  BY <1>4, <1>5

LEMMA LocksProcess ==
    ASSUME MonitorInv, NEW p \in Processes, ProcessStep(p)
    PROVE  LocksHeld'
<1>1. Typed /\ LocksHeld
  BY Parts
<1>2. ASSUME NEW q \in Processes, NEW r \in Processes, pass'[q].live, pass'[r].live
      PROVE  q = r
  BY <1>1, <1>2, OwnPass DEF LocksHeld, AdvisoryHeld
<1>3. ASSUME NEW q \in Processes, pass'[q].pc \in {"status", "row"}
      PROVE  pass'[q].live
  BY <1>1, <1>3, OwnPass DEF LocksHeld
<1>4. \A q \in Processes : dog'[q].pc = "row" => dog'[q] = dog[q] \/ (q = p /\ DecideAgain(p))
  BY OwnDog
<1>5. \A q \in Processes : pass'[q].pc = "row" => pass'[q] = pass[q] \/ (q = p /\ LockRow(p))
  BY OwnPass
<1>6. DecideAgain(p) => ~RowHeld /\ pass' = pass
  BY DEF DecideAgain
<1>7. LockRow(p) => ~RowHeld /\ dog' = dog
  BY DEF LockRow
<1>8. ASSUME NEW q \in Processes, NEW r \in Processes, dog'[q].pc = "row", dog'[r].pc = "row"
      PROVE  q = r
  BY <1>1, <1>4, <1>6, <1>8 DEF LocksHeld, RowHeld
<1>9. ASSUME NEW q \in Processes, NEW r \in Processes, pass'[q].pc = "row", dog'[r].pc = "row"
      PROVE  FALSE
  <2>1. CASE q = p /\ LockRow(p)
    BY <1>7, <1>9, <2>1 DEF RowHeld
  <2>2. CASE r = p /\ DecideAgain(p)
    BY <1>6, <1>9, <2>2 DEF RowHeld
  <2> QED
    BY <1>1, <1>4, <1>5, <1>9, <2>1, <2>2 DEF LocksHeld
<1> QED
  BY <1>2, <1>3, <1>8, <1>9 DEF LocksHeld


LEMMA AskedProcess ==
    ASSUME MonitorInv, NEW p \in Processes, ProcessStep(p), NEW q \in Processes
    PROVE  Asked(q)'
<1>1. Typed /\ LocksHeld /\ Asked(q) /\ Asked(p) /\ Decided(p) /\ StatusStands
  BY Parts
<1>2. now' = now /\ pub' = pub /\ left'.changes = left.changes
  BY <1>1, Frames
<1>3. Commit(p) => status' # NoRow /\ pass[p].live /\ ~pass'[p].live /\ pass'[p].pc \in {"off", "idle", "classified"}
  BY <1>1, CommitDoes, LeavesDoes, NoRowFacts, Held
<1>4. status # NoRow => status' # NoRow
  BY <1>1, <1>3, Frames
<1>5. CASE pass'[q] = pass[q]
  <2>1. CASE Commit(p)
    <3>1. ~pass'[q].live
      BY <1>1, <1>3, <1>5, <2>1 DEF LocksHeld
    <3> QED
      BY <1>1, <1>4, <1>5, <3>1 DEF Asked
  <2>2. CASE ~Commit(p)
    BY <1>1, <1>2, <1>5, <2>2, Frames DEF Asked
  <2> QED
    BY <2>1, <2>2
<1>6. CASE q = p /\ ~Commit(p)
  <2>1. status' = status
    BY <1>1, <1>6, Frames
  <2>2. pass'[p].pc \in {"next", "locked", "asked", "status", "row"} => status' # NoRow
    BY <2>1, OwnPass
  <2>3. CASE Ask(p)
    <3>1. /\ Classification(pass'[p].res) /\ pass'[p].pc = "asked" /\ pass'[p].asOf = left.changes /\ pass[p].pc = "locked"
      BY <1>1, <2>3, AskDoes
    <3>2. status # NoRow /\ left.changes \in Nat
      BY <1>1, <1>6, <3>1, Facts DEF Asked
    <3>3. left.changes <= status.asOf
      BY <1>1, <3>2 DEF StatusStands, StatusFits
    <3> QED
      BY <1>2, <1>6, <2>1, <2>2, <3>1, <3>2, <3>3 DEF Asked, Classification
  <2>4. CASE LockStatus(p)
    <3>1. /\ pass'[p].pc = "status" /\ pass'[p].asOf = pass[p].asOf /\ pass[p].pc = "asked" /\ pass[p].live
      BY <1>1, <2>4, LockStatusDoes
    <3> QED
      BY <1>1, <1>2, <1>6, <2>1, <2>2, <3>1 DEF Asked
  <2>5. CASE LockRow(p)
    <3>1. /\ pass'[p].pc = "row" /\ pass'[p].asOf = pass[p].asOf /\ pass[p].pc = "status" /\ pass'[p].live = pass[p].live
      BY <1>1, <2>5, LockRowDoes
    <3> QED
      BY <1>1, <1>2, <1>6, <2>1, <2>2, <3>1 DEF Asked
  <2>6. CASE ~Ask(p) /\ ~LockStatus(p) /\ ~LockRow(p) /\ pass'[p] # pass[p]
    <3>1. pass'[p].pc = "asked" => pass[p].pc = "asked" /\ pass'[p].res = pass[p].res /\ ~pass'[p].live
      BY <2>6, OwnPass
    <3>2. pass'[p].pc \notin {"status", "row"}
      BY <2>6, OwnPass
    <3> QED
      BY <1>1, <1>6, <2>2, <3>1, <3>2 DEF Asked
  <2> QED
    BY <1>5, <1>6, <2>3, <2>4, <2>5, <2>6
<1>7. CASE q = p /\ Commit(p)
  BY <1>3, <1>7 DEF Asked
<1> QED
  BY <1>5, <1>6, <1>7, OwnPass

\* Nobody changes what a pass decided under the status row's lock.
LEMMA DecidedProcess ==
    ASSUME MonitorInv, NEW p \in Processes, ProcessStep(p), NEW q \in Processes
    PROVE  Decided(q)'
<1>1. Typed /\ LocksHeld /\ Asked(p) /\ Decided(q) /\ Decided(p) /\ StatusStands
  BY Parts
<1>2. now' = now /\ pub' = pub /\ left'.changes = left.changes /\ Referencing' = Referencing
  BY <1>1, Frames DEF Referencing
<1>3. Commit(p) => pass[p].live /\ pass'[p].pc \in {"off", "idle", "classified"}
  BY <1>1, LeavesDoes, Held
<1>4. SUFFICES ASSUME pass'[q].pc \in {"status", "row"}
               PROVE  Decided(q)'
  BY DEF Decided
<1>5. ~Commit(p)
  <2> SUFFICES ASSUME Commit(p)
               PROVE  FALSE
    OBVIOUS
  <2>1. q # p /\ pass'[q] = pass[q]
    BY <1>3, <1>4, OwnPass
  <2> QED
    BY <1>1, <1>3, <1>4, <2>1 DEF LocksHeld
<1>6. status' = status
  BY <1>1, <1>5, Frames
<1>7. \A a \in alerts' : a.kind = "deletion-scheduled" => a \in alerts
  BY <1>5, AlertsGrow
<1>8. CASE pass'[q] = pass[q]
  BY <1>1, <1>2, <1>6, <1>7, <1>8 DEF Decided, StatusFits
<1>9. CASE q = p /\ LockStatus(p)
  BY <1>1, <1>9, LockStatusDoes
<1>10. CASE q = p /\ LockRow(p)
  <2>1. /\ pass[q].pc = "status" /\ pass'[q].asOf = pass[q].asOf
        /\ pass'[q].new = pass[q].new /\ pass'[q].kind = pass[q].kind /\ pass'[q].at = pass[q].at
        /\ pass'[q].names = pass[q].names
    BY <1>1, <1>10, LockRowDoes
  <2> QED
    BY <1>1, <1>2, <1>6, <1>7, <2>1 DEF Decided, StatusFits
<1> QED
  BY <1>4, <1>8, <1>9, <1>10, OwnPass


\* Newest in the next state.
NewestNext(seq) ==
    /\ seq \in 1 .. nextSeq' - 1 /\ row'.logged < seq /\ \A a \in alerts' : a.seq < seq
    /\ \A q \in Processes : log'[q].pc \in {"locked", "writing"} => log'[q].last < seq

\* A sequence stays the newest while its holder has the row.
LEMMA StaysNewest ==
    ASSUME MonitorInv, NEW p \in Processes, ProcessStep(p), NEW seq, Newest(seq), RowHeld, alerts' = alerts
    PROVE  NewestNext(seq)
<1>1. Typed /\ Cursors /\ Decided(p)
  BY Parts
<1>2. nextSeq' = nextSeq
  BY <1>1, Frames, LockRowDoes, DecideAgainDoes
<1>3. row'.logged = row.logged
  BY <1>1, Frames, CommitDoes, CompletedDoes, RaiseDoes, LogAdvanceDoes
<1>4. ASSUME NEW q \in Processes, log'[q].pc \in {"locked", "writing"}
      PROVE  log'[q].last < seq
  <2>1. ~LogRead(p)
    BY <1>1, LogReadDoes
  <2> QED
    BY <1>4, <2>1, OwnLog DEF Newest
<1> QED
  BY <1>2, <1>3, <1>4 DEF Newest, NewestNext

\* The next sequence is the newest when it is taken.
LEMMA NextIsNewest ==
    ASSUME MonitorInv, nextSeq' = nextSeq + 1, row' = row, alerts' = alerts, log' = log
    PROVE  NewestNext(nextSeq)
<1>1. Typed /\ Cursors
  BY Parts
<1>2. nextSeq \in Nat /\ nextSeq >= 1 /\ \A a \in alerts : a.seq \in Nat
  BY <1>1, Facts
<1>3. nextSeq \in 1 .. nextSeq' - 1
  BY <1>2
<1>4. \A a \in alerts : a.seq < nextSeq
  BY <1>1, <1>2 DEF Cursors
<1> QED
  BY <1>1, <1>3, <1>4 DEF Cursors, NewestNext

LEMMA RowProcess ==
    ASSUME MonitorInv, NEW p \in Processes, ProcessStep(p)
    PROVE  RowStands'
<1>1. Typed /\ Cursors /\ RowStands /\ StallsApart /\ Decided(p)
  BY Parts
<1>2. now' = now /\ now \in Nat
  BY <1>1, Frames, Facts
<1>3. ASSUME NEW q \in Processes, pass'[q].pc = "row"
      PROVE  /\ pass'[q].kind # None => NewestNext(pass'[q].seq)
             /\ \A a \in alerts' : a.kind = "monitor-stalled" => a.at <= pass'[q].progress
  <2>1. CASE pass'[q] = pass[q]
    <3>1. RowHeld /\ pass[q].pc = "row"
      BY <1>3, <2>1, Held
    <3>2. ~Commit(p) /\ ~Raise(p)
      <4>1. Commit(p) => p = q
        BY <1>3, <2>1, Held
      <4>2. Commit(p) => pass'[p].pc # "row"
        BY <1>1, LeavesDoes
      <4>3. ~Raise(p)
        BY <3>1, Held
      <4> QED
        BY <1>3, <4>1, <4>2, <4>3
    <3>3. alerts' = alerts
      BY <3>2, AlertsGrow
    <3>4. pass[q].kind # None => Newest(pass[q].seq)
      BY <1>1, <3>1 DEF RowStands
    <3>5. pass[q].kind # None => NewestNext(pass[q].seq)
      BY <3>1, <3>3, <3>4, StaysNewest
    <3> QED
      BY <1>1, <2>1, <3>1, <3>3, <3>5 DEF RowStands
  <2>2. CASE q = p /\ LockRow(p)
    <3>1. /\ pass'[p].seq = nextSeq /\ pass'[p].progress = now /\ pass'[p].kind = pass[p].kind
          /\ pass[p].kind # None => nextSeq' = nextSeq + 1
      BY <1>1, <2>2, LockRowDoes
    <3>2. row' = row /\ alerts' = alerts /\ log' = log
      BY <2>2 DEF LockRow
    <3>3. pass[p].kind # None => NewestNext(pass'[p].seq)
      BY <3>1, <3>2, NextIsNewest
    <3>4. \A a \in alerts : a.kind = "monitor-stalled" => a.at <= now
      BY <1>1 DEF StallsApart
    <3> QED
      BY <2>2, <3>1, <3>2, <3>3, <3>4
  <2> QED
    BY <1>3, <2>1, <2>2, OwnPass
<1>4. ASSUME NEW q \in Processes, dog'[q].pc = "row"
      PROVE  /\ NewestNext(dog'[q].seq) /\ dog'[q].at <= now'
             /\ row'.progress + Stall <= dog'[q].at /\ row'.stalled + Stall <= dog'[q].at
  <2>1. CASE dog'[q] = dog[q]
    <3>1. RowHeld /\ dog[q].pc = "row"
      BY <1>4, <2>1, Held
    <3>2. ~Commit(p) /\ ~Raise(p) /\ ~Completed(p) /\ ~LogAdvance(p)
      <4>1. Raise(p) => p = q
        BY <3>1, Held
      <4>2. Raise(p) => dog'[p].pc # "row"
        BY <1>1, DogLeavesDoes
      <4>3. ~Commit(p)
        BY <3>1, Held
      <4>4. ~Completed(p) /\ ~LogAdvance(p)
        BY <3>1 DEF Completed, LogAdvance
      <4> QED
        BY <1>4, <4>1, <4>2, <4>3, <4>4
    <3>3. alerts' = alerts /\ row' = row
      BY <1>1, <3>2, AlertsGrow, Frames
    <3>4. NewestNext(dog[q].seq)
      BY <1>1, <3>1, <3>3, StaysNewest DEF RowStands
    <3> QED
      BY <1>1, <1>2, <2>1, <3>1, <3>3, <3>4 DEF RowStands
  <2>2. CASE q = p /\ DecideAgain(p)
    <3>1. /\ dog'[p].seq = nextSeq /\ dog'[p].at = now /\ nextSeq' = nextSeq + 1
          /\ row.progress + Stall <= now /\ row.stalled + Stall <= now
      BY <1>1, <1>4, <2>2, DecideAgainDoes
    <3>2. row' = row /\ alerts' = alerts /\ log' = log
      BY <2>2 DEF DecideAgain
    <3>3. NewestNext(dog'[p].seq)
      BY <3>1, <3>2, NextIsNewest
    <3> QED
      BY <1>2, <2>2, <3>1, <3>2, <3>3
  <2> QED
    BY <1>4, <2>1, <2>2, OwnDog
<1> QED
  BY <1>3, <1>4 DEF RowStands, Newest, NewestNext


LEMMA EntryProcess ==
    ASSUME MonitorInv, NEW p \in Processes, ProcessStep(p)
    PROVE  EntryNamed'
<1>1. Typed /\ EntryNamed /\ Decided(p) /\ StatusStands /\ Asked(p)
  BY Parts
<1>2. pub' = pub /\ Referencing' = Referencing
  BY <1>1, Frames DEF Referencing
<1>3. pass[p].kind # "monitor-stalled"
  BY <1>1, RaisedKind
<1>4. SUFFICES ASSUME status'.class \in {"lost", "blocked"}
               PROVE  \E a \in alerts' :
                         /\ a.kind = status'.class /\ a.at <= status'.recordedAt
                         /\ \A b \in alerts' : b.kind = a.kind => b.seq <= a.seq
                         /\ \A r \in Referencing : pub[r].began <= a.at => r \in a.releases
  BY <1>2 DEF EntryNamed
\* The class is not entered now.
<1>5. ASSUME status.class = status'.class, status.recordedAt <= status'.recordedAt,
             status.recordedAt \in Nat, status'.recordedAt \in Nat,
             \A b \in alerts' : b.kind = status.class => b \in alerts
      PROVE  \E a \in alerts' :
                /\ a.kind = status'.class /\ a.at <= status'.recordedAt
                /\ \A b \in alerts' : b.kind = a.kind => b.seq <= a.seq
                /\ \A r \in Referencing : pub[r].began <= a.at => r \in a.releases
  <2>1. PICK a \in alerts :
           /\ a.kind = status.class /\ a.at <= status.recordedAt
           /\ \A b \in alerts : b.kind = a.kind => b.seq <= a.seq
           /\ \A r \in Referencing : pub[r].began <= a.at => r \in a.releases
    BY <1>1, <1>4, <1>5 DEF EntryNamed
  <2>2. a \in alerts'
    BY AlertsGrow
  <2>3. a.at <= status'.recordedAt
    BY <1>1, <1>5, <2>1, Facts
  <2>4. \A b \in alerts' : b.kind = a.kind => b.seq <= a.seq
    BY <1>5, <2>1
  <2> QED
    BY <1>5, <2>1, <2>2, <2>3, <2>4
<1>6. CASE Commit(p)
  <2>1. /\ pass[p].pc = "row" /\ status' = pass[p].new /\ status' \in Statuses
    BY <1>1, <1>6, CommitDoes
  <2>2. /\ status'.recordedAt = pass[p].at /\ status.recordedAt <= pass[p].at
        /\ pass[p].kind \in {"lost", "blocked"} => status'.class = pass[p].kind /\ pass[p].names = Referencing
        /\ status'.class \in {pass[p].kind, status.class} /\ status \in Statuses
    BY <1>1, <1>4, <2>1 DEF Decided, Asked, Typed
  <2>3. CASE pass[p].kind \in {"lost", "blocked"}
    <3>1. /\ alerts' = alerts \cup {Raised(p)} /\ \A b \in alerts : b.seq < Raised(p).seq
          /\ Raised(p).kind = pass[p].kind /\ Raised(p).at = pass[p].at /\ Raised(p).releases = pass[p].names
      BY <1>6, <2>3, AlertsGrow, Held DEF Newest, None
    <3>2. Raised(p).at \in Nat /\ Raised(p).seq \in Nat
      BY <1>1, <1>6, <2>3, CommitDoes DEF Alerts, None
    <3>3. \A b \in alerts' : b.seq <= Raised(p).seq
      BY <1>1, <3>1, <3>2, Facts
    <3> QED
      BY <2>2, <2>3, <3>1, <3>2, <3>3
  <2>4. CASE pass[p].kind \notin {"lost", "blocked"}
    <3>1. status.class = status'.class
      BY <1>4, <2>2, <2>4
    <3>2. \A b \in alerts' : b.kind = status.class => b \in alerts
      BY <1>3, <1>4, <2>4, <3>1, AlertsGrow
    <3>3. status.recordedAt \in Nat /\ status'.recordedAt \in Nat
      BY <2>1, <2>2 DEF Statuses
    <3> QED
      BY <1>5, <2>2, <3>1, <3>2, <3>3
  <2> QED
    BY <2>3, <2>4
<1>7. CASE ~Commit(p)
  <2>1. status' = status
    BY <1>1, <1>7, Frames
  <2>2. status.recordedAt \in Nat
    BY <1>1, <1>4, <2>1, NoRowFacts DEF Typed, Statuses, None
  <2>3. \A b \in alerts' : b.kind = status.class => b \in alerts
    BY <1>4, <1>7, <2>1, AlertsGrow
  <2> QED
    BY <1>5, <2>1, <2>2, <2>3
<1> QED
  BY <1>6, <1>7

LEMMA WarnedProcess ==
    ASSUME MonitorInv, NEW p \in Processes, ProcessStep(p)
    PROVE  WarnedOnce'
<1>1. WarnedOnce /\ Decided(p)
  BY Parts
<1>2. CASE Commit(p) /\ alerts' = alerts \cup {Raised(p)}
  <2>1. /\ Raised(p).kind = pass[p].kind /\ Raised(p).releases = pass[p].names
        /\ Raised(p).deletion = pass[p].new.deletion
    BY DEF Raised
  <2>2. pass[p].pc = "row"
    BY <1>2, Held
  <2>3. pass[p].kind = "deletion-scheduled" =>
           \A a \in alerts : a.kind = "deletion-scheduled" /\ a.deletion = pass[p].new.deletion =>
                                a.releases \cap pass[p].names = {}
    BY <1>1, <2>2 DEF Decided
  <2> QED
    BY <1>1, <1>2, <2>1, <2>3 DEF WarnedOnce
<1>3. CASE Raise(p) /\ alerts' = alerts \cup {Stalled(p)}
  <2>1. Stalled(p).kind # "deletion-scheduled"
    BY DEF Stalled
  <2> QED
    BY <1>1, <1>3, <2>1 DEF WarnedOnce
<1>4. CASE alerts' = alerts
  BY <1>1, <1>4 DEF WarnedOnce
<1> QED
  BY <1>2, <1>3, <1>4, AlertsGrow

LEMMA StallsProcess ==
    ASSUME MonitorInv, NEW p \in Processes, ProcessStep(p)
    PROVE  StallsApart'
<1>1. Typed /\ StallsApart /\ Decided(p) /\ RowStands
  BY Parts
<1>2. now' = now /\ now \in Nat /\ Stall \in Nat /\ Stall > 0 /\ row.progress \in Nat /\ row.stalled \in Nat
  BY <1>1, Frames, Facts, MonitorAssumption
<1>3. \A a \in alerts : a.at \in Nat /\ a.seq \in Nat
  BY <1>1, Facts
<1>4. CASE Raise(p)
  <2>1. /\ dog[p].pc = "row" /\ alerts' = alerts \cup {Stalled(p)}
        /\ row'.stalled = dog[p].at /\ row'.progress = row.progress
    BY <1>1, <1>4, RaiseDoes
  <2>2. Stalled(p).seq = dog[p].seq /\ Stalled(p).at = dog[p].at
    BY DEF Stalled
  <2>3. dog[p].at \in Nat /\ dog[p].seq \in Nat
    BY <1>1, Facts
  <2>4. /\ \A a \in alerts : a.seq < dog[p].seq
        /\ dog[p].at <= now /\ row.progress + Stall <= dog[p].at /\ row.stalled + Stall <= dog[p].at
    BY <1>1, <2>1 DEF RowStands, Newest
  <2>5. ASSUME NEW a \in alerts, a.kind = "monitor-stalled"
        PROVE  /\ a.at <= row'.stalled /\ a.at <= now' /\ row'.progress \notin a.at - Stall + 1 .. a.at - 1
               /\ \A b \in alerts' : b.kind = "monitor-stalled" /\ b.seq > a.seq => b.at >= a.at + Stall
    <3>1. /\ a.at <= row.stalled /\ a.at <= now /\ row.progress \notin a.at - Stall + 1 .. a.at - 1
          /\ \A b \in alerts : b.kind = "monitor-stalled" /\ b.seq > a.seq => b.at >= a.at + Stall
      BY <1>1, <2>5 DEF StallsApart
    <3>2. a.at + Stall <= dog[p].at
      BY <1>2, <1>3, <2>3, <2>4, <3>1
    <3>3. a.at <= dog[p].at
      BY <1>2, <1>3, <2>3, <3>2
    <3>4. \A b \in alerts' : b.kind = "monitor-stalled" /\ b.seq > a.seq => b.at >= a.at + Stall
      BY <1>3, <2>1, <2>2, <2>3, <1>2, <3>1, <3>2
    <3> QED
      BY <1>2, <2>1, <3>1, <3>3, <3>4
  <2>6. row.progress \notin dog[p].at - Stall + 1 .. dog[p].at - 1
    BY <1>2, <2>3, <2>4
  <2>7. \A b \in alerts' : ~(b.seq > dog[p].seq)
    BY <1>3, <2>1, <2>2, <2>3, <2>4
  <2> QED
    BY <1>2, <2>1, <2>2, <2>3, <2>4, <2>5, <2>6, <2>7 DEF StallsApart
<1>5. CASE ~Raise(p)
  <2>1. \A a \in alerts' : a.kind = "monitor-stalled" => a \in alerts
    BY <1>1, <1>5, AlertsGrow, RaisedKind
  <2>2. row'.stalled = row.stalled
    BY <1>1, <1>5, Frames, CommitDoes, CompletedDoes, LogAdvanceDoes
  <2>3. ASSUME NEW a \in alerts, a.kind = "monitor-stalled"
        PROVE  row'.progress \notin a.at - Stall + 1 .. a.at - 1
    <3>1. row.progress \notin a.at - Stall + 1 .. a.at - 1 /\ a.at <= now
      BY <1>1, <2>3 DEF StallsApart
    <3>2. CASE Commit(p)
      <4>1. row'.progress \in {row.progress, pass[p].progress} /\ pass[p].pc = "row"
        BY <1>1, <3>2, CommitDoes
      <4>2. a.at <= pass[p].progress /\ pass[p].progress \in Nat
        BY <1>1, <2>3, <4>1, Facts DEF RowStands
      <4> QED
        BY <1>2, <1>3, <3>1, <4>1, <4>2
    <3>3. CASE Completed(p)
      <4>1. row'.progress \in {row.progress, now}
        BY <1>1, <3>3, CompletedDoes
      <4> QED
        BY <1>2, <1>3, <3>1, <4>1
    <3>4. CASE ~Commit(p) /\ ~Completed(p)
      BY <1>1, <1>5, <3>1, <3>4, Frames, LogAdvanceDoes
    <3> QED
      BY <3>2, <3>3, <3>4
  <2> QED
    BY <1>1, <1>2, <2>1, <2>2, <2>3 DEF StallsApart
<1> QED
  BY <1>4, <1>5


LEMMA LoggedProcess ==
    ASSUME MonitorInv, NEW p \in Processes, ProcessStep(p)
    PROVE  LoggedAreWritten' /\ LogsStand'
<1>1. Typed /\ LoggedAreWritten /\ LogsStand /\ Cursors /\ Decided(p)
  BY Parts
<1>2. written \subseteq written'
  BY <1>1, Frames, LogWriteDoes, WriteReturnsDoes
\* A new alert is above the cursors.
<1>3. ASSUME NEW a \in alerts', a \notin alerts
      PROVE  /\ Newest(a.seq) /\ a.seq \in Nat /\ row'.logged = row.logged /\ log' = log
  <2>1. Newest(a.seq) /\ (Commit(p) \/ Raise(p))
    BY <1>3, AlertsGrow
  <2>2. row'.logged = row.logged /\ log' = log
    <3>1. log' = log
      BY <2>1 DEF Commit, Raise
    <3> QED
      BY <1>1, <2>1, <3>1, CommitDoes, RaiseDoes
  <2> QED
    BY <2>1, <2>2 DEF Newest
<1>4. LoggedAreWritten'
  <2> SUFFICES ASSUME NEW a \in alerts', a.seq <= row'.logged
               PROVE  a.seq \in written'
    BY DEF LoggedAreWritten
  <2>1. CASE a \notin alerts
    <3>1. row.logged < a.seq /\ a.seq \in Nat /\ row'.logged = row.logged /\ row.logged \in Nat
      BY <1>1, <1>3, <2>1, Facts DEF Newest
    <3> QED
      BY <3>1
  <2>2. CASE a \in alerts /\ LogAdvance(p)
    <3>1. log[p].pc = "writing" /\ log[p].lines = {} /\ row'.logged = log[p].last
      BY <1>1, <2>2, LogAdvanceDoes
    <3> QED
      BY <1>1, <1>2, <2>2, <3>1 DEF LogsStand
  <2>3. CASE a \in alerts /\ ~LogAdvance(p)
    <3>1. row'.logged = row.logged
      BY <1>1, <2>3, Frames, CommitDoes, CompletedDoes, RaiseDoes
    <3> QED
      BY <1>1, <1>2, <2>3, <3>1 DEF LoggedAreWritten
  <2> QED
    BY <2>1, <2>2, <2>3
<1>5. ASSUME NEW q \in Processes, NEW a \in alerts', log'[q].pc \in {"locked", "writing"}, a.seq <= log'[q].last
      PROVE  a.seq \in written' \/ (log'[q].pc = "writing" /\ a.seq \in log'[q].lines)
  <2>1. CASE a \notin alerts
    <3>1. log[q].last < a.seq /\ a.seq \in Nat /\ log'[q] = log[q] /\ log[q].last \in Nat
      BY <1>1, <1>3, <1>5, <2>1, Facts DEF Newest
    <3> QED
      BY <1>5, <3>1
  <2>2. CASE a \in alerts /\ q # p
    <3>1. log'[q] = log[q]
      BY <2>2, OwnLog
    <3> QED
      BY <1>1, <1>2, <1>5, <2>2, <3>1 DEF LogsStand
  <2>3. CASE a \in alerts /\ q = p /\ log'[p].pc = "locked"
    <3>1. CASE log[p].pc = "locked" /\ log'[p].last = log[p].last
      BY <1>1, <1>2, <1>5, <2>3, <3>1 DEF LogsStand
    <3>2. CASE log'[p].last = row.logged
      BY <1>1, <1>2, <1>5, <2>3, <3>2 DEF LoggedAreWritten
    <3> QED
      BY <2>3, <3>1, <3>2, OwnLog
  <2>4. CASE a \in alerts /\ q = p /\ log'[p].pc = "writing"
    <3>1. CASE LogRead(p)
      <4>1. /\ log[p].pc = "locked" /\ log'[p].lines = NextLines(log[p].last) /\ log'[p].last \in NextLines(log[p].last)
        BY <1>1, <2>4, <3>1, LogReadDoes
      <4>2. log[p].last \in Nat
        BY <1>1, Facts
      <4>3. a.seq <= log[p].last \/ a.seq \in NextLines(log[p].last)
        BY <1>1, <1>5, <2>4, <4>1, <4>2, NextLinesFacts
      <4>4. a.seq <= log[p].last => a.seq \in written
        BY <1>1, <2>4, <4>1 DEF LogsStand
      <4> QED
        BY <1>2, <2>4, <4>1, <4>3, <4>4
    <3>2. CASE /\ log[p].pc = "writing" /\ log'[p].last = log[p].last
               /\ \A k \in log[p].lines : k \in log'[p].lines \cup written'
      BY <1>1, <1>2, <1>5, <2>4, <3>2 DEF LogsStand
    <3> QED
      BY <2>4, <3>1, <3>2, OwnLog
  <2> QED
    BY <1>5, <2>1, <2>2, <2>3, <2>4
<1> QED
  BY <1>4, <1>5 DEF LogsStand

LEMMA CursorsProcess ==
    ASSUME MonitorInv, NEW p \in Processes, ProcessStep(p)
    PROVE  Cursors'
<1>1. Typed /\ Cursors /\ Decided(p)
  BY Parts
<1>2. nextSeq \in Nat /\ nextSeq >= 1 /\ row.logged \in Nat
  BY <1>1, Facts
<1>3. nextSeq' \in {nextSeq, nextSeq + 1}
  BY <1>1, Frames, LockRowDoes, DecideAgainDoes
<1>4. 1 .. nextSeq - 1 \subseteq 1 .. nextSeq' - 1 /\ 0 .. nextSeq - 1 \subseteq 0 .. nextSeq' - 1 /\ nextSeq <= nextSeq'
  <2>1. CASE nextSeq' = nextSeq
    BY <1>2, <2>1
  <2>2. CASE nextSeq' = nextSeq + 1
    BY <1>2, <2>2
  <2> QED
    BY <1>3, <2>1, <2>2
<1>5. row'.logged < nextSeq'
  <2>1. row'.logged < nextSeq /\ row'.logged \in Nat
    BY <1>1, <1>2, Frames, CommitDoes, CompletedDoes, RaiseDoes, LogAdvanceDoes, Facts DEF Cursors
  <2> QED
    BY <1>2, <1>3, <2>1
<1>6. written' \subseteq 1 .. nextSeq - 1
  <2>1. CASE LogWrite(p)
    BY <1>1, <2>1, LogWriteDoes DEF Cursors
  <2>2. CASE WriteReturns(p)
    <3>1. log[p].late # 0 /\ written' = written \cup {log[p].late}
      BY <1>1, <2>2, WriteReturnsDoes
    <3>2. log[p].late \in 1 .. nextSeq - 1
      BY <1>1, <1>2, <3>1 DEF Cursors
    <3> QED
      BY <1>1, <3>1, <3>2 DEF Cursors
  <2> QED
    BY <1>1, <2>1, <2>2, Frames DEF Cursors
<1>7. \A a \in alerts' : a.seq \in 1 .. nextSeq - 1
  BY <1>1, AlertsGrow DEF Cursors, Newest
<1>8. ASSUME NEW q \in Processes
      PROVE  /\ log'[q].lines \subseteq 1 .. nextSeq - 1 /\ log'[q].late \in 0 .. nextSeq - 1
             /\ log'[q].pc \in {"locked", "writing"} => log'[q].last < nextSeq /\ log'[q].last \in Nat
  <2>1. CASE q # p
    BY <1>1, <2>1, OwnLog, Facts DEF Cursors
  <2>2. CASE q = p
    <3>1. LogRead(p) /\ log'[p].pc = "writing" => log'[p].last \in 1 .. nextSeq - 1
      BY <1>1, LogReadDoes, NextLinesFacts, Facts
    <3>2. log'[p].pc \in {"locked", "writing"} => log'[p].last < nextSeq /\ log'[p].last \in Nat
      BY <1>1, <1>2, <3>1, OwnLog, Facts DEF Cursors
    <3> QED
      BY <2>2, <3>2, OwnLog
  <2> QED
    BY <2>1, <2>2
<1>9. \A q \in Processes : log'[q].pc \in {"locked", "writing"} => log'[q].last < nextSeq'
  BY <1>2, <1>3, <1>8
<1> QED
  BY <1>4, <1>5, <1>6, <1>7, <1>8, <1>9 DEF Cursors

-----------------------------------------------------------------------------
(* The clock, the provider and the publications.                           *)

\* A publication changes one release, and the references only when it commits.
LEMMA Publishes ==
    ASSUME Typed, PubsStand, NEW r \in Releases, BeginPublication(r) \/ PublicationClassifies(r) \/ PublicationCommits(r)
    PROVE  /\ now' = now /\ left' = left /\ PubOf(r)
           /\ pub'[r].pc = "classified" => pub'[r].asOf = left.changes /\ pub'[r].res.class = "retained"
           /\ ~PublicationCommits(r) => Referencing' = Referencing /\ status' = status /\ pub[r].pc # "published"
<1>1. CASE BeginPublication(r)
  <2>1. now' = now /\ left' = left /\ status' = status
    BY <1>1 DEF BeginPublication, world
  <2>2. PubOf(r) /\ pub[r].pc = "none" /\ pub'[r].pc = "began"
    BY <1>1, BeginPublicationDoes
  <2>3. Referencing' = Referencing
    BY <2>2 DEF Referencing, PubOf
  <2> QED
    BY <2>1, <2>2, <2>3
<1>2. CASE PublicationClassifies(r)
  <2>1. now' = now /\ left' = left /\ status' = status
    BY <1>2 DEF PublicationClassifies, world
  <2>2. /\ PubOf(r) /\ pub[r].pc = "began" /\ pub'[r].pc \in {"classified", "refused"} /\ pub'[r].asOf = left.changes
        /\ pub'[r].pc = "classified" => pub'[r].res.class = "retained"
    BY <1>2, PublicationClassifiesDoes
  <2>3. Referencing' = Referencing
    BY <2>2 DEF Referencing, PubOf
  <2> QED
    BY <2>1, <2>2, <2>3
<1>3. CASE PublicationCommits(r)
  <2>1. now' = now /\ left' = left
    BY <1>3 DEF PublicationCommits, world
  <2> QED
    BY <1>3, <2>1, PublicationCommitsDoes
<1> QED
  BY <1>1, <1>2, <1>3

LEMMA WorldFrames ==
    ASSUME MonitorInv, WorldStep
    PROVE  /\ row' = row /\ alerts' = alerts /\ nextSeq' = nextSeq /\ pass' = pass /\ dog' = dog /\ log' = log /\ written' = written
           /\ now' \in {now, now + 1} /\ left'.changes \in Nat /\ left'.changes <= left.changes
           /\ StatusHeld => Referencing' = Referencing /\ status' = status
           /\ \/ status' = status
              \/ /\ status = NoRow /\ status' # NoRow /\ status'.class = "retained"
                 /\ StatusFits(status', now, left.changes) /\ now' = now /\ left' = left
<1>1. Typed /\ PubsStand
  BY Parts
<1>2. left.changes \in Nat
  BY <1>1, Facts
<1>3. CASE Tick
  BY <1>2, <1>3 DEF Tick, processVars, Referencing
<1>4. CASE ProviderChanges
  <2>1. left'.changes \in Nat /\ left'.changes <= left.changes
    BY <1>1, <1>2, <1>4, ObjectTyped
  <2> QED
    BY <1>4, <2>1 DEF ProviderChanges, processVars, Referencing
<1>5. ASSUME NEW r \in Releases, BeginPublication(r) \/ PublicationClassifies(r) \/ PublicationCommits(r)
      PROVE  /\ row' = row /\ alerts' = alerts /\ nextSeq' = nextSeq /\ pass' = pass /\ dog' = dog /\ log' = log /\ written' = written
             /\ now' = now /\ left' = left
             /\ StatusHeld => Referencing' = Referencing /\ status' = status
             /\ \/ status' = status
                \/ /\ status = NoRow /\ status' # NoRow /\ status'.class = "retained"
                   /\ StatusFits(status', now, left.changes)
  <2>1. /\ row' = row /\ alerts' = alerts /\ nextSeq' = nextSeq /\ pass' = pass /\ dog' = dog /\ log' = log /\ written' = written
    BY <1>5 DEF BeginPublication, PublicationClassifies, PublicationCommits, processVars
  <2>2. now' = now /\ left' = left /\ (~PublicationCommits(r) => Referencing' = Referencing /\ status' = status)
    BY <1>1, <1>5, Publishes
  <2>3. PublicationCommits(r) => ~StatusHeld
    BY <1>1, PublicationCommitsDoes
  <2>4. PublicationCommits(r) =>
             \/ status' = status
             \/ /\ status = NoRow /\ status' # NoRow /\ status'.class = "retained"
                /\ StatusFits(status', now, left.changes)
    BY <1>1, PublicationCommitsDoes, NoRowFacts
  <2> QED
    BY <2>1, <2>2, <2>3, <2>4
<1> QED
  BY <1>2, <1>3, <1>4, <1>5 DEF WorldStep

LEMMA StatusWorld ==
    ASSUME MonitorInv, WorldStep
    PROVE  StatusStands' /\ PubsStand'
<1>1. Typed /\ PubsStand /\ StatusStands
  BY Parts
<1>2. now \in Nat /\ now >= 1 /\ left.changes \in Nat
  BY <1>1, Facts
<1>3. StatusStands'
  <2>1. CASE status' = status
    <3>1. SUFFICES ASSUME status # NoRow
                   PROVE  StatusFits(status, now', left'.changes)
      BY <2>1 DEF StatusStands, StatusFits
    <3>2. StatusFits(status, now, left.changes) /\ status \in Statuses
      BY <1>1, <3>1 DEF StatusStands, Typed
    <3>3. status.recordedAt \in Nat /\ status.asOf \in Nat
      BY <3>2 DEF Statuses
    <3>4. status.recordedAt \in 1 .. now' /\ left'.changes <= status.asOf
      <4>1. status.recordedAt \in 1 .. now /\ left.changes <= status.asOf
        BY <3>2 DEF StatusFits
      <4>2. now' \in {now, now + 1} /\ left'.changes \in Nat /\ left'.changes <= left.changes
        BY WorldFrames
      <4> QED
        BY <1>2, <3>3, <4>1, <4>2
    <3> QED
      BY <3>2, <3>4 DEF StatusFits
  <2>2. CASE status' # status
    BY <2>2, WorldFrames DEF StatusStands, StatusFits
  <2> QED
    BY <2>1, <2>2
<1>4. PubsStand'
  <2>1. CASE Tick
    BY <1>1, <2>1 DEF Tick, PubsStand
  <2>2. CASE ProviderChanges
    <3>1. pub' = pub /\ left'.changes = left.changes - 1
      BY <1>1, <2>2, ObjectTyped DEF ProviderChanges
    <3>2. \A r \in Releases : pub[r].asOf \in Nat
      BY <1>1, Facts
    <3> QED
      BY <1>1, <1>2, <3>1, <3>2 DEF PubsStand
  <2>3. ASSUME NEW r \in Releases, BeginPublication(r) \/ PublicationClassifies(r) \/ PublicationCommits(r)
        PROVE  PubsStand'
    <3>1. /\ left' = left /\ PubOf(r)
          /\ pub'[r].pc = "classified" => pub'[r].asOf = left.changes /\ pub'[r].res.class = "retained"
      BY <1>1, <2>3, Publishes
    <3> QED
      BY <1>1, <1>2, <3>1 DEF PubsStand, PubOf
  <2> QED
    BY <2>1, <2>2, <2>3 DEF WorldStep
<1> QED
  BY <1>3, <1>4

LEMMA PassesWorld ==
    ASSUME MonitorInv, WorldStep, NEW q \in Processes
    PROVE  Asked(q)' /\ Decided(q)'
<1>1. Typed /\ Asked(q) /\ Decided(q)
  BY Parts
<1>2. pass' = pass /\ alerts' = alerts /\ now' \in {now, now + 1} /\ left'.changes \in Nat /\ left'.changes <= left.changes
  BY WorldFrames
<1>3. /\ now \in Nat /\ left.changes \in Nat /\ pass[q].asOf \in Nat
      /\ pass[q].new \in Statuses => pass[q].new.recordedAt \in Nat /\ pass[q].new.asOf \in Nat
  BY <1>1, Facts DEF Statuses
<1>4. status # NoRow => status' = status
  BY WorldFrames
<1>5. Asked(q)'
  <2>1. left.changes <= pass[q].asOf => left'.changes <= pass[q].asOf
    BY <1>2, <1>3
  <2> QED
    BY <1>1, <1>2, <1>4, <2>1 DEF Asked
<1>6. Decided(q)'
  <2> SUFFICES ASSUME pass[q].pc \in {"status", "row"}
               PROVE  Decided(q)'
    BY <1>2 DEF Decided
  <2>1. Referencing' = Referencing /\ status' = status
    BY WorldFrames DEF StatusHeld
  <2>2. pass[q].new \in Statuses /\ StatusFits(pass[q].new, now, left.changes)
    BY <1>1 DEF Decided
  <2>3. pass[q].new.recordedAt \in 1 .. now' /\ left'.changes <= pass[q].new.asOf
    <3>1. pass[q].new.recordedAt \in 1 .. now /\ left.changes <= pass[q].new.asOf
      BY <2>2 DEF StatusFits
    <3> QED
      BY <1>2, <1>3, <2>2, <3>1
  <2>4. StatusFits(pass[q].new, now', left'.changes)
    BY <2>2, <2>3 DEF StatusFits
  <2> QED
    BY <1>1, <1>2, <2>1, <2>4 DEF Decided, StatusFits
<1> QED
  BY <1>5, <1>6

\* A publication that commits began after what is recorded, when that is not retained.
LEMMA EntryWorld ==
    ASSUME MonitorInv, WorldStep
    PROVE  EntryNamed'
<1>1. Typed /\ PubsStand /\ EntryNamed
  BY Parts
<1>2. SUFFICES ASSUME status'.class \in {"lost", "blocked"}
               PROVE  \E a \in alerts' :
                         /\ a.kind = status'.class /\ a.at <= status'.recordedAt
                         /\ \A b \in alerts' : b.kind = a.kind => b.seq <= a.seq
                         /\ \A r \in Referencing' : pub'[r].began <= a.at => r \in a.releases
  BY DEF EntryNamed
<1>3. status' = status /\ alerts' = alerts
  BY <1>2, WorldFrames
<1>4. PICK a \in alerts :
         /\ a.kind = status.class /\ a.at <= status.recordedAt
         /\ \A b \in alerts : b.kind = a.kind => b.seq <= a.seq
         /\ \A r \in Referencing : pub[r].began <= a.at => r \in a.releases
  BY <1>1, <1>2, <1>3 DEF EntryNamed
<1>5. status.recordedAt \in Nat /\ a.at \in Nat
  BY <1>1, <1>2, <1>3, NoRowFacts, Facts DEF Typed, Statuses, None
<1>6. \A r \in Referencing' : pub'[r].began <= a.at => r \in a.releases
  <2>1. CASE pub' = pub
    BY <1>4, <2>1 DEF Referencing
  <2>2. ASSUME NEW q \in Releases, BeginPublication(q) \/ PublicationClassifies(q) \/ PublicationCommits(q)
        PROVE  \A r \in Referencing' : pub'[r].began <= a.at => r \in a.releases
    <3> SUFFICES ASSUME NEW r \in Referencing', pub'[r].began <= a.at
                 PROVE  r \in a.releases
      OBVIOUS
    <3>1. r \in Releases /\ pub'[r].pc = "published"
      BY DEF Referencing
    <3>2. CASE r # q
      <4>1. pub'[r] = pub[r]
        BY <1>1, <2>2, <3>1, <3>2, Publishes DEF PubOf
      <4> QED
        BY <1>4, <3>1, <4>1 DEF Referencing
    <3>3. CASE r = q /\ ~PublicationCommits(q)
      <4>1. Referencing' = Referencing /\ pub[q].pc # "published"
        BY <1>1, <2>2, <3>3, Publishes
      <4> QED
        BY <3>1, <3>3, <4>1 DEF Referencing
    <3>4. CASE r = q /\ PublicationCommits(q)
      <4>1. pub'[q].began = pub[q].began /\ ~RecordedSince(status, pub[q].began)
        BY <1>1, <1>3, <3>1, <3>4, PublicationCommitsDoes
      <4>2. ~(status.recordedAt >= pub[q].began)
        BY <1>2, <1>3, <4>1 DEF RecordedSince
      <4>3. pub[q].began \in Nat
        BY <1>1, Facts
      <4> QED
        BY <1>4, <1>5, <3>4, <4>1, <4>2, <4>3
    <3> QED
      BY <3>2, <3>3, <3>4
  <2>3. Tick \/ ProviderChanges => pub' = pub
    BY DEF Tick, ProviderChanges
  <2> QED
    BY <2>1, <2>2, <2>3 DEF WorldStep
<1> QED
  BY <1>3, <1>4, <1>6

LEMMA RestWorld ==
    ASSUME MonitorInv, WorldStep
    PROVE  LocksHeld' /\ RowStands' /\ WarnedOnce' /\ StallsApart' /\ LoggedAreWritten' /\ Cursors' /\ LogsStand'
<1>1. Typed /\ LocksHeld /\ RowStands /\ WarnedOnce /\ StallsApart /\ LoggedAreWritten /\ Cursors /\ LogsStand
  BY Parts
<1>2. /\ row' = row /\ alerts' = alerts /\ nextSeq' = nextSeq /\ pass' = pass /\ dog' = dog /\ log' = log /\ written' = written
      /\ now' \in {now, now + 1}
  BY WorldFrames
<1>3. \A x \in Nat : x <= now => x <= now'
  BY <1>1, <1>2, Facts
<1>4. LocksHeld' /\ WarnedOnce' /\ LoggedAreWritten' /\ Cursors' /\ LogsStand'
  BY <1>1, <1>2 DEF LocksHeld, WarnedOnce, LoggedAreWritten, Cursors, LogsStand
<1>5. RowStands'
  <2>1. \A p \in Processes : dog[p].at \in Nat
    BY <1>1, Facts
  <2> QED
    BY <1>1, <1>2, <1>3, <2>1 DEF RowStands, Newest
<1>6. StallsApart'
  <2>1. \A a \in alerts : a.at \in Nat
    BY <1>1, Facts
  <2> QED
    BY <1>1, <1>2, <1>3, <2>1 DEF StallsApart
<1> QED
  BY <1>4, <1>5, <1>6

-----------------------------------------------------------------------------
(* The invariant.                                                          *)

LEMMA InitEstablishes ==
    ASSUME Init
    PROVE  MonitorInv
<1>1. left \in Left
  BY MonitorAssumption DEF Init, Left
<1>2. now = 1 /\ status = NoRow /\ alerts = {} /\ nextSeq = 1 /\ written = {}
  BY DEF Init
<1>3. row \in Rows /\ row.logged = 0
  BY DEF Init, Rows, NoTime
<1>4. Result(None, None) \in Results
  BY DEF Result, Results, NoTime, Reasons
<1>5. pub \in [Releases -> Pubs] /\ \A r \in Releases : pub[r].pc = "none"
  <2> DEFINE s == [pc |-> "none", began |-> NoTime, res |-> Result(None, None), asOf |-> 0]
  <2>1. s \in Pubs /\ s.pc = "none"
    BY <1>4 DEF Pubs, NoTime
  <2>2. pub = [r \in Releases |-> s]
    BY DEF Init
  <2> HIDE DEF s
  <2> QED
    BY <2>1, <2>2
<1>6. pass \in [Processes -> Passes] /\ \A p \in Processes : pass[p].pc = "idle" /\ ~pass[p].live
  <2>1. NoPass("idle") \in Passes /\ NoPass("idle").pc = "idle" /\ NoPass("idle").live = FALSE
    BY NoPassFacts
  <2>2. pass = [p \in Processes |-> NoPass("idle")]
    BY DEF Init
  <2> QED
    BY <2>1, <2>2
<1>7. dog \in [Processes -> Dogs] /\ \A p \in Processes : dog[p].pc = "wait"
  BY NoDogFacts DEF Init
<1>8. log \in [Processes -> Logs] /\ \A p \in Processes : log[p].pc = "idle" /\ log[p].lines = {} /\ log[p].late = 0
  BY NoLogFacts DEF Init
<1>9. wake \in [Processes -> BOOLEAN]
  BY DEF Init
<1>10. object \in (IF left.provider = "kv" THEN KVs ELSE Transits)
  <2>1. NoEntry \in Entries
    BY DEF NoEntry, NoTime, Entries
  <2>2. Kept \in Entries
    BY <2>1 DEF Kept, Created, Entries
  <2>3. KV(1, 0, TRUE, Kept) \in KVs /\ Transit(1, 0, 1, TRUE, FALSE, Kept) \in Transits
    BY <2>2 DEF KV, KVs, Transit, Transits
  <2> QED
    BY <2>3 DEF Init
<1>11. Typed
  BY <1>1, <1>2, <1>3, <1>5, <1>6, <1>7, <1>8, <1>9, <1>10 DEF Typed
<1>12. StatusStands /\ PubsStand /\ LocksHeld /\ PassesStand /\ RowStands
  BY <1>2, <1>5, <1>6, <1>7 DEF StatusStands, PubsStand, LocksHeld, PassesStand, Asked, Decided, RowStands
<1>13. EntryNamed /\ WarnedOnce /\ StallsApart /\ LoggedAreWritten /\ LogsStand
  BY <1>2, <1>8, NoRowFacts DEF EntryNamed, WarnedOnce, StallsApart, LoggedAreWritten, LogsStand, None
<1>14. Cursors
  BY <1>2, <1>3, <1>8 DEF Cursors
<1> QED
  BY <1>11, <1>12, <1>13, <1>14 DEF MonitorInv

LEMMA StepKeeps ==
    ASSUME MonitorInv, [Next]_vars
    PROVE  MonitorInv'
<1>1. ASSUME NEW p \in Processes, ProcessStep(p)
      PROVE  MonitorInv'
  <2>1. PassesStand'
    BY <1>1, AskedProcess, DecidedProcess DEF PassesStand
  <2> QED
    BY <1>1, <2>1, TypedProcess, StatusProcess, LocksProcess, RowProcess, EntryProcess, WarnedProcess, StallsProcess,
       LoggedProcess, CursorsProcess DEF MonitorInv
<1>2. CASE WorldStep
  <2>1. PassesStand'
    BY <1>2, PassesWorld DEF PassesStand
  <2> QED
    BY <1>2, <2>1, TypedWorld, StatusWorld, EntryWorld, RestWorld DEF MonitorInv
<1>3. CASE UNCHANGED vars
  BY <1>3 DEF vars, MonitorInv, Typed, StatusStands, StatusFits, PubsStand, LocksHeld, PassesStand, Asked, Decided, RowStands,
     Newest, Referencing, EntryNamed, WarnedOnce, StallsApart, LoggedAreWritten, Cursors, LogsStand
<1>4. Next => WorldStep \/ \E p \in Processes : ProcessStep(p)
  BY DEF Next, WorldStep, ProcessStep
<1> QED
  BY <1>1, <1>2, <1>3, <1>4

LEMMA Invariance == Spec => []MonitorInv
<1>1. Init => MonitorInv
  BY InitEstablishes
<1>2. MonitorInv /\ [Next]_vars => MonitorInv'
  BY StepKeeps
<1> QED
  BY <1>1, <1>2, PTL DEF Spec

LEMMA AtMostOne ==
    ASSUME NEW S, \A x, y \in S : x = y
    PROVE  Cardinality(S) <= 1
<1>1. CASE S = {}
  BY <1>1, FS_EmptySet
<1>2. CASE S # {}
  <2>1. PICK x \in S : S = {x}
    BY <1>2
  <2> QED
    BY <2>1, FS_Singleton
<1> QED
  BY <1>1, <1>2

LEMMA AlertsFollow ==
    ASSUME MonitorInv
    PROVE  AlertsTrue
<1>1. Typed /\ StatusStands /\ LocksHeld /\ EntryNamed /\ WarnedOnce /\ StallsApart /\ Cursors
  BY Parts
<1>2. TypeOK
  <2>1. Cardinality({p \in Processes : pass[p].live}) <= 1
    BY <1>1, AtMostOne DEF LocksHeld
  <2>2. status.class \in {None, "retained", "blocked", "lost", "unknown"}
    BY <1>1, NoRowFacts DEF Typed, Statuses, Classes
  <2>3. status # NoRow => (status.class = "unknown" <=> status.unknownSince # NoTime) /\ status.recordedAt \in 1 .. now
    BY <1>1 DEF StatusStands, StatusFits
  <2>4. row.logged < nextSeq /\ written \subseteq 1 .. nextSeq - 1 /\ {a.seq : a \in alerts} \subseteq 1 .. nextSeq - 1
    BY <1>1 DEF Cursors
  <2> QED
    BY <2>1, <2>2, <2>3, <2>4 DEF TypeOK
<1>3. status.class \in {"lost", "blocked"} =>
          \E a \in {a \in alerts : a.kind = status.class} :
             /\ \A b \in alerts : b.kind = a.kind => b.seq <= a.seq
             /\ \A r \in Referencing : pub[r].began <= a.at => r \in a.releases
  BY <1>1 DEF EntryNamed
<1>4. \A a, b \in {a \in alerts : a.kind = "deletion-scheduled"} :
          a # b /\ a.deletion = b.deletion => a.releases \cap b.releases = {}
  BY <1>1 DEF WarnedOnce
<1>5. \A a \in {a \in alerts : a.kind = "monitor-stalled"} :
          /\ row.progress \notin a.at - Stall + 1 .. a.at - 1
          /\ \A b \in alerts : b.kind = a.kind /\ b.seq > a.seq => b.at >= a.at + Stall
  BY <1>1 DEF StallsApart
<1> QED
  BY <1>2, <1>3, <1>4, <1>5 DEF AlertsTrue

LEMMA OrderFollows ==
    ASSUME MonitorInv, [Next]_vars, status # NoRow
    PROVE  status'.asOf <= status.asOf
<1>1. status.asOf \in Nat
  BY Parts DEF Typed, Statuses
<1>2. CASE status' = status
  BY <1>1, <1>2
<1>3. ASSUME NEW p \in Processes, Commit(p)
      PROVE  status'.asOf <= status.asOf
  <2>1. Typed /\ Asked(p) /\ Decided(p) /\ pass[p].live
    BY <1>3, Parts, Held
  <2>2. pass[p].pc = "row" /\ status' = pass[p].new
    BY <1>3, <2>1, CommitDoes
  <2> QED
    BY <2>1, <2>2 DEF Asked, Decided
<1>4. ASSUME NEW p \in Processes, ProcessStep(p)
      PROVE  Commit(p) \/ status' = status
  BY <1>4, Parts, Frames
<1>5. WorldStep => status' = status
  BY WorldFrames
<1>6. Next => WorldStep \/ \E p \in Processes : ProcessStep(p)
  BY DEF Next, WorldStep, ProcessStep
<1> QED
  BY <1>2, <1>3, <1>4, <1>5, <1>6 DEF vars

-----------------------------------------------------------------------------
\* What the dependency alerts say is true, for every number of processes, releases and provider
\* changes and every interval (monitor.go classifyOne and record, watchdog.go, publish.go
\* recheckStatuses): the alert of the class recorded names every release classified before it, a
\* release is warned of one scheduled time once, and stall alerts are Stall apart, with no progress
\* before each.
THEOREM AlertsSayWhatIs == Spec => []AlertsTrue
<1>1. MonitorInv => AlertsTrue
  BY AlertsFollow
<1> QED
  BY <1>1, Invariance, PTL

\* A classification never replaces one of a later answer (monitor.go record on the session of the
\* advisory lock): a pass records only on the session that it asked under, however long it stopped.
THEOREM RecordedInOrder == Spec => AnswersInOrder
<1>1. MonitorInv /\ [Next]_vars => [status # NoRow => status'.asOf <= status.asOf]_vars
  BY OrderFollows
<1> QED
  BY <1>1, Invariance, PTL DEF Spec, AnswersInOrder

\* The log's cursor never passes an alert whose line is not written (logger.go logBatch, unlogged,
\* advance): not for a sequence that commits late, a batch cut short, a write that returns after
\* its batch, or a process that ends between a line and the cursor.
THEOREM CursorAfterLines == Spec => []LoggedAreWritten
<1>1. MonitorInv => LoggedAreWritten
  BY DEF MonitorInv
<1> QED
  BY <1>1, Invariance, PTL

=============================================================================
