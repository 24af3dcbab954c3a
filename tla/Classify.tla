------------------------------- MODULE Classify ------------------------------
(***************************************************************************)
(* The classification of a monitored provider object version from one      *)
(* answer to one metadata request (internal/classify classify.go). The     *)
(* monitored version is version 1; times are the seconds that the Date     *)
(* header counts in, from 1 on, and 0 is a time that is not given.         *)
(***************************************************************************)
EXTENDS Integers

Version == 1
None == "none"
NoTime == 0
NoEntry == [created |-> NoTime, deletion |-> NoTime, destroyed |-> FALSE]

\* What the provider keeps of the object and answers as its metadata. listed says that the
\* version's entry is among the versions or keys; a Transit entry is a creation time alone.
KV(current, oldest, listed, entry) ==
    [provider |-> "kv", current |-> current, oldest |-> oldest, listed |-> listed, entry |-> entry]
Transit(latest, available, decryption, listed, soft, entry) ==
    [provider |-> "transit", latest |-> latest, minAvailable |-> available, minDecryption |-> decryption,
     listed |-> listed, softDeleted |-> soft, entry |-> entry]

Result(class, reason) == [class |-> class, reason |-> reason, created |-> NoTime, deletion |-> NoTime]

\* The row for an answer that is not a 200.
statusReason(a) ==
    CASE a.status = "none" -> "unreachable"
      [] a.status = "403" -> "denied"
      [] a.status = "404" -> "absent"
      [] a.status = "503" -> "unavailable"
      [] a.status = "500" -> "unreadable"
      [] OTHER -> None

\* The entry of the recorded identity: its deletion time against the answer's Date, to the second.
deletionResult(entry, date) ==
    [(CASE entry.deletion = NoTime -> Result("retained", None)
        [] entry.deletion # NoTime /\ date \in {NoTime, entry.deletion} -> Result("unknown", "deletion-time-undecidable")
        [] entry.deletion # NoTime /\ date # NoTime /\ entry.deletion < date -> Result("blocked", "soft-deleted")
        [] OTHER -> Result("retained", "deletion-scheduled"))
      EXCEPT !.created = entry.created, !.deletion = entry.deletion]

\* created is the recorded creation time, or NoTime when publication classifies for the first time.
classifyKV(created, data, date) ==
    IF data.listed /\ data.entry.destroyed THEN Result("lost", "destroyed")
    ELSE IF data.oldest > 0 /\ Version < data.oldest THEN Result("lost", "pruned")
    ELSE IF Version > data.current \/ ~data.listed THEN Result("unknown", "insufficient-evidence")
    ELSE IF data.entry.created = NoTime \/ created \notin {NoTime, data.entry.created}
         THEN Result("unknown", "identity-mismatch")
    ELSE deletionResult(data.entry, date)

classifyTransit(created, data) ==
    LET belowAvailable == data.minAvailable > 0 /\ Version < data.minAvailable
        belowDecryption == Version < data.minDecryption
        Dated(r) == [r EXCEPT !.created = data.entry.created]
    IN  IF data.listed /\ created \notin {NoTime, data.entry.created} THEN Result("unknown", "identity-mismatch")
        ELSE IF data.softDeleted THEN Result("unknown", "soft-delete-unobserved")
        ELSE IF Version > data.latest THEN Result("unknown", "insufficient-evidence")
        ELSE IF ~data.listed
             THEN Result("unknown", CASE belowAvailable -> "trimmed-unverified"
                                      [] ~belowAvailable /\ belowDecryption -> "below-decryption-floor-unverified"
                                      [] OTHER -> "insufficient-evidence")
        ELSE Dated(CASE belowAvailable -> Result("lost", "trimmed")
                     [] ~belowAvailable /\ belowDecryption -> Result("blocked", "below-decryption-floor")
                     [] OTHER -> Result("retained", None))

\* An answer has its status, its Date, NoTime when unreadable, and its body, if that can be read.
ClassifyAnswer(created, a) ==
    IF statusReason(a) # None THEN Result("unknown", statusReason(a))
    ELSE IF ~a.readable THEN Result("unknown", "unreadable")
    ELSE IF a.body.provider = "kv" THEN classifyKV(created, a.body, a.date)
    ELSE classifyTransit(created, a.body)

=============================================================================
