------------------------------ MODULE Requests ------------------------------
(***************************************************************************)
(* How the server runs a mutating request (internal/api api.go, tx.go,     *)
(* idempotency.go): authentication and routing, the idempotency lookup,    *)
(* the one transaction under the key's lock that holds the effect, the act *)
(* and the record, and the read-back that settles a COMMIT whose reply was *)
(* lost.                                                                   *)
(*                                                                         *)
(* The module follows every send of one logical write: all of them carry   *)
(* one idempotency key, so a record is found by its principal alone. A     *)
(* transaction that has sent its COMMIT goes on in the database whatever   *)
(* becomes of the request; until it ends it holds the key's lock, the      *)
(* installation state FOR SHARE and the draft.                             *)
(***************************************************************************)
EXTENDS Integers, FiniteSets, Sequences

CONSTANTS
    Sends,        \* a bound: the sends of the write
    Principals,
    Inputs,       \* request bodies, told apart by their fingerprint
    MaxEpoch,     \* a bound: recovery entries
    Limits,       \* bounds, one chosen by Init: faults (deaths, lapses, backups, restores, entries
                  \* and the work of others), attempts (tx.go maxAttempts), sends, and the repeats
                  \* (len(backoff)) and runs of the client
    NoRecord

Record == [by : Sends, input : Inputs, tag : Nat, epoch : 1 .. MaxEpoch, status : {"ok", "refused"}]

ASSUME RequestsAssumption ==
    /\ Sends \subseteq Nat \ {0} /\ IsFiniteSet(Sends)
    /\ MaxEpoch \in Nat \ {0}
    /\ \A l \in Limits : /\ l.faults \in Nat /\ l.repeats \in Nat /\ l.sends \in Nat
                        /\ l.attempts \in Nat \ {0} /\ l.runs \in Nat \ {0}
    /\ Principals # {} /\ Inputs # {} /\ NoRecord \notin Record

VARIABLES
    route,     \* the kind of write: "plain", "draft" (takes If-Match) or "fragment" (also ingests)
    service,   \* the credential is a service token, issued in epoch 1
    epoch,     \* installation_state.epoch
    draft,     \* the draft's ETag
    etags,     \* ETags minted so far: a random token, so none comes back
    blocked,   \* the effect refuses for the state it finds: a publication is active, say
    record,    \* idempotency_record of the key, by principal
    claim,     \* the send whose staging claim for the principal and key is live, or 0
    backup,    \* the draft and the records of the latest backup
    req,       \* each send as the server runs it
    commits,   \* history: the inputs whose effect committed
    limits,
    left       \* what is left of limits.faults

rows == <<draft, record, claim>>
Rest == <<limits, route, service, epoch, draft, etags, blocked, record, claim, backup, req, commits>>
serverVars == <<Rest, left>>

Replies == {"ok", "unauthenticated", "forbidden", "superseded", "unavailable", "internal", "ingesting",
            "earlier", "mismatch", "reused", "moved", "conflict", "stored"}

\* A send the client has not made; who, expected, ifMatch and input are its headers and body.
NoSend == [pc |-> "unsent", who |-> CHOOSE p \in Principals : TRUE, expected |-> 1, ifMatch |-> 0,
           input |-> CHOOSE i \in Inputs : TRUE, seen |-> NoRecord, tries |-> 0, tx |-> "none",
           stores |-> "ok", reply |-> "ok", replayed |-> FALSE,
           heard |-> TRUE, overtook |-> FALSE]

RequestInit ==
    /\ route \in {"plain", "draft", "fragment"}
    /\ service \in BOOLEAN
    /\ epoch = 1 /\ draft = 1 /\ etags = 1
    /\ blocked \in BOOLEAN
    /\ record = [p \in Principals |-> NoRecord]
    /\ claim = [p \in Principals |-> 0]
    /\ backup = <<draft, record>>
    /\ req = [h \in Sends |-> NoSend]
    /\ commits = <<>> /\ limits \in Limits /\ left = limits.faults

-----------------------------------------------------------------------------
Running(h) == req[h].pc \notin {"unsent", "answered", "gone"}
Open(h) == req[h].tx = "open"

\* pg_advisory_xact_lock of the principal and key.
KeyFree(p) == ~\E g \in Sends : req[g].who = p /\ Open(g)

\* Every row but the send's own state.
Rows == <<limits, route, service, epoch, draft, etags, blocked, record, claim, backup, commits, left>>

\* A send that is over: only a transaction that sent its COMMIT goes on.
Over(r) == IF r.tx = "open" THEN [r EXCEPT !.pc = "gone"] ELSE [NoSend EXCEPT !.pc = "gone"]

\* a.problem and a.answer: the answer is written, and lost if the client hung up. It can overtake
\* an earlier send that still runs.
Answer(h, code, replayed) ==
    req' = [req EXCEPT ![h] = IF req[h].heard
                              THEN [@ EXCEPT !.pc = "answered", !.reply = code, !.replayed = replayed,
                                             !.overtook = \E g \in Sends : g < h /\ Running(g)]
                              ELSE Over(@)]

\* One more fault of the bounded number.
Spend == left > 0 /\ left' = left - 1

Step(h, pc) == req' = [req EXCEPT ![h].pc = pc]

\* staleToken: a service token is good in the epoch it was issued in.
StaleToken == service /\ epoch # 1

\* same: the recorded request is this one. If-Match is part of the fingerprint.
Same(h, r) == r.input = req[h].input /\ r.tag = req[h].ifMatch

\* answer, for a key with the record r: an earlier epoch's is 409, another request's 422, this
\* one's is its stored response, a stored refusal included. A keyed record of a digest-key version
\* that the provider no longer computes under cannot be compared, and reads as another request's.
Recorded(h, r) ==
    \/ r.epoch # epoch /\ Answer(h, "earlier", FALSE)
    \/ r.epoch = epoch /\ ~Same(h, r) /\ Answer(h, "reused", FALSE)
    \/ r.epoch = epoch /\ route = "fragment" /\ Answer(h, "reused", FALSE)
    \/ r.epoch = epoch /\ Same(h, r) /\ Answer(h, IF r.status = "ok" THEN "ok" ELSE "stored", TRUE)

-----------------------------------------------------------------------------
\* ServeHTTP, handle, preconditions: authenticate, read the installation state, check the role,
\* and refuse what this process may not serve, all before any lookup. Then the first lookup takes
\* its snapshot; the statement waits for an entry that holds the installation state, so it can read
\* a later epoch than the record's snapshot.
Route(h) ==
    /\ req[h].pc = "arrived"
    /\ \/ ~StaleToken /\ req' = [req EXCEPT ![h].pc = "looking", ![h].seen = record[req[h].who]]
       \/ Answer(h, "unauthenticated", FALSE)
       \/ \E code \in {"forbidden", "unavailable"} : Answer(h, code, FALSE)
    /\ UNCHANGED Rows

\* mutate: what the lookup without the key's lock says. An epoch mismatch is looked up again.
Looked(h) ==
    /\ req[h].pc = "looking"
    /\ \/ StaleToken /\ Answer(h, "unauthenticated", FALSE)
       \/ ~StaleToken /\ req[h].seen # NoRecord /\ Recorded(h, req[h].seen)
       \/ ~StaleToken /\ req[h].seen = NoRecord /\ req[h].expected # epoch /\ Step(h, "relook")
       \/ /\ ~StaleToken /\ req[h].seen = NoRecord /\ req[h].expected = epoch
          /\ Step(h, IF route = "fragment" THEN "prepare" ELSE "begin")
       \/ Answer(h, "unavailable", FALSE)
    /\ UNCHANGED Rows

\* lookup under the key's lock, whose record cannot change meanwhile.
Found(h) == record[req[h].who]
Claimed(h) == claim[req[h].who]
Refuses(h) ==
    \/ StaleToken /\ Answer(h, "unauthenticated", FALSE)
    \/ ~StaleToken /\ Found(h) # NoRecord /\ Recorded(h, Found(h))
    \/ ~StaleToken /\ Found(h) = NoRecord /\ req[h].expected # epoch /\ Answer(h, "mismatch", FALSE)
Admits(h) == ~StaleToken /\ Found(h) = NoRecord /\ req[h].expected = epoch

\* mutate: the lookup again, under the lock. The epoch moves only forward, so it refuses.
Relook(h) ==
    /\ req[h].pc = "relook" /\ KeyFree(req[h].who)
    /\ Refuses(h)
    /\ UNCHANGED Rows

\* lockDraft: the draft at the request's If-Match, with no publication of it active.
LockDraft(h) == IF draft # req[h].ifMatch THEN "moved" ELSE IF blocked THEN "conflict" ELSE "ok"

\* prepareFragment's claim transaction: a record is the transaction's to answer, a live claim of
\* the key refuses, and so does the draft check; otherwise the claim is created.
Prepare(h) ==
    /\ req[h].pc = "prepare" /\ KeyFree(req[h].who) /\ ~\E g \in Sends : Open(g)
    /\ \/ Found(h) # NoRecord /\ Step(h, "begin") /\ UNCHANGED claim
       \/ Found(h) = NoRecord /\ ~Admits(h) /\ Refuses(h) /\ UNCHANGED claim
       \/ Admits(h) /\ Claimed(h) # 0 /\ Answer(h, "ingesting", FALSE) /\ UNCHANGED claim
       \/ /\ Admits(h) /\ Claimed(h) = 0 /\ LockDraft(h) # "ok"
          /\ Answer(h, LockDraft(h), FALSE) /\ UNCHANGED claim
       \/ Admits(h) /\ Claimed(h) = 0 /\ LockDraft(h) = "ok" /\ Step(h, "begin") /\ claim' = [claim EXCEPT ![req[h].who] = h]
    /\ UNCHANGED <<limits, route, service, epoch, draft, etags, blocked, record, backup, commits, left>>

\* attempt, to the COMMIT it sends: the key's lock first, the lookup under it, the effect, the act
\* and the record. A fragment write that is refused after its claim exists stores the refusal and
\* abandons the claim.
Commit(h, stores) ==
    req' = [req EXCEPT ![h].pc = "committing", ![h].tx = "open", ![h].stores = stores]

Effect(h) ==
    \/ route = "plain" /\ blocked /\ Answer(h, "conflict", FALSE)
    \/ route = "plain" /\ ~blocked /\ Commit(h, "ok")
    \/ route = "draft" /\ LockDraft(h) # "ok" /\ Answer(h, LockDraft(h), FALSE)
    \/ route = "draft" /\ LockDraft(h) = "ok" /\ Commit(h, "ok")
    \/ route = "fragment" /\ Claimed(h) = h /\ LockDraft(h) = "ok" /\ Commit(h, "ok")
    \/ route = "fragment" /\ Claimed(h) = h /\ Commit(h, "refused")   \* the draft moved, or the document is refused
    \/ route = "fragment" /\ Claimed(h) # h /\ Answer(h, "internal", FALSE)   \* the claim ended meanwhile

\* prepareFragment: a failure of the extraction that a dependency caused abandons the claim.
ExtractFails(h) ==
    /\ req[h].pc = "begin" /\ req[h].tries = 0 /\ Claimed(h) = h
    /\ \E code \in {"unavailable", "internal"} : Answer(h, code, FALSE)
    /\ claim' = [claim EXCEPT ![req[h].who] = 0]
    /\ UNCHANGED <<limits, route, service, epoch, draft, etags, blocked, record, backup, commits, left>>

Attempt(h) ==
    /\ req[h].pc = "begin" /\ KeyFree(req[h].who)
    /\ \/ Refuses(h)
       \/ Admits(h) /\ (route # "plain" => ~\E g \in Sends : Open(g)) /\ Effect(h)
       \/ /\ req[h].tries + 1 < limits.attempts           \* a deadlock, retried whole
          /\ req' = [req EXCEPT ![h].tries = @ + 1]
       \/ Answer(h, "unavailable", FALSE)                     \* the last deadlock, or a lost connection
       \/ Answer(h, "superseded", FALSE)                      \* a process of an earlier epoch
    /\ UNCHANGED Rows

Ended(r, tx) == IF r.pc = "gone" THEN Over([r EXCEPT !.tx = tx]) ELSE [r EXCEPT !.tx = tx]

\* The database ends the transaction, whether or not its client still listens.
EndTx(h) ==
    /\ Open(h)
    /\ \/ /\ req' = [req EXCEPT ![h] = Ended(@, "aborted")]
          /\ UNCHANGED <<draft, etags, record, claim, commits>>
       \/ /\ req' = [req EXCEPT ![h] = Ended(@, "committed")]
          /\ record' = [record EXCEPT ![req[h].who] = [by |-> h, input |-> req[h].input, tag |-> req[h].ifMatch,
                                                       epoch |-> epoch, status |-> req[h].stores]]
          /\ claim' = IF Claimed(h) = h THEN [claim EXCEPT ![req[h].who] = 0] ELSE claim
          /\ commits' = IF req[h].stores = "ok" THEN Append(commits, req[h].input) ELSE commits
          /\ IF req[h].stores = "ok" /\ route # "plain"
             THEN draft' = etags + 1 /\ etags' = etags + 1
             ELSE UNCHANGED <<draft, etags>>
    /\ UNCHANGED <<limits, route, service, epoch, blocked, backup, left>>

\* The COMMIT's reply: done, or the database's definitive rollback.
CommitReply(h) ==
    /\ req[h].pc = "committing"
    /\ \/ req[h].tx = "committed" /\ Answer(h, IF req[h].stores = "ok" THEN "ok" ELSE "stored", FALSE)
       \/ req[h].tx = "aborted" /\ Answer(h, "internal", FALSE)
    /\ UNCHANGED Rows

\* The reply was lost: read back.
CommitLost(h) ==
    /\ req[h].pc = "committing" /\ Step(h, "resolving")
    /\ UNCHANGED Rows

\* Defect: the record is read back without the key's lock, beside a COMMIT that goes on.
ReadBackUnlocked(h) ==
    \/ Found(h) # NoRecord /\ Found(h).by = h /\ Answer(h, IF Found(h).status = "ok" THEN "ok" ELSE "stored", FALSE)
    \/ (Found(h) # NoRecord => Found(h).by # h) /\ Answer(h, "unavailable", FALSE)

\* resolveCommit: under the key's lock, which the transaction holds until it ends, the record
\* carries this request's id only if it committed. Past the bound the outcome is unknown.
ReadBack(h) ==
    /\ KeyFree(req[h].who)
    /\ \/ Found(h) # NoRecord /\ Found(h).by = h /\ Answer(h, IF Found(h).status = "ok" THEN "ok" ELSE "stored", FALSE)
       \/ (Found(h) # NoRecord => Found(h).by # h) /\ Answer(h, "unavailable", FALSE)
ResolveCommit(h) ==
    /\ req[h].pc = "resolving"
    /\ ReadBack(h) \/ Answer(h, "internal", FALSE)
    /\ UNCHANGED Rows

\* The process dies, or gives up a request whose client hung up: what had sent no COMMIT is rolled
\* back, and nobody answers.
Die(h) ==
    /\ Running(h) /\ Spend
    /\ req' = [req EXCEPT ![h] = Over(@)]
    /\ UNCHANGED <<limits, route, service, epoch, rows, etags, blocked, backup, commits>>

\* A claim whose heartbeats stopped lapses, and the sweep or a repeat abandons it, whether or not
\* its request still runs; a transaction at its COMMIT holds the claim.
LapseClaim ==
    /\ Spend
    /\ \E p \in Principals :
         /\ claim[p] # 0 /\ ~Open(claim[p])
         /\ claim' = [claim EXCEPT ![p] = 0]
    /\ UNCHANGED <<limits, route, service, epoch, draft, etags, blocked, record, backup, req, commits>>

-----------------------------------------------------------------------------
\* Another request writes the draft.
OtherWrite ==
    /\ Spend /\ ~\E g \in Sends : Open(g)
    /\ draft' = etags + 1 /\ etags' = etags + 1
    /\ UNCHANGED <<limits, route, service, epoch, blocked, record, claim, backup, req, commits>>

\* What the effect depends on changes, for better or worse.
OtherChange ==
    /\ Spend /\ ~\E g \in Sends : Open(g)
    /\ blocked' = ~blocked
    /\ UNCHANGED <<limits, route, service, epoch, draft, etags, record, claim, backup, req, commits>>

TakeBackup ==
    /\ Spend /\ backup' = <<draft, record>>
    /\ UNCHANGED <<limits, route, service, epoch, draft, etags, blocked, record, claim, req, commits>>

\* A recovery entry over the database as it stands; requests of earlier processes run on. It waits
\* for every transaction that holds the installation state.
Enter ==
    /\ Spend /\ epoch < MaxEpoch /\ ~\E g \in Sends : Open(g)
    /\ epoch' = epoch + 1
    /\ UNCHANGED <<limits, route, service, draft, etags, blocked, record, claim, backup, req, commits>>

\* The database is restored from the backup and recovery mode entered; a restore stops every
\* process. An entry that a restore lost takes its record with it.
Restore ==
    /\ Spend /\ epoch < MaxEpoch
    /\ epoch' = epoch + 1
    /\ draft' = backup[1] /\ record' = backup[2] /\ claim' = [p \in Principals |-> 0]
    /\ req' = [h \in Sends |-> IF Running(h) \/ Open(h)
                               THEN Over([req[h] EXCEPT !.tx = "aborted"])
                               ELSE req[h]]
    /\ UNCHANGED <<limits, route, service, etags, blocked, backup, commits>>

ServerStep ==
    \/ \E h \in Sends : \/ Route(h) \/ Looked(h) \/ Relook(h) \/ Prepare(h)
                        \/ ExtractFails(h) \/ Attempt(h) \/ EndTx(h) \/ CommitReply(h) \/ CommitLost(h) \/ ResolveCommit(h)
                        \/ Die(h)
    \/ LapseClaim \/ OtherWrite \/ OtherChange \/ TakeBackup \/ Enter \/ Restore
=============================================================================
