------------------------------- MODULE Tokens -------------------------------
(***************************************************************************)
(* Automation tokens and the revocation of identities (internal/auth       *)
(* tokens.go, identity.go; internal/api revocations.go), and the list of   *)
(* acts they leave (acts.go).                                              *)
(*                                                                         *)
(* The token tool and the server's identity revocation run beside each     *)
(* other on one database. A transaction checks its humans before it        *)
(* begins, then takes its locks one by one: the installation state, shared *)
(* by the tool's and exclusive for a revocation, the principals in the     *)
(* order of their ids, and last the act-order lock, under which the act    *)
(* gets its place in the list. What it writes is seen when it commits. The *)
(* server's other requests leave acts too, and share the installation      *)
(* state and the act-order lock with the tool.                             *)
(***************************************************************************)
EXTENDS Integers, Sequences, FiniteSets, FiniteSetsExt

CONSTANTS
    Humans, Services,   \* principals: their ids, which order the locks
    Listed,             \* principals that deniedSubjects may list
    Txs,                \* a bound: the transactions
    MaxEpoch,           \* a bound: recovery entries
    ActPage             \* acts on a page (the limit of the request)

ASSUME TokensAssumption ==
    /\ Humans \subseteq Nat \ {0} /\ Services \subseteq Nat \ {0} /\ Humans \cap Services = {}
    /\ Listed \subseteq Humans \cup Services /\ MaxEpoch \in Nat \ {0} /\ ActPage \in Nat \ {0}

VARIABLES
    denied,    \* deniedSubjects of the configuration
    rows,      \* the service identities that have a principal row
    revoked,   \* principal.revoked
    token,     \* automation_token of a service, in the order issued
    current,   \* installation_state.epoch
    acts,      \* the acts committed
    next,      \* the sequence that numbers acts
    tx,        \* each transaction
    reader     \* a reader of the list of acts: the cursor, and what it was shown

tokensVars == <<denied, rows, revoked, token, current, acts, next, tx, reader>>

Principals == Humans \cup Services

NoTx == [pc |-> "idle", action |-> "token.issue", by |-> 0, on |-> 0, human |-> 0,
         epoch |-> 0, seq |-> 0]

TokensInit ==
    /\ denied \in SUBSET Listed
    /\ rows \in SUBSET Services
    /\ revoked = [p \in Principals |-> FALSE]
    /\ token = [s \in Services |-> IF s \in rows THEN <<[epoch |-> 1, revoked |-> FALSE]>> ELSE <<>>]
    /\ current = 1 /\ acts = {} /\ next = 1
    /\ tx = [t \in Txs |-> NoTx]
    /\ reader = [after |-> 0, shown |-> {}]

-----------------------------------------------------------------------------
Issues(a) == a \in {"token.issue", "token.rotate"}
Exclusive(t) == tx[t].action = "identity.revoke"

\* Held from the lock to the end of the transaction.
HoldsEpoch(t) == tx[t].pc \in {"lock", "order", "commit"}
HoldsOrder(t) == tx[t].pc = "commit"

\* The principals a transaction locks: an issue creates its service's row instead.
Locks(t) == ({tx[t].by, tx[t].human} \cup (IF tx[t].action = "token.issue" THEN {} ELSE {tx[t].on})) \ {0}
Held(t) == IF tx[t].pc \in {"order", "commit"} THEN Locks(t) ELSE {}

\* EnsureHuman, and the authentication of a human: neither denied nor revoked.
Admitted(h) == h \notin denied /\ ~revoked[h]

Others(t) == Txs \ {t}
Ended(t) == tx' = [tx EXCEPT ![t] = [NoTx EXCEPT !.pc = "over"]]

\* Issue, Rotate, Revoke and the route of a revocation, up to BEGIN: what they check without a lock.
\* A service's name is denied with its id; a token command that names a human changes nothing.
Begin(t, a, h, r, p) ==
    /\ tx[t].pc = "idle"
    /\ Admitted(h)
    /\ a # "identity.revoke" => p \in Services
    /\ a = "token.issue" => p \notin denied /\ Admitted(r)
    /\ a = "token.rotate" => p \notin denied
    /\ a # "token.issue" => r = h
    /\ tx' = [tx EXCEPT ![t] = [NoTx EXCEPT !.pc = "epoch", !.action = a, !.by = h, !.on = p, !.human = r]]
    /\ UNCHANGED <<denied, rows, revoked, token, current, acts, next, reader>>

\* Any other mutating request, up to BEGIN: who makes it and what it does are other modules'.
BeginRequest(t) ==
    /\ tx[t].pc = "idle"
    /\ tx' = [tx EXCEPT ![t] = [NoTx EXCEPT !.pc = "epoch", !.action = "request"]]
    /\ UNCHANGED <<denied, rows, revoked, token, current, acts, next, reader>>

\* lockEpoch, and lookup of an exclusive route: the installation state FOR SHARE or FOR UPDATE.
LockEpoch(t) ==
    /\ tx[t].pc = "epoch"
    /\ \A u \in Others(t) : HoldsEpoch(u) => ~Exclusive(t) /\ ~Exclusive(u)
    /\ tx' = [tx EXCEPT ![t].pc = "lock"]
    /\ UNCHANGED <<denied, rows, revoked, token, current, acts, next, reader>>

\* Whether the row p can be locked: the principal acted on FOR UPDATE, the humans FOR SHARE.
RowFree(t, p) == \A u \in Others(t) : p \in Held(u) => p # tx[t].on /\ p # tx[u].on

\* A service's row that another transaction has inserted and not committed: the entry in the index
\* of names makes a second insert wait.
Inserting(u, s) == tx[u].pc \in {"order", "commit"} /\ tx[u].action = "token.issue" /\ tx[u].on = s

Live(s) == {i \in DOMAIN token[s] : ~token[s][i].revoked}

\* Defect: the humans are only checked before the transaction.
HumansUnread(t) == TRUE

\* Who acts and who answers for the service are read again, under their locks.
HumansStand(t) == \A p \in Locks(t) : p # tx[t].on => ~revoked[p]

\* What is checked under the locks: no human is revoked by now; an issue's name is free, a rotation
\* is of a service that is neither revoked nor denied, a token's revocation finds one to revoke, a
\* revocation is of somebody not revoked.
Stands(t) ==
    LET s == tx[t].on IN
    /\ HumansStand(t)
    /\ CASE tx[t].action = "token.issue" -> s \notin rows
         [] tx[t].action = "token.rotate" -> s \in rows /\ ~revoked[s] /\ s \notin denied
         [] tx[t].action = "token.revoke" -> s \in rows /\ Live(s) # {}
         [] tx[t].action = "request" -> TRUE
         [] OTHER -> s \in Humans \cup rows /\ ~revoked[s]

\* lockPrincipals and revokeIdentity lock the rows one by one in the order of their ids, so nobody
\* waits in a circle and a row once read stays as it was: one step stands for all, and for what is
\* written under the locks. A token's row holds the epoch read here.
LockPrincipals(t) ==
    /\ tx[t].pc = "lock"
    /\ \A p \in Locks(t) : RowFree(t, p)
    /\ tx[t].action = "token.issue" => \A u \in Others(t) : ~Inserting(u, tx[t].on)
    /\ IF Stands(t) THEN tx' = [tx EXCEPT ![t].pc = "order", ![t].epoch = current] ELSE Ended(t)
    /\ UNCHANGED <<denied, rows, revoked, token, current, acts, next, reader>>

\* Defect: no act-order lock.
OrderUnlocked(t) == TRUE

OrderFree(t) == \A u \in Others(t) : ~HoldsOrder(u)

\* LockActOrder and recordToolAct, or the end of attempt: the last lock, then the act's number.
LockActOrder(t) ==
    /\ tx[t].pc = "order"
    /\ OrderFree(t)
    /\ tx' = [tx EXCEPT ![t].pc = "commit", ![t].seq = next]
    /\ next' = next + 1
    /\ UNCHANGED <<denied, rows, revoked, token, current, acts, reader>>

\* revokeTokens: every token of s that is not revoked.
Withdrawn(s) == [i \in DOMAIN token[s] |-> [token[s][i] EXCEPT !.revoked = TRUE]]

\* What the transaction wrote is seen, the act with it.
CommitTx(t) ==
    LET a == tx[t].action
        s == tx[t].on
    IN /\ tx[t].pc = "commit"
       /\ rows' = IF a = "token.issue" THEN rows \cup {s} ELSE rows
       /\ revoked' = IF Exclusive(t) THEN [revoked EXCEPT ![s] = TRUE] ELSE revoked
       /\ token' = IF s \notin Services THEN token
                   ELSE [token EXCEPT ![s] = Withdrawn(s) \o
                           (IF Issues(a) THEN <<[epoch |-> tx[t].epoch, revoked |-> FALSE]>> ELSE <<>>)]
       /\ acts' = acts \cup {[seq |-> tx[t].seq, action |-> a, by |-> tx[t].by, on |-> s,
                              human |-> tx[t].human, epoch |-> tx[t].epoch]}
       /\ Ended(t)
       /\ UNCHANGED <<denied, current, next, reader>>

\* The transaction is rolled back: an error, a lost connection, the tool stopped. The act's number
\* is not used again.
Rollback(t) ==
    /\ HoldsEpoch(t)
    /\ Ended(t)
    /\ UNCHANGED <<denied, rows, revoked, token, current, acts, next, reader>>

\* A recovery entry, which takes the installation state FOR UPDATE and records an act of its own.
EnterEpoch ==
    /\ current < MaxEpoch
    /\ \A t \in Txs : ~HoldsEpoch(t)
    /\ current' = current + 1
    /\ acts' = acts \cup {[seq |-> next, action |-> "recovery.enter", by |-> 0, on |-> 0, human |-> 0,
                           epoch |-> current + 1]}
    /\ next' = next + 1
    /\ UNCHANGED <<denied, rows, revoked, token, tx, reader>>

\* readActs: the acts after the cursor, in the order of their numbers, up to the limit; when there
\* are more, the last one listed is the next cursor, and else the reader asks with the same one
\* again. The installation state is taken FOR SHARE.
ReadActs ==
    /\ \A t \in Txs : HoldsEpoch(t) => ~Exclusive(t)
    /\ LET after == {a.seq : a \in acts} \cap {n \in 1 .. next : n > reader.after}
           shown == {n \in after : Cardinality({m \in after : m < n}) < ActPage}
       IN /\ shown # {}
          /\ reader' = [after |-> IF shown = after THEN reader.after ELSE Max(shown),
                        shown |-> reader.shown \cup shown]
    /\ UNCHANGED <<denied, rows, revoked, token, current, acts, next, tx>>

TxStep(t) ==
    \/ \E h, r \in Humans, p \in Principals :
          \E a \in {"token.issue", "token.rotate", "token.revoke", "identity.revoke"} : Begin(t, a, h, r, p)
    \/ BeginRequest(t) \/ LockEpoch(t) \/ LockPrincipals(t) \/ LockActOrder(t)
    \/ CommitTx(t) \/ Rollback(t)

TokensNext == (\E t \in Txs : TxStep(t)) \/ EnterEpoch \/ ReadActs

TokensSpec == TokensInit /\ [][TokensNext]_tokensVars

-----------------------------------------------------------------------------
\* A revocation is final, whatever was checked before it: along the list of acts, nobody who was
\* revoked acts, answers for a new service or is issued a token; a revoked service has no token
\* that is not revoked, and no service has two (lockPrincipals, RevokeIdentity, Rotate).
RevokedStaysOut ==
    /\ \A a, b \in acts : a.action = "identity.revoke" /\ a.seq < b.seq =>
          /\ a.on \notin {b.by, b.human}
          /\ Issues(b.action) => a.on # b.on
    /\ \A s \in Services : Cardinality(Live(s)) <= (IF revoked[s] THEN 0 ELSE 1)

\* The list of acts is read in the order it is recorded: a reader who pages by the last act listed
\* has seen every act before it, those that commit later included, and along the list the epoch
\* never goes back (LockActOrder, readActs, lockEpoch).
ActsInOrder ==
    /\ \A a \in acts : a.seq <= reader.after => a.seq \in reader.shown
    /\ \A a, b \in acts : a.seq < b.seq => a.epoch <= b.epoch
=============================================================================
