------------------------------- MODULE Write --------------------------------
(***************************************************************************)
(* One logical write as bronzewardctl sends it (internal/client write.go,  *)
(* with client.go's reads and credentials.go's renewal): the checks before *)
(* the first send, its repeats under the same key after an answer that     *)
(* leaves the outcome open, what it reports in the end, and the operator's *)
(* later repeat of a write whose outcome was reported unknown. The server  *)
(* is Requests; the network loses requests and answers, and a component in *)
(* front of the server answers in its place. The recovery entry, the one   *)
(* write sent without an epoch, is Recovery's.                             *)
(***************************************************************************)
EXTENDS Requests

VARIABLES
    store,   \* the principal of the stored sign-in, which another process can replace
    kept,    \* the draft's ETag and the epoch of the reads the write is built from
    cli      \* the process

writeVars == <<store, kept, cli>>
vars == <<serverVars, writeVars>>

Outcomes == {"none", "done", "refused", "moved", "stored", "not done", "unknown", "set aside",
             "set aside, ambiguous", "not sent", "repeat refused"}

\* token is the principal the credential names, who and ref the ones the write is sent under.
Process(run, p) ==
    [run |-> run, pc |-> "start", token |-> p, who |-> p, ref |-> 1, ifMatch |-> 0,
     input |-> CHOOSE i \in Inputs : TRUE, try |-> 0, ambiguous |-> run > 1, renewed |-> FALSE, waited |-> FALSE,
     send |-> 0, out |-> "none", overtook |-> FALSE]

\* One type invariant: the server's rows, its sends and the process.
TypeOK ==
    /\ epoch \in 1 .. MaxEpoch /\ draft \in 1 .. etags /\ claim \in [Principals -> {0} \cup Sends]
    /\ record \in [Principals -> Record \cup {NoRecord}]
    /\ \A h \in Sends : req[h].pc \in {"unsent", "arrived", "looking", "relook", "prepare", "begin",
                                       "committing", "resolving", "answered", "gone"}
                        /\ req[h].reply \in Replies /\ req[h].tries \in 0 .. limits.attempts
                        /\ (Open(h) => req[h].pc \in {"committing", "resolving", "answered", "gone"})
    /\ \A i \in 1 .. Len(commits) : commits[i] \in Inputs
    /\ cli.pc \in {"start", "context", "ready", "waiting", "repeat", "over"}
    /\ cli.try \in 0 .. limits.repeats /\ cli.out \in Outcomes /\ (cli.out = "none" <=> cli.pc # "over")

WriteInit ==
    /\ RequestInit
    /\ store = (CHOOSE p \in Principals : TRUE)
    /\ kept = [epoch |-> 1, tag |-> 1]
    /\ cli = Process(1, store)

-----------------------------------------------------------------------------
Ends(c, out) == cli' = [c EXCEPT !.pc = "over", !.out = out]

\* after: a refusal, unless an earlier attempt was ambiguous.
After(c) == Ends(c, IF c.ambiguous THEN "unknown" ELSE "refused")

SetAside(c) == Ends(c, IF c.ambiguous THEN "set aside, ambiguous" ELSE "set aside")

\* The loop of Send goes round: another repeat, or the report once all are used up.
Again(c) ==
    IF c.try < limits.repeats THEN cli' = [c EXCEPT !.pc = "repeat", !.try = @ + 1, !.overtook = FALSE]
    ELSE Ends(c, IF c.ambiguous THEN "unknown" ELSE "not done")

\* renew, under the store's lock: adopt the sign-in that another process stored, or refresh.
Renewed(c) == [c EXCEPT !.token = store]

\* CheckRepeat: the operator's repeat is sent as the same principal in the same epoch, or not at all.
CheckRepeat ==
    /\ cli.pc = "start"
    /\ \/ cli.run > 1 /\ (cli.token # cli.who \/ epoch # cli.ref) /\ Ends(cli, "repeat refused")
       \/ cli.run > 1 /\ Ends(cli, "repeat refused")                       \* the confirming read failed
       \/ (cli.run > 1 => cli.token = cli.who /\ epoch = cli.ref) /\ cli' = [cli EXCEPT !.pc = "context"]
    /\ UNCHANGED <<serverVars, store, kept>>

\* Send up to the first post: GET /server, which can renew the sign-in, then the principal again,
\* the last epoch seen, and the ETag kept in that epoch.
ContextUse(c) ==
    \/ Ends(c, IF c.run = 1 THEN "not sent" ELSE "repeat refused")         \* a read failed
    \/ /\ c.run = 1 /\ kept.epoch # epoch
       /\ Ends(c, "not sent")
    \/ /\ c.run = 1 /\ kept.epoch = epoch
       /\ cli' = [c EXCEPT !.pc = "ready", !.who = c.token, !.ref = epoch,
                           !.ifMatch = IF route = "plain" THEN 0 ELSE kept.tag]
    \/ /\ c.run > 1 /\ (c.token # c.who \/ epoch # c.ref)
       /\ Ends(c, "repeat refused")
    \/ /\ c.run > 1 /\ c.token = c.who /\ epoch = c.ref
       /\ cli' = [c EXCEPT !.pc = "ready"]
Context ==
    /\ cli.pc = "context"
    /\ \/ ContextUse(cli)
       \/ ~service /\ store # cli.token /\ ContextUse(Renewed(cli))
    /\ UNCHANGED <<serverVars, store, kept>>

Unsent == {h \in Sends : h <= limits.sends /\ req[h].pc = "unsent"}
NextSend == CHOOSE h \in Unsent : \A g \in Unsent : h <= g

\* post: the request leaves with the key, the reference epoch and If-Match.
Post ==
    /\ cli.pc = "ready" /\ Unsent # {}
    /\ cli' = [cli EXCEPT !.pc = "waiting", !.send = NextSend]
    /\ req' = [req EXCEPT ![NextSend] = [NoSend EXCEPT !.pc = "arrived", !.who = cli.token, !.expected = cli.ref,
                                                       !.ifMatch = cli.ifMatch, !.input = cli.input]]
    /\ UNCHANGED <<Rows, store, kept>>

\* No connection was taken, so nothing of this send reached the server.
NoConnection ==
    /\ cli.pc = "ready"
    /\ Again(cli) \/ After(cli)          \* After: the server's certificate is not trusted
    /\ UNCHANGED <<serverVars, store, kept>>

\* The client no longer listens to its send, whose answer, if there was one, it has read.
HangUp == req' = [req EXCEPT ![cli.send] = IF @.pc = "answered" THEN Over(@) ELSE [@ EXCEPT !.heard = FALSE]]

\* The attempt's bound, a cut connection, or a 5xx of a component in front of the server.
Cut ==
    /\ cli.pc = "waiting"
    /\ Again([cli EXCEPT !.ambiguous = TRUE]) /\ HangUp
    /\ UNCHANGED <<Rows, store, kept>>

\* An answer that is not Bronzeward's, or not whole: a redirect leaves the outcome unknown; a 4xx
\* of a component in front of the server, which sends nothing on, is a refusal, and so is a 4xx of
\* the server's whose body was cut off.
ForeignAnswer ==
    /\ cli.pc = "waiting"
    /\ \/ Ends(cli, "unknown") /\ HangUp
       \/ req[cli.send].pc = "arrived" /\ After(cli) /\ req' = [req EXCEPT ![cli.send] = Over(@)]
       \/ /\ req[cli.send].pc = "answered" /\ req[cli.send].reply \notin {"ok", "internal", "unavailable", "superseded"}
          /\ After(cli) /\ HangUp
    /\ UNCHANGED <<Rows, store, kept>>

\* The send repeats one of this process, or one of an earlier process.
IsRepeat(c) == c.try > 0 \/ c.run > 1

\* What Send makes of a problem, in the order of its switch.
Refusal(c, code) ==
    \/ code = "internal" /\ Again([c EXCEPT !.ambiguous = TRUE])
    \/ code = "unavailable" /\ Again(c)
    \/ code = "unauthenticated" /\ ~service /\ ~c.renewed /\ (Again([Renewed(c) EXCEPT !.renewed = TRUE]) \/ After(c))
    \/ code = "unauthenticated" /\ (service \/ c.renewed) /\ After(c)
    \/ /\ code = "ingesting" /\ IsRepeat(c)
       /\ cli' = [c EXCEPT !.pc = "repeat", !.waited = TRUE, !.overtook = FALSE] \/ Ends(c, "unknown")
    \/ code \in {"earlier", "mismatch"} /\ SetAside(c)
    \/ code = "reused" /\ IsRepeat(c) /\ Ends(c, "unknown")
    \/ code \in {"forbidden", "superseded"} /\ After(c)
    \/ code \in {"moved", "conflict"} /\ c.run > 1 /\ Ends(c, "unknown")
    \/ code = "moved" /\ c.run = 1 /\ Ends(c, "moved")
    \/ code = "conflict" /\ c.run = 1 /\ Ends(c, "refused")

\* The answer to the send the process waits for. A stored refusal that is replayed is the earlier
\* attempt's; one that this send stored is its own.
Receive ==
    /\ cli.pc = "waiting" /\ req[cli.send].pc = "answered"
    /\ LET a == req[cli.send] IN
       \/ a.reply = "ok" /\ Ends(cli, "done") /\ kept' = [epoch |-> epoch, tag |-> draft]
       \/ a.reply = "stored" /\ a.replayed /\ Ends(cli, "stored") /\ UNCHANGED kept
       \/ a.reply = "stored" /\ ~a.replayed /\ Ends(cli, IF cli.run > 1 THEN "unknown" ELSE "refused") /\ UNCHANGED kept
       \/ Refusal([cli EXCEPT !.overtook = a.overtook], a.reply) /\ UNCHANGED kept
    /\ HangUp
    /\ UNCHANGED <<Rows, store>>

\* Defect: a renewed credential's principal is not compared before the repeat.
CheckedRepeatAnyone(c) ==
    \/ epoch # c.ref /\ SetAside(c)
    \/ epoch = c.ref /\ cli' = [c EXCEPT !.pc = "ready"]

\* Before every repeat: the credential still names the principal of the write, and GET /recovery
\* shows the reference epoch. A wait for an ingesting request is bounded, its reads included.
CheckedRepeat(c) ==
    \/ c.token # c.who /\ SetAside(c)
    \/ c.token = c.who /\ epoch # c.ref /\ SetAside(c)
    \/ c.token = c.who /\ epoch = c.ref /\ cli' = [c EXCEPT !.pc = "ready"]
Repeat ==
    /\ cli.pc = "repeat"
    /\ \/ CheckedRepeat(cli)
       \/ SetAside(cli)                                     \* a check could not be made
       \/ cli.waited /\ Ends(cli, "unknown")
    /\ UNCHANGED <<serverVars, store, kept>>

\* The operator gives the printed key, principal, epoch and If-Match again, with the input as
\* remembered.
OperatorRepeat ==
    /\ cli.out \in {"unknown", "set aside, ambiguous"} /\ cli.run < limits.runs
    /\ \E i \in Inputs :
         cli' = [Process(cli.run + 1, store) EXCEPT !.who = cli.who, !.ref = cli.ref, !.ifMatch = cli.ifMatch,
                                                    !.input = i]
    /\ UNCHANGED <<serverVars, store, kept>>

\* Another process signs in for another subject.
OtherSignIn ==
    /\ ~service /\ Spend
    /\ \E p \in Principals \ {store} : store' = p
    /\ UNCHANGED <<Rest, kept, cli>>

\* The draft is read again by another command.
ReadAgain ==
    /\ cli.pc = "start" /\ kept # [epoch |-> epoch, tag |-> draft]
    /\ kept' = [epoch |-> epoch, tag |-> draft]
    /\ UNCHANGED <<serverVars, store, cli>>

ClientStep ==
    \/ CheckRepeat \/ Context \/ Post \/ NoConnection \/ Cut \/ ForeignAnswer \/ Receive \/ Repeat
    \/ OperatorRepeat \/ OtherSignIn \/ ReadAgain

Next == ClientStep \/ (ServerStep /\ UNCHANGED writeVars)

Spec == WriteInit /\ [][Next]_vars

-----------------------------------------------------------------------------
\* However many sends of a write there are, under whatever sign-ins, across lost answers, restores
\* and recovery entries, by one process or by the operator's later repeat, its effect commits at
\* most once (tx.go lockKey and lookup, write.go's checks before a repeat).
ExecutedOnce == TypeOK /\ Len(commits) <= 1

\* What the command reports is what happened to the write. Done means that this very input
\* committed; "nothing was saved", not done, a stored refusal, and a set-aside without an ambiguous
\* attempt mean that no send of it ever commits, then or later (write.go Send). A plain refusal
\* means it too, but for one case: a repeat that overtook a send that still runs.
ReportIsTrue ==
    /\ cli.out = "done" => \E k \in 1 .. Len(commits) : commits[k] = cli.input
    /\ cli.out \in {"stored", "moved", "not done", "set aside"} => commits = <<>>
    /\ cli.out = "not sent" => commits = <<>>
    /\ cli.out = "refused" => commits = <<>> \/ cli.overtook
=============================================================================
