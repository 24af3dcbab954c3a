------------------------------- MODULE SignIn -------------------------------
(***************************************************************************)
(* The sign-ins of bronzewardctl (internal/client credentials.go, login.go,*)
(* store.go and the platforms' stores): commands of one operator that run  *)
(* at once, the store they share, its renewal lock, and the identity       *)
(* provider.                                                               *)
(*                                                                         *)
(* One context name is used. Its versions differ in server or in identity  *)
(* provider. An access token is a number, and so is a refresh token; 0 is  *)
(* none. A step of a store or provider that locks, times out or refuses is *)
(* a fault; a write the credential store received and did not answer is    *)
(* late, and lands at any time after.                                      *)
(***************************************************************************)
EXTENDS Integers, FiniteSets

CONSTANTS
    Procs,      \* bronzewardctl processes
    NoProc,
    Subjects,
    NoSubject,
    Versions,   \* versions of the context
    Absent,     \* no context of the name
    MaxTokens,  \* bound on the tokens issued
    MaxCommands,\* bound on the commands started
    MaxFaults   \* bound on faults, crashes and abandoned waits

ASSUME SignInAssumption ==
    /\ NoProc \notin Procs /\ NoSubject \notin Subjects /\ Absent \notin Versions
    /\ MaxTokens \in Nat \ {0} /\ MaxCommands \in Nat /\ MaxFaults \in Nat

VARIABLES
    place,     \* where sign-ins are kept: a token file or the credential store
    config,    \* the contexts file's version of the context, or Absent
    stored,    \* the kept sign-in
    lock,      \* holder of the renewal lock
    late,      \* unanswered writes and removals the credential store may still carry out
    idp,       \* the provider's refresh tokens
    issued,    \* tokens issued so far
    proc,
    commands, faults,
    lost,      \* history: refresh tokens redeemed for a pair that is not, or not yet, kept
    emptied,   \* history: who emptied the store: a logout no login was kept since, the removal of
               \* a context not added since
    unsettled  \* history: some write was not answered

vars == <<place, config, stored, lock, late, idp, issued, proc, commands, faults, lost, emptied,
          unsettled>>

Numbers == 0 .. MaxTokens
NoTokens == [access |-> 0, refresh |-> 0, who |-> NoSubject, ver |-> Absent]
Idle == [pc |-> "idle", goal |-> "none", ver |-> Absent, tokens |-> NoTokens, new |-> NoTokens,
         memory |-> FALSE, failed |-> FALSE]

Init ==
    /\ place \in {"file", "keyring"} /\ config \in Versions
    /\ \E s \in Subjects :
         stored = [access |-> 1, refresh |-> 1, who |-> s, ver |-> config]
    /\ lock = NoProc /\ late = {} /\ issued = 1
    /\ idp = [n \in Numbers |-> IF n = 1 THEN "live" ELSE "unissued"]
    /\ proc = [p \in Procs |-> Idle] /\ commands = 0 /\ faults = 0
    /\ lost = {} /\ emptied = {} /\ unsettled = FALSE

world == <<place, config, idp, issued, commands>>
history == <<lost, emptied, unsettled>>

Set(p, r) == proc' = [proc EXCEPT ![p] = r]
Fault == faults < MaxFaults /\ faults' = faults + 1

\* store.get: a credential-store entry of another server or issuer reads as none.
Get(p) ==
    IF proc[p].memory \/ (place = "keyring" /\ stored.ver # proc[p].ver) THEN NoTokens ELSE stored

\* A renewal's command goes on with what it has; every other command ends.
After(r) == IF r.goal = "renew" THEN [r EXCEPT !.pc = "ready", !.goal = "none", !.new = NoTokens]
            ELSE Idle
Failed(r) == After([r EXCEPT !.failed = TRUE])
Unlock(p, r) == Set(p, r) /\ lock' = NoProc

-----------------------------------------------------------------------------
(* Commands.                                                               *)

Command(pc, goal) == [Idle EXCEPT !.pc = pc, !.goal = goal, !.ver = config]

Start(p, r) ==
    /\ proc[p].pc = "idle" /\ config # Absent /\ commands < MaxCommands /\ Set(p, r)
    /\ commands' = commands + 1
    /\ UNCHANGED <<place, stored, lock, late, idp, issued, faults, history>>

\* A request or a watch (openSignIn), a login, a logout.
StartRequest(p) == Start(p, Command("load", "none")) /\ UNCHANGED config
StartLogin(p) == Start(p, Command("login", "keep")) /\ UNCHANGED config
StartLogout(p) == Start(p, Command("lock", "logout")) /\ UNCHANGED config

\* context remove: the contexts file first; what the credential store keeps, next (ClearStored).
StartRemove(p) ==
    /\ Start(p, IF place = "file" THEN Idle ELSE Command("lock", "remove"))
    /\ config' = Absent

\* context add.
AddContext(v) ==
    /\ config = Absent /\ config' = v /\ emptied' = emptied \ {"remove"}
    /\ UNCHANGED <<place, stored, lock, late, idp, issued, proc, commands, faults, lost, unsettled>>

\* Login: the provider issues a sign-in to whoever signs in at it.
Issue(p, s) ==
    LET n == issued + 1 IN
    /\ n \in Numbers /\ issued' = n /\ idp' = [idp EXCEPT ![n] = "live"]
    /\ proc' = [proc EXCEPT ![p].new = [access |-> n, refresh |-> n, who |-> s, ver |-> proc[p].ver],
                            ![p].pc = "lock"]

\* openSignIn with a store: what it holds, or "not signed in".
Load(p) ==
    /\ proc[p].pc = "load"
    /\ Set(p, IF Get(p) = NoTokens THEN Idle
              ELSE [proc[p] EXCEPT !.pc = "ready", !.tokens = Get(p)])
    /\ UNCHANGED <<world, stored, lock, late, faults, history>>

\* A credential store that fails is none: the command signs in for itself, in memory.
LoadFails(p) ==
    LET n == issued + 1 IN
    /\ proc[p].pc = "load" /\ place = "keyring" /\ Fault
    /\ n \in Numbers /\ issued' = n /\ idp' = [idp EXCEPT ![n] = "live"]
    /\ \E s \in Subjects :
         Set(p, [proc[p] EXCEPT !.pc = "ready", !.memory = TRUE,
                   !.tokens = [access |-> n, refresh |-> n, who |-> s, ver |-> proc[p].ver]])
    /\ UNCHANGED <<place, config, commands, stored, lock, late, history>>

\* SignIn up to Login's answer. A store that fails now refuses it (End).
SignInAnswered(p) ==
    /\ proc[p].pc = "login" /\ \E s \in Subjects : Issue(p, s)
    /\ UNCHANGED <<place, config, commands, stored, lock, late, faults, history>>

\* The token is about to expire, or the server answered 401: renewed unless a renewal failed.
Renew(p) ==
    /\ proc[p].pc = "ready" /\ proc[p].tokens.refresh # 0 /\ ~proc[p].failed
    /\ Set(p, [proc[p] EXCEPT !.pc = "lock", !.goal = "renew"])
    /\ UNCHANGED <<world, stored, lock, late, faults, history>>

\* signedIn: an identity-revoked answer clears what is stored.
IdentityRevoked(p) ==
    /\ proc[p].pc = "ready" /\ ~proc[p].memory
    /\ Set(p, [proc[p] EXCEPT !.pc = "lock", !.goal = "refused"])
    /\ UNCHANGED <<world, stored, lock, late, faults, history>>

\* The command ends: its requests are answered, or it refuses before anything is issued.
End(p) ==
    /\ proc[p].pc \in {"ready", "login"} /\ Set(p, Idle)
    /\ UNCHANGED <<world, stored, lock, late, faults, history>>

-----------------------------------------------------------------------------
(* The renewal lock, and what is done under it.                            *)

TakeLock(p) ==
    /\ proc[p].pc = "lock" /\ lock = NoProc
    /\ lock' = p /\ Set(p, [proc[p] EXCEPT !.pc = "held"])
    /\ UNCHANGED <<world, stored, late, faults, history>>

\* What a sign-in that is not kept does next, and any other command.
Abandon(p) ==
    IF proc[p].goal = "keep" THEN [proc[p] EXCEPT !.pc = "revoke"] ELSE Failed(proc[p])

\* The store fails before the lock is taken, or another process keeps it for four minutes.
NoLock(p) ==
    /\ proc[p].pc = "lock" /\ Fault /\ Set(p, Abandon(p))
    /\ UNCHANGED <<world, stored, lock, late, history>>

\* A call to the store under the lock fails with nothing written or removed.
StoreFails(p) ==
    /\ proc[p].pc \in {"held", "save", "delete"} /\ Fault /\ Unlock(p, Abandon(p))
    /\ UNCHANGED <<world, stored, late, history>>

\* Defect: the sign-in the command read when it started is redeemed whatever is stored now.
AdoptableNever(p) == FALSE

\* Another process stored a pair meanwhile.
Adoptable(p) == Get(p) \notin {NoTokens, proc[p].tokens}

Removed(p) == Get(p) = NoTokens /\ ~proc[p].memory

\* renew's read under the lock.
RenewRead(p) ==
    LET r == proc[p] IN
    /\ r.pc = "held" /\ r.goal = "renew"
    /\ \/ Removed(p) /\ Unlock(p, Failed([r EXCEPT !.tokens.refresh = 0]))
       \/ Adoptable(p) /\ Unlock(p, After([r EXCEPT !.tokens = Get(p)]))
       \/ ~Removed(p) /\ ~Adoptable(p) /\ Set(p, [r EXCEPT !.pc = "redeem"]) /\ UNCHANGED lock
    /\ UNCHANGED <<world, stored, late, faults, history>>

\* refresh: the token is spent and a new pair answered, or not rotated, and then not kept.
Redeem(p) ==
    LET r == proc[p]
        old == r.tokens.refresh
        n == issued + 1
        Pair(refresh) == [r.tokens EXCEPT !.access = n, !.refresh = refresh]
    IN
    /\ r.pc = "redeem" /\ idp[old] = "live" /\ n \in Numbers /\ issued' = n
    /\ \/ /\ idp' = [idp EXCEPT ![old] = "spent", ![n] = "live"] /\ lost' = lost \cup {old}
          /\ Set(p, [r EXCEPT !.pc = "save", !.new = Pair(n)])
       \/ Set(p, [r EXCEPT !.pc = "save", !.new = Pair(0)]) /\ UNCHANGED <<idp, lost>>
    /\ UNCHANGED <<place, config, stored, lock, late, commands, faults, emptied, unsettled>>

\* The provider refuses the token, is not reached, or its answer is lost with the token spent.
RedeemFails(p) ==
    LET r == proc[p]
        old == r.tokens.refresh
    IN
    /\ r.pc = "redeem" /\ Unlock(p, Failed(r))
    /\ \/ idp[old] # "live" /\ UNCHANGED <<idp, lost, faults>>
       \/ Fault /\ UNCHANGED <<idp, lost>>
       \/ idp[old] = "live" /\ Fault /\ idp' = [idp EXCEPT ![old] = "spent"] /\ lost' = lost \cup {old}
    /\ UNCHANGED <<place, config, issued, stored, late, commands, emptied, unsettled>>

\* Defect: the context is looked up before the sign-in, not under the lock.
ContextStandsUnread(p) == TRUE

\* SignIn's keep: the context as it was selected.
ContextStands(p) == config = proc[p].ver

KeepRead(p) ==
    /\ proc[p].pc = "held" /\ proc[p].goal = "keep"
    /\ IF ContextStands(p) THEN Set(p, [proc[p] EXCEPT !.pc = "save"]) /\ UNCHANGED lock
                           ELSE Unlock(p, Abandon(p))
    /\ UNCHANGED <<world, stored, late, faults, history>>

\* store.save of a renewed or a new sign-in; one kept in memory is not stored.
Save(p) ==
    LET r == proc[p] IN
    /\ r.pc = "save"
    /\ stored' = IF r.memory THEN stored ELSE r.new
    /\ lost' = lost \ {r.tokens.refresh} /\ emptied' = IF r.goal = "keep" THEN emptied \ {"logout"} ELSE emptied
    /\ Unlock(p, After([r EXCEPT !.tokens = r.new]))
    /\ UNCHANGED <<world, late, faults, unsettled>>

\* Defect: the identity the server refused is not compared.
MatchesAny(p, t) == TRUE

\* clear's match: any sign-in for a logout or a removal, the refused identity's for signedIn.
Matches(p, t) == proc[p].goal = "refused" => t.who = proc[p].tokens.who

Emptying(p) == {proc[p].goal} \cap (IF config = Absent THEN {"logout", "remove"} ELSE {"logout"})

\* clear and ClearStored read under the lock. A removal also finds its context added again, and
\* removes an entry whatever it is for.
ClearRead(p) ==
    LET r == proc[p]
        t == IF r.goal = "remove" THEN (IF config = Absent THEN stored ELSE NoTokens) ELSE Get(p)
    IN
    /\ r.pc = "held" /\ r.goal \in {"logout", "refused", "remove"}
    /\ IF t # NoTokens /\ Matches(p, t)
       THEN Set(p, [r EXCEPT !.pc = "delete", !.new = t]) /\ UNCHANGED <<lock, emptied>>
       ELSE /\ Unlock(p, After(r))
            /\ emptied' = IF stored = NoTokens THEN emptied \cup Emptying(p) ELSE emptied
    /\ UNCHANGED <<world, stored, late, faults, lost, unsettled>>

\* The removal; a logout then revokes the refresh token it removed.
Delete(p) ==
    LET r == proc[p] IN
    /\ r.pc = "delete" /\ stored' = NoTokens
    /\ emptied' = emptied \cup Emptying(p)
    /\ Unlock(p, IF r.goal = "logout" THEN [r EXCEPT !.pc = "revoke"] ELSE After(r))
    /\ UNCHANGED <<world, late, faults, lost, unsettled>>

\* A write or removal sent to the credential store and not answered within a minute.
Unanswered(p) ==
    /\ proc[p].pc \in {"save", "delete"} /\ ~proc[p].memory /\ place = "keyring" /\ Fault
    /\ late' = late \cup {IF proc[p].pc = "save" THEN proc[p].new ELSE NoTokens}
    /\ unsettled' = TRUE /\ Unlock(p, Abandon(p))
    /\ UNCHANGED <<world, stored, lost, emptied>>

\* The credential store carries it out after all.
Lands(t) ==
    /\ t \in late /\ late' = late \ {t} /\ stored' = t
    /\ UNCHANGED <<world, lock, proc, faults, history>>

\* Revoke, of a sign-in not kept or signed out, answered or not.
Revoke(p) ==
    LET t == proc[p].new.refresh IN
    /\ proc[p].pc = "revoke" /\ Set(p, Idle)
    /\ \/ idp' = [idp EXCEPT ![t] = IF @ = "live" THEN "revoked" ELSE @] /\ UNCHANGED faults
       \/ UNCHANGED idp /\ Fault
    /\ UNCHANGED <<place, config, issued, commands, stored, lock, late, history>>

\* A process ends at any point, and its lock with it.
Crash(p) ==
    /\ proc[p].pc # "idle" /\ Fault /\ Set(p, Idle)
    /\ lock' = IF lock = p THEN NoProc ELSE lock
    /\ UNCHANGED <<world, stored, late, history>>

Step(p) ==
    \/ StartRequest(p) \/ StartLogin(p) \/ StartLogout(p) \/ StartRemove(p)
    \/ Load(p) \/ LoadFails(p) \/ SignInAnswered(p) \/ Renew(p) \/ IdentityRevoked(p) \/ End(p)
    \/ TakeLock(p) \/ NoLock(p) \/ StoreFails(p) \/ RenewRead(p) \/ Redeem(p) \/ RedeemFails(p)
    \/ KeepRead(p) \/ Save(p) \/ ClearRead(p) \/ Delete(p) \/ Unanswered(p) \/ Revoke(p)
    \/ Crash(p)

Next ==
    \/ \E p \in Procs : Step(p)
    \/ \E v \in Versions : AddContext(v)
    \/ \E t \in late : Lands(t)

Spec == Init /\ [][Next]_vars

-----------------------------------------------------------------------------

\* A rotated refresh token works once (renew): a process redeems a spent one only where the pair it
\* was redeemed for could not be kept, never because another process renewed, signed in, signed
\* out or changed the context beside it.
RedeemedOnce ==
    \A p \in Procs : LET r == proc[p].tokens.refresh IN
        proc[p].pc = "redeem" /\ idp[r] = "spent" => r \in lost

\* Once a logout or the removal of the context has emptied the store, no process that still holds
\* the sign-in writes it back, and a sign-in that was under way leaves nothing under the context's
\* name: it is kept before the removal's read, or finds the context gone (renew, ClearStored,
\* SignIn). The store is empty until a login, unless the credential store carries out a write that
\* it did not answer.
SignedOutStays == emptied # {} /\ ~unsettled => stored = NoTokens

\* What is removed is what was read and matched, whatever other processes store meanwhile: an
\* identity-revoked answer never removes another identity's sign-in (signedIn).
RemovesWhatItRead ==
    \A p \in Procs : proc[p].pc = "delete" /\ ~unsettled =>
        /\ stored = proc[p].new
        /\ proc[p].goal = "refused" => stored.who = proc[p].tokens.who

=============================================================================
