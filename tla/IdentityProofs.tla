---------------------------- MODULE IdentityProofs ---------------------------
(***************************************************************************)
(* Theorems about SignIn, what the commands of one operator do to the      *)
(* sign-in they share, for any number of processes, tokens and faults; and *)
(* about Tokens, for every set of humans, services and transactions, every *)
(* page limit and every number of recovery entries.                        *)
(***************************************************************************)
EXTENDS SignIn, Tokens, FiniteSetTheorems, SequenceTheorems, WellFoundedInduction, TLAPS

\* The commands that hold the renewal lock.
Under == {"held", "redeem", "save", "delete"}

Pairs == [access : Numbers, refresh : Numbers, who : Subjects \cup {NoSubject}, ver : Versions \cup {Absent}]
Commands == [pc : {"idle", "load", "login", "ready", "lock", "revoke"} \cup Under,
             goal : {"none", "keep", "logout", "remove", "renew", "refused"},
             ver : Versions \cup {Absent}, tokens : Pairs, new : Pairs, memory : BOOLEAN, failed : BOOLEAN]

\* The types of the variables.
SignInTyped ==
    /\ place \in {"file", "keyring"} /\ config \in Versions \cup {Absent} /\ stored \in Pairs
    /\ lock \in Procs \cup {NoProc} /\ late \in SUBSET Pairs /\ issued \in Numbers
    /\ idp \in [Numbers -> {"unissued", "live", "spent", "revoked"}]
    /\ proc \in [Procs -> Commands] /\ faults \in Nat /\ commands \in Nat
    /\ lost \in SUBSET Numbers /\ emptied \in SUBSET {"logout", "remove"} /\ unsettled \in BOOLEAN

\* What a command is at says what it is doing, and who holds the lock.
Doing(r) ==
    /\ r.pc \in {"load", "ready"} => r.goal = "none"
    /\ r.pc = "redeem" => r.goal = "renew"
    /\ r.pc = "save" => r.goal \in {"renew", "keep"}
    /\ r.pc = "login" => r.goal = "keep"
    /\ r.goal = "keep" => ~r.memory /\ r.ver # Absent /\ r.tokens = NoTokens
    /\ r.memory => r.goal \in {"none", "renew"}
Ordered == \A p \in Procs : Doing(proc[p]) /\ (proc[p].pc \in Under => lock = p)

\* A sign-in that was issued and is not stored yet.
Unsaved(r) == r.pc = "save" \/ (r.goal = "keep" /\ r.pc \in {"lock", "held"})

\* Refresh tokens are numbered as they are issued.
Issued ==
    /\ idp[0] = "unissued" /\ \A n \in Numbers : idp[n] = "spent" => n <= issued
    /\ stored.refresh <= issued /\ \A t \in late : t.refresh <= issued
    /\ \A p \in Procs : proc[p].tokens.refresh <= issued /\ (Unsaved(proc[p]) => proc[p].new.refresh <= issued)

\* A token of an unanswered write is nobody's else, and was not redeemed.
LateApart ==
    /\ late # {} => unsettled
    /\ \A t \in late : t.refresh # 0 =>
          /\ idp[t.refresh] # "spent" /\ t.refresh # stored.refresh
          /\ \A u \in late : u.refresh = t.refresh => u = t
          /\ \A p \in Procs : /\ t.refresh # proc[p].tokens.refresh
                              /\ Unsaved(proc[p]) => t.refresh # proc[p].new.refresh

\* Nor is a token that was issued and is not stored yet.
UnsavedApart ==
    \A p \in Procs : Unsaved(proc[p]) /\ proc[p].new.refresh # 0 =>
       /\ idp[proc[p].new.refresh] # "spent" /\ proc[p].new.refresh # stored.refresh
       /\ \A q \in Procs : /\ proc[p].new.refresh # proc[q].tokens.refresh
                           /\ q # p /\ Unsaved(proc[q]) => proc[p].new.refresh # proc[q].new.refresh

\* A sign-in kept in memory is its command's own.
MemoryApart ==
    \A p \in Procs : proc[p].memory /\ proc[p].tokens.refresh # 0 =>
       /\ proc[p].tokens.refresh # stored.refresh
       /\ \A q \in Procs \ {p} : proc[p].tokens.refresh # proc[q].tokens.refresh

\* What is stored, kept in memory or about to be redeemed is not spent, but for a pair that was lost.
SpentIsLost ==
    /\ idp[stored.refresh] = "spent" => stored.refresh \in lost
    /\ \A p \in Procs : (proc[p].memory \/ proc[p].pc = "redeem") /\ idp[proc[p].tokens.refresh] = "spent"
                           => proc[p].tokens.refresh \in lost

\* Under the lock, what was read is what is stored.
ReadStands ==
    \A p \in Procs : ~unsettled =>
       /\ proc[p].pc \in {"redeem", "save"} /\ proc[p].goal = "renew" /\ ~proc[p].memory =>
             stored = proc[p].tokens /\ stored # NoTokens
       /\ proc[p].pc = "delete" => /\ stored = proc[p].new
                                   /\ proc[p].goal = "refused" => stored.who = proc[p].tokens.who

\* A removal that emptied the store left no context, and no sign-in is kept after it.
RemovedStands ==
    /\ "remove" \in emptied => config = Absent
    /\ \A p \in Procs : proc[p].pc = "save" /\ proc[p].goal = "keep" => "remove" \notin emptied

SignInInv ==
    /\ SignInTyped /\ Ordered /\ Issued /\ LateApart /\ UnsavedApart /\ MemoryApart /\ SpentIsLost
    /\ ReadStands /\ RemovedStands /\ SignedOutStays

\* What most steps do: a command goes on, and nothing is written, issued or redeemed.
Moves(p, s) ==
    /\ s \in Commands /\ Doing(s) /\ proc' = [proc EXCEPT ![p] = s]
    /\ lock' \in Procs \cup {NoProc} /\ (s.pc \in Under => lock' = p)
    /\ \A q \in Procs \ {p} : lock = q => lock' = q
    /\ s.tokens.refresh \in {0, proc[p].tokens.refresh} \/ (s.tokens.refresh = stored.refresh /\ ~s.memory)
    /\ s.memory => proc[p].memory
    /\ Unsaved(s) => Unsaved(proc[p]) /\ s.new.refresh = proc[p].new.refresh
    /\ s.pc = "redeem" /\ idp[s.tokens.refresh] = "spent" => s.tokens.refresh \in lost
    /\ ~unsettled =>
          /\ s.pc \in {"redeem", "save"} /\ s.goal = "renew" /\ ~s.memory => stored = s.tokens /\ stored # NoTokens
          /\ s.pc = "delete" => stored = s.new /\ (s.goal = "refused" => stored.who = s.tokens.who)
    /\ s.pc = "save" /\ s.goal = "keep" => "remove" \notin emptied'

\* What such a step leaves of the rest.
Rests ==
    /\ place' = place /\ stored' = stored /\ late' = late /\ issued' = issued /\ lost' = lost
    /\ unsettled' = unsettled /\ faults' \in Nat /\ commands' \in Nat
    /\ config' \in Versions \cup {Absent} /\ ("remove" \in emptied' => config' = Absent)
    /\ idp' \in [Numbers -> {"unissued", "live", "spent", "revoked"}] /\ idp'[0] = "unissued"
    /\ \A n \in Numbers : idp'[n] = "spent" => idp[n] = "spent"
    /\ emptied' \in SUBSET {"logout", "remove"} /\ (emptied' # {} /\ ~unsettled => emptied # {} \/ stored = NoTokens)
    /\ \A q \in Procs : proc[q].pc = "save" /\ proc[q].goal = "keep" => emptied' = emptied \/ lock # q

LEMMA MovesKeep ==
    ASSUME SignInInv, NEW p \in Procs, NEW s, Moves(p, s), Rests
    PROVE  SignInInv'
<1> USE SignInAssumption
<1>1. SignInTyped /\ Ordered /\ Issued /\ LateApart /\ UnsavedApart /\ MemoryApart /\ SpentIsLost
      /\ ReadStands /\ RemovedStands /\ SignedOutStays
  BY DEF SignInInv
<1>2. /\ proc'[p] = s /\ \A q \in Procs \ {p} : proc'[q] = proc[q]
      /\ stored' = stored /\ late' = late /\ issued' = issued /\ lost' = lost /\ unsettled' = unsettled
      /\ s \in Commands /\ s.tokens \in Pairs /\ s.new \in Pairs /\ s.tokens.refresh \in Numbers /\ s.new.refresh \in Numbers
      /\ stored.refresh \in Numbers /\ \A t \in late : t.refresh \in Numbers
      /\ \A q \in Procs : proc[q] \in Commands /\ proc[q].tokens.refresh \in Numbers /\ proc[q].new.refresh \in Numbers
      /\ issued \in Nat
  BY <1>1 DEF SignInTyped, Moves, Rests, Commands, Pairs, Numbers
<1>3. \A n \in Numbers : idp'[n] = "spent" => idp[n] = "spent"
  BY DEF Rests
<1>4. SignInTyped'
  BY <1>1 DEF SignInTyped, Moves, Rests
<1>5. Ordered'
  BY <1>1, <1>2 DEF Ordered, Moves
<1>6. Issued'
  <2>1. idp'[0] = "unissued"
    BY DEF Rests
  <2>2. s.tokens.refresh <= issued /\ (Unsaved(s) => s.new.refresh <= issued)
    BY <1>1, <1>2 DEF Moves, Issued
  <2> QED
    BY <1>1, <1>2, <1>3, <2>1, <2>2 DEF Issued
<1>7. LateApart'
  BY <1>1, <1>2, <1>3 DEF LateApart, Moves
<1>8. UnsavedApart'
  BY <1>1, <1>2, <1>3 DEF UnsavedApart, Moves
<1>9. MemoryApart'
  BY <1>1, <1>2 DEF MemoryApart, Moves
<1>10. SpentIsLost'
  <2>1. idp'[0] = "unissued"
    BY DEF Rests
  <2> QED
    BY <1>1, <1>2, <1>3, <2>1 DEF SpentIsLost, Moves
<1>11. ReadStands'
  BY <1>1, <1>2 DEF ReadStands, Moves
<1>12. RemovedStands'
  <2>1. \A q \in Procs \ {p} : proc[q].pc = "save" /\ proc[q].goal = "keep" => "remove" \notin emptied'
    BY <1>1, <1>2 DEF RemovedStands, Ordered, Rests, Under
  <2> QED
    BY <1>1, <1>2, <2>1 DEF RemovedStands, Moves, Rests
<1>13. SignedOutStays'
  BY <1>1, <1>2 DEF SignedOutStays, Rests
<1> QED
  BY <1>4, <1>5, <1>6, <1>7, <1>8, <1>9, <1>10, <1>11, <1>12, <1>13 DEF SignInInv

-----------------------------------------------------------------------------
\* What the types say of a command.
LEMMA CommandFacts ==
    ASSUME SignInTyped, NEW p \in Procs
    PROVE  /\ proc[p] \in Commands /\ proc[p].tokens \in Pairs /\ proc[p].new \in Pairs
           /\ proc[p].tokens.refresh \in Numbers /\ proc[p].new.refresh \in Numbers
           /\ proc[p].ver \in Versions \cup {Absent} /\ proc[p].memory \in BOOLEAN /\ proc[p].failed \in BOOLEAN
           /\ stored.refresh \in Numbers
BY DEF SignInTyped, Commands, Pairs

LEMMA NumberFacts ==
    0 \in Numbers /\ 1 \in Numbers /\ Numbers \subseteq Nat
BY SignInAssumption DEF Numbers

LEMMA IdleFacts ==
    NoTokens \in Pairs /\ Idle \in Commands /\ Doing(Idle) /\ ~Unsaved(Idle) /\ Idle.tokens.refresh = 0
    /\ Idle.pc = "idle" /\ ~Idle.memory /\ Idle.tokens = NoTokens /\ Idle.new = NoTokens
BY NumberFacts DEF NoTokens, Idle, Pairs, Commands, Doing, Unsaved

\* A command that stops where it is and holds nothing.
LEMMA StopsKeep ==
    ASSUME SignInInv, NEW p \in Procs, NEW s \in Commands, proc' = [proc EXCEPT ![p] = s], Rests,
           Doing(s), s.pc \notin Under, ~Unsaved(s), s.tokens.refresh \in {0, proc[p].tokens.refresh},
           s.memory => proc[p].memory,
           lock' = lock \/ (lock' = NoProc /\ lock \in {p, NoProc})
    PROVE  SignInInv'
<1>1. Moves(p, s)
  BY SignInAssumption DEF SignInInv, SignInTyped, Moves, Under
<1> QED
  BY <1>1, MovesKeep

\* The rest after a step that changes a command, the lock and the counts only.
LEMMA RestsSame ==
    ASSUME SignInInv, UNCHANGED <<place, config, stored, late, idp, issued, history>>, faults' \in Nat, commands' \in Nat
    PROVE  Rests
BY DEF SignInInv, SignInTyped, Rests, Issued, RemovedStands, history

\* A command that gives up: its record, with nothing held.
LEMMA AfterFacts ==
    ASSUME NEW r \in Commands, Doing(r), r.pc \notin {"save"} \/ r.goal \in {"renew", "keep"}
    PROVE  /\ After(r) \in Commands /\ Doing(After(r)) /\ ~Unsaved(After(r)) /\ After(r).pc \notin Under
           /\ After(r).tokens.refresh \in {0, r.tokens.refresh} /\ (After(r).memory => r.memory)
<1>1. CASE r.goal = "renew"
  <2> DEFINE a == [r EXCEPT !.pc = "ready", !.goal = "none", !.new = NoTokens]
  <2>1. After(r) = a
    BY <1>1 DEF After
  <2>2. a \in Commands
    BY IdleFacts DEF Commands, Under
  <2>3. a.pc = "ready" /\ a.goal = "none" /\ a.tokens = r.tokens /\ a.memory = r.memory
    BY DEF Commands
  <2> HIDE DEF a
  <2> QED
    BY <2>1, <2>2, <2>3 DEF Doing, Unsaved, Under
<1>2. CASE r.goal # "renew"
  BY <1>2, IdleFacts DEF After, Under
<1> QED
  BY <1>1, <1>2

LEMMA AbandonFacts ==
    ASSUME SignInTyped, Ordered, NEW p \in Procs
    PROVE  /\ Abandon(p) \in Commands /\ Doing(Abandon(p)) /\ ~Unsaved(Abandon(p)) /\ Abandon(p).pc \notin Under
           /\ Abandon(p).tokens.refresh \in {0, proc[p].tokens.refresh} /\ (Abandon(p).memory => proc[p].memory)
<1> DEFINE r == proc[p]
           f == [r EXCEPT !.failed = TRUE]
           v == [r EXCEPT !.pc = "revoke"]
<1>1. r \in Commands /\ Doing(r)
  BY CommandFacts DEF Ordered
<1>2. f \in Commands /\ v \in Commands
  BY <1>1 DEF Commands
<1>3. /\ f.pc = r.pc /\ f.goal = r.goal /\ f.memory = r.memory /\ f.ver = r.ver /\ f.tokens = r.tokens
      /\ v.pc = "revoke" /\ v.goal = r.goal /\ v.memory = r.memory /\ v.ver = r.ver /\ v.tokens = r.tokens
  BY <1>1 DEF Commands
<1>4. Abandon(p) = IF r.goal = "keep" THEN v ELSE After(f)
  BY DEF Abandon, Failed
<1> HIDE DEF r, f, v
<1>5. Doing(f) /\ Doing(v)
  BY <1>1, <1>3 DEF Doing
<1>6. CASE r.goal = "keep"
  BY <1>2, <1>3, <1>4, <1>5, <1>6 DEF Unsaved, Under, r
<1>7. CASE r.goal # "keep"
  BY <1>2, <1>3, <1>4, <1>5, <1>7, AfterFacts DEF Doing, r
<1> QED
  BY <1>6, <1>7

-----------------------------------------------------------------------------
(* One lemma per step.                                                     *)

\* A command that starts has no sign-in yet and holds nothing.
LEMMA CommandRecord ==
    ASSUME SignInTyped, config # Absent, NEW pc \in {"load", "login", "lock"}, NEW goal \in {"none", "keep", "logout", "remove"},
           pc = "load" => goal = "none", pc = "login" => goal = "keep"
    PROVE  /\ Command(pc, goal) \in Commands /\ Doing(Command(pc, goal))
           /\ Command(pc, goal).pc = pc /\ Command(pc, goal).goal = goal
           /\ Command(pc, goal).tokens.refresh = 0 /\ ~Command(pc, goal).memory
<1> DEFINE c == [Idle EXCEPT !.pc = pc, !.goal = goal, !.ver = config]
<1>1. Command(pc, goal) = c
  BY DEF Command
<1>2. c \in Commands
  BY IdleFacts DEF Commands, Under, SignInTyped
<1>3. c.pc = pc /\ c.goal = goal /\ c.ver = config /\ c.tokens = NoTokens /\ ~c.memory
  BY IdleFacts DEF Commands
<1> HIDE DEF c
<1> QED
  BY <1>1, <1>2, <1>3 DEF Doing, NoTokens

LEMMA StartKeeps ==
    ASSUME SignInInv, NEW p \in Procs, StartRequest(p) \/ StartLogin(p) \/ StartLogout(p) \/ StartRemove(p)
    PROVE  SignInInv'
<1>1. SignInTyped /\ config # Absent /\ lock' = lock
  BY DEF SignInInv, StartRequest, StartLogin, StartLogout, StartRemove, Start
<1>2. config' \in {config, Absent}
  BY DEF StartRequest, StartLogin, StartLogout, StartRemove
<1>3. /\ UNCHANGED <<place, stored, late, idp, issued, lost, emptied, unsettled, faults>>
      /\ commands' = commands + 1
  BY DEF StartRequest, StartLogin, StartLogout, StartRemove, Start, history
<1>4. Rests
  BY <1>2, <1>3 DEF Rests, SignInInv, SignInTyped, Issued, RemovedStands
<1>5. \E s \in {Command("load", "none"), Command("login", "keep"), Command("lock", "logout"), Command("lock", "remove"), Idle} :
         proc' = [proc EXCEPT ![p] = s]
  BY DEF StartRequest, StartLogin, StartLogout, StartRemove, Start, Set
<1>6. PICK s \in {Command("load", "none"), Command("login", "keep"), Command("lock", "logout"), Command("lock", "remove"), Idle} :
         proc' = [proc EXCEPT ![p] = s]
  BY <1>5
<1>7. /\ s \in Commands /\ Doing(s) /\ s.pc \notin Under /\ ~Unsaved(s) /\ s.tokens.refresh = 0 /\ ~s.memory
  <2>1. CASE s = Idle
    BY <2>1, IdleFacts DEF Under
  <2>2. CASE s = Command("load", "none")
    BY <1>1, <2>2, CommandRecord DEF Under, Unsaved
  <2>3. CASE s = Command("login", "keep")
    BY <1>1, <2>3, CommandRecord DEF Under, Unsaved
  <2>4. CASE s = Command("lock", "logout")
    BY <1>1, <2>4, CommandRecord DEF Under, Unsaved
  <2>5. CASE s = Command("lock", "remove")
    BY <1>1, <2>5, CommandRecord DEF Under, Unsaved
  <2> QED
    BY <1>6, <2>1, <2>2, <2>3, <2>4, <2>5
<1> QED
  BY <1>1, <1>4, <1>6, <1>7, StopsKeep

\* What a command reads is what is stored, or nothing.
LEMMA GetFacts ==
    ASSUME NEW p \in Procs
    PROVE  Get(p) # NoTokens => Get(p) = stored /\ ~proc[p].memory
BY DEF Get

LEMMA LoadKeeps ==
    ASSUME SignInInv, NEW p \in Procs, Load(p)
    PROVE  SignInInv'
<1>1. SignInTyped /\ Ordered /\ proc[p].pc = "load" /\ lock' = lock
  BY DEF SignInInv, Load
<1>2. UNCHANGED <<place, config, stored, late, idp, issued, history>> /\ faults' \in Nat /\ commands' \in Nat
  BY DEF Load, world, SignInInv, SignInTyped
<1>3. Rests
  BY <1>2, RestsSame
<1>4. CASE Get(p) = NoTokens
  BY <1>1, <1>3, <1>4, IdleFacts, StopsKeep DEF Load, Set, Under
<1>5. CASE Get(p) # NoTokens
  <2> DEFINE s == [proc[p] EXCEPT !.pc = "ready", !.tokens = Get(p)]
  <2>1. Get(p) = stored /\ ~proc[p].memory /\ stored \in Pairs
    BY <1>1, <1>5, GetFacts DEF SignInTyped
  <2>2. proc' = [proc EXCEPT ![p] = s]
    BY <1>5 DEF Load, Set
  <2>3. s \in Commands
    BY <1>1, <2>1, CommandFacts DEF Commands
  <2>4. s.pc = "ready" /\ s.tokens = stored /\ s.goal = proc[p].goal /\ s.memory = proc[p].memory
    BY <1>1, <2>1, CommandFacts DEF Commands
  <2> HIDE DEF s
  <2>5. s.goal = "none" /\ Doing(s)
    BY <1>1, <2>1, <2>4 DEF Ordered, Doing
  <2>6. Moves(p, s)
    BY <1>1, <2>1, <2>2, <2>3, <2>4, <2>5, SignInAssumption DEF Moves, Unsaved, Under, SignInTyped
  <2> QED
    BY <1>3, <2>6, MovesKeep
<1> QED
  BY <1>4, <1>5

LEMMA RenewKeeps ==
    ASSUME SignInInv, NEW p \in Procs, Renew(p) \/ IdentityRevoked(p)
    PROVE  SignInInv'
<1>1. SignInTyped /\ Ordered /\ proc[p].pc = "ready" /\ lock' = lock
  BY DEF SignInInv, Renew, IdentityRevoked
<1>2. UNCHANGED <<place, config, stored, late, idp, issued, history>> /\ faults' \in Nat /\ commands' \in Nat
  BY DEF Renew, IdentityRevoked, world, SignInInv, SignInTyped
<1>3. Rests
  BY <1>2, RestsSame
<1>4. PICK goal \in {"renew", "refused"} :
         /\ proc' = [proc EXCEPT ![p] = [proc[p] EXCEPT !.pc = "lock", !.goal = goal]]
         /\ goal = "refused" => ~proc[p].memory
  BY DEF Renew, IdentityRevoked, Set
<1> DEFINE s == [proc[p] EXCEPT !.pc = "lock", !.goal = goal]
<1>5. s \in Commands /\ s.pc = "lock" /\ s.goal = goal /\ s.tokens = proc[p].tokens /\ s.memory = proc[p].memory
  BY <1>1, CommandFacts DEF Commands
<1>6. proc' = [proc EXCEPT ![p] = s]
  BY <1>4
<1> HIDE DEF s
<1>7. Doing(s) /\ ~Unsaved(s) /\ s.pc \notin Under
  BY <1>4, <1>5 DEF Doing, Unsaved, Under
<1> QED
  BY <1>1, <1>3, <1>5, <1>6, <1>7, StopsKeep

LEMMA EndKeeps ==
    ASSUME SignInInv, NEW p \in Procs, End(p) \/ Crash(p) \/ Revoke(p)
    PROVE  SignInInv'
<1>1. proc' = [proc EXCEPT ![p] = Idle] /\ SignInTyped /\ Ordered /\ Issued /\ RemovedStands
  BY DEF SignInInv, End, Crash, Revoke, Set
<1>2. lock' = lock \/ (lock' = NoProc /\ lock \in {p, NoProc})
  BY DEF End, Crash, Revoke
<1>3. UNCHANGED <<place, config, stored, late, issued, history, commands>> /\ faults' \in Nat
  BY <1>1 DEF End, Crash, Revoke, Fault, world, SignInTyped
<1>4. /\ idp' \in [Numbers -> {"unissued", "live", "spent", "revoked"}] /\ idp'[0] = "unissued"
      /\ \A n \in Numbers : idp'[n] = "spent" => idp[n] = "spent"
  BY <1>1, NumberFacts DEF End, Crash, Revoke, world, SignInTyped, Issued
<1>5. Rests
  BY <1>1, <1>3, <1>4 DEF Rests, history, SignInTyped, RemovedStands
<1> QED
  BY <1>1, <1>2, <1>5, IdleFacts, StopsKeep DEF Under

LEMMA AbandonKeeps ==
    ASSUME SignInInv, NEW p \in Procs, NoLock(p) \/ StoreFails(p)
    PROVE  SignInInv'
<1>1. proc' = [proc EXCEPT ![p] = Abandon(p)] /\ SignInTyped /\ Ordered
  BY DEF SignInInv, NoLock, StoreFails, Set, Unlock
<1>2. lock' = lock \/ (lock' = NoProc /\ lock \in {p, NoProc})
  BY <1>1 DEF NoLock, StoreFails, Unlock, Ordered, Under
<1>3. UNCHANGED <<place, config, stored, late, idp, issued, history>> /\ faults' \in Nat /\ commands' \in Nat
  BY <1>1 DEF NoLock, StoreFails, Fault, world, SignInTyped
<1>4. Rests
  BY <1>3, RestsSame
<1> QED
  BY <1>1, <1>2, <1>4, AbandonFacts, StopsKeep

LEMMA TakeLockKeeps ==
    ASSUME SignInInv, NEW p \in Procs, TakeLock(p)
    PROVE  SignInInv'
<1> DEFINE s == [proc[p] EXCEPT !.pc = "held"]
<1>1. SignInTyped /\ Ordered /\ proc[p].pc = "lock" /\ lock = NoProc /\ lock' = p /\ proc' = [proc EXCEPT ![p] = s]
  BY DEF SignInInv, TakeLock, Set
<1>2. UNCHANGED <<place, config, stored, late, idp, issued, history>> /\ faults' \in Nat /\ commands' \in Nat
  BY <1>1 DEF TakeLock, world, SignInTyped
<1>3. Rests
  BY <1>2, RestsSame
<1>4. /\ s \in Commands /\ s.pc = "held" /\ s.goal = proc[p].goal /\ s.tokens = proc[p].tokens
      /\ s.memory = proc[p].memory /\ s.new = proc[p].new /\ s.ver = proc[p].ver
  BY <1>1, CommandFacts DEF Commands, Under
<1> HIDE DEF s
<1>5. Doing(s) /\ Doing(proc[p])
  BY <1>1, <1>4 DEF Ordered, Doing
<1>6. Moves(p, s)
  BY <1>1, <1>4, <1>5, SignInAssumption DEF Moves, Unsaved, Under, SignInTyped
<1> QED
  BY <1>3, <1>6, MovesKeep

LEMMA RenewReadKeeps ==
    ASSUME SignInInv, NEW p \in Procs, RenewRead(p)
    PROVE  SignInInv'
<1> DEFINE r == proc[p]
<1>1. /\ SignInTyped /\ Ordered /\ SpentIsLost /\ r.pc = "held" /\ r.goal = "renew" /\ lock = p /\ r \in Commands /\ Doing(r)
      /\ stored \in Pairs
  BY CommandFacts DEF SignInInv, RenewRead, Ordered, Under, SignInTyped
<1>2. UNCHANGED <<place, config, stored, late, idp, issued, history>> /\ faults' \in Nat /\ commands' \in Nat
  BY <1>1 DEF RenewRead, world, SignInTyped
<1>3. Rests
  BY <1>2, RestsSame
<1>4. CASE Removed(p) /\ Unlock(p, Failed([r EXCEPT !.tokens.refresh = 0]))
  <2> DEFINE f == [[r EXCEPT !.tokens.refresh = 0] EXCEPT !.failed = TRUE]
  <2>1. /\ f \in Commands /\ f.goal = "renew" /\ f.pc = "held" /\ f.memory = r.memory /\ f.ver = r.ver
        /\ f.tokens.refresh = 0
    BY <1>1, NumberFacts DEF Commands, Pairs
  <2>2. proc' = [proc EXCEPT ![p] = After(f)] /\ lock' = NoProc
    BY <1>4 DEF Unlock, Set, Failed
  <2> HIDE DEF f, r
  <2>3. Doing(f)
    BY <1>1, <2>1 DEF Doing
  <2>4. /\ After(f) \in Commands /\ Doing(After(f)) /\ ~Unsaved(After(f)) /\ After(f).pc \notin Under
        /\ After(f).tokens.refresh = 0 /\ (After(f).memory => r.memory)
    BY <2>1, <2>3, AfterFacts
  <2> QED
    BY <1>1, <1>3, <2>2, <2>4, StopsKeep DEF r
<1>5. CASE Adoptable(p) /\ Unlock(p, After([r EXCEPT !.tokens = Get(p)]))
  <2> DEFINE f == [r EXCEPT !.tokens = Get(p)]
  <2>1. Get(p) = stored /\ ~r.memory
    BY <1>5, GetFacts DEF Adoptable
  <2>2. f \in Commands /\ f.goal = "renew" /\ f.pc = "held" /\ f.memory = r.memory /\ f.tokens = stored
    BY <1>1, <2>1 DEF Commands
  <2>3. proc' = [proc EXCEPT ![p] = After(f)] /\ lock' = NoProc
    BY <1>5 DEF Unlock, Set
  <2> HIDE DEF f, r
  <2>4. Doing(f)
    BY <1>1, <2>1, <2>2 DEF Doing
  <2>5. /\ After(f) \in Commands /\ Doing(After(f)) /\ ~Unsaved(After(f)) /\ After(f).pc \notin Under
        /\ After(f).tokens.refresh \in {0, stored.refresh} /\ ~After(f).memory
    BY <2>1, <2>2, <2>4, AfterFacts
  <2>6. Moves(p, After(f))
    BY <1>1, <2>3, <2>5, SignInAssumption DEF Moves, Under, SignInTyped
  <2> QED
    BY <1>3, <2>6, MovesKeep
<1>6. CASE ~Removed(p) /\ ~Adoptable(p) /\ Set(p, [r EXCEPT !.pc = "redeem"]) /\ UNCHANGED lock
  <2> DEFINE s == [r EXCEPT !.pc = "redeem"]
  <2>1. ~r.memory => stored = r.tokens /\ stored # NoTokens
    BY <1>6, GetFacts DEF Removed, Adoptable
  <2>2. /\ s \in Commands /\ s.goal = "renew" /\ s.pc = "redeem" /\ s.memory = r.memory /\ s.tokens = r.tokens
        /\ s.ver = r.ver
    BY <1>1 DEF Commands, Under
  <2>3. proc' = [proc EXCEPT ![p] = s] /\ lock' = lock
    BY <1>6 DEF Set
  <2> HIDE DEF s, r
  <2>4. Doing(s) /\ ~Unsaved(s)
    BY <1>1, <2>2 DEF Doing, Unsaved
  <2>5. idp[s.tokens.refresh] = "spent" => s.tokens.refresh \in lost
    BY <1>1, <2>1, <2>2 DEF SpentIsLost, r
  <2>6. s.tokens.refresh = proc[p].tokens.refresh /\ (s.memory => proc[p].memory) /\ s.pc # "delete" /\ s.pc # "save"
    BY <2>2 DEF r
  <2>7. ~unsettled /\ ~s.memory => stored = s.tokens /\ stored # NoTokens
    BY <2>1, <2>2
  <2>8. Moves(p, s)
    BY <1>1, <2>2, <2>3, <2>4, <2>5, <2>6, <2>7 DEF Moves, SignInTyped
  <2> QED
    BY <1>3, <2>8, MovesKeep
<1> QED
  BY <1>4, <1>5, <1>6 DEF RenewRead

LEMMA KeepReadKeeps ==
    ASSUME SignInInv, NEW p \in Procs, KeepRead(p)
    PROVE  SignInInv'
<1>1. /\ SignInTyped /\ Ordered /\ RemovedStands /\ proc[p].pc = "held" /\ proc[p].goal = "keep" /\ lock = p
      /\ proc[p] \in Commands /\ Doing(proc[p])
  BY CommandFacts DEF SignInInv, KeepRead, Ordered, Under
<1>2. UNCHANGED <<place, config, stored, late, idp, issued, history>> /\ faults' \in Nat /\ commands' \in Nat
  BY <1>1 DEF KeepRead, world, SignInTyped
<1>3. Rests
  BY <1>2, RestsSame
<1>4. CASE ContextStands(p)
  <2> DEFINE s == [proc[p] EXCEPT !.pc = "save"]
  <2>1. /\ s \in Commands /\ s.pc = "save" /\ s.goal = "keep" /\ s.tokens = proc[p].tokens /\ s.new = proc[p].new
        /\ s.memory = proc[p].memory /\ s.ver = proc[p].ver
    BY <1>1 DEF Commands, Under
  <2>2. proc' = [proc EXCEPT ![p] = s] /\ lock' = lock
    BY <1>4 DEF KeepRead, Set
  <2> HIDE DEF s
  <2>3. Doing(s)
    BY <1>1, <2>1 DEF Doing
  <2>4. "remove" \notin emptied'
    BY <1>1, <1>2, <1>4 DEF RemovedStands, ContextStands, Doing, history
  <2>5. Moves(p, s)
    BY <1>1, <2>1, <2>2, <2>3, <2>4 DEF Moves, Unsaved, SignInTyped
  <2> QED
    BY <1>3, <2>5, MovesKeep
<1>5. CASE ~ContextStands(p)
  BY <1>1, <1>3, <1>5, AbandonFacts, StopsKeep DEF KeepRead, Unlock, Set
<1> QED
  BY <1>4, <1>5

LEMMA ClearReadKeeps ==
    ASSUME SignInInv, NEW p \in Procs, ClearRead(p)
    PROVE  SignInInv'
<1> DEFINE r == proc[p]
           t == IF r.goal = "remove" THEN (IF config = Absent THEN stored ELSE NoTokens) ELSE Get(p)
<1>1. /\ SignInTyped /\ Ordered /\ Issued /\ RemovedStands /\ r.pc = "held" /\ r.goal \in {"logout", "refused", "remove"}
      /\ lock = p /\ r \in Commands /\ Doing(r) /\ stored \in Pairs
  BY CommandFacts DEF SignInInv, ClearRead, Ordered, Under, SignInTyped
<1>2. UNCHANGED <<place, config, stored, late, idp, issued, lost, unsettled>> /\ faults' \in Nat /\ commands' \in Nat
  BY <1>1 DEF ClearRead, world, SignInTyped
<1>3. CASE t # NoTokens /\ Matches(p, t)
  <2> DEFINE s == [r EXCEPT !.pc = "delete", !.new = t]
  <2>1. t = stored /\ t \in Pairs /\ (r.goal = "refused" => stored.who = r.tokens.who)
    BY <1>1, <1>3, GetFacts DEF Matches
  <2>2. proc' = [proc EXCEPT ![p] = s] /\ lock' = lock /\ emptied' = emptied
    BY <1>3 DEF ClearRead, Set
  <2> HIDE DEF t
  <2>3. /\ s \in Commands /\ s.pc = "delete" /\ s.goal = r.goal /\ s.tokens = r.tokens /\ s.new = stored
        /\ s.memory = r.memory /\ s.ver = r.ver
    BY <1>1, <2>1 DEF Commands, Under
  <2>4. Rests
    BY <1>2, <2>2, RestsSame DEF history
  <2> HIDE DEF s
  <2>5. Doing(s) /\ ~Unsaved(s)
    BY <1>1, <2>3 DEF Doing, Unsaved
  <2>6. Moves(p, s)
    BY <1>1, <2>1, <2>2, <2>3, <2>5 DEF Moves, SignInTyped
  <2> QED
    BY <2>4, <2>6, MovesKeep
<1>4. CASE ~(t # NoTokens /\ Matches(p, t))
  <2>1. /\ proc' = [proc EXCEPT ![p] = After(r)] /\ lock' = NoProc
        /\ emptied' = IF stored = NoTokens THEN emptied \cup Emptying(p) ELSE emptied
    BY <1>4 DEF ClearRead, Unlock, Set
  <2> HIDE DEF t
  <2>2. emptied' \in SUBSET {"logout", "remove"} /\ ("remove" \in emptied' => config = Absent)
    BY <1>1, <2>1 DEF SignInTyped, Emptying, RemovedStands
  <2>3. \A q \in Procs : proc[q].pc = "save" => lock # q
    BY <1>1
  <2>4. Rests
    BY <1>1, <1>2, <2>1, <2>2, <2>3 DEF Rests, SignInTyped, Issued
  <2>5. /\ After(r) \in Commands /\ Doing(After(r)) /\ ~Unsaved(After(r)) /\ After(r).pc \notin Under
        /\ After(r).tokens.refresh \in {0, r.tokens.refresh} /\ (After(r).memory => r.memory)
    BY <1>1, AfterFacts
  <2> QED
    BY <1>1, <2>1, <2>4, <2>5, StopsKeep
<1> QED
  BY <1>3, <1>4

LEMMA RedeemRefusedKeeps ==
    ASSUME SignInInv, NEW p \in Procs, RedeemFails(p), UNCHANGED <<idp, lost>>
    PROVE  SignInInv'
<1> DEFINE r == proc[p]
           f == [r EXCEPT !.failed = TRUE]
<1>1. /\ SignInTyped /\ Ordered /\ r.pc = "redeem" /\ lock = p /\ r \in Commands /\ Doing(r)
      /\ proc' = [proc EXCEPT ![p] = After(f)] /\ lock' = NoProc
  BY CommandFacts DEF SignInInv, RedeemFails, Ordered, Under, Unlock, Set, Failed
<1>2. UNCHANGED <<place, config, stored, late, idp, issued, history>> /\ faults' \in Nat /\ commands' \in Nat
  BY <1>1 DEF RedeemFails, history, SignInTyped, Fault
<1>3. Rests
  BY <1>2, RestsSame
<1>4. /\ f \in Commands /\ f.pc = r.pc /\ f.goal = r.goal /\ f.memory = r.memory /\ f.ver = r.ver /\ f.tokens = r.tokens
  BY <1>1 DEF Commands
<1> HIDE DEF f, r
<1>5. Doing(f)
  BY <1>1, <1>4 DEF Doing
<1>6. /\ After(f) \in Commands /\ Doing(After(f)) /\ ~Unsaved(After(f)) /\ After(f).pc \notin Under
      /\ After(f).tokens.refresh \in {0, r.tokens.refresh} /\ (After(f).memory => r.memory)
  BY <1>1, <1>4, <1>5, AfterFacts
<1> QED
  BY <1>1, <1>3, <1>6, StopsKeep DEF r

-----------------------------------------------------------------------------
(* The steps that issue, redeem, write or remove.                          *)

\* The numbers of the tokens, and the parts of the invariant.
LEMMA InvFacts ==
    ASSUME SignInInv
    PROVE  /\ SignInTyped /\ Ordered /\ Issued /\ LateApart /\ UnsavedApart /\ MemoryApart /\ SpentIsLost
           /\ ReadStands /\ RemovedStands /\ SignedOutStays
           /\ stored \in Pairs /\ stored.refresh \in Numbers /\ \A t \in late : t \in Pairs /\ t.refresh \in Numbers
           /\ \A q \in Procs : /\ proc[q] \in Commands /\ proc[q].tokens \in Pairs /\ proc[q].new \in Pairs
                               /\ proc[q].tokens.refresh \in Numbers /\ proc[q].new.refresh \in Numbers
           /\ issued \in Nat /\ Numbers \subseteq Nat /\ 0 \in Numbers
BY NumberFacts DEF SignInInv, SignInTyped, Commands, Pairs, Numbers

LEMMA AddContextKeeps ==
    ASSUME SignInInv, NEW v \in Versions, AddContext(v)
    PROVE  SignInInv'
<1>1. /\ UNCHANGED <<place, stored, lock, late, idp, issued, proc, commands, faults, lost, unsettled>>
      /\ config' = v /\ emptied' = emptied \ {"remove"}
  BY DEF AddContext
<1>2. SignInTyped'
  BY <1>1, InvFacts DEF SignInTyped
<1>3. Ordered' /\ Issued' /\ LateApart'
  BY <1>1, InvFacts DEF Ordered, Issued, LateApart
<1>4. UnsavedApart' /\ MemoryApart' /\ SpentIsLost' /\ ReadStands'
  BY <1>1, InvFacts DEF UnsavedApart, MemoryApart, SpentIsLost, ReadStands
<1>5. RemovedStands' /\ SignedOutStays'
  BY <1>1, InvFacts DEF RemovedStands, SignedOutStays
<1> QED
  BY <1>2, <1>3, <1>4, <1>5 DEF SignInInv

LEMMA LandsKeeps ==
    ASSUME SignInInv, NEW t \in late, Lands(t)
    PROVE  SignInInv'
<1>1. /\ UNCHANGED <<place, config, idp, issued, commands, lock, proc, faults, lost, emptied, unsettled>>
      /\ stored' = t /\ late' = late \ {t} /\ unsettled
  BY InvFacts DEF Lands, world, history, LateApart
<1>2. SignInTyped'
  BY <1>1, InvFacts DEF SignInTyped
<1>3. Ordered' /\ Issued'
  BY <1>1, InvFacts DEF Ordered, Issued
<1>4. LateApart' /\ UnsavedApart'
  BY <1>1, InvFacts DEF LateApart, UnsavedApart
<1>5. MemoryApart'
  BY <1>1, InvFacts DEF LateApart, MemoryApart
<1>6. SpentIsLost'
  BY <1>1, InvFacts DEF LateApart, SpentIsLost, Issued
<1>7. ReadStands' /\ RemovedStands' /\ SignedOutStays'
  BY <1>1, InvFacts DEF ReadStands, RemovedStands, SignedOutStays
<1> QED
  BY <1>2, <1>3, <1>4, <1>5, <1>6, <1>7 DEF SignInInv

\* A step that issues a token, for the command's memory or to be stored.
LEMMA IssueKeeps ==
    ASSUME SignInInv, NEW p \in Procs, NEW s \in Commands, NEW n \in Numbers, NEW spent, Doing(s),
           spent \in {{}, {proc[p].tokens.refresh}}, spent # {} => proc[p].tokens.refresh # 0,
           n = issued + 1, issued' = n, proc' = [proc EXCEPT ![p] = s], faults' \in Nat,
           idp' \in [Numbers -> {"unissued", "live", "spent", "revoked"}], idp'[0] = "unissued",
           \A k \in Numbers : idp'[k] = "spent" => idp[k] = "spent" \/ k \in spent,
           lost' = lost \cup spent,
           UNCHANGED <<place, config, commands, stored, lock, late, emptied, unsettled>>,
           s.pc \in Under => lock = p, s.pc \notin {"redeem", "delete"},
           s.pc = "save" => proc[p].pc = "redeem" /\ s.goal = "renew" /\ s.memory = proc[p].memory /\ s.tokens = proc[p].tokens,
           \/ s.memory = proc[p].memory /\ s.tokens.refresh = proc[p].tokens.refresh
              /\ (Unsaved(s) => s.new.refresh \in {0, n})
           \/ ~Unsaved(s) /\ s.tokens.refresh = n
    PROVE  SignInInv'
<1> USE SignInAssumption
<1>1. /\ proc'[p] = s /\ \A q \in Procs \ {p} : proc'[q] = proc[q]
      /\ stored' = stored /\ late' = late /\ issued' = n /\ lost' = lost \cup spent /\ unsettled' = unsettled
      /\ s.tokens.refresh \in Numbers /\ s.new.refresh \in Numbers /\ n \in Nat /\ n # 0
      /\ spent \subseteq {proc[p].tokens.refresh}
  BY InvFacts DEF Commands, Pairs, SignInTyped
<1>2. /\ stored.refresh # n /\ \A t \in late : t.refresh # n
      /\ \A q \in Procs : proc[q].tokens.refresh # n /\ (Unsaved(proc[q]) => proc[q].new.refresh # n)
  BY InvFacts DEF Issued
<1>3. SignInTyped'
  BY InvFacts DEF SignInTyped
<1>4. Ordered'
  BY <1>1, InvFacts DEF Ordered
<1>a. /\ s.tokens.refresh \in {proc[p].tokens.refresh, n}
      /\ Unsaved(s) => s.new.refresh \in {0, n} /\ s.tokens.refresh = proc[p].tokens.refresh
  OBVIOUS
<1>b. \A k \in Numbers : idp'[k] = "spent" => k # n /\ (idp[k] = "spent" \/ (k = proc[p].tokens.refresh /\ k \in spent))
  <2>1. \A k \in Numbers : idp'[k] = "spent" => k <= issued
    BY <1>1, InvFacts DEF Issued
  <2>2. ~(n <= issued)
    BY InvFacts
  <2> QED
    BY <1>1, <2>1, <2>2
<1>c. /\ \A k \in Numbers : k <= issued => k <= n
      /\ 0 <= n /\ n <= n
  <2>1. issued \in Nat /\ Numbers \subseteq Nat
    BY InvFacts
  <2> QED
    BY <2>1
<1>5. Issued'
  <2>1. s.tokens.refresh <= n /\ (Unsaved(s) => s.new.refresh <= n)
    BY <1>1, <1>a, <1>c, InvFacts DEF Issued
  <2>2. stored.refresh <= n /\ \A t \in late : t.refresh <= n
    BY <1>c, InvFacts DEF Issued
  <2>3. \A q \in Procs \ {p} : proc[q].tokens.refresh <= n /\ (Unsaved(proc[q]) => proc[q].new.refresh <= n)
    BY <1>c, InvFacts DEF Issued
  <2>4. \A k \in Numbers : idp'[k] = "spent" => k <= n
    BY <1>1, <1>b, <1>c, InvFacts DEF Issued
  <2> QED
    BY <1>1, <2>1, <2>2, <2>3, <2>4 DEF Issued
<1>6. LateApart'
  <2> SUFFICES ASSUME NEW t \in late, t.refresh # 0
               PROVE  /\ idp'[t.refresh] # "spent" /\ t.refresh # stored.refresh
                      /\ \A u \in late : u.refresh = t.refresh => u = t
                      /\ \A q \in Procs : /\ t.refresh # proc'[q].tokens.refresh
                                          /\ Unsaved(proc'[q]) => t.refresh # proc'[q].new.refresh
    BY <1>1, InvFacts DEF LateApart
  <2>1. /\ idp[t.refresh] # "spent" /\ t.refresh # stored.refresh /\ t.refresh \in Numbers
        /\ \A u \in late : u.refresh = t.refresh => u = t
        /\ \A q \in Procs : /\ t.refresh # proc[q].tokens.refresh
                            /\ Unsaved(proc[q]) => t.refresh # proc[q].new.refresh
    BY InvFacts DEF LateApart
  <2>2. idp'[t.refresh] # "spent"
    BY <1>b, <2>1
  <2>3. t.refresh # s.tokens.refresh /\ (Unsaved(s) => t.refresh # s.new.refresh)
    BY <1>2, <1>a, <2>1
  <2> QED
    BY <1>1, <2>1, <2>2, <2>3
<1>7. UnsavedApart'
  <2>1. ASSUME Unsaved(s), s.new.refresh # 0
        PROVE  /\ idp'[s.new.refresh] # "spent" /\ s.new.refresh # stored.refresh
               /\ s.new.refresh # s.tokens.refresh
               /\ \A q \in Procs \ {p} : /\ s.new.refresh # proc[q].tokens.refresh
                                         /\ Unsaved(proc[q]) => s.new.refresh # proc[q].new.refresh
    BY <1>1, <1>2, <1>a, <1>b, <2>1
  <2>2. ASSUME NEW q \in Procs \ {p}, Unsaved(proc[q]), proc[q].new.refresh # 0
        PROVE  /\ idp'[proc[q].new.refresh] # "spent" /\ proc[q].new.refresh # stored.refresh
               /\ proc[q].new.refresh # s.tokens.refresh /\ (Unsaved(s) => proc[q].new.refresh # s.new.refresh)
               /\ \A k \in Procs \ {p} : /\ proc[q].new.refresh # proc[k].tokens.refresh
                                         /\ k # q /\ Unsaved(proc[k]) => proc[q].new.refresh # proc[k].new.refresh
    <3>1. /\ idp[proc[q].new.refresh] # "spent" /\ proc[q].new.refresh # stored.refresh
          /\ proc[q].new.refresh \in Numbers /\ proc[q].new.refresh # n
          /\ \A k \in Procs : /\ proc[q].new.refresh # proc[k].tokens.refresh
                              /\ k # q /\ Unsaved(proc[k]) => proc[q].new.refresh # proc[k].new.refresh
      BY <1>2, <2>2, InvFacts DEF UnsavedApart
    <3> QED
      BY <1>a, <1>b, <2>2, <3>1
  <2> QED
    BY <1>1, <2>1, <2>2 DEF UnsavedApart
<1>8. MemoryApart'
  BY <1>1, <1>2, InvFacts DEF MemoryApart
<1>9. SpentIsLost'
  <2>1. ASSUME NEW k \in Numbers, idp[k] = "spent" => k \in lost
        PROVE  idp'[k] = "spent" => k \in lost'
    BY <1>1, <1>b, <2>1
  <2>2. stored'.refresh = stored.refresh /\ (idp'[stored.refresh] = "spent" => stored.refresh \in lost')
    BY <1>1, <2>1, InvFacts DEF SpentIsLost
  <2>3. \A q \in Procs \ {p} : (proc[q].memory \/ proc[q].pc = "redeem") /\ idp'[proc[q].tokens.refresh] = "spent"
                                => proc[q].tokens.refresh \in lost'
    BY <2>1, InvFacts DEF SpentIsLost
  <2>4. s.memory /\ idp'[s.tokens.refresh] = "spent" => s.tokens.refresh \in lost'
    BY <1>1, <1>b, <2>1, InvFacts DEF SpentIsLost
  <2> QED
    BY <1>1, <2>2, <2>3, <2>4 DEF SpentIsLost
<1>10. ReadStands'
  <2>1. ASSUME ~unsettled, s.pc = "save", ~s.memory
        PROVE  stored = s.tokens /\ stored # NoTokens
    BY <2>1, InvFacts DEF ReadStands, Ordered, Doing
  <2>2. \A q \in Procs \ {p} : ~unsettled =>
          /\ proc[q].pc \in {"redeem", "save"} /\ proc[q].goal = "renew" /\ ~proc[q].memory =>
                stored = proc[q].tokens /\ stored # NoTokens
          /\ proc[q].pc = "delete" => /\ stored = proc[q].new
                                      /\ proc[q].goal = "refused" => stored.who = proc[q].tokens.who
    BY InvFacts DEF ReadStands
  <2> QED
    BY <1>1, <2>1, <2>2 DEF ReadStands
<1>11. RemovedStands' /\ SignedOutStays'
  BY <1>1, InvFacts DEF RemovedStands, SignedOutStays
<1> QED
  BY <1>3, <1>4, <1>5, <1>6, <1>7, <1>8, <1>9, <1>10, <1>11 DEF SignInInv

\* A pair as a provider answers it.
LEMMA PairFacts ==
    ASSUME NEW n \in Numbers, NEW m \in Numbers, NEW w \in Subjects \cup {NoSubject}, NEW v \in Versions \cup {Absent}
    PROVE  /\ [access |-> n, refresh |-> m, who |-> w, ver |-> v] \in Pairs
           /\ [access |-> n, refresh |-> m, who |-> w, ver |-> v].refresh = m
BY DEF Pairs

LEMMA LoadFailsKeeps ==
    ASSUME SignInInv, NEW p \in Procs, LoadFails(p)
    PROVE  SignInInv'
<1> DEFINE n == issued + 1
           Pair(w) == [access |-> n, refresh |-> n, who |-> w, ver |-> proc[p].ver]
           Record(w) == [proc[p] EXCEPT !.pc = "ready", !.memory = TRUE, !.tokens = Pair(w)]
<1>1. /\ proc[p].pc = "load" /\ n \in Numbers /\ issued' = n /\ idp' = [idp EXCEPT ![n] = "live"] /\ faults' \in Nat
      /\ UNCHANGED <<place, config, commands, stored, lock, late, lost, emptied, unsettled>>
  BY InvFacts DEF LoadFails, Fault, history, SignInTyped
<1>2. PICK w \in Subjects : proc' = [proc EXCEPT ![p] = Record(w)]
  BY DEF LoadFails, Set
<1>3. Pair(w) \in Pairs /\ Pair(w).refresh = n
  <2>1. proc[p].ver \in Versions \cup {Absent}
    BY InvFacts, CommandFacts
  <2> QED
    BY <1>1, <2>1, PairFacts
<1> HIDE DEF Pair
<1> DEFINE s == Record(w)
<1>4. /\ s \in Commands /\ s.pc = "ready" /\ s.goal = proc[p].goal /\ s.memory = TRUE /\ s.tokens = Pair(w)
  BY <1>3, InvFacts DEF Commands
<1>5. proc' = [proc EXCEPT ![p] = s]
  BY <1>2
<1> HIDE DEF s
<1>6. s.goal = "none"
  BY <1>1, <1>4, InvFacts DEF Ordered, Doing
<1>7. Doing(s) /\ ~Unsaved(s) /\ s.tokens.refresh = n /\ s.pc \notin Under
  BY <1>3, <1>4, <1>6 DEF Doing, Unsaved, Under
<1>8. /\ idp' \in [Numbers -> {"unissued", "live", "spent", "revoked"}] /\ idp'[0] = "unissued"
      /\ \A k \in Numbers : idp'[k] = "spent" => idp[k] = "spent" \/ k \in {}
  BY <1>1, InvFacts DEF SignInTyped, Issued
<1> HIDE DEF n
<1>9. lost' = lost \cup {} /\ n = issued + 1
  BY <1>1 DEF n
<1> QED
  BY <1>1, <1>4, <1>5, <1>7, <1>8, <1>9, IssueKeeps

LEMMA SignInAnsweredKeeps ==
    ASSUME SignInInv, NEW p \in Procs, SignInAnswered(p)
    PROVE  SignInInv'
<1> DEFINE n == issued + 1
           Pair(w) == [access |-> n, refresh |-> n, who |-> w, ver |-> proc[p].ver]
<1>1. /\ proc[p].pc = "login" /\ n \in Numbers /\ issued' = n /\ idp' = [idp EXCEPT ![n] = "live"] /\ faults' \in Nat
      /\ UNCHANGED <<place, config, commands, stored, lock, late, lost, emptied, unsettled>>
  BY InvFacts DEF SignInAnswered, Issue, history, SignInTyped
<1>2. PICK w \in Subjects : proc' = [proc EXCEPT ![p].new = Pair(w), ![p].pc = "lock"]
  BY DEF SignInAnswered, Issue
<1>3. Pair(w) \in Pairs /\ Pair(w).refresh = n
  <2>1. proc[p].ver \in Versions \cup {Absent}
    BY InvFacts, CommandFacts
  <2> QED
    BY <1>1, <2>1, PairFacts
<1> HIDE DEF Pair
<1> DEFINE s == [proc[p] EXCEPT !.new = Pair(w), !.pc = "lock"]
<1>4. /\ s \in Commands /\ s.pc = "lock" /\ s.goal = proc[p].goal /\ s.memory = proc[p].memory
      /\ s.tokens = proc[p].tokens /\ s.ver = proc[p].ver /\ s.new = Pair(w)
  BY <1>3, InvFacts DEF Commands
<1>5. proc' = [proc EXCEPT ![p] = s]
  BY <1>2, InvFacts DEF SignInTyped
<1> HIDE DEF s
<1>6. s.goal = "keep" /\ Doing(s) /\ s.pc \notin Under
  BY <1>1, <1>4, InvFacts DEF Ordered, Doing, Under
<1>7. s.new.refresh \in {0, n} /\ s.tokens.refresh = proc[p].tokens.refresh
  BY <1>3, <1>4
<1>8. /\ idp' \in [Numbers -> {"unissued", "live", "spent", "revoked"}] /\ idp'[0] = "unissued"
      /\ \A k \in Numbers : idp'[k] = "spent" => idp[k] = "spent" \/ k \in {}
  BY <1>1, InvFacts DEF SignInTyped, Issued
<1> HIDE DEF n
<1>9. lost' = lost \cup {} /\ n = issued + 1
  BY <1>1 DEF n
<1> QED
  BY <1>1, <1>4, <1>5, <1>6, <1>7, <1>8, <1>9, IssueKeeps

LEMMA RedeemKeeps ==
    ASSUME SignInInv, NEW p \in Procs, Redeem(p)
    PROVE  SignInInv'
<1> DEFINE n == issued + 1
           old == proc[p].tokens.refresh
           Pair(m) == [proc[p].tokens EXCEPT !.access = n, !.refresh = m]
           Record(m) == [proc[p] EXCEPT !.pc = "save", !.new = Pair(m)]
<1>1. /\ proc[p].pc = "redeem" /\ n \in Numbers /\ issued' = n /\ idp[old] = "live" /\ faults' \in Nat
      /\ UNCHANGED <<place, config, commands, stored, lock, late, emptied, unsettled>>
  BY InvFacts DEF Redeem, SignInTyped
<1>2. PICK m \in {0, n} :
        /\ proc' = [proc EXCEPT ![p] = Record(m)]
        /\ m = n => idp' = [idp EXCEPT ![old] = "spent", ![n] = "live"] /\ lost' = lost \cup {old}
        /\ m = 0 => UNCHANGED <<idp, lost>>
  <2>1. n # 0
    BY InvFacts
  <2> QED
    BY <2>1 DEF Redeem, Set
<1>3. m \in Numbers /\ n # 0
  BY <1>1, InvFacts
<1>4. Pair(m) \in Pairs /\ Pair(m).refresh = m
  BY <1>1, <1>3, InvFacts DEF Pairs
<1> HIDE DEF Pair
<1> DEFINE s == Record(m)
<1>5. /\ s \in Commands /\ s.pc = "save" /\ s.goal = proc[p].goal /\ s.memory = proc[p].memory
      /\ s.tokens = proc[p].tokens /\ s.ver = proc[p].ver /\ s.new = Pair(m)
  BY <1>4, InvFacts DEF Commands, Under
<1>6. proc' = [proc EXCEPT ![p] = s]
  BY <1>2
<1> HIDE DEF s
<1>7. s.goal = "renew" /\ Doing(s) /\ lock = p
  BY <1>1, <1>5, InvFacts DEF Ordered, Doing, Under
<1>8. s.new.refresh \in {0, n} /\ s.tokens.refresh = proc[p].tokens.refresh
  BY <1>4, <1>5
<1> DEFINE spent == IF m = n THEN {old} ELSE {}
<1>9. old # 0 /\ old \in Numbers /\ old # n
  BY <1>1, InvFacts DEF Issued
<1>10. /\ idp' \in [Numbers -> {"unissued", "live", "spent", "revoked"}] /\ idp'[0] = "unissued"
       /\ \A k \in Numbers : idp'[k] = "spent" => idp[k] = "spent" \/ k \in spent
  <2>1. CASE m = n
    BY <1>1, <1>2, <1>3, <1>9, <2>1, InvFacts DEF SignInTyped, Issued
  <2>2. CASE m = 0
    BY <1>2, <1>3, <2>2, InvFacts DEF SignInTyped, Issued
  <2> QED
    BY <2>1, <2>2
<1>11. lost' = lost \cup spent /\ spent \in {{}, {old}}
  BY <1>2, <1>3
<1>12. n = issued + 1
  OBVIOUS
<1> HIDE DEF n, spent
<1> QED
  BY <1>1, <1>5, <1>6, <1>7, <1>8, <1>9, <1>10, <1>11, <1>12, IssueKeeps

\* The answer of a redemption is lost with the token spent.
LEMMA RedeemLostKeeps ==
    ASSUME SignInInv, NEW p \in Procs, RedeemFails(p), idp[proc[p].tokens.refresh] = "live",
           idp' = [idp EXCEPT ![proc[p].tokens.refresh] = "spent"], lost' = lost \cup {proc[p].tokens.refresh}
    PROVE  SignInInv'
<1> USE SignInAssumption
<1> DEFINE r == proc[p]
           f == [r EXCEPT !.failed = TRUE]
           s == After(f)
           old == r.tokens.refresh
<1>1. /\ r.pc = "redeem" /\ lock = p /\ r \in Commands /\ Doing(r) /\ proc' = [proc EXCEPT ![p] = s] /\ lock' = NoProc
      /\ faults' \in Nat /\ UNCHANGED <<place, config, stored, late, issued, commands, emptied, unsettled>>
  BY InvFacts DEF RedeemFails, Ordered, Under, Unlock, Set, Failed, Fault, SignInTyped
<1>2. /\ f \in Commands /\ f.pc = r.pc /\ f.goal = r.goal /\ f.memory = r.memory /\ f.ver = r.ver /\ f.tokens = r.tokens
  BY <1>1 DEF Commands
<1> HIDE DEF f
<1>3. Doing(f)
  BY <1>1, <1>2 DEF Doing
<1>4. /\ s \in Commands /\ Doing(s) /\ ~Unsaved(s) /\ s.pc \notin Under
      /\ s.tokens.refresh \in {0, old} /\ (s.memory => r.memory)
  BY <1>1, <1>2, <1>3, AfterFacts
<1> HIDE DEF s
<1>5. /\ proc'[p] = s /\ \A q \in Procs \ {p} : proc'[q] = proc[q]
      /\ old \in Numbers /\ old # 0 /\ old <= issued /\ s.tokens.refresh \in Numbers /\ s.tokens.refresh <= issued
  BY <1>1, <1>4, InvFacts DEF SignInTyped, Issued
<1>6. /\ idp' \in [Numbers -> {"unissued", "live", "spent", "revoked"}] /\ idp'[0] = "unissued"
      /\ \A k \in Numbers : idp'[k] = "spent" => idp[k] = "spent" \/ k = old
  BY <1>5, InvFacts DEF SignInTyped, Issued
<1>7. SignInTyped'
  BY <1>1, <1>4, <1>5, <1>6, InvFacts DEF SignInTyped
<1>8. Ordered'
  BY <1>1, <1>4, <1>5, InvFacts DEF Ordered
<1>9. Issued'
  BY <1>1, <1>4, <1>5, <1>6, InvFacts DEF Issued
<1>10. LateApart'
  BY <1>1, <1>4, <1>5, <1>6, InvFacts DEF LateApart
<1>11. UnsavedApart'
  BY <1>1, <1>4, <1>5, <1>6, InvFacts DEF UnsavedApart
<1>12. MemoryApart'
  BY <1>1, <1>4, <1>5, InvFacts DEF MemoryApart
<1>13. SpentIsLost'
  BY <1>1, <1>4, <1>5, <1>6, InvFacts DEF SpentIsLost, Under
<1>14. ReadStands' /\ RemovedStands' /\ SignedOutStays'
  BY <1>1, <1>4, <1>5, InvFacts DEF ReadStands, RemovedStands, SignedOutStays, Under
<1> QED
  BY <1>7, <1>8, <1>9, <1>10, <1>11, <1>12, <1>13, <1>14 DEF SignInInv

LEMMA RedeemFailsKeeps ==
    ASSUME SignInInv, NEW p \in Procs, RedeemFails(p)
    PROVE  SignInInv'
BY RedeemRefusedKeeps, RedeemLostKeeps DEF RedeemFails

\* Nobody else holds the lock.
LEMMA Alone ==
    ASSUME SignInInv, NEW p \in Procs, proc[p].pc \in Under
    PROVE  lock = p /\ \A q \in Procs \ {p} : proc[q].pc \notin Under
BY DEF SignInInv, Ordered

LEMMA SaveKeeps ==
    ASSUME SignInInv, NEW p \in Procs, Save(p)
    PROVE  SignInInv'
<1> USE SignInAssumption
<1> DEFINE r == proc[p]
           f == [r EXCEPT !.tokens = r.new]
           s == After(f)
<1>1. /\ r.pc = "save" /\ r \in Commands /\ Doing(r) /\ proc' = [proc EXCEPT ![p] = s] /\ lock' = NoProc
      /\ UNCHANGED <<place, config, idp, issued, commands, late, faults, unsettled>>
      /\ stored' = (IF r.memory THEN stored ELSE r.new) /\ lost' = lost \ {r.tokens.refresh}
      /\ emptied' = (IF r.goal = "keep" THEN emptied \ {"logout"} ELSE emptied) /\ Unsaved(r)
  BY InvFacts DEF Save, Ordered, Unlock, Set, world, Unsaved
<1>2. lock = p /\ \A q \in Procs \ {p} : proc[q].pc \notin Under
  BY <1>1, Alone DEF Under
<1>3. /\ f \in Commands /\ f.pc = r.pc /\ f.goal = r.goal /\ f.memory = r.memory /\ f.tokens = r.new
  BY <1>1, InvFacts DEF Commands
<1>4. /\ s \in Commands /\ Doing(s) /\ ~Unsaved(s) /\ s.pc \notin Under /\ s.tokens.refresh \in {0, r.new.refresh}
      /\ s.memory => r.memory
  <2>1. CASE r.goal = "renew"
    <3>1. s = [f EXCEPT !.pc = "ready", !.goal = "none", !.new = NoTokens]
      BY <1>3, <2>1 DEF After
    <3>2. s \in Commands /\ s.pc = "ready" /\ s.goal = "none" /\ s.tokens = r.new /\ s.memory = r.memory
      BY <1>3, <3>1, IdleFacts DEF Commands
    <3> QED
      BY <3>2 DEF Doing, Unsaved, Under
  <2>2. CASE r.goal # "renew"
    BY <1>3, <2>2, IdleFacts DEF After, Under
  <2> QED
    BY <2>1, <2>2
<1> HIDE DEF s, f
<1>5. /\ proc'[p] = s /\ \A q \in Procs \ {p} : proc'[q] = proc[q]
      /\ r.new.refresh \in Numbers /\ r.new.refresh <= issued /\ s.tokens.refresh \in Numbers /\ s.tokens.refresh <= issued
      /\ 0 <= issued
  <2>1. 0 <= issued /\ r.new.refresh \in Numbers /\ r.new.refresh <= issued
    BY <1>1, InvFacts DEF Issued
  <2> QED
    BY <1>1, <1>4, <2>1, InvFacts DEF SignInTyped
<1>6. /\ stored'.refresh \in {stored.refresh, r.new.refresh} /\ stored'.refresh \in Numbers /\ stored' \in Pairs
      /\ r.memory => stored' = stored
      /\ ~r.memory => stored' = r.new
  BY <1>1, InvFacts
<1>7. SignInTyped'
  BY <1>1, <1>4, <1>6, InvFacts DEF SignInTyped
<1>8. Ordered'
  BY <1>1, <1>2, <1>4, <1>5, InvFacts DEF Ordered
<1>9. Issued'
  BY <1>1, <1>4, <1>5, <1>6, InvFacts DEF Issued
<1>10. r.new.refresh # 0 =>
         /\ idp[r.new.refresh] # "spent" /\ r.new.refresh # stored.refresh
         /\ \A q \in Procs : /\ r.new.refresh # proc[q].tokens.refresh
                             /\ q # p /\ Unsaved(proc[q]) => r.new.refresh # proc[q].new.refresh
  BY <1>1, InvFacts DEF UnsavedApart
<1>11. LateApart'
  <2>1. \A t \in late : t.refresh # 0 => t.refresh # r.new.refresh
    BY <1>1, InvFacts DEF LateApart
  <2> QED
    BY <1>1, <1>4, <1>5, <1>6, <2>1, InvFacts DEF LateApart
<1>12. UnsavedApart'
  BY <1>1, <1>4, <1>5, <1>6, <1>10, InvFacts DEF UnsavedApart
<1>13. MemoryApart'
  BY <1>1, <1>4, <1>5, <1>6, <1>10, InvFacts DEF MemoryApart
<1>14. SpentIsLost'
  <2>1. idp[0] # "spent" /\ idp[r.new.refresh] # "spent" /\ idp[s.tokens.refresh] # "spent"
    BY <1>4, <1>10, InvFacts DEF Issued
  <2>2. idp[stored'.refresh] = "spent" => stored'.refresh \in lost'
    BY <1>1, <1>6, <2>1, InvFacts DEF SpentIsLost, MemoryApart
  <2>3. \A q \in Procs \ {p} : (proc[q].memory \/ proc[q].pc = "redeem") /\ idp[proc[q].tokens.refresh] = "spent"
                                => proc[q].tokens.refresh \in lost'
    BY <1>1, <1>2, <2>1, InvFacts DEF SpentIsLost, MemoryApart, Under
  <2> QED
    BY <1>1, <1>5, <2>1, <2>2, <2>3 DEF SpentIsLost
<1>15. ReadStands'
  BY <1>1, <1>2, <1>4, <1>5 DEF ReadStands, Under
<1>16. RemovedStands'
  BY <1>1, <1>2, <1>4, <1>5, InvFacts DEF RemovedStands, Under
<1>17. SignedOutStays'
  BY <1>1, InvFacts DEF SignedOutStays, RemovedStands, ReadStands, SignInTyped, Doing
<1> QED
  BY <1>7, <1>8, <1>9, <1>11, <1>12, <1>13, <1>14, <1>15, <1>16, <1>17 DEF SignInInv

LEMMA DeleteKeeps ==
    ASSUME SignInInv, NEW p \in Procs, Delete(p)
    PROVE  SignInInv'
<1> USE SignInAssumption
<1> DEFINE r == proc[p]
           v == [r EXCEPT !.pc = "revoke"]
           s == IF r.goal = "logout" THEN v ELSE After(r)
<1>1. /\ r.pc = "delete" /\ r \in Commands /\ Doing(r) /\ proc' = [proc EXCEPT ![p] = s] /\ lock' = NoProc
      /\ UNCHANGED <<place, config, idp, issued, commands, late, faults, lost, unsettled>>
      /\ stored' = NoTokens /\ emptied' = emptied \cup Emptying(p)
  BY InvFacts DEF Delete, Ordered, Unlock, Set, world
<1>2. lock = p /\ \A q \in Procs \ {p} : proc[q].pc \notin Under
  BY <1>1, Alone DEF Under
<1>3. /\ s \in Commands /\ Doing(s) /\ ~Unsaved(s) /\ s.pc \notin Under
      /\ s.tokens.refresh \in {0, r.tokens.refresh} /\ (s.memory => r.memory)
  <2>1. /\ v \in Commands /\ v.pc = "revoke" /\ v.goal = r.goal /\ v.tokens = r.tokens /\ v.memory = r.memory
    BY <1>1 DEF Commands
  <2>2. CASE r.goal = "logout"
    <3>1. s = v
      BY <2>2
    <3> HIDE DEF v, s, r
    <3> QED
      BY <1>1, <2>1, <2>2, <3>1 DEF Doing, Unsaved, Under
  <2>3. CASE r.goal # "logout"
    BY <1>1, <2>3, AfterFacts
  <2> QED
    BY <2>2, <2>3
<1> HIDE DEF s
<1>4. /\ proc'[p] = s /\ \A q \in Procs \ {p} : proc'[q] = proc[q] /\ proc'[q].pc \notin Under
      /\ s.tokens.refresh \in Numbers /\ s.tokens.refresh <= issued /\ NoTokens.refresh = 0 /\ NoTokens \in Pairs
      /\ 0 <= issued
  BY <1>1, <1>2, <1>3, IdleFacts, InvFacts DEF SignInTyped, Issued, NoTokens
<1>5. emptied' \in SUBSET {"logout", "remove"} /\ ("remove" \in emptied' => config = Absent)
  BY <1>1, InvFacts DEF SignInTyped, Emptying, RemovedStands
<1>6. SignInTyped'
  BY <1>1, <1>3, <1>4, <1>5, InvFacts DEF SignInTyped
<1>7. Ordered'
  BY <1>3, <1>4, InvFacts DEF Ordered
<1>8. Issued'
  BY <1>1, <1>3, <1>4, InvFacts DEF Issued
<1>9. LateApart'
  BY <1>1, <1>3, <1>4, InvFacts DEF LateApart
<1>10. UnsavedApart'
  BY <1>1, <1>3, <1>4, InvFacts DEF UnsavedApart
<1>11. MemoryApart'
  BY <1>1, <1>3, <1>4, InvFacts DEF MemoryApart
<1>12. SpentIsLost'
  BY <1>1, <1>3, <1>4, InvFacts DEF SpentIsLost, Issued, Under
<1>13. ReadStands' /\ RemovedStands'
  BY <1>1, <1>3, <1>4, <1>5 DEF ReadStands, RemovedStands, Under
<1>14. SignedOutStays'
  BY <1>1 DEF SignedOutStays
<1> QED
  BY <1>6, <1>7, <1>8, <1>9, <1>10, <1>11, <1>12, <1>13, <1>14 DEF SignInInv

LEMMA UnansweredKeeps ==
    ASSUME SignInInv, NEW p \in Procs, Unanswered(p)
    PROVE  SignInInv'
<1> USE SignInAssumption
<1> DEFINE r == proc[p]
           s == Abandon(p)
           w == IF r.pc = "save" THEN r.new ELSE NoTokens
<1>1. /\ r.pc \in {"save", "delete"} /\ ~r.memory /\ proc' = [proc EXCEPT ![p] = s] /\ lock' = NoProc
      /\ UNCHANGED <<place, config, idp, issued, commands, stored, lost, emptied>> /\ faults' \in Nat
      /\ late' = late \cup {w} /\ unsettled' = TRUE
  BY InvFacts DEF Unanswered, Unlock, Set, world, Fault, SignInTyped
<1>2. lock = p /\ \A q \in Procs \ {p} : proc[q].pc \notin Under
  BY <1>1, Alone DEF Under
<1>3. /\ s \in Commands /\ Doing(s) /\ ~Unsaved(s) /\ s.pc \notin Under
      /\ s.tokens.refresh \in {0, r.tokens.refresh} /\ (s.memory => r.memory)
  BY InvFacts, AbandonFacts
<1>4. /\ w \in Pairs /\ (w.refresh # 0 => Unsaved(r) /\ w = r.new)
  BY InvFacts, IdleFacts DEF Unsaved, NoTokens
<1> HIDE DEF s, w
<1>5. /\ proc'[p] = s /\ \A q \in Procs \ {p} : proc'[q] = proc[q] /\ proc'[q].pc \notin Under
      /\ s.tokens.refresh \in Numbers /\ s.tokens.refresh <= issued /\ w.refresh \in Numbers /\ w.refresh <= issued
      /\ 0 <= issued
  BY <1>1, <1>2, <1>3, <1>4, IdleFacts, InvFacts DEF SignInTyped, Issued, Pairs
<1>6. w.refresh # 0 =>
         /\ idp[w.refresh] # "spent" /\ w.refresh # stored.refresh
         /\ \A q \in Procs : /\ w.refresh # proc[q].tokens.refresh
                             /\ q # p /\ Unsaved(proc[q]) => w.refresh # proc[q].new.refresh
         /\ \A u \in late : u.refresh # w.refresh
  BY <1>4, InvFacts DEF UnsavedApart, LateApart
<1>7. SignInTyped'
  BY <1>1, <1>3, <1>4, <1>5, InvFacts DEF SignInTyped
<1>8. Ordered'
  BY <1>3, <1>5, InvFacts DEF Ordered
<1>9. Issued'
  BY <1>1, <1>3, <1>5, InvFacts DEF Issued
<1>10. LateApart'
  <2>1. ASSUME NEW t \in late, t.refresh # 0
        PROVE  /\ idp[t.refresh] # "spent" /\ t.refresh # stored.refresh
               /\ \A u \in late : u.refresh = t.refresh => u = t
               /\ \A q \in Procs : /\ t.refresh # proc[q].tokens.refresh
                                   /\ Unsaved(proc[q]) => t.refresh # proc[q].new.refresh
    BY <2>1, InvFacts DEF LateApart
  <2>2. ASSUME NEW t \in late', t.refresh # 0
        PROVE  /\ idp'[t.refresh] # "spent" /\ t.refresh # stored'.refresh
               /\ \A u \in late' : u.refresh = t.refresh => u = t
               /\ \A q \in Procs : /\ t.refresh # proc'[q].tokens.refresh
                                   /\ Unsaved(proc'[q]) => t.refresh # proc'[q].new.refresh
    <3>1. CASE t = w
      BY <1>1, <1>3, <1>5, <1>6, <2>2, <3>1
    <3>2. CASE t # w
      <4>1. t \in late
        BY <1>1, <3>2
      <4> QED
        BY <1>1, <1>3, <1>5, <1>6, <2>1, <2>2, <4>1
    <3> QED
      BY <3>1, <3>2
  <2> QED
    BY <1>1, <2>2 DEF LateApart
<1>11. UnsavedApart'
  BY <1>1, <1>3, <1>5, InvFacts DEF UnsavedApart
<1>12. MemoryApart'
  BY <1>1, <1>3, <1>5, InvFacts DEF MemoryApart
<1>13. SpentIsLost'
  BY <1>1, <1>3, <1>5, InvFacts DEF SpentIsLost, Under
<1>14. ReadStands' /\ SignedOutStays'
  BY <1>1 DEF ReadStands, SignedOutStays
<1>15. RemovedStands'
  BY <1>1, <1>3, <1>5, InvFacts DEF RemovedStands, Under
<1> QED
  BY <1>7, <1>8, <1>9, <1>10, <1>11, <1>12, <1>13, <1>14, <1>15 DEF SignInInv

-----------------------------------------------------------------------------

LEMMA InitEstablishes == Init => SignInInv
<1> USE SignInAssumption, NumberFacts, IdleFacts
<1> SUFFICES ASSUME Init
             PROVE  SignInInv
  OBVIOUS
<1>1. PICK w \in Subjects : stored = [access |-> 1, refresh |-> 1, who |-> w, ver |-> config]
  BY DEF Init
<1>2. /\ stored \in Pairs /\ stored.refresh = 1 /\ \A p \in Procs : proc[p] = Idle
      /\ idp[0] = "unissued" /\ \A n \in Numbers : idp[n] # "spent"
      /\ lost = {} /\ emptied = {} /\ unsettled = FALSE /\ late = {} /\ issued = 1 /\ lock = NoProc
  BY <1>1 DEF Init, Pairs
<1>3. SignInTyped
  BY <1>2 DEF Init, SignInTyped
<1>4. Ordered /\ Issued /\ LateApart
  BY <1>2 DEF Ordered, Issued, LateApart, Under
<1>5. UnsavedApart /\ MemoryApart /\ SpentIsLost
  BY <1>2 DEF UnsavedApart, MemoryApart, SpentIsLost
<1>6. ReadStands /\ RemovedStands /\ SignedOutStays
  BY <1>2 DEF ReadStands, RemovedStands, SignedOutStays
<1> QED
  BY <1>3, <1>4, <1>5, <1>6 DEF SignInInv

LEMMA NextKeeps == SignInInv /\ [Next]_vars => SignInInv'
<1> SUFFICES ASSUME SignInInv, [Next]_vars
             PROVE  SignInInv'
  OBVIOUS
<1>1. ASSUME NEW p \in Procs, Step(p)
      PROVE  SignInInv'
  BY <1>1, StartKeeps, LoadKeeps, LoadFailsKeeps, SignInAnsweredKeeps, RenewKeeps, EndKeeps, TakeLockKeeps,
     AbandonKeeps, RenewReadKeeps, RedeemKeeps, RedeemFailsKeeps, KeepReadKeeps, SaveKeeps, ClearReadKeeps,
     DeleteKeeps, UnansweredKeeps DEF Step
<1>2. CASE UNCHANGED vars
  BY <1>2 DEF vars, SignInInv, SignInTyped, Ordered, Issued, LateApart, UnsavedApart, MemoryApart, SpentIsLost, ReadStands,
     RemovedStands, SignedOutStays
<1> QED
  BY <1>1, <1>2, AddContextKeeps, LandsKeeps DEF Next

LEMMA Invariance == Spec => []SignInInv
BY InitEstablishes, NextKeeps, PTL DEF Spec

\* A rotated refresh token is redeemed once: for any number of commands, of tokens and of faults, a
\* process that redeems a spent one redeems one whose new pair could not be kept (renew).
THEOREM TokenRedeemedOnce == Spec => []RedeemedOnce
<1>1. SignInInv => RedeemedOnce
  BY DEF SignInInv, SpentIsLost, RedeemedOnce
<1> QED
  BY <1>1, Invariance, PTL

\* A store that a logout or a removal emptied stays empty until a login is kept (renew, ClearStored,
\* SignIn).
THEOREM EmptiedStays == Spec => []SignedOutStays
<1>1. SignInInv => SignedOutStays
  BY DEF SignInInv
<1> QED
  BY <1>1, Invariance, PTL

\* A command removes the sign-in that it read and matched, and no other (clear, signedIn).
THEOREM RemovedAsRead == Spec => []RemovesWhatItRead
<1>1. SignInInv => RemovesWhatItRead
  BY DEF SignInInv, ReadStands, RemovesWhatItRead
<1> QED
  BY <1>1, Invariance, PTL

-----------------------------------------------------------------------------
(* Tokens: the service tokens, the identities and the acts.               *)

Actions == {"token.issue", "token.rotate", "token.revoke", "identity.revoke", "request"}
TxType ==
  [pc : {"idle", "epoch", "lock", "order", "commit", "over"}, action : Actions,
   by : Principals \cup {0}, on : Principals \cup {0}, human : Principals \cup {0},
   epoch : Nat, seq : Nat]
ActType ==
  [seq : Nat \ {0}, action : Actions \cup {"recovery.enter"}, by : Principals \cup {0},
   on : Principals \cup {0}, human : Principals \cup {0}, epoch : Nat]
TokenType == [epoch : Nat, revoked : BOOLEAN]

Typed ==
  /\ rows \subseteq Services
  /\ revoked \in [Principals -> BOOLEAN]
  /\ token \in [Services -> Seq(TokenType)]
  /\ current \in Nat /\ next \in Nat \ {0}
  /\ acts \subseteq ActType
  /\ tx \in [Txs -> TxType]
  /\ reader \in [after : Nat, shown : SUBSET Nat]

\* Begin's choices, kept to the end of the transaction.
Begun(t) == tx[t].pc \in {"epoch", "lock", "order", "commit"} =>
  IF tx[t].action = "request" THEN tx[t].by = 0 /\ tx[t].human = 0 /\ tx[t].on = 0
  ELSE /\ tx[t].by \in Humans /\ tx[t].human \in Humans /\ tx[t].on \in Principals
       /\ tx[t].action # "identity.revoke" => tx[t].on \in Services

\* The installation state and the act order are locked as their modes allow.
LocksExclude == \A t, u \in Txs : t # u =>
  /\ HoldsEpoch(t) /\ HoldsEpoch(u) => ~Exclusive(t)
  /\ ~(HoldsOrder(t) /\ HoldsOrder(u))

Checked(t) == tx[t].pc \in {"order", "commit"}

\* What LockPrincipals found still holds: a recovery entry or a revocation would have waited.
FoundStands == \A t \in Txs : Checked(t) =>
  /\ tx[t].epoch = current
  /\ \A p \in {tx[t].by, tx[t].human} \ {0} : ~revoked[p]
  /\ Issues(tx[t].action) => ~revoked[tx[t].on]
  /\ Exclusive(t) => tx[t].on \in Humans \cup rows

\* Acts are numbered below the sequence, and the one act being recorded comes after all of them.
Numbered ==
  /\ \A a \in acts : a.seq < next
  /\ \A t \in Txs : HoldsOrder(t) => tx[t].seq \in 1 .. next - 1 /\ \A a \in acts : a.seq < tx[t].seq

\* The cursor is an act's number, and what is before it was shown.
CursorTrue ==
  /\ reader.after = 0 \/ \E a \in acts : a.seq = reader.after
  /\ \A a \in acts : a.seq <= reader.after => a.seq \in reader.shown

EpochsRise ==
  /\ \A a \in acts : a.epoch <= current
  /\ \A a, b \in acts : a.seq < b.seq => a.epoch <= b.epoch

\* A revocation's act and the flag on the principal go together, and bar every later act.
RevokedMarked ==
  /\ \A a \in acts : a.action = "identity.revoke" => a.on \in Principals /\ revoked[a.on]
  /\ \A s \in Services : revoked[s] => s \in rows
  /\ \A a, b \in acts : a.action = "identity.revoke" /\ a.seq < b.seq =>
        a.on \notin {b.by, b.human} /\ (Issues(b.action) => a.on # b.on)

OneLive == \A s \in Services :
  /\ revoked[s] => Live(s) = {}
  /\ \A i, j \in Live(s) : i = j

TokensInv ==
  /\ Typed /\ (\A t \in Txs : Begun(t)) /\ LocksExclude /\ FoundStands
  /\ Numbered /\ CursorTrue /\ EpochsRise /\ RevokedMarked /\ OneLive

-----------------------------------------------------------------------------
LEMMA InitHolds == TokensInit => TokensInv
<1> SUFFICES ASSUME TokensInit PROVE TokensInv OBVIOUS
<1>1. ASSUME NEW s \in Services PROVE token[s] \in Seq(TokenType) /\ \A i, j \in Live(s) : i = j
  <2>1. CASE token[s] = <<>> BY <2>1 DEF Live
  <2>2. CASE token[s] = <<[epoch |-> 1, revoked |-> FALSE]>>
    <3>1. [epoch |-> 1, revoked |-> FALSE] \in TokenType BY DEF TokenType
    <3>2. DOMAIN token[s] = {1} BY <2>2
    <3> QED BY <2>2, <3>1, <3>2 DEF Live
  <2> QED BY <2>1, <2>2 DEF TokensInit
<1>2. Typed
  BY <1>1, TokensAssumption DEF TokensInit, Typed, TxType, NoTx, Actions, Principals
<1>3. OneLive BY <1>1 DEF TokensInit, OneLive, Principals
<1>4. \A t \in Txs : tx[t].pc = "idle" BY DEF TokensInit, NoTx
<1>5. CursorTrue /\ EpochsRise /\ RevokedMarked /\ Numbered
  BY <1>4 DEF TokensInit, CursorTrue, EpochsRise, RevokedMarked, Numbered, HoldsOrder, Principals
<1> QED
  BY <1>2, <1>3, <1>4, <1>5
     DEF TokensInv, Begun, LocksExclude, FoundStands, HoldsEpoch, HoldsOrder, Checked

\* A transaction moves on without having read anything under its locks.
LEMMA Unchecked ==
  ASSUME TokensInv, NEW t \in Txs, NEW r \in TxType, tx' = [tx EXCEPT ![t] = r],
         UNCHANGED <<rows, revoked, token, current, acts, next, reader>>,
         r.pc \notin {"order", "commit"}, Begun(t)',
         r.pc = "lock" => \A u \in Others(t) : HoldsEpoch(u) => r.action # "identity.revoke" /\ ~Exclusive(u)
  PROVE  TokensInv'
<1>1. tx \in [Txs -> TxType] /\ tx' \in [Txs -> TxType] BY DEF TokensInv, Typed
<1>2. tx'[t] = r /\ \A u \in Txs \ {t} : tx'[u] = tx[u] BY <1>1
<1>3. Typed' BY <1>1 DEF TokensInv, Typed
<1>4. \A u \in Txs : Begun(u)' BY <1>2 DEF TokensInv, Begun
<1>5. LocksExclude'
  BY <1>2 DEF TokensInv, LocksExclude, HoldsEpoch, HoldsOrder, Exclusive, Others
<1>6. FoundStands' BY <1>2 DEF TokensInv, FoundStands, Checked, Exclusive
<1>7. Numbered' BY <1>2 DEF TokensInv, Numbered, HoldsOrder
<1>8. CursorTrue' /\ EpochsRise' /\ RevokedMarked' /\ OneLive'
  BY DEF TokensInv, CursorTrue, EpochsRise, RevokedMarked, OneLive, Live
<1> QED BY <1>3, <1>4, <1>5, <1>6, <1>7, <1>8 DEF TokensInv

LEMMA NoTxTyped == NoTx \in TxType
  BY DEF NoTx, TxType, Actions

LEMMA EndedKeeps ==
  ASSUME TokensInv, NEW t \in Txs, Ended(t),
         UNCHANGED <<rows, revoked, token, current, acts, next, reader>>
  PROVE  TokensInv'
<1> DEFINE r == [NoTx EXCEPT !.pc = "over"]
<1>1. r \in TxType /\ r.pc = "over" BY NoTxTyped DEF NoTx, TxType
<1>2. tx' = [tx EXCEPT ![t] = r] BY DEF Ended
<1>3. tx'[t] = r BY <1>2 DEF TokensInv, Typed
<1>4. Begun(t)' BY <1>1, <1>3 DEF Begun
<1> HIDE DEF r
<1> QED BY <1>1, <1>2, <1>4, Unchecked

LEMMA BeginKeeps ==
  ASSUME TokensInv, NEW t \in Txs, NEW h \in Humans, NEW r \in Humans, NEW p \in Principals,
         NEW a \in Actions \ {"request"}, Begin(t, a, h, r, p)
  PROVE  TokensInv'
<1> DEFINE n == [NoTx EXCEPT !.pc = "epoch", !.action = a, !.by = h, !.on = p, !.human = r]
<1>1. /\ n \in TxType /\ n.pc = "epoch" /\ n.action = a /\ n.by = h /\ n.on = p /\ n.human = r
  BY NoTxTyped DEF NoTx, TxType, Principals, Actions
<1>2. tx' = [tx EXCEPT ![t] = n] BY DEF Begin
<1>3. tx'[t] = n BY <1>2 DEF TokensInv, Typed
<1>4. Begun(t)' BY <1>1, <1>3 DEF Begun, Begin
<1>5. UNCHANGED <<rows, revoked, token, current, acts, next, reader>> BY DEF Begin
<1> HIDE DEF n
<1> QED BY <1>1, <1>2, <1>4, <1>5, Unchecked

LEMMA BeginRequestKeeps ==
  ASSUME TokensInv, NEW t \in Txs, BeginRequest(t)
  PROVE  TokensInv'
<1> DEFINE n == [NoTx EXCEPT !.pc = "epoch", !.action = "request"]
<1>1. n \in TxType /\ n.pc = "epoch" /\ n.action = "request" /\ n.by = 0 /\ n.on = 0 /\ n.human = 0
  BY NoTxTyped DEF NoTx, TxType, Actions
<1>2. tx' = [tx EXCEPT ![t] = n] BY DEF BeginRequest
<1>3. tx'[t] = n BY <1>2 DEF TokensInv, Typed
<1>4. Begun(t)' BY <1>1, <1>3 DEF Begun
<1>5. UNCHANGED <<rows, revoked, token, current, acts, next, reader>> BY DEF BeginRequest
<1> HIDE DEF n
<1> QED BY <1>1, <1>2, <1>4, <1>5, Unchecked

LEMMA LockEpochKeeps ==
  ASSUME TokensInv, NEW t \in Txs, LockEpoch(t)
  PROVE  TokensInv'
<1> DEFINE n == [tx[t] EXCEPT !.pc = "lock"]
<1>1. tx[t] \in TxType /\ tx \in [Txs -> TxType] BY DEF TokensInv, Typed
<1>2. n \in TxType /\ n.pc = "lock" /\ n.action = tx[t].action /\ n.by = tx[t].by /\ n.on = tx[t].on
      /\ n.human = tx[t].human
  BY <1>1 DEF TxType
<1>3. tx' = [tx EXCEPT ![t] = n] BY <1>1 DEF LockEpoch
<1>4. tx'[t] = n BY <1>1, <1>3
<1>5. Begun(t)' BY <1>2, <1>4 DEF Begun, LockEpoch, TokensInv
<1>6. UNCHANGED <<rows, revoked, token, current, acts, next, reader>> BY DEF LockEpoch
<1>7. \A u \in Others(t) : HoldsEpoch(u) => n.action # "identity.revoke" /\ ~Exclusive(u)
  BY <1>2 DEF LockEpoch, Exclusive
<1> HIDE DEF n
<1> QED BY <1>2, <1>3, <1>5, <1>6, <1>7, Unchecked

LEMMA LockPrincipalsKeeps ==
  ASSUME TokensInv, NEW t \in Txs, LockPrincipals(t)
  PROVE  TokensInv'
<1> DEFINE n == [tx[t] EXCEPT !.pc = "order", !.epoch = current]
<1>1. UNCHANGED <<rows, revoked, token, current, acts, next, reader>> BY DEF LockPrincipals
<1>2. CASE ~Stands(t) BY <1>1, <1>2, EndedKeeps DEF LockPrincipals
<1>3. CASE Stands(t)
  <2>1. tx[t] \in TxType /\ tx \in [Txs -> TxType] /\ current \in Nat BY DEF TokensInv, Typed
  <2>2. /\ n \in TxType /\ n.pc = "order" /\ n.action = tx[t].action /\ n.by = tx[t].by
        /\ n.on = tx[t].on /\ n.human = tx[t].human /\ n.epoch = current
    BY <2>1 DEF TxType
  <2>3. tx' = [tx EXCEPT ![t] = n] BY <1>3, <2>1 DEF LockPrincipals
  <2> HIDE DEF n
  <2>4. tx'[t] = n /\ \A u \in Txs \ {t} : tx'[u] = tx[u] BY <2>1, <2>3
  <2>5. tx[t].pc = "lock" /\ Begun(t) BY DEF LockPrincipals, TokensInv
  <2>6. Typed' BY <1>1, <2>1, <2>2, <2>3 DEF TokensInv, Typed
  <2>7. \A u \in Txs : Begun(u)' BY <2>2, <2>4, <2>5 DEF TokensInv, Begun
  <2>8. LocksExclude'
    BY <2>2, <2>4, <2>5 DEF TokensInv, LocksExclude, HoldsEpoch, HoldsOrder, Exclusive
  <2>9. \A p \in {tx[t].by, tx[t].human} \ {0} : ~revoked[p]
    <3> SUFFICES ASSUME NEW p \in {tx[t].by, tx[t].human} \ {0}, p = tx[t].on PROVE ~revoked[p]
      BY <1>3 DEF Stands, HumansStand, Locks
    <3>1. tx[t].action # "request" BY <2>5 DEF Begun
    <3>2. p \in Humans BY <2>5, <3>1 DEF Begun
    <3>3. p \notin Services BY <3>2, TokensAssumption
    <3>4. tx[t].action = "identity.revoke" BY <2>5, <3>1, <3>3 DEF Begun
    <3> QED BY <1>3, <3>4 DEF Stands
  <2>10. Issues(tx[t].action) => ~revoked[tx[t].on]
    <3>1. CASE tx[t].action = "token.issue"
      <4>1. tx[t].on \in Services /\ tx[t].on \notin rows BY <1>3, <2>5, <3>1 DEF Stands, Begun
      <4> QED BY <4>1 DEF TokensInv, RevokedMarked
    <3>2. CASE tx[t].action = "token.rotate" BY <1>3, <3>2 DEF Stands
    <3> QED BY <3>1, <3>2 DEF Issues
  <2>11. Exclusive(t) => tx[t].on \in Humans \cup rows BY <1>3 DEF Stands, Exclusive
  <2>12. FoundStands'
    BY <1>1, <2>2, <2>4, <2>9, <2>10, <2>11 DEF TokensInv, FoundStands, Checked, Exclusive
  <2>13. Numbered' BY <1>1, <2>2, <2>4 DEF TokensInv, Numbered, HoldsOrder
  <2>14. CursorTrue' /\ EpochsRise' /\ RevokedMarked' /\ OneLive'
    BY <1>1 DEF TokensInv, CursorTrue, EpochsRise, RevokedMarked, OneLive, Live
  <2> QED BY <2>6, <2>7, <2>8, <2>12, <2>13, <2>14 DEF TokensInv
<1> QED BY <1>2, <1>3

LEMMA LockActOrderKeeps ==
  ASSUME TokensInv, NEW t \in Txs, LockActOrder(t)
  PROVE  TokensInv'
<1> DEFINE n == [tx[t] EXCEPT !.pc = "commit", !.seq = next]
<1>1. UNCHANGED <<rows, revoked, token, current, acts, reader>> /\ next' = next + 1
  BY DEF LockActOrder
<1>2. tx[t] \in TxType /\ tx \in [Txs -> TxType] /\ next \in Nat \ {0} BY DEF TokensInv, Typed
<1>3. /\ n \in TxType /\ n.pc = "commit" /\ n.action = tx[t].action /\ n.by = tx[t].by
      /\ n.on = tx[t].on /\ n.human = tx[t].human /\ n.epoch = tx[t].epoch /\ n.seq = next
  BY <1>2 DEF TxType
<1>4. tx' = [tx EXCEPT ![t] = n] BY <1>2 DEF LockActOrder
<1> HIDE DEF n
<1>5. tx'[t] = n /\ \A u \in Txs \ {t} : tx'[u] = tx[u] BY <1>2, <1>4
<1>6. tx[t].pc = "order" /\ Begun(t) BY DEF LockActOrder, TokensInv
<1>7. \A u \in Txs \ {t} : ~HoldsOrder(u) BY DEF LockActOrder, OrderFree, Others
<1>8. Typed' BY <1>1, <1>2, <1>3, <1>4 DEF TokensInv, Typed
<1>9. \A u \in Txs : Begun(u)' BY <1>3, <1>5, <1>6 DEF TokensInv, Begun
<1>10. LocksExclude'
  BY <1>3, <1>5, <1>6, <1>7 DEF TokensInv, LocksExclude, HoldsEpoch, HoldsOrder, Exclusive
<1>11. FoundStands' BY <1>1, <1>3, <1>5, <1>6 DEF TokensInv, FoundStands, Checked, Exclusive
<1>12. Numbered'
  <2>1. \A a \in acts : a.seq \in Nat /\ a.seq < next BY DEF TokensInv, Typed, ActType, Numbered
  <2> QED BY <1>1, <1>2, <1>3, <1>5, <1>7, <2>1 DEF Numbered, HoldsOrder
<1>13. CursorTrue' /\ EpochsRise' /\ RevokedMarked' /\ OneLive'
  BY <1>1 DEF TokensInv, CursorTrue, EpochsRise, RevokedMarked, OneLive, Live
<1> QED BY <1>8, <1>9, <1>10, <1>11, <1>12, <1>13 DEF TokensInv

\* The tokens of s once every one was withdrawn, and once another was issued after that.
LEMMA WithdrawnTyped ==
  ASSUME Typed, NEW s \in Services
  PROVE  /\ Withdrawn(s) \in Seq(TokenType) /\ Len(Withdrawn(s)) = Len(token[s])
         /\ \A i \in 1 .. Len(token[s]) : Withdrawn(s)[i].revoked
<1>1. token[s] \in Seq(TokenType) BY DEF Typed
<1>2. DOMAIN token[s] = 1 .. Len(token[s]) /\ Len(token[s]) \in Nat BY <1>1, LenProperties
<1>3. \A i \in 1 .. Len(token[s]) : token[s][i] \in TokenType BY <1>1, ElementOfSeq
<1>4. \A i \in 1 .. Len(token[s]) : Withdrawn(s)[i] \in TokenType /\ Withdrawn(s)[i].revoked
  BY <1>2, <1>3 DEF Withdrawn, TokenType
<1>5. Withdrawn(s) \in [1 .. Len(token[s]) -> TokenType] BY <1>2, <1>4 DEF Withdrawn
<1> QED BY <1>2, <1>4, <1>5, IsASeq, LenProperties

LEMMA Joined ==
  ASSUME NEW u \in Seq(TokenType), NEW v \in Seq(TokenType)
  PROVE  /\ u \o v \in Seq(TokenType) /\ DOMAIN (u \o v) = 1 .. Len(u) + Len(v)
         /\ Len(u) \in Nat /\ Len(v) \in Nat
         /\ \A i \in 1 .. Len(u) : (u \o v)[i] = u[i]
<1>1. Len(u) \in Nat /\ Len(v) \in Nat BY LenProperties
<1>2. u \o v \in Seq(TokenType) /\ Len(u \o v) = Len(u) + Len(v) BY ConcatProperties
<1>3. DOMAIN (u \o v) = 1 .. Len(u) + Len(v) BY <1>2, LenProperties
<1>4. \A i \in 1 .. Len(u) : (u \o v)[i] = u[i] BY <1>1, ConcatProperties
<1> QED BY <1>1, <1>2, <1>3, <1>4

LEMMA CommitTokens ==
  ASSUME TokensInv, NEW t \in Txs, CommitTx(t)
  PROVE  /\ token' \in [Services -> Seq(TokenType)] /\ OneLive'
         /\ revoked' \in [Principals -> BOOLEAN]
         /\ \A p \in Principals : revoked'[p] <=> revoked[p] \/ (Exclusive(t) /\ p = tx[t].on)
<1>0. PICK s : s = tx[t].on OBVIOUS
<1> DEFINE new == IF Issues(tx[t].action) THEN <<[epoch |-> tx[t].epoch, revoked |-> FALSE]>> ELSE <<>>
<1>1. /\ tx[t] \in TxType /\ tx[t].pc = "commit" /\ Begun(t) /\ Typed
      /\ Issues(tx[t].action) => ~revoked[s]
  BY <1>0 DEF TokensInv, Typed, CommitTx, FoundStands, Checked
<1>2. Exclusive(t) => s \in Principals BY <1>0, <1>1 DEF Exclusive, Begun
<1>3. /\ revoked' \in [Principals -> BOOLEAN]
      /\ \A p \in Principals : revoked'[p] <=> revoked[p] \/ (Exclusive(t) /\ p = s)
  BY <1>0, <1>1, <1>2 DEF CommitTx, Typed
<1>4. ASSUME s \notin Services PROVE token' \in [Services -> Seq(TokenType)] /\ OneLive'
  <2>1. token' = token BY <1>0, <1>4 DEF CommitTx
  <2>2. \A q \in Services : q \in Principals /\ (revoked'[q] <=> revoked[q])
    BY <1>3, <1>4 DEF Principals
  <2> QED BY <1>1, <2>1, <2>2 DEF TokensInv, Typed, OneLive, Live
<1>5. ASSUME s \in Services PROVE token' \in [Services -> Seq(TokenType)] /\ OneLive'
  <2>1. new \in Seq(TokenType) /\ Len(new) \in Nat
    <3>1. [epoch |-> tx[t].epoch, revoked |-> FALSE] \in TokenType BY <1>1 DEF TokenType, TxType
    <3> QED BY <3>1
  <2>2. token' = [token EXCEPT ![s] = Withdrawn(s) \o new] BY <1>0, <1>5 DEF CommitTx
  <2>3. /\ Withdrawn(s) \in Seq(TokenType) /\ Len(Withdrawn(s)) = Len(token[s])
        /\ Len(token[s]) \in Nat
        /\ \A i \in 1 .. Len(token[s]) : Withdrawn(s)[i].revoked
    BY <1>1, <1>5, WithdrawnTyped, LenProperties DEF Typed
  <2> DEFINE n == Len(token[s])
             w == Withdrawn(s) \o new
  <2>4. /\ w \in Seq(TokenType) /\ DOMAIN w = 1 .. n + Len(new)
        /\ \A i \in 1 .. n : w[i] = Withdrawn(s)[i]
    <3> HIDE DEF new
    <3>1. PICK u \in Seq(TokenType) : u = Withdrawn(s) BY <2>3
    <3>2. u \o new \in Seq(TokenType) /\ DOMAIN (u \o new) = 1 .. Len(u) + Len(new)
          /\ \A i \in 1 .. Len(u) : (u \o new)[i] = u[i]
      BY <2>1, Joined
    <3> QED BY <2>3, <3>1, <3>2
  <2>5. Len(new) = IF Issues(tx[t].action) THEN 1 ELSE 0 OBVIOUS
  <2> HIDE DEF new, w, n
  <2>6. token' \in [Services -> Seq(TokenType)] /\ token'[s] = w
        /\ \A q \in Services \ {s} : token'[q] = token[q]
    BY <1>1, <1>5, <2>2, <2>4 DEF Typed, w
  <2>7. Live(s)' \subseteq (IF Issues(tx[t].action) THEN {n + 1} ELSE {})
    <3>1. n \in Nat BY <2>3 DEF n
    <3>2. Live(s)' = {i \in DOMAIN w : ~w[i].revoked} BY <2>6 DEF Live
    <3>3. \A i \in 1 .. n : w[i].revoked BY <2>3, <2>4 DEF n
    <3>4. \A i \in DOMAIN w : i \in 1 .. n \/ (Issues(tx[t].action) /\ i = n + 1)
      BY <2>4, <2>5, <3>1
    <3> QED BY <3>2, <3>3, <3>4
  <2>8. Exclusive(t) => ~Issues(tx[t].action) BY DEF Exclusive, Issues
  <2>9. s \in Principals /\ \A q \in Services : q \in Principals BY <1>5 DEF Principals
  <2>10. revoked'[s] => ~Issues(tx[t].action)
    BY <1>1, <1>3, <2>8, <2>9
  <2>11. \A q \in Services \ {s} : Live(q)' = Live(q) /\ (revoked'[q] <=> revoked[q])
    BY <1>3, <2>6, <2>9 DEF Live
  <2>12. OneLive' BY <2>7, <2>10, <2>11 DEF TokensInv, OneLive
  <2> QED BY <2>6, <2>12
<1> QED BY <1>0, <1>3, <1>4, <1>5

\* The act of a commit comes after every act recorded before, and nobody it names was revoked.
LEMMA CommitKeeps ==
  ASSUME TokensInv, NEW t \in Txs, CommitTx(t)
  PROVE  TokensInv'
<1> DEFINE new == [seq |-> tx[t].seq, action |-> tx[t].action, by |-> tx[t].by, on |-> tx[t].on,
                   human |-> tx[t].human, epoch |-> tx[t].epoch]
<1>1. /\ tx \in [Txs -> TxType] /\ tx[t] \in TxType /\ tx[t].pc = "commit" /\ Begun(t) /\ Typed
      /\ UNCHANGED <<current, next, reader>> /\ acts' = acts \cup {new}
  BY DEF TokensInv, Typed, CommitTx
<1>2. /\ tx[t].epoch = current /\ (Exclusive(t) => tx[t].on \in Humans \cup rows)
      /\ Issues(tx[t].action) => ~revoked[tx[t].on]
      /\ \A p \in {tx[t].by, tx[t].human} \ {0} : ~revoked[p]
  BY <1>1 DEF TokensInv, FoundStands, Checked
<1>3. tx[t].seq \in 1 .. next - 1 /\ next \in Nat \ {0} /\ \A a \in acts : a.seq < tx[t].seq
  BY <1>1 DEF TokensInv, Numbered, HoldsOrder, Typed
<1>4. /\ new \in ActType /\ new.seq = tx[t].seq /\ new.action = tx[t].action /\ new.by = tx[t].by
      /\ new.on = tx[t].on /\ new.human = tx[t].human /\ new.epoch = current
  BY <1>1, <1>2, <1>3 DEF ActType, TxType
<1> HIDE DEF new
<1>5. /\ tx' \in [Txs -> TxType] /\ tx'[t].pc = "over" /\ \A u \in Txs \ {t} : tx'[u] = tx[u]
  BY <1>1, NoTxTyped DEF CommitTx, Ended, NoTx, TxType
<1>6. /\ token' \in [Services -> Seq(TokenType)] /\ OneLive'
      /\ revoked' \in [Principals -> BOOLEAN]
      /\ \A p \in Principals : revoked'[p] <=> revoked[p] \/ (Exclusive(t) /\ p = tx[t].on)
  BY CommitTokens
<1>7. rows' \subseteq Services /\ rows \subseteq rows'
  BY <1>1 DEF CommitTx, Typed, Begun
<1>8. \A a \in acts : a \in ActType BY <1>1 DEF Typed
<1>9. Typed' BY <1>1, <1>4, <1>5, <1>6, <1>7, <1>8 DEF Typed
<1>10. \A u \in Txs : Begun(u)' BY <1>5 DEF TokensInv, Begun
<1>11. LocksExclude' BY <1>5 DEF TokensInv, LocksExclude, HoldsEpoch, HoldsOrder, Exclusive
<1>12. FoundStands'
  <2> SUFFICES ASSUME NEW u \in Txs, Checked(u)' PROVE
        /\ tx'[u].epoch = current
        /\ \A p \in {tx'[u].by, tx'[u].human} \ {0} : ~revoked'[p]
        /\ Issues(tx'[u].action) => ~revoked'[tx'[u].on]
        /\ Exclusive(u)' => tx'[u].on \in Humans \cup rows'
    BY <1>1 DEF FoundStands
  <2>1. u # t /\ tx'[u] = tx[u] BY <1>5 DEF Checked
  <2>2. Checked(u) /\ HoldsEpoch(u) BY <2>1 DEF Checked, HoldsEpoch
  <2>3. ~Exclusive(t) BY <1>1, <2>1, <2>2 DEF TokensInv, LocksExclude, HoldsEpoch
  <2>4. \A p \in Principals : revoked'[p] <=> revoked[p] BY <1>6, <2>3
  <2>5. {tx[u].by, tx[u].human} \ {0} \subseteq Principals /\ (Issues(tx[u].action) => tx[u].on \in Principals)
    BY <1>1, <2>2 DEF TokensInv, Begun, Issues, Checked, TxType
  <2> QED BY <1>7, <2>1, <2>2, <2>4, <2>5 DEF TokensInv, FoundStands, Exclusive
<1>13. Numbered'
  <2>1. \A u \in Txs : ~HoldsOrder(u)' BY <1>1, <1>5 DEF TokensInv, LocksExclude, HoldsOrder
  <2> QED BY <1>1, <1>3, <1>4, <2>1 DEF TokensInv, Numbered
<1>14. CursorTrue'
  <2>1. reader.after \in Nat /\ reader.after < tx[t].seq
    BY <1>1, <1>3 DEF TokensInv, CursorTrue, Typed
  <2> QED BY <1>1, <1>3, <1>4, <2>1 DEF TokensInv, CursorTrue
<1>15. EpochsRise'
  <2>1. current \in Nat /\ \A a \in acts : a.epoch \in Nat /\ a.seq \in Nat BY <1>1, <1>8 DEF Typed, ActType
  <2> QED BY <1>1, <1>3, <1>4, <2>1 DEF TokensInv, EpochsRise
<1>16. RevokedMarked'
  <2>1. \A a \in acts' : a.action = "identity.revoke" => a.on \in Principals /\ revoked'[a.on]
    BY <1>1, <1>4, <1>6 DEF TokensInv, RevokedMarked, Exclusive, Begun
  <2>2. ASSUME NEW q \in Services, revoked'[q] PROVE q \in rows'
    <3>1. q \in Principals /\ q \notin Humans BY TokensAssumption DEF Principals
    <3> QED BY <1>2, <1>6, <1>7, <2>2, <3>1 DEF TokensInv, RevokedMarked
  <2>3. ASSUME NEW a \in acts', NEW b \in acts', a.action = "identity.revoke", a.seq < b.seq
        PROVE  a.on \notin {b.by, b.human} /\ (Issues(b.action) => a.on # b.on)
    <3>1. \A c \in acts : c.seq \in Nat BY <1>8 DEF ActType
    <3>2. a \in acts BY <1>1, <1>3, <1>4, <2>3, <3>1
    <3>3. a.on \in Principals /\ revoked[a.on] /\ a.on # 0
      BY <2>3, <3>2, TokensAssumption DEF TokensInv, RevokedMarked, Principals
    <3>4. CASE b \in acts BY <2>3, <3>2, <3>4 DEF TokensInv, RevokedMarked
    <3>5. CASE b = new BY <1>2, <1>4, <3>3, <3>5
    <3> QED BY <1>1, <3>4, <3>5
  <2> QED BY <2>1, <2>2, <2>3 DEF RevokedMarked
<1> QED BY <1>6, <1>9, <1>10, <1>11, <1>12, <1>13, <1>14, <1>15, <1>16 DEF TokensInv

LEMMA EnterEpochKeeps ==
  ASSUME TokensInv, EnterEpoch
  PROVE  TokensInv'
<1> DEFINE new == [seq |-> next, action |-> "recovery.enter", by |-> 0, on |-> 0, human |-> 0,
                   epoch |-> current + 1]
<1>1. /\ Typed /\ next \in Nat \ {0} /\ current \in Nat /\ acts' = acts \cup {new}
      /\ next' = next + 1 /\ current' = current + 1
      /\ UNCHANGED <<rows, revoked, token, tx, reader>> /\ \A t \in Txs : ~HoldsEpoch(t)
  BY DEF TokensInv, Typed, EnterEpoch
<1>2. /\ new \in ActType /\ new.seq = next /\ new.action = "recovery.enter" /\ new.by = 0
      /\ new.human = 0 /\ new.epoch = current + 1
  BY <1>1 DEF ActType, Actions
<1> HIDE DEF new
<1>3. \A a \in acts : a \in ActType /\ a.seq \in Nat /\ a.epoch \in Nat /\ a.seq < next
  BY <1>1 DEF TokensInv, Typed, ActType, Numbered
<1>4. Typed' BY <1>1, <1>2 DEF Typed
<1>5. \A t \in Txs : Begun(t)' BY <1>1 DEF TokensInv, Begun
<1>6. LocksExclude' BY <1>1 DEF TokensInv, LocksExclude, HoldsEpoch, HoldsOrder, Exclusive
<1>7. FoundStands' BY <1>1 DEF FoundStands, Checked, HoldsEpoch
<1>8. Numbered' BY <1>1, <1>2, <1>3 DEF Numbered, HoldsOrder, HoldsEpoch
<1>9. CursorTrue'
  <2>1. reader.after \in Nat /\ reader.after < next
    BY <1>1, <1>3 DEF TokensInv, CursorTrue, Typed
  <2> QED BY <1>1, <1>2, <2>1 DEF TokensInv, CursorTrue
<1>10. EpochsRise' BY <1>1, <1>2, <1>3 DEF TokensInv, EpochsRise
<1>11. RevokedMarked'
  <2>1. \A a \in acts : a.action = "identity.revoke" => a.on # 0
    BY TokensAssumption DEF TokensInv, RevokedMarked, Principals
  <2>2. ~Issues("recovery.enter") BY DEF Issues
  <2> QED BY <1>1, <1>2, <1>3, <2>1, <2>2 DEF TokensInv, RevokedMarked
<1>12. OneLive' BY <1>1 DEF TokensInv, OneLive, Live
<1> QED BY <1>4, <1>5, <1>6, <1>7, <1>8, <1>9, <1>10, <1>11, <1>12 DEF TokensInv

\* A bounded set of numbers has the maximum that Max chooses.
LEMMA MaxOfBounded ==
  ASSUME NEW S, NEW n \in Nat, S \subseteq 1 .. n, S # {}
  PROVE  Max(S) \in S /\ \A y \in S : y <= Max(S)
<1> DEFINE T == {m \in Nat : n - m \in S}
           R == OpToRel(<, Nat)
<1>1. T # {}
  <2>1. PICK x \in S : TRUE OBVIOUS
  <2>2. n - x \in Nat /\ n - (n - x) = x BY <2>1
  <2> QED BY <2>1, <2>2
<1>2. PICK x \in T : \A y \in T : ~ (<<y, x>> \in R)
  <2>1. T \subseteq Nat OBVIOUS
  <2> HIDE DEF T, R
  <2> QED BY <1>1, <2>1, WFMin, NatLessThanWellFounded DEF R
<1>3. \A y \in T : y >= x
  <2>1. R = {ss \in Nat \X Nat : ss[1] < ss[2]} BY DEF OpToRel
  <2>2. \A y \in Nat, z \in Nat : y < z => <<y, z>> \in R BY <2>1
  <2>3. x \in Nat /\ T \subseteq Nat OBVIOUS
  <2> HIDE DEF T, R
  <2>4. \A y \in T : ~ (y < x) BY <1>2, <2>2, <2>3
  <2> QED BY <2>3, <2>4
<1>4. \A y \in S : y <= n - x
  <2>1. SUFFICES ASSUME NEW y \in S PROVE y <= n - x OBVIOUS
  <2>2. y \in Nat /\ n - y \in Nat /\ n - (n - y) = y OBVIOUS
  <2>3. n - y \in T BY <2>2
  <2> QED BY <1>3, <2>2, <2>3
<1>5. n - x \in S /\ n - x \in Int /\ S \subseteq Int OBVIOUS
<1>6. \E z \in S : \A y \in S : z >= y BY <1>4, <1>5
<1>7. Max(S) \in S /\ \A y \in S : Max(S) >= y BY <1>6 DEF Max
<1> QED BY <1>5, <1>7

\* A page holds every act between the cursor it was asked with and its last one.
LEMMA ReadActsKeeps ==
  ASSUME TokensInv, ReadActs
  PROVE  TokensInv'
<1> DEFINE after == {a.seq : a \in acts} \cap {n \in 1 .. next : n > reader.after}
           Before(n) == {m \in after : m < n}
           shown == {n \in after : Cardinality(Before(n)) < ActPage}
<1>1. /\ Typed /\ UNCHANGED <<rows, revoked, token, current, acts, next, tx>> /\ shown # {}
      /\ reader' = [after |-> IF shown = after THEN reader.after ELSE Max(shown),
                    shown |-> reader.shown \cup shown]
  BY DEF TokensInv, ReadActs
<1>2. /\ next \in Nat /\ reader.after \in Nat /\ reader.shown \subseteq Nat /\ after \subseteq 1 .. next
      /\ reader \in [after : Nat, shown : SUBSET Nat]
  BY <1>1 DEF Typed
<1>3. \A a \in acts : a.seq \in Nat \ {0} /\ a.seq < next
  BY <1>1 DEF TokensInv, Typed, Numbered, ActType
<1>4. ASSUME NEW n \in shown, NEW m \in after, m < n PROVE m \in shown
  <2>1. IsFiniteSet(Before(n))
    <3>1. IsFiniteSet(1 .. next) BY <1>2, FS_Interval
    <3>2. Before(n) \in SUBSET (1 .. next) BY <1>2
    <3> HIDE DEF Before
    <3> QED BY <3>1, <3>2, FS_Subset
  <2>2. m \in Int /\ n \in Int BY <1>2
  <2>3. Before(m) \in SUBSET Before(n) BY <1>2, <1>4, <2>2
  <2>4. Cardinality(Before(n)) < ActPage OBVIOUS
  <2> HIDE DEF Before
  <2>5. Cardinality(Before(m)) <= Cardinality(Before(n)) /\ IsFiniteSet(Before(m))
    BY <2>1, <2>3, FS_Subset
  <2>6. Cardinality(Before(m)) \in Nat /\ Cardinality(Before(n)) \in Nat
    BY <2>1, <2>5, FS_CardinalityType
  <2>7. Cardinality(Before(m)) < ActPage BY <2>4, <2>5, <2>6, TokensAssumption
  <2> QED BY <2>7
<1>5. shown \subseteq after OBVIOUS
<1>6. \A a \in acts : a.seq > reader.after => a.seq \in after BY <1>2, <1>3
<1>7. \A n \in after : \E a \in acts : a.seq = n OBVIOUS
<1> HIDE DEF after, shown
<1>8. /\ reader'.after \in Nat /\ reader'.shown = reader.shown \cup shown
      /\ reader' \in [after : Nat, shown : SUBSET Nat]
      /\ reader'.after = reader.after \/ (reader'.after \in shown /\ \A y \in shown : y <= reader'.after)
  <2>1. Max(shown) \in shown /\ \A y \in shown : y <= Max(shown)
    BY <1>1, <1>2, <1>5, MaxOfBounded
  <2>2. shown \subseteq Nat BY <1>2, <1>5
  <2> QED BY <1>1, <1>2, <2>1, <2>2
<1>9. Typed' BY <1>1, <1>8 DEF Typed
<1>10. CursorTrue'
  <2>1. CASE reader'.after = reader.after
    BY <1>1, <1>8, <2>1 DEF TokensInv, CursorTrue
  <2>2. CASE reader'.after \in shown
    <3>1. \E a \in acts' : a.seq = reader'.after BY <1>1, <1>5, <1>7, <2>2
    <3>2. ASSUME NEW a \in acts, a.seq <= reader'.after PROVE a.seq \in reader'.shown
      <4>1. CASE a.seq <= reader.after BY <1>8, <4>1 DEF TokensInv, CursorTrue
      <4>2. CASE a.seq > reader.after
        <5>1. a.seq \in after BY <1>6, <4>2
        <5>2. a.seq = reader'.after \/ a.seq < reader'.after BY <1>3, <1>8, <3>2
        <5> QED BY <1>4, <1>8, <2>2, <5>1, <5>2
      <4> QED BY <1>2, <1>3, <4>1, <4>2
    <3> QED BY <1>1, <3>1, <3>2 DEF CursorTrue
  <2> QED BY <1>8, <2>1, <2>2
<1>11. /\ \A t \in Txs : Begun(t)'
       /\ LocksExclude' /\ FoundStands' /\ Numbered' /\ EpochsRise' /\ RevokedMarked' /\ OneLive'
  BY <1>1 DEF TokensInv, Begun, LocksExclude, FoundStands, Numbered, EpochsRise, RevokedMarked,
              OneLive, Live, Checked, HoldsEpoch, HoldsOrder, Exclusive
<1> QED BY <1>9, <1>10, <1>11 DEF TokensInv

LEMMA TokensStep == TokensInv /\ [TokensNext]_tokensVars => TokensInv'
<1> SUFFICES ASSUME TokensInv, [TokensNext]_tokensVars PROVE TokensInv' OBVIOUS
<1>1. CASE UNCHANGED tokensVars
  BY <1>1 DEF tokensVars, TokensInv, Typed, Begun, LocksExclude, FoundStands, Numbered, CursorTrue,
              EpochsRise, RevokedMarked, OneLive, Live, Checked, HoldsEpoch, HoldsOrder, Exclusive
<1>2. ASSUME NEW t \in Txs, TxStep(t) PROVE TokensInv'
  <2>1. ASSUME NEW h \in Humans, NEW r \in Humans, NEW p \in Principals,
               NEW a \in {"token.issue", "token.rotate", "token.revoke", "identity.revoke"},
               Begin(t, a, h, r, p)
        PROVE  TokensInv'
    <3>1. a \in Actions \ {"request"} BY DEF Actions
    <3> QED BY <2>1, <3>1, BeginKeeps
  <2>2. CASE Rollback(t) BY <2>2, EndedKeeps DEF Rollback
  <2> QED BY <1>2, <2>1, <2>2, BeginRequestKeeps, LockEpochKeeps, LockPrincipalsKeeps,
             LockActOrderKeeps, CommitKeeps DEF TxStep
<1> QED BY <1>1, <1>2, EnterEpochKeeps, ReadActsKeeps DEF TokensNext

-----------------------------------------------------------------------------
LEMMA AtMostOne ==
  ASSUME NEW S, \A i, j \in S : i = j
  PROVE  Cardinality(S) <= 1
<1>1. CASE S = {} BY <1>1, FS_EmptySet
<1>2. CASE S # {}
  <2>1. PICK x : x \in S BY <1>2
  <2>2. S = {x} BY <2>1
  <2> QED BY <2>2, FS_Singleton
<1> QED BY <1>1, <1>2

\* Whatever transactions of the tool, revocations and recovery entries run beside each other, a
\* revocation is final: what lockPrincipals read under its locks is still so at the commit, because a
\* revocation takes the installation state for itself.
THEOREM Revocation == TokensSpec => []RevokedStaysOut
<1>1. TokensSpec => []TokensInv BY InitHolds, TokensStep, PTL DEF TokensSpec
<1>2. TokensInv => RevokedStaysOut
  <2> SUFFICES ASSUME TokensInv PROVE RevokedStaysOut OBVIOUS
  <2>1. ASSUME NEW s \in Services PROVE Cardinality(Live(s)) <= (IF revoked[s] THEN 0 ELSE 1)
    <3>1. Cardinality(Live(s)) <= 1 BY AtMostOne DEF TokensInv, OneLive
    <3>2. revoked[s] => Cardinality(Live(s)) = 0 BY FS_EmptySet DEF TokensInv, OneLive
    <3> QED BY <3>1, <3>2
  <2> QED BY <2>1 DEF RevokedStaysOut, TokensInv, RevokedMarked
<1> QED BY <1>1, <1>2, PTL

\* Every reader that pages through the acts sees each of them, and the epoch rises along the list:
\* the act-order lock makes the order of the numbers the order of the commits, and the shared lock on
\* the installation state keeps a recovery entry out between the read of the epoch and the commit.
THEOREM ActOrder == TokensSpec => []ActsInOrder
<1>1. TokensSpec => []TokensInv BY InitHolds, TokensStep, PTL DEF TokensSpec
<1>2. TokensInv => ActsInOrder BY DEF TokensInv, ActsInOrder, CursorTrue, EpochsRise
<1> QED BY <1>1, <1>2, PTL

=============================================================================
