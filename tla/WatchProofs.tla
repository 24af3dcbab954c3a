---------------------------- MODULE WatchProofs -----------------------------
(***************************************************************************)
(* Proofs about Watch. The server's events only grow within an epoch and   *)
(* stay once it is past (Grown), so what a frame, a page or a read said of *)
(* an epoch remains true of it; the client's steps are then followed one   *)
(* by one on its record.                                                   *)
(***************************************************************************)
EXTENDS Watch, SequenceTheorems, TLAPS

EventId == [e : Nat, n : Nat]
FrameType == [id : EventId, ev : Nat]
OpType == [state : {"absent", "running", "terminal"}, events : Seq(Nat)]
ReadType == [terminal : BOOLEAN, epoch : Nat, moves : Nat]
ListType == [items : Seq(FrameType), cursor : EventId, read : BOOLEAN]
StreamType == [live : BOOLEAN, header : Nat, from : Nat, pass : {"none", "head", "events"},
               done : BOOLEAN, frames : Seq(FrameType)]
CliType == [pc : {"first", "attempt", "streaming", "pages", "read", "final", "again", "last",
                  "last read", "over"},
            seen : Nat, moves : Nat, fresh : BOOLEAN, pages : BOOLEAN, last : EventId, shown : Seq(Nat),
            first : ReadType, lastOp : ReadType, voided : BOOLEAN, rd : ReadType, drained : BOOLEAN,
            list : ListType, stamp : Nat,
            out : {"none", "ended", "ended, undrained", "running", "unknown", "unread", "error"}]

\* A row and a backup hold events that were written, and are terminal when one of them is an end, the only one.
OpStands(o) ==
    /\ o \in OpType
    /\ Len(o.events) <= minted
    /\ \A i \in 1 .. Len(o.events) : o.events[i] \in 1 .. minted
    /\ o.state = "terminal" <=> \E i \in 1 .. Len(o.events) : o.events[i] \in enders
    /\ \A i, j \in 1 .. Len(o.events) : o.events[i] \in enders /\ o.events[j] \in enders => i = j

ServerStands ==
    /\ epoch \in Epochs /\ minted \in 0 .. MaxEvents /\ enders \subseteq 1 .. minted
    /\ OpStands(op) /\ OpStands(backup)
    /\ hist \in [Epochs -> Seq(Nat)]
    /\ \A e \in Epochs : Len(hist[e]) <= minted /\ \A i \in 1 .. Len(hist[e]) : hist[e][i] \in 1 .. minted
    /\ hist[epoch] = op.events

\* An epoch is counted at most twice: when an answer shows it, and when an event of a later one is
\* met in its stream.
Counted(c) ==
    /\ c.seen \in 0 .. epoch
    /\ c.moves <= 2 * c.seen
    /\ c.seen = epoch \/ c.pc = "streaming" => c.moves < 2 * c.seen

\* A terminal read is of an epoch in which the operation ended; while no move was counted since, it is the
\* epoch of the latest answer.
ReadStands(c, rd) ==
    rd.terminal =>
        /\ rd.epoch \in 1 .. epoch /\ Ends(rd.epoch) # {}
        /\ c.seen # 0 /\ rd.moves <= c.moves
        /\ rd.moves = c.moves => c.seen = rd.epoch
ReadsStand(c) == ReadStands(c, c.first) /\ ReadStands(c, c.lastOp) /\ ReadStands(c, c.rd)

\* What is shown is the beginning of an epoch's events.
Screen(c) ==
    /\ c.last = NoEvent => c.shown = <<>>
    /\ c.last # NoEvent =>
        /\ c.last.e \in 1 .. epoch /\ c.last.n \in 1 .. Len(hist[c.last.e]) /\ Len(c.shown) = c.last.n
        /\ \A i \in 1 .. c.last.n : c.shown[i] = hist[c.last.e][i]

\* An event under its identifier is the one that the epoch has there.
Genuine(f) ==
    /\ f.id.e \in 1 .. epoch /\ f.id.n \in 1 .. Len(hist[f.id.e])
    /\ f.ev = hist[f.id.e][f.id.n]

\* The list has the events of one epoch up to the cursor; of those that are left to show, the first is
\* not beyond the one after the last shown.
ListFits(c) ==
    LET l == c.list
        gone == l.cursor.n - Len(l.items) IN
    IF c.pc = "last read"
    THEN Len(l.items) = 1 /\ Genuine(l.items[1]) /\ l.items[1].ev \in enders
    ELSE
    /\ c.pc \notin {"pages", "final", "last"} => l = NoList
    /\ Len(l.items) <= l.cursor.n
    /\ \A i \in 1 .. Len(l.items) :
            Genuine(l.items[i]) /\ l.items[i].id.e = l.cursor.e /\ l.items[i].id.n = gone + i
    /\ ~l.read => gone = 0
    /\ l.read => c.pc \in {"pages", "final"} /\ l.items # <<>>
    /\ l.read /\ gone # 0 => c.last.e = l.cursor.e /\ gone <= c.last.n
    /\ l.read /\ c.pc = "final" /\ l.cursor.e = c.rd.epoch => \A i \in Ends(c.rd.epoch) : i <= l.cursor.n

\* From the terminal read on; the events were drained when the last one shown is beyond every end.
Ending(c) ==
    /\ c.pc \in {"final", "again", "last", "last read"} => c.rd.terminal
    /\ c.pc \in {"last", "last read"} /\ c.drained =>
          c.last.e = c.rd.epoch /\ \A i \in Ends(c.rd.epoch) : i <= c.last.n

\* EndIsTrue and the outcome, of a client's record.
Told(c) ==
    /\ c.out = "none" <=> c.pc # "over"
    /\ c.pc # "over" => c.stamp = 0
    /\ c.stamp \in {0} \cup enders
    /\ c.out = "ended" => Ends(c.seen) # {} /\ c.last.e = c.seen /\ \A i \in Ends(c.seen) : i <= Len(c.shown)
    /\ c.out = "ended, undrained" => Ends(c.seen) # {}
    /\ c.stamp # 0 /\ c.out # "unknown" => \E i \in Ends(c.seen) : hist[c.seen][i] = c.stamp

Sound(c) ==
    /\ c \in CliType
    /\ Counted(c) /\ ReadsStand(c) /\ Screen(c) /\ ListFits(c) /\ Ending(c) /\ Told(c)

\* The frames on their way follow the last event shown, or a reset. An epoch entered meanwhile does not
\* break their numbers.
Skip(fs) == IF fs # <<>> /\ Head(fs) = Reset THEN 1 ELSE 0
StreamFits(s, c) ==
    LET k == Skip(s.frames)
        base == IF k = 1 THEN 0 ELSE c.last.n IN
    c.pc = "streaming" =>
        /\ s.header = c.seen /\ c.seen # 0
        /\ k = 0 /\ (s.live \/ s.frames # <<>>) => c.last = NoEvent \/ c.last.e = s.header
        /\ \A i \in k + 1 .. Len(s.frames) :
              Genuine(s.frames[i]) /\ s.frames[i].id.e >= s.header /\ s.frames[i].id.n = base + i - k
        /\ s.live => s.from = base + Len(s.frames) - k

WatchInv ==
    /\ ServerStands /\ Sound(cli)
    /\ stream \in StreamType /\ (stream.live <=> stream.pass # "none")
    /\ StreamFits(stream, cli)

-----------------------------------------------------------------------------
\* What a step of the server or of the environment does to the events: an epoch's only grow, and gain no
\* end once they have one.
EndsNext(e) == {i \in 1 .. Len(hist'[e]) : hist'[e][i] \in enders'}
Grown ==
    /\ epoch' \in Nat /\ epoch <= epoch' /\ enders \subseteq enders'
    /\ \A e \in 1 .. epoch :
          /\ Len(hist'[e]) \in Nat /\ Len(hist[e]) <= Len(hist'[e])
          /\ \A i \in 1 .. Len(hist[e]) : hist'[e][i] = hist[e][i]
          /\ Ends(e) # {} => EndsNext(e) = Ends(e)

\* What ServerStands says of the events of one epoch.
LEMMA Events ==
    ASSUME ServerStands
    PROVE  /\ epoch \in Nat \ {0} /\ minted \in Nat /\ epoch <= MaxEpoch
           /\ \A e \in 1 .. epoch : e \in Epochs /\ hist[e] \in Seq(Nat) /\ Len(hist[e]) \in Nat
<1>1. MaxEpoch \in Nat /\ MaxEvents \in Nat
    BY WatchAssumption
<1>2. epoch \in Epochs /\ minted \in 0 .. MaxEvents /\ hist \in [Epochs -> Seq(Nat)]
    BY DEF ServerStands
<1>3. epoch \in Nat \ {0} /\ minted \in Nat /\ epoch <= MaxEpoch
    BY <1>1, <1>2 DEF Epochs
<1>4. ASSUME NEW e \in 1 .. epoch PROVE e \in Epochs
    BY <1>1, <1>3 DEF Epochs
<1>5. ASSUME NEW e \in 1 .. epoch PROVE hist[e] \in Seq(Nat)
    BY <1>2, <1>4
<1> QED
    BY <1>3, <1>4, <1>5

\* Append1: an event is added at the end, and the operation is terminal when one of its events is an end.
LEMMA Appends ==
    ASSUME OpStands(op), minted \in Nat, enders \subseteq 1 .. minted, op.state # "absent",
           \/ op' = Append1(op, op.state) /\ enders' = enders
           \/ op.state = "running" /\ op' = Append1(op, "terminal") /\ enders' = enders \cup {minted + 1}
    PROVE  /\ op' \in OpType /\ op'.events \in Seq(Nat)
           /\ Len(op'.events) = Len(op.events) + 1
           /\ \A i \in 1 .. Len(op.events) : op'.events[i] = op.events[i]
           /\ op'.events[Len(op.events) + 1] = minted + 1
           /\ \A i \in 1 .. Len(op'.events) : op'.events[i] \in 1 .. minted + 1
           /\ op'.state = "terminal" <=> \E i \in 1 .. Len(op'.events) : op'.events[i] \in enders'
           /\ op.state = "terminal" => enders' = enders
           /\ \A i, j \in 1 .. Len(op'.events) : op'.events[i] \in enders' /\ op'.events[j] \in enders' => i = j
<1> DEFINE s == op'.state
<1> DEFINE es == op.events
<1>0. /\ es \in Seq(Nat) /\ Len(es) \in Nat /\ \A i \in 1 .. Len(es) : es[i] \in 1 .. minted
      /\ op.state = "terminal" <=> \E i \in 1 .. Len(es) : es[i] \in enders
      /\ \A i, j \in 1 .. Len(es) : es[i] \in enders /\ es[j] \in enders => i = j
    BY DEF OpStands, OpType
<1>1. op' = [state |-> s, events |-> Append(es, minted + 1)] /\ s \in {"running", "terminal"}
    BY DEF Append1, OpStands, OpType
<1>2. /\ Append(es, minted + 1) \in Seq(Nat) /\ Len(Append(es, minted + 1)) = Len(es) + 1
      /\ \A i \in 1 .. Len(es) : Append(es, minted + 1)[i] = es[i]
      /\ Append(es, minted + 1)[Len(es) + 1] = minted + 1
    <2>1. minted + 1 \in Nat
        OBVIOUS
    <2> QED
        BY <1>0, <2>1, AppendProperties
<1> DEFINE fs == Append(es, minted + 1)
<1> HIDE DEF fs
<1>3. op'.events = fs /\ op' \in OpType
    <2>1. PICK t \in {"running", "terminal"} : op' = [state |-> t, events |-> fs]
        BY <1>1 DEF fs
    <2>2. fs \in Seq(Nat)
        BY <1>2 DEF fs
    <2> QED
        BY <2>1, <2>2 DEF OpType
<1>4. /\ Len(fs) = Len(es) + 1 /\ \A i \in 1 .. Len(es) : fs[i] = es[i]
      /\ fs[Len(es) + 1] = minted + 1
    BY <1>2 DEF fs
<1>5. \A i \in 1 .. Len(fs) : i \in 1 .. Len(es) \/ i = Len(es) + 1
    BY <1>0, <1>4
<1>6. \A i \in 1 .. Len(fs) : fs[i] \in 1 .. minted + 1
    <2>1. \A n \in 1 .. minted : n \in 1 .. minted + 1
        OBVIOUS
    <2>2. minted + 1 \in 1 .. minted + 1
        OBVIOUS
    <2> QED
        BY <1>0, <1>4, <1>5, <2>1, <2>2
<1>8. s = "terminal" <=> \E i \in 1 .. Len(fs) : fs[i] \in enders'
    <2>1. CASE op' = Append1(op, op.state) /\ enders' = enders
        <3>0. op.state = s
            BY <2>1 DEF Append1
        <3>1. minted + 1 \notin enders
            OBVIOUS
        <3>2. \A i \in 1 .. Len(fs) : fs[i] \in enders' => i \in 1 .. Len(es)
            BY <1>4, <1>5, <2>1, <3>1
        <3>3. \A i \in 1 .. Len(es) : i \in 1 .. Len(fs)
            BY <1>0, <1>4
        <3> QED
            BY <1>0, <1>4, <2>1, <3>0, <3>2, <3>3
    <2>2. CASE op' = Append1(op, "terminal") /\ enders' = enders \cup {minted + 1}
        <3>0. s = "terminal"
            BY <2>2 DEF Append1
        <3>1. Len(es) + 1 \in 1 .. Len(fs)
            BY <1>0, <1>4
        <3> QED
            BY <1>4, <2>2, <3>0, <3>1
    <2> QED
        BY <2>1, <2>2
<1>9. op.state = "terminal" => enders' = enders
    OBVIOUS
<1>10. \A i, j \in 1 .. Len(fs) : fs[i] \in enders' /\ fs[j] \in enders' => i = j
    <2>1. CASE enders' = enders
        <3>1. minted + 1 \notin enders
            OBVIOUS
        <3>2. \A i \in 1 .. Len(fs) : fs[i] \in enders' => i \in 1 .. Len(es) /\ es[i] \in enders
            BY <1>4, <1>5, <2>1, <3>1
        <3> QED
            BY <1>0, <3>2
    <2>2. CASE op.state = "running" /\ enders' = enders \cup {minted + 1}
        <3>1. \A i \in 1 .. Len(es) : es[i] # minted + 1 /\ es[i] \notin enders
            BY <1>0, <2>2
        <3>2. \A i \in 1 .. Len(fs) : fs[i] \in enders' => i = Len(es) + 1
            BY <1>4, <1>5, <2>2, <3>1
        <3> QED
            BY <3>2
    <2> QED
        BY <2>1, <2>2
<1> QED
    BY <1>0, <1>2, <1>3, <1>4, <1>6, <1>8, <1>9, <1>10 DEF fs

\* A row that is left alone stands when one more event was written.
LEMMA OpStays ==
    ASSUME NEW o, OpStands(o), minted \in Nat, enders \subseteq 1 .. minted,
           minted' = minted + 1, enders' = enders \/ enders' = enders \cup {minted + 1}
    PROVE  /\ o \in OpType /\ Len(o.events) <= minted'
           /\ \A i \in 1 .. Len(o.events) : o.events[i] \in 1 .. minted'
           /\ o.state = "terminal" <=> \E i \in 1 .. Len(o.events) : o.events[i] \in enders'
           /\ \A i, j \in 1 .. Len(o.events) : o.events[i] \in enders' /\ o.events[j] \in enders' => i = j
<1>0. /\ o \in OpType /\ Len(o.events) \in Nat /\ Len(o.events) <= minted
      /\ \A i \in 1 .. Len(o.events) : o.events[i] \in 1 .. minted
      /\ o.state = "terminal" <=> \E i \in 1 .. Len(o.events) : o.events[i] \in enders
      /\ \A i, j \in 1 .. Len(o.events) : o.events[i] \in enders /\ o.events[j] \in enders => i = j
    BY DEF OpStands, OpType
<1>1. \A n \in 1 .. minted : n \in 1 .. minted' /\ n # minted + 1
    OBVIOUS
<1>2. \A i \in 1 .. Len(o.events) : o.events[i] \in enders' <=> o.events[i] \in enders
    BY <1>0, <1>1
<1>3. Len(o.events) <= minted'
    BY <1>0
<1> QED
    BY <1>0, <1>1, <1>2, <1>3

\* The operation's row with an event more, in the epoch it has or the next one: Move and Enter.
LEMMA AppendGrows ==
    ASSUME ServerStands, minted < MaxEvents, op.state # "absent",
           NEW k \in {epoch, epoch + 1}, k \in Epochs, epoch' = k,
           \/ op' = Append1(op, op.state) /\ enders' = enders
           \/ op.state = "running" /\ op' = Append1(op, "terminal") /\ enders' = enders \cup {minted + 1},
           minted' = minted + 1, backup' = backup,
           hist' = [hist EXCEPT ![k] = op'.events]
    PROVE  ServerStands' /\ Grown
<1> DEFINE s == op'.state
<1>0. /\ epoch \in Epochs /\ minted \in 0 .. MaxEvents /\ enders \subseteq 1 .. minted
      /\ OpStands(op) /\ OpStands(backup) /\ hist \in [Epochs -> Seq(Nat)] /\ hist[epoch] = op.events
      /\ \A e \in Epochs : Len(hist[e]) <= minted /\ \A i \in 1 .. Len(hist[e]) : hist[e][i] \in 1 .. minted
    BY DEF ServerStands
<1>1. /\ epoch \in Nat \ {0} /\ minted \in Nat /\ MaxEvents \in Nat
      /\ \A e \in 1 .. epoch : e \in Epochs /\ hist[e] \in Seq(Nat) /\ Len(hist[e]) \in Nat
    BY Events, WatchAssumption
<1>2. op.state \in {"running", "terminal"} /\ Len(op.events) \in Nat /\ Len(op.events) <= minted
      /\ (op.state = "terminal" <=> \E i \in 1 .. Len(op.events) : op.events[i] \in enders)
    BY <1>0 DEF OpStands, OpType
<1>3. /\ op' \in OpType /\ op'.events \in Seq(Nat)
      /\ Len(op'.events) = Len(op.events) + 1
      /\ \A i \in 1 .. Len(op.events) : op'.events[i] = op.events[i]
      /\ op'.events[Len(op.events) + 1] = minted + 1
      /\ \A i \in 1 .. Len(op'.events) : op'.events[i] \in 1 .. minted + 1
      /\ op'.state = "terminal" <=> \E i \in 1 .. Len(op'.events) : op'.events[i] \in enders'
      /\ op.state = "terminal" => enders' = enders
      /\ \A i, j \in 1 .. Len(op'.events) : op'.events[i] \in enders' /\ op'.events[j] \in enders' => i = j
    BY <1>0, <1>1, Appends
<1>4. minted' \in 0 .. MaxEvents /\ enders' \subseteq 1 .. minted'
    <2>1. minted' \in 0 .. MaxEvents
        BY <1>1
    <2>2. minted + 1 \in 1 .. minted' /\ \A n \in 1 .. minted : n \in 1 .. minted'
        BY <1>1
    <2> QED
        BY <1>0, <2>1, <2>2
<1>5. OpStands(op)'
    <2>1. Len(op'.events) <= minted'
        BY <1>1, <1>2, <1>3
    <2> QED
        BY <1>3, <2>1 DEF OpStands, OpType
<1>6. OpStands(backup)'
    BY <1>0, <1>1, OpStays DEF OpStands
<1>7. hist' \in [Epochs -> Seq(Nat)] /\ hist'[epoch'] = op'.events
      /\ \A e \in Epochs : e # k => hist'[e] = hist[e]
    BY <1>0, <1>3
<1>8. \A e \in Epochs : Len(hist'[e]) <= minted' /\ \A i \in 1 .. Len(hist'[e]) : hist'[e][i] \in 1 .. minted'
    <2>1. Len(op'.events) <= minted'
        BY <1>1, <1>2, <1>3
    <2>2. \A n \in 1 .. minted : n \in 1 .. minted'
        BY <1>1
    <2>3. ASSUME NEW e \in Epochs, e # k
          PROVE  Len(hist'[e]) <= minted' /\ \A i \in 1 .. Len(hist'[e]) : hist'[e][i] \in 1 .. minted'
        <3>1. hist'[e] = hist[e] /\ Len(hist[e]) \in Nat /\ Len(hist[e]) <= minted
            BY <1>0, <1>7, <2>3
        <3> QED
            BY <1>0, <1>1, <2>2, <3>1
    <2> QED
        BY <1>3, <1>7, <2>1, <2>3
<1>9. ServerStands'
    BY <1>4, <1>5, <1>6, <1>7, <1>8 DEF ServerStands
<1>10. ASSUME NEW e \in 1 .. epoch
       PROVE  /\ Len(hist'[e]) \in Nat /\ Len(hist[e]) <= Len(hist'[e])
              /\ \A i \in 1 .. Len(hist[e]) : hist'[e][i] = hist[e][i]
              /\ Ends(e) # {} => EndsNext(e) = Ends(e)
    <2>1. CASE e = k
        <3>1. e = epoch /\ hist'[e] = op'.events /\ hist[e] = op.events
            BY <1>0, <1>1, <1>7, <2>1
        <3>2. Len(hist'[e]) = Len(hist[e]) + 1 /\ Len(hist[e]) \in Nat
            BY <1>2, <1>3, <3>1
        <3>3. \A i \in 1 .. Len(hist[e]) : hist'[e][i] = hist[e][i]
            BY <1>3, <3>1
        <3>4. ASSUME Ends(e) # {} PROVE EndsNext(e) = Ends(e)
            <4>1. op.state = "terminal"
                BY <1>2, <3>1, <3>4 DEF Ends
            <4>2. enders' = enders /\ minted + 1 \notin enders
                BY <1>0, <1>1, <1>3, <4>1
            <4>3. hist'[e][Len(hist[e]) + 1] \notin enders
                BY <1>3, <3>1, <4>2
            <4>4. \A i \in 1 .. Len(hist'[e]) : i \in 1 .. Len(hist[e]) \/ i = Len(hist[e]) + 1
                BY <3>2
            <4>5. \A i \in 1 .. Len(hist[e]) : i \in 1 .. Len(hist'[e])
                BY <3>2
            <4> QED
                BY <3>3, <4>2, <4>3, <4>4, <4>5 DEF Ends, EndsNext
        <3> QED
            BY <3>2, <3>3, <3>4
    <2>2. CASE e # k
        <3>1. hist'[e] = hist[e] /\ Len(hist[e]) \in Nat
            BY <1>1, <1>7, <2>2
        <3>2. \A i \in 1 .. Len(hist[e]) : hist[e][i] # minted + 1
            BY <1>0, <1>1
        <3>3. \A i \in 1 .. Len(hist[e]) : hist[e][i] \in enders' <=> hist[e][i] \in enders
            BY <3>2
        <3>4. EndsNext(e) = Ends(e)
            BY <3>1, <3>3 DEF Ends, EndsNext
        <3> QED
            BY <3>1, <3>4
    <2> QED
        BY <2>1, <2>2
<1>11. epoch' \in Nat /\ epoch <= epoch' /\ enders \subseteq enders'
    BY <1>1
<1> QED
    BY <1>9, <1>10, <1>11 DEF Grown

\* The rows as they are or a backup's, in the next epoch: Enter and Restore.
LEMMA EpochGrows ==
    ASSUME ServerStands, epoch < MaxEpoch, epoch' = epoch + 1, op' \in {op, backup},
           UNCHANGED <<minted, enders, backup>>, hist' = [hist EXCEPT ![epoch + 1] = op'.events]
    PROVE  ServerStands' /\ Grown
<1>0. /\ epoch \in Epochs /\ minted \in 0 .. MaxEvents /\ enders \subseteq 1 .. minted
      /\ OpStands(op) /\ OpStands(backup) /\ hist \in [Epochs -> Seq(Nat)] /\ hist[epoch] = op.events
      /\ \A e \in Epochs : Len(hist[e]) <= minted /\ \A i \in 1 .. Len(hist[e]) : hist[e][i] \in 1 .. minted
    BY DEF ServerStands
<1>1. /\ epoch \in Nat \ {0} /\ minted \in Nat /\ MaxEpoch \in Nat
      /\ \A e \in 1 .. epoch : e \in Epochs /\ hist[e] \in Seq(Nat) /\ Len(hist[e]) \in Nat
    BY Events, WatchAssumption
<1>2. epoch' \in Epochs
    BY <1>1 DEF Epochs
<1>3. OpStands(op') /\ op'.events \in Seq(Nat)
    BY <1>0 DEF OpStands, OpType
<1>4. OpStands(op)' /\ OpStands(backup)'
    BY <1>0, <1>3 DEF OpStands
<1>5. hist' \in [Epochs -> Seq(Nat)] /\ hist'[epoch'] = op'.events /\ \A e \in Epochs : e # epoch' => hist'[e] = hist[e]
    BY <1>0, <1>2, <1>3
<1>6. \A e \in Epochs : Len(hist'[e]) <= minted' /\ \A i \in 1 .. Len(hist'[e]) : hist'[e][i] \in 1 .. minted'
    <2>1. Len(op'.events) <= minted /\ \A i \in 1 .. Len(op'.events) : op'.events[i] \in 1 .. minted
        BY <1>3 DEF OpStands
    <2>2. minted' = minted
        OBVIOUS
    <2>3. ASSUME NEW e \in Epochs
          PROVE  Len(hist'[e]) <= minted /\ \A i \in 1 .. Len(hist'[e]) : hist'[e][i] \in 1 .. minted
        <3>1. CASE e = epoch'
            BY <1>5, <2>1, <3>1
        <3>2. CASE e # epoch'
            BY <1>0, <1>5, <3>2
        <3> QED
            BY <3>1, <3>2
    <2> QED
        BY <2>2, <2>3
<1>7. ServerStands'
    BY <1>0, <1>2, <1>4, <1>5, <1>6 DEF ServerStands
<1>8. ASSUME NEW e \in 1 .. epoch
      PROVE  /\ Len(hist'[e]) \in Nat /\ Len(hist[e]) <= Len(hist'[e])
             /\ \A i \in 1 .. Len(hist[e]) : hist'[e][i] = hist[e][i]
             /\ Ends(e) # {} => EndsNext(e) = Ends(e)
    <2>1. hist'[e] = hist[e] /\ Len(hist[e]) \in Nat
        BY <1>1, <1>5
    <2>2. EndsNext(e) = Ends(e)
        BY <2>1 DEF Ends, EndsNext
    <2> QED
        BY <2>1, <2>2
<1>9. epoch' \in Nat /\ epoch <= epoch' /\ enders \subseteq enders'
    BY <1>1
<1> QED
    BY <1>7, <1>8, <1>9 DEF Grown

\* Every step that leaves the client alone.
LEMMA ServerGrows ==
    ASSUME ServerStands, Move \/ TakeBackup \/ Enter \/ Restore
    PROVE  ServerStands' /\ Grown /\ cli' = cli /\ Watching
<1>0. /\ epoch \in Epochs /\ epoch \in Nat \ {0} /\ MaxEpoch \in Nat /\ minted \in Nat /\ MaxEvents \in Nat
      /\ \A e \in 1 .. epoch : hist[e] \in Seq(Nat) /\ Len(hist[e]) \in Nat
    BY Events, WatchAssumption DEF ServerStands
<1>1. ASSUME Move PROVE ServerStands' /\ Grown
    BY <1>0, <1>1, AppendGrows DEF Move
<1>2. ASSUME TakeBackup PROVE ServerStands' /\ Grown
    <2>1. UNCHANGED <<epoch, op, minted, enders, hist>> /\ backup' = op
        BY <1>2 DEF TakeBackup
    <2>2. OpStands(op)' /\ OpStands(backup)'
        BY <2>1 DEF ServerStands, OpStands
    <2>3. ServerStands'
        BY <2>1, <2>2 DEF ServerStands
    <2>4. \A e \in 1 .. epoch : EndsNext(e) = Ends(e)
        BY <2>1 DEF Ends, EndsNext
    <2> QED
        BY <1>0, <2>1, <2>3, <2>4 DEF Grown
<1>3. ASSUME Enter PROVE ServerStands' /\ Grown
    <2>0. epoch < MaxEpoch /\ epoch' = epoch + 1 /\ backup' = backup /\ hist' = [hist EXCEPT ![epoch + 1] = op'.events]
        BY <1>3 DEF Enter
    <2>1. epoch + 1 \in Epochs
        BY <1>0, <2>0 DEF Epochs
    <2>2. CASE UNCHANGED <<op, minted, enders>>
        BY <2>0, <2>2, EpochGrows
    <2>3. CASE /\ op.state = "running" /\ minted < MaxEvents
               /\ op' = Append1(op, "terminal") /\ minted' = minted + 1 /\ enders' = enders \cup {minted + 1}
        BY <2>0, <2>1, <2>3, AppendGrows
    <2> QED
        BY <1>3, <2>2, <2>3 DEF Enter
<1>4. ASSUME Restore PROVE ServerStands' /\ Grown
    BY <1>4, EpochGrows DEF Restore
<1>5. cli' = cli /\ Watching
    BY DEF Move, TakeBackup, Enter, Restore, Spend
<1> QED
    BY <1>1, <1>2, <1>3, <1>4, <1>5

-----------------------------------------------------------------------------
\* What was true of the client stays true as the events grow.
LEMMA GenuineStays ==
    ASSUME ServerStands, Grown, NEW f, Genuine(f)
    PROVE  /\ f.id.e \in 1 .. epoch' /\ f.id.n \in 1 .. Len(hist'[f.id.e])
           /\ f.ev = hist'[f.id.e][f.id.n]
<1>0. epoch \in Nat /\ epoch' \in Nat /\ epoch <= epoch'
    BY Events DEF Grown
<1>1. f.id.e \in 1 .. epoch /\ f.id.n \in 1 .. Len(hist[f.id.e]) /\ f.ev = hist[f.id.e][f.id.n]
    BY DEF Genuine
<1>2. /\ Len(hist[f.id.e]) \in Nat /\ Len(hist'[f.id.e]) \in Nat /\ Len(hist[f.id.e]) <= Len(hist'[f.id.e])
      /\ hist'[f.id.e][f.id.n] = hist[f.id.e][f.id.n]
    BY <1>1, Events DEF Grown
<1>3. f.id.e \in 1 .. epoch' /\ f.id.n \in 1 .. Len(hist'[f.id.e])
    BY <1>0, <1>1, <1>2
<1> QED
    BY <1>1, <1>2, <1>3

LEMMA ReadStays ==
    ASSUME ServerStands, Grown, NEW c, NEW rd, ReadStands(c, rd), rd.terminal
    PROVE  /\ rd.epoch \in 1 .. epoch' /\ EndsNext(rd.epoch) = Ends(rd.epoch) /\ EndsNext(rd.epoch) # {}
           /\ rd.epoch \in 1 .. epoch /\ c.seen # 0 /\ rd.moves <= c.moves /\ (rd.moves = c.moves => c.seen = rd.epoch)
<1>0. epoch \in Nat /\ epoch' \in Nat /\ epoch <= epoch'
    BY Events DEF Grown
<1>1. rd.epoch \in 1 .. epoch /\ Ends(rd.epoch) # {} /\ c.seen # 0 /\ rd.moves <= c.moves
      /\ (rd.moves = c.moves => c.seen = rd.epoch)
    BY DEF ReadStands
<1>2. EndsNext(rd.epoch) = Ends(rd.epoch)
    BY <1>1 DEF Grown
<1>3. rd.epoch \in 1 .. epoch'
    BY <1>0, <1>1
<1> QED
    BY <1>1, <1>2, <1>3

LEMMA SoundStays ==
    ASSUME ServerStands, Sound(cli), Grown, Watching, cli' = cli
    PROVE  Sound(cli)'
<1>0. /\ epoch \in Nat /\ epoch' \in Nat /\ epoch <= epoch' /\ enders \subseteq enders'
      /\ \A e \in 1 .. epoch : Len(hist[e]) \in Nat
      /\ \A e \in 1 .. epoch : Len(hist'[e]) \in Nat /\ Len(hist[e]) <= Len(hist'[e])
      /\ \A e \in 1 .. epoch : \A i \in 1 .. Len(hist[e]) : hist'[e][i] = hist[e][i]
      /\ \A e \in 1 .. epoch : Ends(e) # {} => EndsNext(e) = Ends(e)
    BY Events DEF Grown
<1>1. cli \in CliType /\ Counted(cli) /\ ReadsStand(cli) /\ Screen(cli) /\ ListFits(cli) /\ Ending(cli) /\ Told(cli)
    BY DEF Sound
<1>2. Counted(cli)'
    <2>1. cli.seen \in 0 .. epoch /\ cli.moves <= 2 * cli.seen /\ (cli.seen = epoch \/ cli.pc = "streaming" => cli.moves < 2 * cli.seen)
        BY <1>1 DEF Counted
    <2>2. cli.seen \in 0 .. epoch' /\ (cli.seen = epoch' => cli.seen = epoch)
        BY <1>0, <2>1
    <2> QED
        BY <2>1, <2>2 DEF Counted
<1>3. ReadsStand(cli)'
    <2>1. ASSUME NEW rd, ReadStands(cli, rd), rd.terminal
          PROVE  /\ rd.epoch \in 1 .. epoch' /\ EndsNext(rd.epoch) # {}
                 /\ cli.seen # 0 /\ rd.moves <= cli.moves /\ (rd.moves = cli.moves => cli.seen = rd.epoch)
        BY <2>1, ReadStays
    <2>2. ReadStands(cli, cli.first) /\ ReadStands(cli, cli.lastOp) /\ ReadStands(cli, cli.rd)
        BY <1>1 DEF ReadsStand
    <2>3. ReadStands(cli, cli.first)'
        BY <2>1, <2>2 DEF ReadStands, Ends, EndsNext
    <2>4. ReadStands(cli, cli.lastOp)'
        BY <2>1, <2>2 DEF ReadStands, Ends, EndsNext
    <2>5. ReadStands(cli, cli.rd)'
        BY <2>1, <2>2 DEF ReadStands, Ends, EndsNext
    <2> QED
        BY <2>3, <2>4, <2>5 DEF ReadsStand
<1>4. Screen(cli)'
    <2>1. CASE cli.last = NoEvent
        BY <1>1, <2>1 DEF Screen
    <2>2. CASE cli.last # NoEvent
        <3> DEFINE e == cli.last.e
        <3>1. /\ e \in 1 .. epoch /\ cli.last.n \in 1 .. Len(hist[e]) /\ Len(cli.shown) = cli.last.n
              /\ \A i \in 1 .. cli.last.n : cli.shown[i] = hist[e][i]
            BY <1>1, <2>2 DEF Screen
        <3>2. e \in 1 .. epoch'
            BY <1>0, <3>1
        <3>3. cli.last.n \in 1 .. Len(hist'[e]) /\ \A i \in 1 .. cli.last.n : i \in 1 .. Len(hist[e])
            BY <1>0, <3>1
        <3>4. \A i \in 1 .. cli.last.n : cli.shown[i] = hist'[e][i]
            BY <1>0, <3>1, <3>3
        <3> QED
            BY <2>2, <3>1, <3>2, <3>3, <3>4 DEF Screen
    <2> QED
        BY <2>1, <2>2
<1>5. \A f : Genuine(f) => /\ f.id.e \in 1 .. epoch' /\ f.id.n \in 1 .. Len(hist'[f.id.e])
                           /\ f.ev = hist'[f.id.e][f.id.n]
    BY GenuineStays
<1>6. cli.pc \in {"final", "again", "last", "last read"} =>
         cli.rd.terminal /\ EndsNext(cli.rd.epoch) = Ends(cli.rd.epoch)
    <2>1. cli.pc \in {"final", "again", "last", "last read"} => cli.rd.terminal /\ ReadStands(cli, cli.rd)
        BY <1>1 DEF Ending, ReadsStand
    <2> QED
        BY <2>1, ReadStays
<1>7. ListFits(cli)'
    <2>1. CASE cli.pc = "last read"
        <3>1. Len(cli.list.items) = 1 /\ Genuine(cli.list.items[1]) /\ cli.list.items[1].ev \in enders'
            BY <1>0, <1>1, <2>1 DEF ListFits
        <3> QED
            BY <1>5, <2>1, <3>1 DEF ListFits, Genuine
    <2>2. CASE cli.pc # "last read"
        <3> DEFINE l == cli.list
        <3> DEFINE gone == l.cursor.n - Len(l.items)
        <3>1. /\ cli.pc \notin {"pages", "final", "last"} => l = NoList
              /\ Len(l.items) <= l.cursor.n
              /\ \A i \in 1 .. Len(l.items) :
                    Genuine(l.items[i]) /\ l.items[i].id.e = l.cursor.e /\ l.items[i].id.n = gone + i
              /\ ~l.read => gone = 0
              /\ l.read => cli.pc \in {"pages", "final"} /\ l.items # <<>>
              /\ l.read /\ gone # 0 => cli.last.e = l.cursor.e /\ gone <= cli.last.n
              /\ l.read /\ cli.pc = "final" /\ l.cursor.e = cli.rd.epoch => \A i \in Ends(cli.rd.epoch) : i <= l.cursor.n
            BY <1>1, <2>2 DEF ListFits
        <3>2. \A i \in 1 .. Len(l.items) : Genuine(l.items[i])'
            BY <1>5, <3>1 DEF Genuine
        <3>3. cli.pc = "final" => Ends(cli.rd.epoch)' = Ends(cli.rd.epoch)
            BY <1>6 DEF Ends, EndsNext
        <3> QED
            BY <2>2, <3>1, <3>2, <3>3 DEF ListFits
    <2> QED
        BY <2>1, <2>2
<1>8. Ending(cli)'
    <2>1. cli.pc \in {"last", "last read"} => Ends(cli.rd.epoch)' = Ends(cli.rd.epoch)
        BY <1>6 DEF Ends, EndsNext
    <2> QED
        BY <1>1, <2>1 DEF Ending
<1>9. Told(cli)'
    BY <1>1 DEF Told, Watching
<1> QED
    BY <1>1, <1>2, <1>3, <1>4, <1>7, <1>8, <1>9 DEF Sound

-----------------------------------------------------------------------------
\* A client's record that is not over, without its list and the place where it stands.
Core(c) ==
    /\ c \in CliType
    /\ Counted(c) /\ ReadsStand(c) /\ Screen(c)
    /\ c.pc # "over" /\ c.out = "none" /\ c.stamp = 0

LEMMA SoundCore ==
    ASSUME NEW c, Sound(c), c.pc # "over"
    PROVE  Core(c)
BY DEF Sound, Told, Core

\* The parts of a record that other fields do not touch.
LEMMA CoreSame ==
    ASSUME NEW c, Core(c), NEW d \in CliType,
           d.seen = c.seen, d.moves = c.moves, d.last = c.last, d.shown = c.shown,
           ReadStands(c, d.first), ReadStands(c, d.lastOp), ReadStands(c, d.rd),
           d.pc # "streaming" \/ d.pc = c.pc \/ c.seen = epoch
    PROVE  Counted(d) /\ ReadsStand(d) /\ Screen(d)
<1>1. Counted(c) /\ ReadsStand(c) /\ Screen(c)
    BY DEF Core
<1>2. Counted(d)
    BY <1>1 DEF Counted
<1>3. ReadsStand(d)
    BY <1>1 DEF ReadsStand, ReadStands
<1>4. Screen(d)
    BY <1>1 DEF Screen
<1> QED
    BY <1>2, <1>3, <1>4

LEMMA Zero == (\A i \in 1 .. 0 : FALSE) /\ 0 - 0 = 0 /\ 0 <= 0
OBVIOUS

LEMMA NoListFits ==
    ASSUME NEW c, c.list = NoList, c.pc # "last read"
    PROVE  ListFits(c)
<1>1. NoList.items = <<>> /\ Len(NoList.items) = 0 /\ NoList.cursor.n = 0 /\ NoList.read = FALSE
    BY DEF NoList, NoEvent
<1>2. Len(c.list.items) = 0 /\ c.list.cursor.n = 0 /\ c.list.read = FALSE
    BY <1>1
<1>3. \A i \in 1 .. Len(c.list.items) : FALSE
    BY <1>2, Zero, Zenon
<1>4. c.list.cursor.n - Len(c.list.items) = 0 /\ Len(c.list.items) <= c.list.cursor.n
    BY <1>2, Zero, Zenon
<1> QED
    BY <1>2, <1>3, <1>4, Zenon DEF ListFits

LEMMA NoReadStands ==
    ASSUME NEW c
    PROVE  ReadStands(c, NoRead) /\ NoRead \in ReadType /\ NoList \in ListType /\ NoEvent \in EventId
BY DEF ReadStands, NoRead, ReadType, NoList, ListType, NoEvent, EventId

\* A record that begins a step of the watch's loop, with no list.
LEMMA Begins ==
    ASSUME NEW c, Core(c), NEW d \in CliType,
           d.seen = c.seen, d.moves = c.moves, d.last = c.last, d.shown = c.shown, d.stamp = c.stamp, d.out = c.out,
           ReadStands(c, d.first), ReadStands(c, d.lastOp), ReadStands(c, d.rd),
           d.pc # "streaming" \/ d.pc = c.pc \/ c.seen = epoch,
           d.list = NoList, d.pc \notin {"last read", "over"},
           d.pc \in {"final", "again", "last"} => d.rd.terminal,
           d.pc = "last" /\ d.drained => d.last.e = d.rd.epoch /\ \A i \in Ends(d.rd.epoch) : i <= d.last.n
    PROVE  Sound(d)
<1>1. Counted(d) /\ ReadsStand(d) /\ Screen(d)
    BY CoreSame
<1>2. ListFits(d)
    BY NoListFits
<1>3. Ending(d)
    BY DEF Ending
<1>4. Told(d)
    BY DEF Told, Core
<1> QED
    BY <1>1, <1>2, <1>3, <1>4 DEF Sound

LEMMA ClearedCore ==
    ASSUME NEW c, Core(c)
    PROVE  /\ Core(Cleared(c)) /\ Cleared(c).last = NoEvent
           /\ Cleared(c).pc = c.pc /\ Cleared(c).seen = c.seen /\ Cleared(c).moves = c.moves /\ Cleared(c).rd = c.rd
           /\ Cleared(c).list = c.list /\ Cleared(c).first = c.first /\ Cleared(c).lastOp = c.lastOp
<1> DEFINE d == Cleared(c)
<1>0. c \in CliType /\ Counted(c) /\ ReadsStand(c)
    BY DEF Core
<1>1. /\ d \in CliType /\ d.last = NoEvent /\ d.shown = <<>>
      /\ d.pc = c.pc /\ d.seen = c.seen /\ d.moves = c.moves /\ d.rd = c.rd /\ d.first = c.first /\ d.lastOp = c.lastOp
      /\ d.list = c.list /\ d.out = c.out /\ d.stamp = c.stamp
    <2>1. NoEvent \in EventId /\ <<>> \in Seq(Nat)
        BY DEF NoEvent, EventId
    <2> QED
        BY <1>0, <2>1 DEF CliType, Cleared
<1> HIDE DEF d
<1>2. Counted(d) /\ ReadsStand(d)
    BY <1>0, <1>1 DEF Counted, ReadsStand, ReadStands
<1>3. Screen(d)
    BY <1>1 DEF Screen
<1>4. Core(d)
    BY <1>1, <1>2, <1>3 DEF Core
<1> QED
    BY <1>1, <1>4 DEF d

LEMMA OverSound ==
    ASSUME NEW c, Core(c), NEW out \in {"error", "running", "unknown", "unread"}
    PROVE  Sound(Over(c, out)) /\ Over(c, out).pc = "over"
<1> DEFINE d == Over(c, out)
<1>0. c \in CliType /\ Core(c)
    BY DEF Core
<1>1. /\ d \in CliType /\ d.last = c.last /\ d.shown = c.shown /\ d.seen = c.seen /\ d.moves = c.moves
      /\ d.pc = "over" /\ d.rd = NoRead /\ d.first = NoRead /\ d.lastOp = NoRead
      /\ d.list = NoList /\ d.out = out /\ d.stamp = c.stamp
    BY <1>0, NoReadStands DEF CliType, Over
<1> HIDE DEF d
<1>2. Counted(d) /\ ReadsStand(d) /\ Screen(d)
    BY <1>0, <1>1, CoreSame, NoReadStands
<1>3. ListFits(d)
    BY <1>1, NoListFits
<1>4. Ending(d)
    BY <1>1 DEF Ending
<1>5. Told(d)
    BY <1>0, <1>1 DEF Told, Core
<1> QED
    BY <1>1, <1>2, <1>3, <1>4, <1>5 DEF Sound, d

\* Result: a terminal read is carried into the lookup of its end.
LEMMA ResultSound ==
    ASSUME NEW c, Core(c), NEW rd \in ReadType, ReadStands(c, rd), NEW drained \in BOOLEAN,
           rd.terminal /\ drained => c.last.e = rd.epoch /\ \A i \in Ends(rd.epoch) : i <= c.last.n
    PROVE  Sound(Result(c, rd, drained)) /\ Result(c, rd, drained).pc # "streaming"
<1>0. c \in CliType
    BY DEF Core
<1>1. CASE rd.terminal
    <2> DEFINE d == Result(c, rd, drained)
    <2>1. d = [c EXCEPT !.pc = "last", !.rd = rd, !.drained = drained, !.list = NoList]
        BY <1>1 DEF Result
    <2>2. /\ d \in CliType /\ d.last = c.last /\ d.shown = c.shown /\ d.seen = c.seen /\ d.moves = c.moves
          /\ d.pc = "last" /\ d.rd = rd /\ d.first = c.first /\ d.lastOp = c.lastOp /\ d.drained = drained
          /\ d.list = NoList /\ d.out = c.out /\ d.stamp = c.stamp
        BY <1>0, <2>1, NoReadStands DEF CliType
    <2> HIDE DEF d
    <2>3. ReadStands(c, c.first) /\ ReadStands(c, c.lastOp)
        BY DEF Core, ReadsStand
    <2>4. Sound(d)
        BY <1>1, <2>2, <2>3, Begins
    <2> QED
        BY <2>2, <2>4 DEF d
<1>2. CASE ~rd.terminal
    <2> DEFINE d == [c EXCEPT !.rd = rd]
    <2>1. /\ d \in CliType /\ d.last = c.last /\ d.shown = c.shown /\ d.seen = c.seen /\ d.moves = c.moves
          /\ d.pc = c.pc /\ d.rd = rd /\ d.first = c.first /\ d.lastOp = c.lastOp
          /\ d.out = c.out /\ d.stamp = c.stamp
        BY <1>0 DEF CliType
    <2>2. Result(c, rd, drained) = Over(d, "running")
        BY <1>2 DEF Result
    <2> HIDE DEF d
    <2>3. ReadStands(c, c.first) /\ ReadStands(c, c.lastOp)
        BY DEF Core, ReadsStand
    <2>4. Core(d)
        <3>1. Counted(d) /\ ReadsStand(d) /\ Screen(d)
            BY <2>1, <2>3, CoreSame
        <3> QED
            BY <2>1, <3>1 DEF Core
    <2> QED
        BY <2>2, <2>4, OverSound
<1> QED
    BY <1>1, <1>2

-----------------------------------------------------------------------------
\* observe: the epoch of the answer is the server's, so a read from another one no longer stands.
LEMMA ObservedCore ==
    ASSUME ServerStands, NEW c, Core(c), c.pc # "streaming"
    PROVE  LET d == Observed(c) IN
           /\ Core(d) /\ d.seen = epoch /\ d.pc = c.pc /\ d.last = c.last /\ d.shown = c.shown /\ d.list = c.list
           /\ d.rd = c.rd /\ d.lastOp = c.lastOp /\ d.first = c.first /\ d.voided = c.voided /\ d.drained = c.drained
           /\ d.out = c.out /\ d.stamp = c.stamp
           /\ (c.rd.terminal => ReadStands(d, c.rd))
<1> DEFINE d == Observed(c)
<1>0. c \in CliType /\ Counted(c) /\ ReadsStand(c) /\ Screen(c) /\ c.out = "none" /\ c.stamp = 0 /\ c.pc # "over"
    BY DEF Core
<1>1. epoch \in Nat /\ epoch # 0
    BY Events
<1>2. CASE c.seen = epoch
    BY <1>0, <1>2 DEF Observed, ReadsStand
<1>3. CASE c.seen # epoch
    <2>1. d = [c EXCEPT !.seen = epoch, !.moves = IF c.seen = 0 THEN @ ELSE @ + 1]
        BY <1>3 DEF Observed
    <2>2. /\ d.pc = c.pc /\ d.last = c.last /\ d.shown = c.shown /\ d.list = c.list
          /\ d.rd = c.rd /\ d.lastOp = c.lastOp /\ d.first = c.first /\ d.voided = c.voided /\ d.drained = c.drained
          /\ d.out = c.out /\ d.stamp = c.stamp
          /\ d.seen = epoch /\ d.moves = IF c.seen = 0 THEN c.moves ELSE c.moves + 1
        BY <1>0, <2>1 DEF CliType
    <2>3. c.moves \in Nat /\ c.seen \in Nat /\ d.moves \in Nat
        <3>1. c.moves \in Nat /\ c.seen \in Nat
            BY <1>0 DEF CliType
        <3> HIDE DEF d
        <3> QED
            BY <2>2, <3>1
    <2>4. d \in CliType
        BY <1>0, <1>1, <2>1, <2>3 DEF CliType
    <2> HIDE DEF d
    <2>5. Counted(d)
        <3>1. c.seen \in 0 .. epoch /\ c.moves <= 2 * c.seen
            BY <1>0 DEF Counted
        <3>2. d.moves < 2 * d.seen
            <4>1. c.seen <= epoch - 1
                BY <1>1, <1>3, <2>3, <3>1
            <4> QED
                BY <1>1, <2>2, <2>3, <3>1, <4>1
        <3> QED
            BY <1>1, <2>2, <2>3, <3>2 DEF Counted
    <2>6. ASSUME NEW rd \in ReadType, ReadStands(c, rd) PROVE ReadStands(d, rd)
        <3>1. rd.moves \in Nat
            BY DEF ReadType
        <3>2. rd.terminal => /\ rd.epoch \in 1 .. epoch /\ Ends(rd.epoch) # {} /\ c.seen # 0 /\ rd.moves <= c.moves
            BY <2>6 DEF ReadStands
        <3>3. rd.terminal => d.moves = c.moves + 1 /\ d.seen # 0
            BY <1>1, <2>2, <3>2
        <3>4. rd.terminal => rd.moves <= d.moves /\ rd.moves # d.moves
            BY <2>3, <3>1, <3>2, <3>3
        <3> QED
            BY <3>2, <3>3, <3>4 DEF ReadStands
    <2>7. ReadStands(d, c.rd) /\ ReadStands(d, c.lastOp) /\ ReadStands(d, c.first)
        BY <1>0, <2>6 DEF ReadsStand, CliType
    <2>8. ReadsStand(d) /\ Screen(d)
        BY <1>0, <2>2, <2>7 DEF ReadsStand, Screen
    <2>9. Core(d)
        BY <1>0, <2>2, <2>4, <2>5, <2>8 DEF Core
    <2> QED
        BY <2>2, <2>7, <2>9 DEF d
<1> QED
    BY <1>2, <1>3

\* An answer changes neither the list nor what the watch is about to end with.
LEMMA ObservedSound ==
    ASSUME ServerStands, NEW c, Sound(c), c.pc \notin {"streaming", "over"}
    PROVE  Sound(Observed(c))
<1> DEFINE d == Observed(c)
<1>1. /\ Core(d) /\ d.pc = c.pc /\ d.last = c.last /\ d.list = c.list /\ d.rd = c.rd /\ d.drained = c.drained
      /\ d.out = c.out /\ d.stamp = c.stamp
    BY SoundCore, ObservedCore
<1> HIDE DEF d
<1>2. ListFits(d) /\ Ending(d)
    BY <1>1 DEF Sound, ListFits, Ending
<1>3. Told(d)
    BY <1>1 DEF Core, Told
<1> QED
    BY <1>1, <1>2, <1>3 DEF Core, Sound, d

\* What Unanswered leaves.
LEMMA UnansweredSound ==
    ASSUME ServerStands, Sound(cli), cli.pc \notin {"streaming", "over"}, NEW d \in Unanswered
    PROVE  Sound(d) /\ Core(d) /\ d.pc = cli.pc
<1>1. d = cli \/ d = Observed(cli)
    BY DEF Unanswered
<1>2. Sound(d) /\ d.pc = cli.pc
    BY <1>1, ObservedSound, ObservedCore, SoundCore
<1> QED
    BY <1>2, SoundCore

\* show: the next event, or one that is shown already.
LEMMA ShowCore ==
    ASSUME ServerStands, NEW c, Core(c), NEW f \in FrameType, Genuine(f),
           \/ c.last = NoEvent /\ f.id.n = 1
           \/ c.last.e = f.id.e /\ f.id.n <= c.last.n + 1
    PROVE  LET d == Show(c, f) IN
           /\ Core(d) /\ d.last.e = f.id.e /\ f.id.n <= d.last.n
           /\ (c.last.n < f.id.n => d.last.n = f.id.n)
           /\ d.pc = c.pc /\ d.seen = c.seen /\ d.moves = c.moves /\ d.list = c.list /\ d.rd = c.rd
<1> DEFINE d == Show(c, f)
<1>0. c \in CliType /\ Counted(c) /\ ReadsStand(c) /\ Screen(c) /\ c.pc # "over" /\ c.out = "none" /\ c.stamp = 0
    BY DEF Core
<1>1. /\ f.id.e \in 1 .. epoch /\ f.id.n \in 1 .. Len(hist[f.id.e]) /\ f.ev = hist[f.id.e][f.id.n]
      /\ epoch \in Nat /\ Len(hist[f.id.e]) \in Nat /\ f.id.n \in Nat /\ f.id.e \in Nat /\ f.ev \in Nat /\ f.id \in EventId
    BY Events DEF Genuine, FrameType, EventId
<1>2. c.last \in EventId /\ c.last.n \in Nat /\ c.last.e \in Nat /\ c.shown \in Seq(Nat)
    BY <1>0 DEF CliType, EventId
<1>3. c.last # NoEvent =>
        /\ c.last.e \in 1 .. epoch /\ c.last.n \in 1 .. Len(hist[c.last.e]) /\ Len(c.shown) = c.last.n
        /\ \A i \in 1 .. c.last.n : c.shown[i] = hist[c.last.e][i]
    BY <1>0 DEF Screen
<1>4. CASE c.last # NoEvent /\ f.id.e = c.last.e /\ f.id.n <= c.last.n
    <2>1. d = c
        BY <1>4 DEF Show
    <2>2. ~(c.last.n < f.id.n)
        BY <1>1, <1>2, <1>4
    <2> HIDE DEF d
    <2>3. d.last.e = f.id.e /\ f.id.n <= d.last.n
        BY <1>4, <2>1
    <2> QED
        BY <2>1, <2>2, <2>3 DEF d
<1>5. CASE ~(c.last # NoEvent /\ f.id.e = c.last.e /\ f.id.n <= c.last.n)
    <2>1. d = [c EXCEPT !.shown = Append(@, f.ev), !.last = f.id]
        BY <1>5 DEF Show
    <2>2. Append(c.shown, f.ev) \in Seq(Nat)
        BY <1>1, <1>2
    <2>3. /\ d \in CliType /\ d.last = f.id /\ d.shown = Append(c.shown, f.ev)
          /\ d.pc = c.pc /\ d.seen = c.seen /\ d.moves = c.moves /\ d.list = c.list
          /\ d.rd = c.rd /\ d.first = c.first /\ d.lastOp = c.lastOp /\ d.out = c.out /\ d.stamp = c.stamp
        BY <1>0, <1>1, <2>1, <2>2 DEF CliType
    <2> HIDE DEF d
    <2>4. Counted(d) /\ ReadsStand(d)
        BY <1>0, <2>3 DEF Counted, ReadsStand, ReadStands
    <2>5. Len(c.shown) \in Nat /\ Len(c.shown) + 1 = f.id.n /\ (Len(c.shown) # 0 => c.last # NoEvent /\ c.last.e = f.id.e /\ Len(c.shown) = c.last.n)
        <3>1. CASE c.last = NoEvent
            <4>1. c.shown = <<>> /\ NoEvent.e = 0
                BY <1>0, <3>1 DEF Screen, NoEvent
            <4>2. Len(c.shown) = 0 /\ f.id.e # 0
                BY <1>1, <4>1
            <4> QED
                BY <1>1, <3>1, <4>1, <4>2
        <3>2. CASE c.last # NoEvent
            <4>1. c.last.e = f.id.e /\ f.id.n <= c.last.n + 1
                BY <3>2
            <4>2. ~(f.id.n <= c.last.n)
                BY <1>5, <3>2, <4>1
            <4>3. f.id.n = c.last.n + 1
                BY <1>1, <1>2, <4>1, <4>2
            <4> QED
                BY <1>2, <1>3, <3>2, <4>1, <4>3
        <3> QED
            BY <3>1, <3>2
    <2>6. /\ Len(d.shown) = f.id.n /\ d.shown[f.id.n] = f.ev
          /\ \A i \in 1 .. Len(c.shown) : d.shown[i] = c.shown[i]
        BY <1>1, <1>2, <2>3, <2>5, AppendProperties
    <2>7. \A i \in 1 .. f.id.n : i \in 1 .. Len(c.shown) \/ i = f.id.n
        BY <1>1, <2>5
    <2>8. \A i \in 1 .. f.id.n : d.shown[i] = hist[f.id.e][i]
        <3>1. ASSUME NEW i \in 1 .. Len(c.shown) PROVE d.shown[i] = hist[f.id.e][i]
            <4>1. Len(c.shown) # 0
                BY <2>5
            <4> QED
                BY <1>3, <2>5, <2>6, <4>1
        <3> QED
            BY <1>1, <2>6, <2>7, <3>1
    <2>9. Screen(d)
        <3>1. d.last # NoEvent
            BY <1>1, <2>3 DEF NoEvent
        <3> QED
            BY <1>1, <2>3, <2>6, <2>8, <3>1 DEF Screen
    <2>10. Core(d)
        BY <1>0, <2>3, <2>4, <2>9 DEF Core
    <2>11. d.last.e = f.id.e /\ f.id.n <= d.last.n /\ d.last.n = f.id.n
        BY <1>1, <2>3
    <2> QED
        BY <2>3, <2>10, <2>11 DEF d
<1> QED
    BY <1>4, <1>5

-----------------------------------------------------------------------------
\* A client's step to a sound record.
LEMMA StreamSteps ==
    ASSUME WatchInv, NEW d, Sound(d), Client(d), NEW s \in StreamType, stream' = s,
           s.live <=> s.pass # "none", StreamFits(s, d)
    PROVE  WatchInv'
<1>0. cli' = d /\ UNCHANGED <<epoch, op, backup, minted, enders, hist>>
    BY DEF Client, serverVars
<1>1. ServerStands'
    BY <1>0 DEF WatchInv, ServerStands, OpStands
<1>3. Sound(cli)'
    <2>1. Counted(cli)' /\ Screen(cli)'
        BY <1>0 DEF Sound, Counted, Screen
    <2>2. ReadsStand(cli)'
        BY <1>0 DEF Sound, ReadsStand, ReadStands, Ends
    <2>3. ListFits(cli)'
        BY <1>0 DEF Sound, ListFits, Genuine, Ends
    <2>4. Ending(cli)' /\ Told(cli)'
        BY <1>0 DEF Sound, Ending, Told, Ends
    <2> QED
        BY <1>0, <2>1, <2>2, <2>3, <2>4 DEF Sound
<1>4. StreamFits(stream, cli)'
    <2>1. \A f : Genuine(f)' <=> Genuine(f)
        BY <1>0 DEF Genuine
    <2> QED
        BY <1>0, <2>1 DEF StreamFits, Genuine
<1> QED
    BY <1>1, <1>3, <1>4 DEF WatchInv

\* With no stream open after it.
LEMMA Steps ==
    ASSUME WatchInv, NEW d, Sound(d), d.pc # "streaming", Client(d), stream' \in {stream, NoStream}
    PROVE  WatchInv'
<1>1. stream' \in StreamType /\ (stream'.live <=> stream'.pass # "none")
    <2>1. NoStream \in StreamType /\ NoStream.live = FALSE /\ NoStream.pass = "none"
        BY DEF NoStream, StreamType
    <2> QED
        BY <2>1 DEF WatchInv
<1>2. PICK s \in StreamType : stream' = s /\ (s.live <=> s.pass # "none")
    BY <1>1
<1>3. StreamFits(s, d)
    BY DEF StreamFits
<1> QED
    BY <1>2, <1>3, StreamSteps

\* The answer to a read of the operation stands when it arrives.
LEMMA ReadOfStands ==
    ASSUME ServerStands, NEW c, Core(c), c.seen = epoch
    PROVE  /\ ReadOf(c) \in ReadType /\ ReadStands(c, ReadOf(c))
           /\ ReadOf(c).terminal = (op.state = "terminal") /\ ReadOf(c).epoch = epoch /\ ReadOf(c).moves = c.moves
<1>0. epoch \in Nat \ {0} /\ hist[epoch] = op.events /\ OpStands(op) /\ c.moves \in Nat
    BY Events DEF ServerStands, Core, CliType
<1>1. /\ ReadOf(c).terminal = (op.state = "terminal") /\ ReadOf(c).epoch = epoch /\ ReadOf(c).moves = c.moves
      /\ ReadOf(c) \in ReadType
    BY <1>0 DEF ReadOf, ReadType
<1>2. op.state = "terminal" => Ends(epoch) # {}
    BY <1>0 DEF OpStands, Ends
<1>3. epoch \in 1 .. epoch /\ c.seen # 0 /\ c.moves <= c.moves
    BY <1>0
<1> QED
    BY <1>1, <1>2, <1>3 DEF ReadStands

\* Where no list is read, none is kept.
LEMMA NoListKept ==
    ASSUME NEW c, Sound(c), c.pc \notin {"pages", "final", "last", "last read"}
    PROVE  c.list = NoList
BY DEF Sound, ListFits

LEMMA FirstReadSteps ==
    ASSUME WatchInv, FirstRead
    PROVE  WatchInv'
<1>0. ServerStands /\ Sound(cli) /\ cli.pc = "first"
    BY DEF WatchInv, FirstRead
<1> DEFINE c == Observed(cli)
<1>1. /\ Core(c) /\ c.seen = epoch /\ c.pc = "first" /\ c.list = NoList /\ c \in CliType
      /\ ReadStands(c, c.lastOp) /\ ReadStands(c, c.rd)
    <2>1. Core(cli) /\ cli.list = NoList
        BY <1>0, SoundCore, NoListKept
    <2>2. Core(c) /\ c.seen = epoch /\ c.pc = "first" /\ c.list = NoList
        BY <1>0, <2>1, ObservedCore
    <2> QED
        BY <2>2 DEF Core, ReadsStand
<1>2. ASSUME Client([c EXCEPT !.first = ReadOf(c), !.pc = "attempt"]), NoFault
      PROVE  WatchInv'
    <2>1. ReadOf(c) \in ReadType /\ ReadStands(c, ReadOf(c))
        BY <1>0, <1>1, ReadOfStands
    <2> HIDE DEF c
    <2> DEFINE d == [c EXCEPT !.first = ReadOf(c), !.pc = "attempt"]
    <2>2. /\ d \in CliType /\ d.last = c.last /\ d.shown = c.shown /\ d.seen = c.seen /\ d.moves = c.moves
          /\ d.pc = "attempt" /\ d.rd = c.rd /\ d.first = ReadOf(c) /\ d.lastOp = c.lastOp
          /\ d.list = NoList /\ d.out = c.out /\ d.stamp = c.stamp
        BY <1>1, <2>1 DEF CliType
    <2> HIDE DEF d
    <2>3. Sound(d)
        BY <1>1, <2>1, <2>2, Begins
    <2>4. Client(d) /\ stream' = stream
        BY <1>2 DEF d, NoFault
    <2> QED
        BY <2>2, <2>3, <2>4, Steps
<1>3. ASSUME Client(Over(c, "error")), NoFault PROVE WatchInv'
    BY <1>1, <1>3, OverSound, Steps DEF NoFault
<1>4. ASSUME NEW d \in Unanswered, Fails(Over(d, "error")) PROVE WatchInv'
    <2>1. Core(d)
        BY <1>0, UnansweredSound
    <2> QED
        BY <1>4, <2>1, OverSound, Steps DEF Fails
<1> QED
    BY <1>2, <1>3, <1>4 DEF FirstRead

\* EventsAfter: genuine events of the epoch, numbered from the one asked for.
LEMMA EventsAfterGenuine ==
    ASSUME ServerStands, NEW n \in Nat, NEW limit \in Nat
    PROVE  LET b == EventsAfter(n, limit) IN
           /\ b \in Seq(FrameType) /\ Len(b) \in Nat
           /\ \A i \in 1 .. Len(b) : Genuine(b[i]) /\ b[i].id.e = epoch /\ b[i].id.n = n + i
<1> DEFINE k == IF Len(op.events) <= n THEN 0 ELSE IF Len(op.events) - n < limit THEN Len(op.events) - n ELSE limit
<1> DEFINE g(i) == [id |-> [e |-> epoch, n |-> n + i], ev |-> op.events[n + i]]
<1> DEFINE b == [i \in 1 .. k |-> g(i)]
<1>0. epoch \in Nat \ {0} /\ hist[epoch] = op.events /\ op.events \in Seq(Nat) /\ Len(op.events) \in Nat
    BY Events DEF ServerStands, OpStands, OpType
<1>1. k \in Nat /\ (k # 0 => n + k <= Len(op.events))
    BY <1>0
<1>2. EventsAfter(n, limit) = b
    BY DEF EventsAfter
<1> HIDE DEF k
<1>3. ASSUME NEW i \in 1 .. k
      PROVE  g(i) \in FrameType /\ Genuine(g(i)) /\ g(i).id.e = epoch /\ g(i).id.n = n + i
    <2>1. n + i \in 1 .. Len(op.events) /\ n + i \in Nat
        BY <1>0, <1>1
    <2>2. op.events[n + i] \in Nat
        BY <1>0, <2>1
    <2>3. epoch \in 1 .. epoch
        BY <1>0
    <2> QED
        BY <1>0, <2>1, <2>2, <2>3 DEF Genuine, FrameType, EventId
<1> HIDE DEF g
<1>4. b \in [1 .. k -> FrameType]
    BY <1>3
<1>5. b \in Seq(FrameType) /\ Len(b) = k
    BY <1>1, <1>4, IsASeq, LenProperties
<1>6. \A i \in 1 .. k : b[i] = g(i)
    OBVIOUS
<1> HIDE DEF b
<1>7. \A i \in 1 .. Len(b) : Genuine(b[i]) /\ b[i].id.e = epoch /\ b[i].id.n = n + i
    BY <1>3, <1>5, <1>6
<1> QED
    BY <1>1, <1>2, <1>5, <1>7

\* A genuine frame is no reset.
LEMMA NotReset ==
    ASSUME NEW f, Genuine(f)
    PROVE  f # Reset
<1>1. Reset.id.e = 0
    BY DEF Reset, NoEvent
<1>2. f.id.e # 0
    BY DEF Genuine
<1> QED
    BY <1>1, <1>2

LEMMA PassSteps ==
    ASSUME WatchInv, PassHead \/ PassEvents \/ CutStream
    PROVE  WatchInv'
<1>0. /\ ServerStands /\ Sound(cli) /\ Client(cli) /\ stream \in StreamType /\ StreamFits(stream, cli)
      /\ (stream.live <=> stream.pass # "none")
    BY DEF WatchInv, PassHead, PassEvents, CutStream, Client
<1>1. ASSUME PassHead PROVE WatchInv'
    <2> DEFINE s == [stream EXCEPT !.pass = "events", !.done = op.state = "terminal"]
    <2>1. /\ s \in StreamType /\ s.live = stream.live /\ s.header = stream.header /\ s.from = stream.from
          /\ s.frames = stream.frames /\ s.pass = "events" /\ stream.live = TRUE
        BY <1>0, <1>1 DEF StreamType, PassHead
    <2>2. stream' = s
        BY <1>1 DEF PassHead
    <2> HIDE DEF s
    <2>3. StreamFits(s, cli)
        BY <1>0, <2>1 DEF StreamFits
    <2> QED
        BY <1>0, <2>1, <2>2, <2>3, StreamSteps
<1>2. ASSUME CutStream PROVE WatchInv'
    <2> DEFINE s == stream'
    <2>1. /\ s \in StreamType /\ s.live = FALSE /\ s.pass = "none" /\ s.header = stream.header
          /\ s.frames \in {stream.frames, <<>>}
        <3>1. CASE stream' = [stream EXCEPT !.live = FALSE, !.pass = "none"]
            BY <1>0, <3>1 DEF StreamType
        <3>2. CASE stream' = [stream EXCEPT !.live = FALSE, !.pass = "none", !.frames = <<>>]
            <4>1. <<>> \in Seq(FrameType)
                OBVIOUS
            <4> QED
                BY <1>0, <3>2, <4>1 DEF StreamType
        <3> QED
            BY <1>2, <3>1, <3>2 DEF CutStream
    <2>2. PICK t \in StreamType : stream' = t
        BY <2>1
    <2>3. t.live = FALSE /\ t.pass = "none" /\ t.header = stream.header /\ t.frames \in {stream.frames, <<>>}
        BY <2>1, <2>2
    <2>4. StreamFits(t, cli)
        <3>1. CASE t.frames = stream.frames
            BY <1>0, <2>3, <3>1 DEF StreamFits
        <3>2. CASE t.frames = <<>>
            <4>1. Len(t.frames) = 0 /\ Skip(t.frames) = 0
                BY <3>2 DEF Skip
            <4>2. \A i \in Skip(t.frames) + 1 .. Len(t.frames) : FALSE
                BY <4>1
            <4>3. cli.pc = "streaming" => t.header = cli.seen /\ cli.seen # 0
                BY <1>0, <2>3 DEF StreamFits
            <4> QED
                BY <2>3, <3>2, <4>2, <4>3 DEF StreamFits
        <3> QED
            BY <2>3, <3>1, <3>2
    <2> QED
        BY <1>0, <2>2, <2>3, <2>4, StreamSteps
<1>3. ASSUME PassEvents PROVE WatchInv'
    <2> DEFINE b == EventsAfter(stream.from, Batch)
    <2> DEFINE fs == stream.frames
    <2>1. /\ b \in Seq(FrameType) /\ Len(b) \in Nat /\ fs \in Seq(FrameType) /\ Len(fs) \in Nat /\ stream.from \in Nat
          /\ \A i \in 1 .. Len(b) : Genuine(b[i]) /\ b[i].id.e = epoch /\ b[i].id.n = stream.from + i
        <3>1. fs \in Seq(FrameType) /\ Len(fs) \in Nat /\ stream.from \in Nat
            BY <1>0 DEF StreamType
        <3>2. Batch \in Nat
            BY WatchAssumption
        <3> QED
            BY <1>0, <3>1, <3>2, EventsAfterGenuine
    <2> DEFINE s == [stream EXCEPT !.frames = @ \o b, !.from = @ + Len(b),
                                   !.live = ~LastBatch(b), !.pass = IF LastBatch(b) THEN "none" ELSE "head"]
    <2>2. stream' = s /\ stream.live = TRUE
        BY <1>0, <1>3 DEF PassEvents, StreamType
    <2> HIDE DEF b
    <2>3. /\ fs \o b \in Seq(FrameType) /\ Len(fs \o b) = Len(fs) + Len(b)
          /\ \A i \in 1 .. Len(fs) : (fs \o b)[i] = fs[i]
          /\ \A i \in 1 .. Len(b) : (fs \o b)[Len(fs) + i] = b[i]
        <3>1. \A i \in 1 .. Len(fs) + Len(b) : (fs \o b)[i] = IF i <= Len(fs) THEN fs[i] ELSE b[i - Len(fs)]
            BY <2>1, ConcatProperties
        <3>2. \A i \in 1 .. Len(fs) : i \in 1 .. Len(fs) + Len(b) /\ i <= Len(fs)
            BY <2>1
        <3>3. \A i \in 1 .. Len(b) : Len(fs) + i \in 1 .. Len(fs) + Len(b) /\ ~(Len(fs) + i <= Len(fs)) /\ (Len(fs) + i) - Len(fs) = i
            BY <2>1
        <3>4. fs \o b \in Seq(FrameType) /\ Len(fs \o b) = Len(fs) + Len(b)
            BY <2>1, ConcatProperties
        <3> QED
            BY <3>1, <3>2, <3>3, <3>4
    <2>4. LastBatch(b) \in BOOLEAN
        BY DEF LastBatch
    <2>5. /\ s \in StreamType /\ s.header = stream.header /\ s.frames = fs \o b /\ s.from = stream.from + Len(b)
          /\ s.live <=> s.pass # "none"
        <3> DEFINE p == IF LastBatch(b) THEN "none" ELSE "head"
        <3> DEFINE cat == fs \o b
        <3>1. p \in {"none", "head", "events"} /\ (~LastBatch(b) <=> p # "none") /\ (~LastBatch(b)) \in BOOLEAN
            <4>1. CASE LastBatch(b)
                <5>1. p = "none"
                    BY <4>1, Zenon
                <5> HIDE DEF p
                <5> QED
                    BY <4>1, <5>1
            <4>2. CASE ~LastBatch(b)
                <5>1. p = "head"
                    BY <4>2, Zenon
                <5> HIDE DEF p
                <5> QED
                    BY <4>2, <5>1
            <4> HIDE DEF p
            <4> QED
                BY <4>1, <4>2
        <3>2. cat \in Seq(FrameType) /\ stream.from + Len(b) \in Nat
            BY <2>1, <2>3
        <3>3. s = [stream EXCEPT !.frames = cat, !.from = stream.from + Len(b), !.live = ~LastBatch(b), !.pass = p]
            BY <1>0 DEF StreamType
        <3> HIDE DEF p, cat, s
        <3>4. s \in StreamType
            BY <1>0, <3>1, <3>2, <3>3 DEF StreamType
        <3>5. s.header = stream.header /\ s.frames = cat /\ s.from = stream.from + Len(b)
              /\ s.live = ~LastBatch(b) /\ s.pass = p
            BY <1>0, <3>3 DEF StreamType
        <3> QED
            BY <3>1, <3>4, <3>5 DEF cat
    <2> HIDE DEF s
    <2>6. StreamFits(s, cli)
        <3> SUFFICES ASSUME cli.pc = "streaming" PROVE StreamFits(s, cli)
            BY DEF StreamFits
        <3> DEFINE k == Skip(fs)
        <3> DEFINE base == IF k = 1 THEN 0 ELSE cli.last.n
        <3>1. /\ stream.header = cli.seen /\ cli.seen # 0
              /\ k = 0 => cli.last = NoEvent \/ cli.last.e = stream.header
              /\ \A i \in k + 1 .. Len(fs) : Genuine(fs[i]) /\ fs[i].id.e >= stream.header /\ fs[i].id.n = base + i - k
              /\ stream.from = base + Len(fs) - k
            BY <1>0, <2>2 DEF StreamFits
        <3>2. k \in {0, 1} /\ (k = 1 => fs # <<>>) /\ cli.last.n \in Nat /\ base \in Nat
            <4>1. k \in {0, 1} /\ (k = 1 => fs # <<>>)
                BY DEF Skip
            <4>2. cli.last.n \in Nat
                BY <1>0 DEF Sound, CliType, EventId
            <4> HIDE DEF k
            <4> QED
                BY <4>1, <4>2
        <3>3. Skip(fs \o b) = k
            <4>1. CASE fs # <<>>
                <5>1. 1 \in 1 .. Len(fs)
                    BY <2>1, <4>1
                <5>2. Head(fs \o b) = Head(fs) /\ fs \o b # <<>>
                    BY <2>1, <2>3, <5>1
                <5> QED
                    BY <4>1, <5>2 DEF Skip
            <4>2. CASE fs = <<>> /\ b = <<>>
                <5>1. fs \o b = <<>>
                    BY <4>2
                <5> QED
                    BY <4>2, <5>1
            <4>3. CASE fs = <<>> /\ b # <<>>
                <5>1. fs \o b = b
                    BY <2>1, <4>3
                <5>2. 1 \in 1 .. Len(b) /\ Head(b) = b[1]
                    BY <2>1, <4>3
                <5>3. Head(b) # Reset
                    BY <2>1, <5>2, NotReset
                <5> QED
                    BY <4>3, <5>1, <5>3 DEF Skip
            <4> QED
                BY <4>1, <4>2, <4>3
        <3> HIDE DEF k, base
        <3>4. cli.seen \in Nat /\ cli.seen <= epoch /\ epoch \in Nat
            BY <1>0, Events DEF Sound, Counted
        <3>5. ASSUME NEW i \in k + 1 .. Len(fs \o b)
              PROVE  /\ Genuine((fs \o b)[i]) /\ (fs \o b)[i].id.e >= stream.header
                     /\ (fs \o b)[i].id.n = base + i - k
            <4>1. CASE i \in k + 1 .. Len(fs)
                <5>1. i \in 1 .. Len(fs)
                    BY <2>1, <3>2, <4>1
                <5> QED
                    BY <2>3, <3>1, <4>1, <5>1
            <4>2. CASE i \notin k + 1 .. Len(fs)
                <5>1. i - Len(fs) \in 1 .. Len(b) /\ Len(fs) + (i - Len(fs)) = i
                    BY <2>1, <2>3, <3>2, <4>2
                <5>2. (fs \o b)[i] = b[i - Len(fs)]
                    BY <2>3, <5>1
                <5>3. Genuine(b[i - Len(fs)]) /\ b[i - Len(fs)].id.e = epoch /\ b[i - Len(fs)].id.n = stream.from + (i - Len(fs))
                    BY <2>1, <5>1
                <5>4. stream.from + (i - Len(fs)) = base + i - k
                    <6>1. base \in Int /\ Len(fs) \in Int /\ k \in Int /\ i \in Int /\ stream.from = base + Len(fs) - k
                        BY <2>1, <3>1, <3>2
                    <6> HIDE DEF fs
                    <6> QED
                        BY <6>1
                <5>5. epoch >= stream.header
                    BY <3>1, <3>4
                <5> QED
                    BY <5>2, <5>3, <5>4, <5>5
            <4> QED
                BY <4>1, <4>2
        <3>6. s.from = base + Len(fs \o b) - k
            BY <2>1, <2>3, <2>5, <3>1, <3>2
        <3>7. Skip(s.frames) = k /\ base = IF Skip(s.frames) = 1 THEN 0 ELSE cli.last.n
            BY <2>5, <3>3 DEF base
        <3> QED
            BY <2>5, <3>1, <3>5, <3>6, <3>7 DEF StreamFits
    <2> QED
        BY <1>0, <2>2, <2>5, <2>6, StreamSteps
<1> QED
    BY <1>1, <1>2, <1>3

-----------------------------------------------------------------------------
\* The three records an attempt begins with.
LEMMA Attempts ==
    ASSUME NEW c, Sound(c), c.pc = "attempt", NEW q \in {"read", "pages", "streaming"},
           q = "streaming" => c.seen = epoch,
           NEW d \in {Attempted(c, q), [Attempted(c, q) EXCEPT !.list = NoList], [Attempted(c, q) EXCEPT !.pages = TRUE]}
    PROVE  Sound(d) /\ d.pc = q /\ d.last = c.last /\ d.seen = c.seen
<1>0. Core(c) /\ c.list = NoList
    BY SoundCore, NoListKept
<1>1. c \in CliType /\ ReadStands(c, c.first) /\ ReadStands(c, c.lastOp) /\ ReadStands(c, c.rd)
    BY <1>0 DEF Core, ReadsStand
<1> DEFINE a == Attempted(c, q)
<1>2. /\ a \in CliType /\ a.last = c.last /\ a.shown = c.shown /\ a.seen = c.seen /\ a.moves = c.moves
      /\ a.pc = q /\ a.rd = c.rd /\ a.first = c.first /\ a.lastOp = c.lastOp
      /\ a.list = NoList /\ a.out = c.out /\ a.stamp = c.stamp
    BY <1>0, <1>1 DEF Attempted, CliType
<1> HIDE DEF a
<1>3. /\ d \in CliType /\ d.last = c.last /\ d.shown = c.shown /\ d.seen = c.seen /\ d.moves = c.moves
      /\ d.pc = q /\ d.rd = c.rd /\ d.first = c.first /\ d.lastOp = c.lastOp
      /\ d.list = NoList /\ d.out = c.out /\ d.stamp = c.stamp
    <2>1. CASE d = a
        BY <1>2, <2>1
    <2>2. CASE d = [a EXCEPT !.list = NoList]
        BY <1>2, <2>2, NoReadStands DEF CliType
    <2>3. CASE d = [a EXCEPT !.pages = TRUE]
        BY <1>2, <2>3 DEF CliType
    <2> QED
        BY <2>1, <2>2, <2>3 DEF a
<1> QED
    BY <1>0, <1>1, <1>3, Begins

LEMMA OpenStreamSteps ==
    ASSUME WatchInv, OpenStream
    PROVE  WatchInv'
<1>0. ServerStands /\ Sound(cli) /\ cli.pc = "attempt" /\ Core(cli)
    BY SoundCore DEF WatchInv, OpenStream
<1> DEFINE c == Observed(cli)
<1>1. Sound(c) /\ Core(c) /\ c.pc = "attempt" /\ c.seen = epoch /\ c.last = cli.last
    BY <1>0, ObservedSound, ObservedCore
<1>2. ASSUME Client(Attempted(cli, "read")), NoFault PROVE WatchInv'
    BY <1>0, <1>2, Attempts, Steps DEF NoFault
<1>3. ASSUME Client([Attempted(cli, "pages") EXCEPT !.list = NoList]), NoFault PROVE WatchInv'
    BY <1>0, <1>3, Attempts, Steps DEF NoFault
<1>4. ASSUME Client([Attempted(c, "read") EXCEPT !.pages = TRUE]), UNCHANGED stream PROVE WatchInv'
    BY <1>1, <1>4, Attempts, Steps
<1>5. ASSUME NEW d \in Unanswered, Fails(Attempted(d, "read")) PROVE WatchInv'
    <2>1. Sound(d) /\ d.pc = "attempt"
        BY <1>0, UnansweredSound
    <2> QED
        BY <1>5, <2>1, Attempts, Steps DEF Fails
<1>6. ASSUME Client(Over(c, "error")), NoFault PROVE WatchInv'
    BY <1>1, <1>6, OverSound, Steps DEF NoFault
<1> DEFINE resume == cli.last.e = epoch
<1> DEFINE s == [NoStream EXCEPT !.live = TRUE, !.header = epoch, !.pass = "events",
                                 !.done = op.state = "terminal", !.from = IF resume THEN cli.last.n ELSE 0,
                                 !.frames = IF cli.last = NoEvent \/ resume THEN <<>> ELSE <<Reset>>]
<1>7. ASSUME Client(Attempted(c, "streaming")), stream' = s PROVE WatchInv'
    <2> DEFINE d == Attempted(c, "streaming")
    <2>1. Sound(d) /\ d.pc = "streaming" /\ d.last = cli.last /\ d.seen = epoch
        BY <1>1, Attempts
    <2> DEFINE fs == IF cli.last = NoEvent \/ resume THEN <<>> ELSE <<Reset>>
    <2> DEFINE from == IF resume THEN cli.last.n ELSE 0
    <2>2. epoch \in Nat /\ epoch # 0 /\ cli.last \in EventId /\ cli.last.n \in Nat
        BY <1>0, Events DEF Core, CliType, EventId
    <2>3. fs \in Seq(FrameType) /\ from \in Nat
        <3>1. Reset \in FrameType /\ <<>> \in Seq(FrameType)
            BY DEF Reset, FrameType, NoEvent, EventId
        <3>2. <<Reset>> \in Seq(FrameType)
            BY <3>1
        <3> QED
            BY <2>2, <3>1, <3>2
    <2>4. /\ s.live = TRUE /\ s.header = epoch /\ s.pass = "events" /\ s.from = from /\ s.frames = fs
          /\ s \in StreamType
        <3>1. s = [NoStream EXCEPT !.live = TRUE, !.header = epoch, !.pass = "events",
                                   !.done = op.state = "terminal", !.from = from, !.frames = fs]
            OBVIOUS
        <3>2. NoStream \in StreamType
            BY DEF NoStream, StreamType
        <3> DEFINE done == op.state = "terminal"
        <3>3. done \in BOOLEAN
            OBVIOUS
        <3> HIDE DEF fs, from, s, done
        <3>4. s \in StreamType
            BY <2>2, <2>3, <3>1, <3>2, <3>3 DEF StreamType, done
        <3> QED
            BY <3>1, <3>2, <3>4 DEF StreamType
    <2> HIDE DEF s, d
    <2>5. StreamFits(s, d)
        <3>1. CASE cli.last = NoEvent \/ resume
            <4>1. fs = <<>> /\ Len(fs) = 0 /\ Skip(fs) = 0
                BY <3>1 DEF Skip
            <4>2. \A i \in 0 + 1 .. 0 : FALSE
                OBVIOUS
            <4>3. from = cli.last.n
                BY <2>2, <3>1 DEF NoEvent
            <4>4. cli.last.n = cli.last.n + 0 - 0
                BY <2>2
            <4> HIDE DEF fs, from
            <4> QED
                BY <2>1, <2>2, <2>4, <3>1, <4>1, <4>2, <4>3, <4>4 DEF StreamFits
        <3>2. CASE ~(cli.last = NoEvent \/ resume)
            <4>1. fs = <<Reset>> /\ Len(fs) = 1 /\ Skip(fs) = 1
                BY <3>2 DEF Skip
            <4>2. \A i \in 1 + 1 .. 1 : FALSE
                OBVIOUS
            <4>3. from = 0 /\ 0 = 0 + 1 - 1
                BY <3>2
            <4> HIDE DEF fs, from
            <4> QED
                BY <2>1, <2>2, <2>4, <4>1, <4>2, <4>3 DEF StreamFits
        <3> QED
            BY <3>1, <3>2
    <2>6. Client(d)
        BY <1>7 DEF d
    <2> QED
        BY <1>7, <2>1, <2>4, <2>5, <2>6, StreamSteps
<1> QED
    BY <1>2, <1>3, <1>4, <1>5, <1>6, <1>7 DEF OpenStream

\* The stream closed under a sound record: its place is the operation read that follows.
LEMMA Closes ==
    ASSUME WatchInv, NEW c, Core(c), c.list = NoList, Closed(c)
    PROVE  WatchInv'
<1> DEFINE d == [c EXCEPT !.pc = "read"]
<1>0. c \in CliType /\ ReadStands(c, c.first) /\ ReadStands(c, c.lastOp) /\ ReadStands(c, c.rd)
    BY DEF Core, ReadsStand
<1>1. /\ d \in CliType /\ d.last = c.last /\ d.shown = c.shown /\ d.seen = c.seen /\ d.moves = c.moves
      /\ d.pc = "read" /\ d.rd = c.rd /\ d.first = c.first /\ d.lastOp = c.lastOp
      /\ d.list = NoList /\ d.out = c.out /\ d.stamp = c.stamp
    BY <1>0 DEF CliType
<1>2. Client(d) /\ stream' = NoStream
    BY DEF Closed
<1> HIDE DEF d
<1>3. Sound(d)
    BY <1>0, <1>1, Begins
<1> QED
    BY <1>1, <1>2, <1>3, Steps

\* A record in which only an event of another epoch was counted, in a stream of an older one.
LEMMA CountedMove ==
    ASSUME ServerStands, NEW c, Core(c), c.pc = "streaming", c.seen # epoch, c.seen # 0
    PROVE  LET d == [c EXCEPT !.moves = @ + 1, !.pc = "read"] IN Core(d) /\ d.list = c.list
<1> DEFINE d == [c EXCEPT !.moves = @ + 1, !.pc = "read"]
<1>0. /\ c \in CliType /\ Counted(c) /\ ReadsStand(c) /\ Screen(c) /\ c.out = "none" /\ c.stamp = 0
      /\ c.moves \in Nat /\ c.seen \in Nat
    BY DEF Core, CliType
<1>1. c.moves + 1 \in Nat
    BY <1>0
<1>2. /\ d \in CliType /\ d.last = c.last /\ d.shown = c.shown /\ d.seen = c.seen /\ d.moves = c.moves + 1
      /\ d.pc = "read" /\ d.rd = c.rd /\ d.first = c.first /\ d.lastOp = c.lastOp
      /\ d.list = c.list /\ d.out = c.out /\ d.stamp = c.stamp
    BY <1>0, <1>1 DEF CliType
<1> HIDE DEF d
<1>3. Counted(d)
    <2>1. c.seen \in 0 .. epoch /\ c.moves < 2 * c.seen
        BY <1>0 DEF Counted
    <2>2. d.moves <= 2 * d.seen
        BY <1>0, <1>2, <2>1
    <2> QED
        BY <1>2, <2>1, <2>2 DEF Counted
<1>4. ASSUME NEW rd \in ReadType, ReadStands(c, rd) PROVE ReadStands(d, rd)
    <2>1. rd.moves \in Nat
        BY DEF ReadType
    <2>2. rd.terminal => rd.epoch \in 1 .. epoch /\ Ends(rd.epoch) # {} /\ rd.moves <= c.moves
        BY <1>4 DEF ReadStands
    <2>3. rd.terminal => rd.moves <= d.moves /\ rd.moves # d.moves
        BY <1>0, <1>2, <2>1, <2>2
    <2> QED
        BY <1>2, <2>2, <2>3 DEF ReadStands
<1>5. ReadsStand(d)
    BY <1>0, <1>2, <1>4 DEF ReadsStand, CliType
<1>6. Screen(d)
    BY <1>0, <1>2 DEF Screen
<1> QED
    BY <1>0, <1>2, <1>3, <1>5, <1>6 DEF Core, d

LEMMA FrameSteps ==
    ASSUME WatchInv, Frame
    PROVE  WatchInv'
<1> DEFINE fs == stream.frames
<1> DEFINE f == Head(fs)
<1> DEFINE k == Skip(fs)
<1> DEFINE rest == [stream EXCEPT !.frames = Tail(@)]
<1>0. /\ ServerStands /\ Sound(cli) /\ cli.pc = "streaming" /\ Core(cli) /\ cli.list = NoList
      /\ stream \in StreamType /\ (stream.live <=> stream.pass # "none") /\ StreamFits(stream, cli)
      /\ fs # <<>> /\ fs \in Seq(FrameType)
    <2>1. ServerStands /\ Sound(cli) /\ cli.pc = "streaming" /\ fs # <<>>
      /\ stream \in StreamType /\ (stream.live <=> stream.pass # "none") /\ StreamFits(stream, cli)
        BY DEF WatchInv, Frame
    <2> QED
        BY <2>1, SoundCore, NoListKept DEF StreamType
<1>1. /\ Len(fs) \in Nat \ {0} /\ f = fs[1] /\ f \in FrameType
      /\ Tail(fs) \in Seq(FrameType) /\ Len(Tail(fs)) = Len(fs) - 1
      /\ \A i \in 1 .. Len(Tail(fs)) : Tail(fs)[i] = fs[i + 1]
    <2>1. Len(fs) \in Nat /\ Len(fs) # 0
        BY <1>0
    <2>2. f \in FrameType /\ Tail(fs) \in Seq(FrameType) /\ Len(Tail(fs)) = Len(fs) - 1
          /\ \A i \in 1 .. Len(Tail(fs)) : Tail(fs)[i] = fs[i + 1]
        BY <1>0, HeadTailProperties
    <2>3. f = fs[1]
        BY <1>0
    <2> QED
        BY <2>1, <2>2, <2>3
<1>2. /\ rest \in StreamType /\ rest.live = stream.live /\ rest.pass = stream.pass /\ rest.header = stream.header
      /\ rest.from = stream.from /\ rest.frames = Tail(fs)
    BY <1>0, <1>1 DEF StreamType
<1>3. /\ stream.header = cli.seen /\ cli.seen # 0
      /\ k = 0 => cli.last = NoEvent \/ cli.last.e = stream.header
      /\ \A i \in k + 1 .. Len(fs) :
            Genuine(fs[i]) /\ fs[i].id.e >= stream.header /\ fs[i].id.n = (IF k = 1 THEN 0 ELSE cli.last.n) + i - k
      /\ stream.live => stream.from = (IF k = 1 THEN 0 ELSE cli.last.n) + Len(fs) - k
    BY <1>0 DEF StreamFits
<1>4. cli.last.n \in Nat /\ cli.last.e \in Nat /\ cli.seen \in Nat
    BY <1>0 DEF Core, CliType, EventId
<1>5. k = IF f = Reset THEN 1 ELSE 0
    BY <1>0 DEF Skip
<1> HIDE DEF rest, k
<1>6. \A i \in 1 .. Len(Tail(fs)) : i + 1 \in k + 1 .. Len(fs) /\ Genuine(Tail(fs)[i]) /\ Tail(fs)[i] = fs[i + 1]
    <2>1. k \in {0, 1}
        BY <1>5
    <2>2. \A i \in 1 .. Len(Tail(fs)) : i + 1 \in k + 1 .. Len(fs)
        BY <1>1, <2>1
    <2> QED
        BY <1>1, <1>3, <2>2
<1>7. Skip(Tail(fs)) = 0
    <2>1. CASE Tail(fs) = <<>>
        BY <2>1 DEF Skip
    <2>2. CASE Tail(fs) # <<>>
        <3>1. 1 \in 1 .. Len(Tail(fs)) /\ Head(Tail(fs)) = Tail(fs)[1]
            BY <1>1, <2>2
        <3>2. Head(Tail(fs)) # Reset
            BY <1>6, <3>1, NotReset
        <3> QED
            BY <3>2 DEF Skip
    <2> QED
        BY <2>1, <2>2
\* The frames that are left follow what is shown now.
<1>8. ASSUME NEW c, Core(c), c.pc = "streaming", c.seen = cli.seen, c.list = NoList,
             c.last = NoEvent \/ c.last.e = stream.header,
             c.last.n = (IF k = 1 THEN 0 ELSE cli.last.n) + 1 - k,
             Client(c), stream' = rest
      PROVE  WatchInv'
    <2>0. c \in CliType /\ ReadStands(c, c.first) /\ ReadStands(c, c.lastOp) /\ ReadStands(c, c.rd)
        BY <1>8 DEF Core, ReadsStand
    <2>1. Sound(c)
        BY <1>8, <2>0, Begins
    <2>2. k \in {0, 1} /\ c.last.n \in Nat
        BY <1>5, <2>0 DEF CliType, EventId
    <2>3. ASSUME NEW i \in 1 .. Len(Tail(fs))
          PROVE  Genuine(Tail(fs)[i]) /\ Tail(fs)[i].id.e >= stream.header /\ Tail(fs)[i].id.n = c.last.n + i - 0
        <3>1. i + 1 \in k + 1 .. Len(fs) /\ Genuine(Tail(fs)[i]) /\ Tail(fs)[i] = fs[i + 1] /\ i \in Nat
            BY <1>1, <1>6
        <3>2. fs[i + 1].id.e >= stream.header /\ fs[i + 1].id.n = (IF k = 1 THEN 0 ELSE cli.last.n) + (i + 1) - k
            BY <1>3, <3>1
        <3>3. (IF k = 1 THEN 0 ELSE cli.last.n) + (i + 1) - k = c.last.n + i - 0
            <4> DEFINE base == IF k = 1 THEN 0 ELSE cli.last.n
            <4>1. base \in Nat /\ c.last.n = base + 1 - k /\ k \in Nat
                BY <1>4, <1>8, <2>2
            <4> HIDE DEF base
            <4>2. base + (i + 1) - k = c.last.n + i - 0
                BY <3>1, <4>1
            <4> QED
                BY <4>2 DEF base
        <3> QED
            BY <3>1, <3>2, <3>3
    <2>4. stream.live => stream.from = c.last.n + Len(Tail(fs)) - 0
        <3>1. (IF k = 1 THEN 0 ELSE cli.last.n) + Len(fs) - k = c.last.n + (Len(fs) - 1) - 0
            <4> DEFINE base == IF k = 1 THEN 0 ELSE cli.last.n
            <4> DEFINE len == Len(fs)
            <4>1. base \in Nat /\ c.last.n = base + 1 - k /\ k \in Nat /\ len \in Nat
                BY <1>1, <1>4, <1>8, <2>2
            <4> HIDE DEF base, len
            <4>2. base + len - k = c.last.n + (len - 1) - 0
                BY <4>1
            <4> QED
                BY <4>2 DEF base, len
        <3> QED
            BY <1>1, <1>3, <3>1
    <2>5. \A i \in 0 + 1 .. Len(Tail(fs)) : i \in 1 .. Len(Tail(fs))
        BY <1>1
    <2>6. StreamFits(rest, c)
        BY <1>2, <1>3, <1>7, <1>8, <2>3, <2>4, <2>5 DEF StreamFits
    <2> QED
        BY <1>0, <1>2, <1>8, <2>1, <2>6, StreamSteps
<1>9. ASSUME f = Reset, Client(ResetSeen(cli)), stream' = rest PROVE WatchInv'
    <2>1. /\ Core(ResetSeen(cli)) /\ ResetSeen(cli).last = NoEvent /\ ResetSeen(cli).pc = "streaming"
          /\ ResetSeen(cli).seen = cli.seen /\ ResetSeen(cli).list = NoList
        BY <1>0, ClearedCore DEF ResetSeen
    <2>2. ResetSeen(cli).last.n = (IF k = 1 THEN 0 ELSE cli.last.n) + 1 - k
        BY <1>5, <1>9, <2>1 DEF NoEvent
    <2> QED
        BY <1>8, <1>9, <2>1, <2>2
<1>10. ASSUME f # Reset
       PROVE  /\ k = 0 /\ Genuine(f) /\ f.id.e >= stream.header /\ f.id.n = cli.last.n + 1
              /\ cli.last = NoEvent \/ cli.last.e = stream.header
    <2>1. k = 0 /\ 1 \in k + 1 .. Len(fs)
        BY <1>1, <1>5, <1>10
    <2>2. Genuine(f) /\ f.id.e >= stream.header /\ f.id.n = cli.last.n + 1 - 0
        BY <1>1, <1>3, <2>1
    <2> QED
        BY <1>3, <1>4, <2>1, <2>2
<1>11. ASSUME f # Reset, f.id.e = stream.header
       PROVE  LET c == Show(cli, f) IN
              /\ Core(c) /\ c.last.e = stream.header /\ c.last.n = cli.last.n + 1
              /\ c.pc = "streaming" /\ c.seen = cli.seen /\ c.list = NoList
    <2>1. cli.last.n < f.id.n /\ f.id.n <= cli.last.n + 1
        BY <1>4, <1>10, <1>11
    <2>2. \/ cli.last = NoEvent /\ f.id.n = 1
          \/ cli.last.e = f.id.e /\ f.id.n <= cli.last.n + 1
        BY <1>10, <1>11, <2>1 DEF NoEvent
    <2>3. Genuine(f)
        BY <1>10, <1>11
    <2> QED
        BY <1>0, <1>1, <1>10, <1>11, <2>1, <2>2, <2>3, ShowCore
<1>12. ASSUME f # Reset, f.id.e # stream.header, Closed([Cleared(cli) EXCEPT !.moves = @ + 1]) PROVE WatchInv'
    <2> DEFINE c == Cleared(cli)
    <2>1. Core(c) /\ c.pc = "streaming" /\ c.seen = cli.seen /\ c.list = NoList /\ c \in CliType
        BY <1>0, ClearedCore DEF Core
    <2>2. c.seen # epoch /\ c.seen # 0
        <3>1. f.id.e \in 1 .. epoch /\ f.id.e >= stream.header /\ stream.header = cli.seen /\ epoch \in Nat
            BY <1>0, <1>3, <1>10, <1>12, Events DEF Genuine
        <3> QED
            BY <1>3, <1>4, <1>12, <2>1, <3>1
    <2> HIDE DEF c
    <2> DEFINE d == [c EXCEPT !.moves = @ + 1, !.pc = "read"]
    <2>3. Core(d) /\ d.list = NoList
        BY <1>0, <2>1, <2>2, CountedMove
    <2>4. d.pc = "read" /\ d \in CliType /\ ReadStands(d, d.first) /\ ReadStands(d, d.lastOp) /\ ReadStands(d, d.rd)
        BY <2>1, <2>3 DEF CliType, Core, ReadsStand
    <2>5. Client(d) /\ stream' = NoStream
        BY <1>12 DEF Closed, c
    <2> HIDE DEF d
    <2>6. Sound(d)
        BY <2>3, <2>4, Begins
    <2> QED
        BY <2>4, <2>5, <2>6, Steps
<1>13. ASSUME f # Reset, f.id.e = stream.header, Closed(Show(cli, f)) PROVE WatchInv'
    BY <1>11, <1>13, Closes
<1>14. ASSUME f # Reset, f.id.e = stream.header, Client(Show(cli, f)), stream' = rest PROVE WatchInv'
    <2>1. k = 0 /\ cli.last.n + 1 = cli.last.n + 1 - 0
        BY <1>4, <1>10, <1>14
    <2> QED
        BY <1>8, <1>11, <1>14, <2>1
<1> QED
    BY <1>9, <1>12, <1>13, <1>14 DEF Frame, rest

\* The end of a stream, and the end of the grace time.
LEMMA EndSteps ==
    ASSUME WatchInv, StreamEnds \/ GiveUp
    PROVE  WatchInv'
<1>0. ServerStands /\ Sound(cli)
    BY DEF WatchInv
<1>1. ASSUME StreamEnds PROVE WatchInv'
    <2>1. cli.pc = "streaming" /\ Closed(cli)
        BY <1>1 DEF StreamEnds
    <2>2. Core(cli) /\ cli.list = NoList
        BY <1>0, <2>1, SoundCore, NoListKept
    <2> QED
        BY <2>1, <2>2, Closes
<1>2. ASSUME GiveUp PROVE WatchInv'
    <2>1. Core(cli) /\ Client(Over(cli, "unread")) /\ stream' = NoStream
        BY <1>0, <1>2, SoundCore DEF GiveUp, Watching
    <2> QED
        BY <2>1, OverSound, Steps
<1> QED
    BY <1>1, <1>2

-----------------------------------------------------------------------------
LEMMA Numbers ==
    ASSUME ServerStands
    PROVE  (\A x \in {0} \cup enders : x \in Nat) /\ (\A e \in 1 .. epoch : e # NoEvent.e)
<1>1. enders \subseteq 1 .. minted /\ minted \in Nat
    BY Events DEF ServerStands
<1>2. \A n \in 1 .. minted : n \in Nat
    BY <1>1
<1>3. \A e \in 1 .. epoch : e # 0
    BY Events
<1> QED
    BY <1>1, <1>2, <1>3 DEF NoEvent

\* Report: while no move was counted since the read, the epoch of the read is the latest one answered.
LEMMA ReportSound ==
    ASSUME ServerStands, NEW c, Core(c), Ending(c), c.pc \in {"last", "last read"},
           NEW x \in {0} \cup enders, x # 0 => \E i \in Ends(c.seen) : hist[c.seen][i] = x,
           NEW b, (b = c /\ x = 0) \/ b = [c EXCEPT !.stamp = x]
    PROVE  Sound(Report(b)) /\ Report(b).pc = "over"
<1>0. c \in CliType /\ Counted(c) /\ ReadsStand(c) /\ Screen(c) /\ c.out = "none" /\ c.stamp = 0
    BY DEF Core
<1>x. x \in Nat
    BY Numbers, Zenon
<1>1. /\ b \in CliType /\ b.last = c.last /\ b.shown = c.shown /\ b.seen = c.seen /\ b.moves = c.moves
      /\ b.rd = c.rd /\ b.drained = c.drained /\ b.stamp = x
    <2>1. CASE b = c /\ x = 0
        BY <1>0, <2>1
    <2>2. CASE b = [c EXCEPT !.stamp = x]
        BY <1>0, <1>x, <2>2 DEF CliType
    <2> QED
        BY <2>1, <2>2
<1> DEFINE out == IF ~EpochHolds(b, b.rd) THEN "unknown" ELSE IF b.drained THEN "ended" ELSE "ended, undrained"
<1>2. out \in {"unknown", "ended", "ended, undrained"}
    BY Zenon
<1>3. out # "unknown" => b.rd.moves = b.moves
    BY DEF EpochHolds
<1>4. out = "ended" => b.drained
    OBVIOUS
<1> HIDE DEF out
<1> DEFINE d == Over(b, out)
<1>5. /\ d \in CliType /\ d.last = c.last /\ d.shown = c.shown /\ d.seen = c.seen /\ d.moves = c.moves
      /\ d.pc = "over" /\ d.rd = NoRead /\ d.first = NoRead /\ d.lastOp = NoRead
      /\ d.list = NoList /\ d.out = out /\ d.stamp = x
    BY <1>1, <1>2, NoReadStands DEF CliType, Over
<1>6. Report(b) = d
    BY DEF Report, out
<1> HIDE DEF d
<1>7. Counted(d) /\ ReadsStand(d) /\ Screen(d)
    BY <1>5, CoreSame, NoReadStands
<1>8. ListFits(d)
    BY <1>5, NoListFits
<1>9. Ending(d)
    BY <1>5 DEF Ending
<1>10. c.rd.terminal /\ ReadStands(c, c.rd)
    BY <1>0 DEF Ending, ReadsStand
<1>11. out # "unknown" => c.seen = c.rd.epoch /\ Ends(c.seen) # {} /\ c.rd.epoch \in 1 .. epoch
    BY <1>1, <1>3, <1>10 DEF ReadStands
<1>12. out = "ended" => c.last.e = c.seen /\ \A i \in Ends(c.seen) : i <= Len(c.shown)
    <2> SUFFICES ASSUME out = "ended" PROVE c.last.e = c.seen /\ \A i \in Ends(c.seen) : i <= Len(c.shown)
        OBVIOUS
    <2>1. c.last.e = c.rd.epoch /\ c.seen = c.rd.epoch /\ \A i \in Ends(c.rd.epoch) : i <= c.last.n
        BY <1>1, <1>4, <1>11 DEF Ending
    <2>2. c.last # NoEvent
        BY <1>11, <2>1, Numbers, Zenon
    <2>3. Len(c.shown) = c.last.n
        BY <1>0, <2>2 DEF Screen
    <2> QED
        BY <2>1, <2>3
<1>13. Told(d)
    BY <1>2, <1>5, <1>11, <1>12 DEF Told
<1> QED
    BY <1>5, <1>6, <1>7, <1>8, <1>9, <1>13 DEF Sound

\* The watch goes on without the read.
LEMMA GoesOnSound ==
    ASSUME NEW c, Core(c)
    PROVE  Sound(GoesOn(c)) /\ GoesOn(c).pc = "attempt"
<1> DEFINE d == GoesOn(c)
<1>0. c \in CliType /\ ReadStands(c, c.first)
    BY DEF Core, ReadsStand
<1>1. /\ d \in CliType /\ d.last = c.last /\ d.shown = c.shown /\ d.seen = c.seen /\ d.moves = c.moves
      /\ d.pc = "attempt" /\ d.rd = NoRead /\ d.first = c.first /\ d.lastOp = NoRead
      /\ d.list = NoList /\ d.out = c.out /\ d.stamp = c.stamp
    BY <1>0, NoReadStands DEF GoesOn, CliType
<1> HIDE DEF d
<1>2. Sound(d)
    BY <1>0, <1>1, Begins, NoReadStands
<1> QED
    BY <1>1, <1>2 DEF d

\* The end of a drain: a final one whose pages are of the read's epoch has shown every end.
LEMMA DrainedSound ==
    ASSUME NEW c, Core(c), c.pc \in {"pages", "final"},
           c.pc = "final" => c.rd.terminal,
           c.pc = "final" /\ c.list.cursor.e = c.rd.epoch =>
               c.last.e = c.rd.epoch /\ \A i \in Ends(c.rd.epoch) : i <= c.last.n
    PROVE  Sound(Drained(c)) /\ Drained(c).pc # "streaming"
<1>0. c \in CliType /\ ReadStands(c, c.first) /\ ReadStands(c, c.lastOp) /\ ReadStands(c, c.rd) /\ c.rd \in ReadType
    BY DEF Core, ReadsStand, CliType
<1>1. CASE c.pc = "pages"
    <2> DEFINE d == [c EXCEPT !.pc = "read", !.list = NoList]
    <2>1. /\ d \in CliType /\ d.last = c.last /\ d.shown = c.shown /\ d.seen = c.seen /\ d.moves = c.moves
          /\ d.pc = "read" /\ d.rd = c.rd /\ d.first = c.first /\ d.lastOp = c.lastOp
          /\ d.list = NoList /\ d.out = c.out /\ d.stamp = c.stamp
        BY <1>0, NoReadStands DEF CliType
    <2>2. Drained(c) = d
        BY <1>1 DEF Drained
    <2> HIDE DEF d
    <2>3. Sound(d)
        BY <1>0, <2>1, Begins
    <2> QED
        BY <2>1, <2>2, <2>3
<1>2. CASE c.pc = "final"
    <2>1. Drained(c) = FinalDrain(c, c.list.cursor.e)
        BY <1>2 DEF Drained
    <2>2. CASE Settled(c, c.list.cursor.e)
        <3>1. Drained(c) = Result(c, c.rd, TRUE) /\ c.list.cursor.e = c.rd.epoch
            BY <2>1, <2>2 DEF FinalDrain, Settled
        <3> QED
            BY <1>0, <1>2, <3>1, ResultSound
    <2>3. CASE ~Settled(c, c.list.cursor.e)
        <3>1. Drained(c) = GoesOn(c) \/ Drained(c) = GoesOn(Cleared(c))
            BY <2>1, <2>3 DEF FinalDrain
        <3> QED
            BY <3>1, GoesOnSound, ClearedCore
    <2> QED
        BY <2>2, <2>3
<1> QED
    BY <1>1, <1>2

-----------------------------------------------------------------------------
\* drain between two events, and after the last.
LEMMA DrainSound ==
    ASSUME NEW c, Core(c), c.pc \in {"pages", "final"}, c.pc = "final" => c.rd.terminal,
           c.list.items # <<>> => ListFits(c),
           c.list.items = <<>> /\ c.pc = "final" /\ c.list.cursor.e = c.rd.epoch =>
               c.last.e = c.rd.epoch /\ \A i \in Ends(c.rd.epoch) : i <= c.last.n
    PROVE  Sound(Drain(c)) /\ Drain(c).pc # "streaming"
<1>1. CASE c.list.items = <<>>
    BY <1>1, DrainedSound DEF Drain
<1>2. CASE c.list.items # <<>>
    <2>1. Drain(c) = c
        BY <1>2 DEF Drain
    <2>2. Ending(c) /\ Told(c)
        BY DEF Core, Ending, Told
    <2>3. Sound(c)
        BY <1>2, <2>2 DEF Core, Sound
    <2> QED
        BY <2>1, <2>3
<1> QED
    BY <1>1, <1>2

LEMMA ShowItemSteps ==
    ASSUME WatchInv, ShowItem
    PROVE  WatchInv'
<1> DEFINE l == cli.list
<1> DEFINE its == l.items
<1> DEFINE gone == l.cursor.n - Len(its)
<1> DEFINE f == Head(its)
<1> DEFINE b == IF Len(its) = l.cursor.n /\ cli.last # NoEvent /\ f.id.e # cli.last.e THEN Cleared(cli) ELSE cli
<1> DEFINE c == Show(b, f)
<1>0. /\ ServerStands /\ Sound(cli) /\ Core(cli) /\ cli \in CliType /\ cli.pc \in {"pages", "final"} /\ l.read
      /\ ListFits(cli) /\ (cli.pc = "final" => cli.rd.terminal)
    <2>1. ServerStands /\ Sound(cli) /\ cli.pc \in {"pages", "final"} /\ l.read
        BY DEF WatchInv, ShowItem
    <2> QED
        BY <2>1, SoundCore DEF Sound, Ending
<1>1. /\ l \in ListType /\ its \in Seq(FrameType) /\ Len(its) \in Nat /\ l.cursor.n \in Nat /\ gone \in Int
      /\ cli.last.n \in Nat /\ l.read = TRUE
    <2>1. l \in ListType /\ cli.last.n \in Nat
        BY <1>0 DEF CliType, EventId
    <2>2. its \in Seq(FrameType) /\ l.cursor.n \in Nat /\ l.read = TRUE
        BY <1>0, <2>1 DEF ListType, EventId
    <2>3. Len(its) \in Nat
        BY <2>2
    <2> HIDE DEF l, its
    <2> QED
        BY <2>1, <2>2, <2>3
<1>2. /\ Len(its) <= l.cursor.n /\ its # <<>>
      /\ \A i \in 1 .. Len(its) : Genuine(its[i]) /\ its[i].id.e = l.cursor.e /\ its[i].id.n = gone + i
      /\ gone # 0 => cli.last.e = l.cursor.e /\ gone <= cli.last.n
      /\ cli.pc = "final" /\ l.cursor.e = cli.rd.epoch => \A i \in Ends(cli.rd.epoch) : i <= l.cursor.n
    BY <1>0 DEF ListFits
<1>3. /\ f = its[1] /\ f \in FrameType /\ Len(its) # 0
      /\ Tail(its) \in Seq(FrameType) /\ Len(Tail(its)) = Len(its) - 1
      /\ \A i \in 1 .. Len(Tail(its)) : Tail(its)[i] = its[i + 1]
    BY <1>1, <1>2, HeadTailProperties
<1>4. Genuine(f) /\ f.id.e = l.cursor.e /\ f.id.n = gone + 1 /\ gone \in Nat
    <2>1. 1 \in 1 .. Len(its)
        BY <1>1, <1>3
    <2>2. gone \in Nat
        BY <1>1, <1>2
    <2> QED
        BY <1>2, <1>3, <2>1, <2>2
<1>5. (Len(its) = l.cursor.n) <=> (gone = 0)
    BY <1>1
<1> DEFINE t == Tail(its)
<1>t. /\ t \in Seq(FrameType) /\ Len(t) = Len(its) - 1 /\ Len(t) \in Nat
      /\ \A i \in 1 .. Len(t) : t[i] = its[i + 1]
    BY <1>1, <1>3
<1> HIDE DEF gone, f, t
<1>6. /\ Core(b) /\ b.pc = cli.pc /\ b.list = l /\ b.rd = cli.rd
      /\ \/ b.last = NoEvent /\ f.id.n = 1
         \/ b.last.e = f.id.e /\ f.id.n <= b.last.n + 1
    <2>1. CASE Len(its) = l.cursor.n /\ cli.last # NoEvent /\ f.id.e # cli.last.e
        <3>1. b = Cleared(cli) /\ f.id.n = 1
            BY <1>4, <1>5, <2>1
        <3> QED
            BY <1>0, <3>1, ClearedCore
    <2>2. CASE ~(Len(its) = l.cursor.n /\ cli.last # NoEvent /\ f.id.e # cli.last.e)
        <3>1. b = cli
            BY <2>2
        <3>2. CASE gone = 0
            <4>1. f.id.n = 1 /\ (cli.last = NoEvent \/ f.id.e = cli.last.e)
                BY <1>4, <1>5, <2>2, <3>2
            <4>2. f.id.n <= cli.last.n + 1
                BY <1>1, <4>1
            <4> QED
                BY <1>0, <3>1, <4>1, <4>2
        <3>3. CASE gone # 0
            <4>1. cli.last.e = f.id.e /\ f.id.n <= cli.last.n + 1
                BY <1>1, <1>2, <1>4, <3>3
            <4> QED
                BY <1>0, <3>1, <4>1
        <3> QED
            BY <3>2, <3>3
    <2> QED
        BY <2>1, <2>2
<1> HIDE DEF b
<1>7. /\ Core(c) /\ c.last.e = l.cursor.e /\ gone + 1 <= c.last.n
      /\ c.pc = cli.pc /\ c.list = l /\ c.rd = cli.rd
    BY <1>0, <1>3, <1>4, <1>6, ShowCore
<1> HIDE DEF c
<1>8. c \in CliType /\ c.last.n \in Nat
    BY <1>7 DEF Core, CliType, EventId
<1> DEFINE d == [c EXCEPT !.list.items = Tail(@)]
<1>9. /\ d \in CliType /\ d.last = c.last /\ d.shown = c.shown /\ d.seen = c.seen /\ d.moves = c.moves
      /\ d.pc = cli.pc /\ d.rd = cli.rd /\ d.first = c.first /\ d.lastOp = c.lastOp
      /\ d.out = c.out /\ d.stamp = c.stamp
      /\ d.list.items = t /\ d.list.cursor = l.cursor /\ d.list.read = TRUE
    <2> DEFINE m == [l EXCEPT !.items = t]
    <2>1. m \in ListType /\ m.items = t /\ m.cursor = l.cursor /\ m.read = TRUE
        BY <1>1, <1>t DEF ListType
    <2>2. d = [c EXCEPT !.list = m]
        BY <1>7, <1>8 DEF CliType, t
    <2> HIDE DEF m
    <2> QED
        BY <1>7, <1>8, <2>1, <2>2 DEF CliType
<1> HIDE DEF d
<1>10. Core(d)
    <2>1. ReadStands(c, c.first) /\ ReadStands(c, c.lastOp) /\ ReadStands(c, c.rd) /\ c.rd = d.rd
        BY <1>7, <1>9 DEF Core, ReadsStand
    <2>2. Counted(d) /\ ReadsStand(d) /\ Screen(d)
        BY <1>7, <1>9, <2>1, CoreSame
    <2> QED
        BY <1>7, <1>9, <2>2 DEF Core
<1>11. l.cursor.n - Len(t) = gone + 1
    BY <1>1, <1>t DEF gone
<1>12. ASSUME t # <<>> PROVE ListFits(d)
    <2>1. Len(t) <= l.cursor.n /\ Len(t) \in Nat
        BY <1>1, <1>2, <1>t
    <2>2. ASSUME NEW i \in 1 .. Len(t)
          PROVE  Genuine(t[i]) /\ t[i].id.e = l.cursor.e /\ t[i].id.n = (gone + 1) + i
        <3>1. i + 1 \in 1 .. Len(its) /\ t[i] = its[i + 1] /\ gone + (i + 1) = (gone + 1) + i
            <4>1. i + 1 \in 1 .. Len(its) /\ i \in Nat
                BY <1>1, <1>t
            <4>2. gone + (i + 1) = (gone + 1) + i
                BY <1>4, <4>1
            <4> QED
                BY <1>t, <4>1, <4>2
        <3> QED
            BY <1>2, <3>1
    <2>3. d.pc # "last read" /\ d.pc \in {"pages", "final"}
        BY <1>0, <1>9
    <2> QED
        <3>1. d.list.items = t /\ d.list.cursor = l.cursor /\ d.list.read = TRUE /\ d.last.e = l.cursor.e
              /\ gone + 1 <= d.last.n /\ d.rd = cli.rd /\ d.pc = cli.pc
            BY <1>7, <1>9
        <3>2. d.list.cursor.n - Len(d.list.items) = gone + 1
            BY <1>11, <3>1
        <3>3. \A i \in 1 .. Len(d.list.items) : /\ Genuine(d.list.items[i]) /\ d.list.items[i].id.e = d.list.cursor.e
                                               /\ d.list.items[i].id.n = (gone + 1) + i
            BY <2>2, <3>1
        <3>4. Len(d.list.items) <= d.list.cursor.n /\ d.list.items # <<>>
            BY <1>12, <2>1, <3>1
        <3>5. d.pc = "final" /\ d.list.cursor.e = d.rd.epoch => \A i \in Ends(d.rd.epoch) : i <= d.list.cursor.n
            BY <1>2, <3>1
        <3> HIDE DEF l, its
        <3> QED
            BY <2>3, <3>1, <3>2, <3>3, <3>4, <3>5 DEF ListFits
<1>13. ASSUME t = <<>>, d.pc = "final", l.cursor.e = cli.rd.epoch
       PROVE  d.last.e = d.rd.epoch /\ \A i \in Ends(d.rd.epoch) : i <= d.last.n
    <2>1. l.cursor.n = gone + 1
        <3>1. Len(t) = 0
            BY <1>13
        <3> QED
            BY <1>1, <1>11, <3>1
    <2>2. l.cursor.n <= d.last.n /\ d.last.n \in Nat
        BY <1>7, <1>8, <1>9, <2>1
    <2>3. \A i \in Ends(cli.rd.epoch) : i <= l.cursor.n /\ i \in Int
        BY <1>2, <1>9, <1>13 DEF Ends
    <2>4. \A i \in Ends(cli.rd.epoch) : i <= d.last.n
        BY <1>1, <2>2, <2>3
    <2> QED
        BY <1>7, <1>9, <1>13, <2>4
<1>14. Sound(Drain(d)) /\ Drain(d).pc # "streaming"
    BY <1>0, <1>9, <1>10, <1>12, <1>13, DrainSound
<1>15. ASSUME cli.pc = "pages" PROVE Sound(Drained(c)) /\ Drained(c).pc # "streaming"
    BY <1>7, <1>15, DrainedSound
<1>16. stream' = stream /\ Client(IF ended /\ cli.pc = "pages" THEN Drained(c) ELSE Drain(d))
    BY DEF ShowItem, NoFault, f, b, c, d
<1> QED
    BY <1>14, <1>15, <1>16, Steps

-----------------------------------------------------------------------------
\* A list read as far as a page goes on, in the epoch of its cursor.
LEMMA PageFits ==
    ASSUME ServerStands, NEW c, Sound(c), c.pc \in {"pages", "final", "last"}, ~c.list.read,
           c.list.cursor = NoEvent \/ c.list.cursor.e = epoch
    PROVE  LET page == EventsAfter(c.list.cursor.n, PageSize)
               items == c.list.items \o page IN
           /\ items \in Seq(FrameType) /\ Len(items) \in Nat /\ Len(items) = c.list.cursor.n + Len(page)
           /\ \A i \in 1 .. Len(items) : Genuine(items[i]) /\ items[i].id.e = epoch /\ items[i].id.n = i
<1> DEFINE its == c.list.items
<1> DEFINE n == c.list.cursor.n
<1> DEFINE page == EventsAfter(n, PageSize)
<1> DEFINE items == its \o page
<1>0. c \in CliType /\ ListFits(c)
    BY DEF Sound
<1>1. c.list \in ListType /\ c.list.cursor \in EventId
    BY <1>0 DEF CliType, ListType
<1>2. its \in Seq(FrameType) /\ n \in Nat /\ Len(its) \in Nat /\ PageSize \in Nat
    BY <1>1, WatchAssumption DEF ListType, EventId
<1>3. /\ n - Len(its) = 0
      /\ \A i \in 1 .. Len(its) : Genuine(its[i]) /\ its[i].id.e = c.list.cursor.e /\ its[i].id.n = (n - Len(its)) + i
    BY <1>0 DEF ListFits
<1>4. /\ page \in Seq(FrameType) /\ Len(page) \in Nat
      /\ \A i \in 1 .. Len(page) : Genuine(page[i]) /\ page[i].id.e = epoch /\ page[i].id.n = n + i
    BY <1>2, EventsAfterGenuine
<1> HIDE DEF its, n, page
<1>5. n = Len(its)
    BY <1>2, <1>3
<1>6. \A i \in 1 .. Len(its) : Genuine(its[i]) /\ its[i].id.e = epoch /\ its[i].id.n = i
    <2>1. CASE c.list.cursor = NoEvent
        <3>1. n = 0
            BY <2>1 DEF n, NoEvent
        <3>2. \A i \in 1 .. Len(its) : FALSE
            BY <1>5, <3>1
        <3> QED
            BY <3>2
    <2>2. CASE c.list.cursor.e = epoch
        <3>1. \A i \in 1 .. Len(its) : (n - Len(its)) + i = i
            <4>1. ASSUME NEW i \in Int PROVE (n - n) + i = i
                BY <1>2
            <4> QED
                BY <1>2, <1>5, <4>1
        <3> QED
            BY <1>3, <2>2, <3>1
    <2> QED
        BY <2>1, <2>2
<1>7. /\ items \in Seq(FrameType) /\ Len(items) = Len(its) + Len(page)
      /\ \A i \in 1 .. Len(its) + Len(page) : items[i] = IF i <= Len(its) THEN its[i] ELSE page[i - Len(its)]
    BY <1>2, <1>4, ConcatProperties
<1> HIDE DEF items
<1>8. ASSUME NEW i \in 1 .. Len(items)
      PROVE  Genuine(items[i]) /\ items[i].id.e = epoch /\ items[i].id.n = i
    <2>1. CASE i <= Len(its)
        <3>1. i \in 1 .. Len(its) /\ i \in 1 .. Len(its) + Len(page)
            BY <1>2, <1>4, <1>7, <2>1
        <3> QED
            BY <1>6, <1>7, <2>1, <3>1
    <2>2. CASE ~(i <= Len(its))
        <3>1. i - Len(its) \in 1 .. Len(page) /\ i \in 1 .. Len(its) + Len(page) /\ n + (i - Len(its)) = i
            BY <1>2, <1>4, <1>5, <1>7, <2>2
        <3>2. items[i] = page[i - Len(its)]
            BY <1>7, <2>2, <3>1
        <3> QED
            BY <1>4, <3>1, <3>2
    <2> QED
        BY <2>1, <2>2
<1>9. Len(items) \in Nat /\ Len(items) = n + Len(page)
    BY <1>2, <1>4, <1>5, <1>7
<1> QED
    BY <1>7, <1>8, <1>9 DEF items, its, n, page

\* readLast: an event of the pages that records the end, the only one.
LEMMA EndOfFits ==
    ASSUME ServerStands, NEW items \in Seq(FrameType),
           \A i \in 1 .. Len(items) : Genuine(items[i]) /\ items[i].id.e = epoch /\ items[i].id.n = i
    PROVE  EndOf(items) = Reset \/ (EndOf(items) \in FrameType /\ Genuine(EndOf(items)) /\ EndOf(items).ev \in enders)
<1> DEFINE found == {i \in 1 .. Len(items) : items[i].ev \in enders}
<1>0. Len(items) \in Nat /\ hist[epoch] = op.events
      /\ (\A i, j \in 1 .. Len(op.events) : op.events[i] \in enders /\ op.events[j] \in enders => i = j)
    BY DEF ServerStands, OpStands
<1>1. CASE found = {}
    BY <1>1 DEF EndOf
<1>2. CASE found # {}
    <2>1. \A i \in found : i \in 1 .. Len(op.events) /\ op.events[i] \in enders /\ i \in Nat
        BY <1>0 DEF Genuine
    <2>2. \A i, j \in found : i = j /\ j <= i
        BY <1>0, <2>1
    <2>3. \E i \in found : \A j \in found : j <= i
        BY <1>2, <2>2
    <2> DEFINE m == CHOOSE i \in found : \A j \in found : j <= i
    <2>4. m \in found
        BY <2>3
    <2>5. EndOf(items) = items[m]
        BY <1>2 DEF EndOf
    <2> HIDE DEF m
    <2>6. m \in 1 .. Len(items) /\ items[m].ev \in enders
        BY <2>4
    <2>7. items[m] \in FrameType
        BY <2>6, ElementOfSeq
    <2> QED
        BY <2>5, <2>6, <2>7
<1> QED
    BY <1>1, <1>2

\* The read failed: an attempt's error, another read of the operation, or a report without a time.
LEMMA ListFailedSound ==
    ASSUME ServerStands, NEW c, Sound(c), c.pc \in {"pages", "final", "last"}
    PROVE  Sound(ListFailed(c)) /\ ListFailed(c).pc # "streaming"
<1>0. Core(c) /\ Ending(c) /\ c \in CliType /\ ReadStands(c, c.first) /\ ReadStands(c, c.lastOp) /\ ReadStands(c, c.rd)
    BY SoundCore DEF Sound, ReadsStand
<1>1. CASE c.pc = "pages"
    <2>1. ListFailed(c) = Over(c, "error")
        BY <1>1 DEF ListFailed
    <2> QED
        BY <1>0, <2>1, OverSound
<1>2. CASE c.pc = "final"
    <2> DEFINE d == [c EXCEPT !.pc = "again", !.list = NoList]
    <2>1. ListFailed(c) = d
        BY <1>2 DEF ListFailed
    <2>2. /\ d \in CliType /\ d.last = c.last /\ d.shown = c.shown /\ d.seen = c.seen /\ d.moves = c.moves
          /\ d.pc = "again" /\ d.rd = c.rd /\ d.first = c.first /\ d.lastOp = c.lastOp
          /\ d.list = NoList /\ d.out = c.out /\ d.stamp = c.stamp
        BY <1>0, NoReadStands DEF CliType
    <2> HIDE DEF d
    <2>3. c.rd.terminal
        BY <1>0, <1>2 DEF Ending
    <2>4. Sound(d)
        BY <1>0, <2>2, <2>3, Begins
    <2> QED
        BY <2>1, <2>2, <2>4
<1>3. CASE c.pc = "last"
    <2>1. ListFailed(c) = Report(c)
        BY <1>3 DEF ListFailed
    <2> QED
        <3>1. Sound(Report(c)) /\ Report(c).pc = "over"
            BY <1>0, <1>3, ReportSound
        <3> QED
            BY <2>1, <3>1
<1> QED
    BY <1>1, <1>2, <1>3

\* A record that differs in its list only.
LEMMA ListSound ==
    ASSUME NEW c, Sound(c), c.pc \in {"pages", "final", "last"}, NEW l \in ListType,
           NEW q \in {c.pc, "last read"}, q # c.pc => c.pc = "last",
           NEW d \in CliType, d.last = c.last, d.shown = c.shown, d.seen = c.seen, d.moves = c.moves,
           d.pc = q, d.rd = c.rd, d.first = c.first, d.lastOp = c.lastOp, d.out = c.out, d.stamp = c.stamp,
           d.drained = c.drained, ListFits(d)
    PROVE  Sound(d)
<1>0. Core(c) /\ Ending(c) /\ ReadStands(c, c.first) /\ ReadStands(c, c.lastOp) /\ ReadStands(c, c.rd)
    BY SoundCore DEF Sound, ReadsStand
<1>1. Counted(d) /\ ReadsStand(d) /\ Screen(d)
    BY <1>0, CoreSame
<1>2. Ending(d)
    BY <1>0 DEF Ending
<1>3. Told(d)
    BY <1>0 DEF Core, Told
<1> QED
    BY <1>1, <1>2, <1>3 DEF Sound

LEMMA ReadPageSteps ==
    ASSUME WatchInv, ReadPage
    PROVE  WatchInv'
<1> DEFINE c == Observed(cli)
<1> DEFINE page == EventsAfter(c.list.cursor.n, PageSize)
<1> DEFINE items == c.list.items \o page
<1>0. ServerStands /\ Sound(cli) /\ cli.pc \in {"pages", "final", "last"} /\ cli.list.read = FALSE
    BY DEF WatchInv, ReadPage, Sound, CliType, ListType
<1>1. /\ Sound(c) /\ c.pc \in {"pages", "final", "last"} /\ c.seen = epoch /\ c.list.read = FALSE
      /\ Core(c)
    BY <1>0, ObservedSound, ObservedCore, SoundCore
<1>2. /\ c \in CliType /\ Ending(c) /\ ListFits(c) /\ ReadStands(c, c.first) /\ ReadStands(c, c.lastOp) /\ ReadStands(c, c.rd)
      /\ c.list \in ListType
    BY <1>1 DEF Sound, ReadsStand, CliType
<1> HIDE DEF c
<1>3. ASSUME Client([c EXCEPT !.list = NoList]), NoFault PROVE WatchInv'
    <2> DEFINE d == [c EXCEPT !.list = NoList]
    <2>1. /\ d \in CliType /\ d.last = c.last /\ d.shown = c.shown /\ d.seen = c.seen /\ d.moves = c.moves
          /\ d.pc = c.pc /\ d.rd = c.rd /\ d.first = c.first /\ d.lastOp = c.lastOp /\ d.drained = c.drained
          /\ d.list = NoList /\ d.out = c.out /\ d.stamp = c.stamp
        BY <1>2, NoReadStands DEF CliType
    <2>2. Client(d) /\ stream' = stream
        BY <1>3 DEF NoFault
    <2> HIDE DEF d
    <2>3. Sound(d)
        BY <1>1, <1>2, <2>1, Begins DEF Ending
    <2> QED
        BY <1>1, <2>1, <2>2, <2>3, Steps
<1>4. ASSUME c.list.cursor = NoEvent \/ c.list.cursor.e = epoch
      PROVE  /\ items \in Seq(FrameType) /\ Len(items) \in Nat /\ Len(items) = c.list.cursor.n + Len(page)
             /\ \A i \in 1 .. Len(items) : Genuine(items[i]) /\ items[i].id.e = epoch /\ items[i].id.n = i
    BY <1>0, <1>1, <1>4, PageFits
<1> HIDE DEF page, items
<1> DEFINE l(r) == [items |-> items, cursor |-> [e |-> epoch, n |-> Len(items)], read |-> r]
<1>5. epoch \in Nat
    BY <1>0, Events
<1>6. ASSUME NEW r \in BOOLEAN, c.list.cursor = NoEvent \/ c.list.cursor.e = epoch
      PROVE  l(r) \in ListType
    <2>1. [e |-> epoch, n |-> Len(items)] \in EventId
        BY <1>4, <1>5, <1>6 DEF EventId
    <2> QED
        BY <1>4, <1>6, <2>1 DEF ListType
<1>7. ASSUME c.list.cursor = NoEvent \/ c.list.cursor.e = epoch, NEW d, d.list.items = items,
             d.list.cursor.e = epoch, d.list.cursor.n = Len(items),
             d.pc \in {"pages", "final", "last"}, d.list.read \in BOOLEAN,
             d.list.read => d.pc \in {"pages", "final"} /\ items # <<>>,
             d.list.read /\ d.pc = "final" /\ epoch = d.rd.epoch => \A i \in Ends(d.rd.epoch) : i <= Len(items)
      PROVE  ListFits(d)
    <2>1. Len(items) - Len(items) = 0 /\ Len(items) <= Len(items) /\ \A i \in 1 .. Len(items) : 0 + i = i
        BY <1>4, <1>7
    <2>2. \A i \in 1 .. Len(items) : Genuine(items[i]) /\ items[i].id.e = epoch /\ items[i].id.n = 0 + i
        BY <1>4, <1>7, <2>1
    <2> QED
        BY <1>7, <2>1, <2>2 DEF ListFits
<1>8. ASSUME c.list.cursor = NoEvent \/ c.list.cursor.e = epoch, Client([c EXCEPT !.list = l(FALSE)]), NoFault
      PROVE  WatchInv'
    <2> DEFINE m == l(FALSE)
    <2>1. m \in ListType /\ m.items = items /\ m.cursor.e = epoch /\ m.cursor.n = Len(items) /\ m.read = FALSE
        BY <1>6, <1>8
    <2> HIDE DEF m
    <2> DEFINE d == [c EXCEPT !.list = m]
    <2>2. /\ d \in CliType /\ d.last = c.last /\ d.shown = c.shown /\ d.seen = c.seen /\ d.moves = c.moves
          /\ d.pc = c.pc /\ d.rd = c.rd /\ d.first = c.first /\ d.lastOp = c.lastOp /\ d.drained = c.drained
          /\ d.list = m /\ d.out = c.out /\ d.stamp = c.stamp
        BY <1>2, <2>1 DEF CliType
    <2>3. Client(d) /\ stream' = stream
        BY <1>8 DEF NoFault, m
    <2> HIDE DEF d
    <2>4. ListFits(d)
        BY <1>1, <1>7, <1>8, <2>1, <2>2
    <2>5. Sound(d)
        BY <1>1, <2>1, <2>2, <2>4, ListSound
    <2> QED
        BY <1>1, <2>2, <2>3, <2>5, Steps
<1>9. ASSUME c.list.cursor = NoEvent \/ c.list.cursor.e = epoch, ~(c.list.cursor.n + Len(page) < Len(op.events)),
             Client(Listed(c, items)), NoFault
      PROVE  WatchInv'
    <2>0. stream' = stream
        BY <1>9 DEF NoFault
    <2>1. CASE c.pc # "last"
        <3> DEFINE m == l(TRUE)
        <3>1. m \in ListType /\ m.items = items /\ m.cursor.e = epoch /\ m.cursor.n = Len(items) /\ m.read = TRUE
            BY <1>6, <1>9
        <3> HIDE DEF m
        <3> DEFINE d == [c EXCEPT !.list = m]
        <3>2. /\ d \in CliType /\ d.last = c.last /\ d.shown = c.shown /\ d.seen = c.seen /\ d.moves = c.moves
              /\ d.pc = c.pc /\ d.rd = c.rd /\ d.first = c.first /\ d.lastOp = c.lastOp /\ d.drained = c.drained
              /\ d.list = m /\ d.out = c.out /\ d.stamp = c.stamp
            BY <1>2, <3>1 DEF CliType
        <3>3. Listed(c, items) = Drain(d)
            BY <2>1 DEF Listed, m
        <3> HIDE DEF d
        <3>4. \A i \in Ends(epoch) : i <= Len(items)
            <4>1. hist[epoch] = op.events /\ Len(op.events) \in Nat /\ Len(items) \in Nat /\ ~(Len(items) < Len(op.events))
                BY <1>0, <1>4, <1>9 DEF ServerStands, OpStands, OpType
            <4> QED
                BY <4>1 DEF Ends
        <3>5. Core(d)
            <4>1. Counted(d) /\ ReadsStand(d) /\ Screen(d)
                BY <1>1, <1>2, <3>2, CoreSame
            <4> QED
                BY <1>1, <3>2, <4>1 DEF Core
        <3>6. c.pc \in {"pages", "final"} /\ (c.pc = "final" => c.rd.terminal)
            BY <1>1, <1>2, <2>1 DEF Ending
        <3>7. items # <<>> => ListFits(d)
            BY <1>7, <1>9, <3>1, <3>2, <3>4, <3>6
        <3>8. ASSUME items = <<>>, c.pc = "final", epoch = c.rd.epoch PROVE FALSE
            <4>1. Ends(epoch) # {}
                BY <1>2, <3>6, <3>8 DEF ReadStands
            <4>2. Len(items) = 0
                BY <3>8
            <4>3. \A i \in Ends(epoch) : 1 <= i /\ i <= 0 /\ i \in Int
                BY <3>4, <4>2 DEF Ends
            <4> QED
                BY <4>1, <4>3
        <3>9. Sound(Drain(d)) /\ Drain(d).pc # "streaming"
            BY <3>1, <3>2, <3>5, <3>6, <3>7, <3>8, DrainSound
        <3> QED
            BY <1>9, <2>0, <3>3, <3>9, Steps
    <2>2. CASE c.pc = "last" /\ EndOf(items) = Reset
        <3>1. Listed(c, items) = Report(c)
            BY <2>2 DEF Listed
        <3>2. Sound(Report(c)) /\ Report(c).pc = "over"
            BY <1>0, <1>1, <1>2, <2>2, ReportSound
        <3> QED
            BY <1>9, <2>0, <3>1, <3>2, Steps
    <2>3. CASE c.pc = "last" /\ EndOf(items) # Reset
        <3> DEFINE f == EndOf(items)
        <3>1. f \in FrameType /\ Genuine(f) /\ f.ev \in enders
            BY <1>0, <1>4, <1>9, <2>3, EndOfFits
        <3> HIDE DEF f
        <3> DEFINE m == [c.list EXCEPT !.items = <<f>>]
        <3>2. m \in ListType /\ m.items = <<f>>
            <4>1. <<f>> \in Seq(FrameType)
                BY <3>1
            <4> QED
                BY <1>2, <4>1 DEF ListType
        <3> DEFINE d == [c EXCEPT !.pc = "last read", !.list.items = <<f>>]
        <3>3. d = [c EXCEPT !.pc = "last read", !.list = m]
            BY <1>2 DEF CliType
        <3>4. Listed(c, items) = d
            BY <2>3 DEF Listed, f
        <3> HIDE DEF m, d
        <3>5. /\ d \in CliType /\ d.last = c.last /\ d.shown = c.shown /\ d.seen = c.seen /\ d.moves = c.moves
              /\ d.pc = "last read" /\ d.rd = c.rd /\ d.first = c.first /\ d.lastOp = c.lastOp /\ d.drained = c.drained
              /\ d.list = m /\ d.out = c.out /\ d.stamp = c.stamp
            BY <1>2, <3>2, <3>3 DEF CliType
        <3>6. ListFits(d)
            <4>0. Len(<<f>>) = 1 /\ <<f>>[1] = f
                OBVIOUS
            <4>1. Len(d.list.items) = 1 /\ d.list.items[1] = f
                BY <3>2, <3>5, <4>0, Zenon
            <4> QED
                BY <3>1, <3>5, <4>1 DEF ListFits
        <3>7. Sound(d)
            BY <1>1, <2>3, <3>2, <3>5, <3>6, ListSound
        <3> QED
            BY <1>9, <2>0, <3>4, <3>5, <3>7, Steps
    <2> QED
        BY <2>1, <2>2, <2>3
<1>10. ASSUME Client(ListFailed(c)), NoFault PROVE WatchInv'
    BY <1>0, <1>1, <1>10, ListFailedSound, Steps DEF NoFault
<1>11. ASSUME NEW d \in Unanswered, Fails(ListFailed(d)) PROVE WatchInv'
    <2>1. Sound(d) /\ d.pc = cli.pc
        BY <1>0, UnansweredSound
    <2>2. Sound(ListFailed(d)) /\ ListFailed(d).pc # "streaming"
        BY <1>0, <2>1, ListFailedSound
    <2> QED
        BY <1>11, <2>2, Steps DEF Fails
<1> QED
    BY <1>3, <1>8, <1>9, <1>10, <1>11 DEF ReadPage, c, page, items

-----------------------------------------------------------------------------
\* AfterRead: the read of the operation that follows an attempt.
LEMMA AfterReadSound ==
    ASSUME ServerStands, NEW c, Sound(c), c.pc = "read", c.seen = epoch,
           NEW rd \in ReadType, ReadStands(c, rd)
    PROVE  Sound(AfterRead(c, rd)) /\ AfterRead(c, rd).pc # "streaming"
<1>0. /\ Core(c) /\ c.list = NoList /\ c \in CliType
      /\ ReadStands(c, c.rd)
    BY SoundCore, NoListKept DEF Sound, ReadsStand
<1>1. CASE rd.terminal
    <2> DEFINE d == [c EXCEPT !.pc = "final", !.first = NoRead, !.rd = rd, !.lastOp = rd, !.voided = FALSE, !.list = NoList]
    <2>1. AfterRead(c, rd) = d
        BY <1>1 DEF AfterRead
    <2>2. /\ d \in CliType /\ d.last = c.last /\ d.shown = c.shown /\ d.seen = c.seen /\ d.moves = c.moves
          /\ d.pc = "final" /\ d.rd = rd /\ d.first = NoRead /\ d.lastOp = rd
          /\ d.list = NoList /\ d.out = c.out /\ d.stamp = c.stamp
        BY <1>0, NoReadStands DEF CliType
    <2> HIDE DEF d
    <2>3. Sound(d)
        BY <1>0, <1>1, <2>2, Begins, NoReadStands
    <2> QED
        BY <2>1, <2>2, <2>3
<1>2. CASE ~rd.terminal
    <2> DEFINE b == IF c.last # NoEvent /\ c.last.e # epoch THEN Cleared(c) ELSE c
    <2> DEFINE d == [b EXCEPT !.pc = "attempt", !.first = NoRead, !.lastOp = rd, !.voided = FALSE]
    <2>1. Core(b) /\ b \in CliType /\ b.list = NoList /\ b.moves = c.moves /\ b.seen = c.seen /\ ReadStands(b, b.rd)
        <3>1. Core(b) /\ b.list = NoList /\ b.moves = c.moves /\ b.seen = c.seen
            BY <1>0, ClearedCore
        <3> HIDE DEF b
        <3> QED
            BY <3>1 DEF Core, ReadsStand
    <2>2. AfterRead(c, rd) = IF ended THEN Result(d, rd, FALSE) ELSE d
        BY <1>2 DEF AfterRead
    <2> HIDE DEF b
    <2>3. /\ d \in CliType /\ d.last = b.last /\ d.shown = b.shown /\ d.seen = b.seen /\ d.moves = b.moves
          /\ d.pc = "attempt" /\ d.rd = b.rd /\ d.first = NoRead /\ d.lastOp = rd
          /\ d.list = NoList /\ d.out = b.out /\ d.stamp = b.stamp
        BY <2>1, NoReadStands DEF CliType
    <2> HIDE DEF d
    <2>4. ReadStands(b, rd) /\ ReadStands(d, rd)
        BY <1>2 DEF ReadStands
    <2>5. Sound(d)
        BY <2>1, <2>3, <2>4, Begins, NoReadStands
    <2>6. Core(d)
        BY <2>3, <2>5, SoundCore
    <2>7. Sound(Result(d, rd, FALSE)) /\ Result(d, rd, FALSE).pc # "streaming"
        BY <2>4, <2>6, ResultSound
    <2> QED
        BY <2>2, <2>3, <2>5, <2>7
<1> QED
    BY <1>1, <1>2

\* The watch ended while the server was out of reach.
LEMMA OutOfReachSound ==
    ASSUME NEW c, Core(c)
    PROVE  Sound(OutOfReach(c)) /\ OutOfReach(c).pc # "streaming"
<1>0. ReadStands(c, c.lastOp) /\ ReadStands(c, c.first) /\ c.lastOp \in ReadType /\ c.first \in ReadType
    BY DEF Core, ReadsStand, CliType
<1>1. OutOfReach(c) \in {Result(c, c.lastOp, FALSE), Result(c, c.first, FALSE), Over(c, "unknown")}
    BY DEF OutOfReach
<1>2. ASSUME NEW rd \in ReadType, ReadStands(c, rd)
      PROVE  Sound(Result(c, rd, FALSE)) /\ Result(c, rd, FALSE).pc # "streaming"
    BY <1>2, ResultSound
<1>3. Sound(Over(c, "unknown")) /\ Over(c, "unknown").pc # "streaming"
    BY OverSound
<1> QED
    BY <1>0, <1>1, <1>2, <1>3

LEMMA OperationReadSteps ==
    ASSUME WatchInv, OperationRead
    PROVE  WatchInv'
<1> DEFINE c == Observed(cli)
<1>0. ServerStands /\ Sound(cli) /\ cli.pc = "read"
    BY DEF WatchInv, OperationRead
<1>1. Sound(c) /\ c.pc = "read" /\ c.seen = epoch /\ Core(c)
    BY <1>0, ObservedSound, ObservedCore, SoundCore
<1>2. ASSUME Client(AfterRead(c, ReadOf(c))), NoFault PROVE WatchInv'
    <2>1. ReadOf(c) \in ReadType /\ ReadStands(c, ReadOf(c))
        BY <1>0, <1>1, ReadOfStands
    <2>2. Sound(AfterRead(c, ReadOf(c))) /\ AfterRead(c, ReadOf(c)).pc # "streaming"
        BY <1>0, <1>1, <2>1, AfterReadSound
    <2> QED
        BY <1>2, <2>2, Steps DEF NoFault
<1>3. ASSUME Client(Over(c, "error")), NoFault PROVE WatchInv'
    BY <1>1, <1>3, OverSound, Steps DEF NoFault
<1>4. ASSUME NEW d \in Unanswered, Fails(OutOfReach(d)) PROVE WatchInv'
    <2>1. Core(d)
        BY <1>0, UnansweredSound
    <2> QED
        BY <1>4, <2>1, OutOfReachSound, Steps DEF Fails
<1>5. ASSUME NEW d \in Unanswered, Fails(d) PROVE WatchInv'
    <2>1. Sound(d) /\ d.pc = "read"
        BY <1>0, UnansweredSound
    <2> QED
        BY <1>5, <2>1, Steps DEF Fails
<1> QED
    BY <1>2, <1>3, <1>4, <1>5 DEF OperationRead

LEMMA ReadAgainSteps ==
    ASSUME WatchInv, ReadAgain
    PROVE  WatchInv'
<1> DEFINE c == Observed(cli)
<1> DEFINE again == ReadOf(c)
<1>0. ServerStands /\ Sound(cli) /\ cli.pc = "again"
    BY DEF WatchInv, ReadAgain
<1>1. Sound(c) /\ c.pc = "again" /\ c.seen = epoch /\ Core(c) /\ c.list = NoList
    BY <1>0, ObservedSound, ObservedCore, SoundCore, NoListKept
<1>2. again \in ReadType /\ ReadStands(c, again)
    BY <1>0, <1>1, ReadOfStands
<1> HIDE DEF c, again
<1> DEFINE d == [c EXCEPT !.pc = "attempt", !.lastOp = again, !.rd = NoRead]
<1>3. Sound(d) /\ d.pc # "streaming"
    <2>0. c \in CliType /\ ReadStands(c, c.first)
        BY <1>1 DEF Core, ReadsStand
    <2>1. /\ d \in CliType /\ d.last = c.last /\ d.shown = c.shown /\ d.seen = c.seen /\ d.moves = c.moves
          /\ d.pc = "attempt" /\ d.rd = NoRead /\ d.first = c.first /\ d.lastOp = again
          /\ d.list = NoList /\ d.out = c.out /\ d.stamp = c.stamp
        BY <1>1, <1>2, <2>0, NoReadStands DEF CliType
    <2> HIDE DEF d
    <2>2. Sound(d)
        BY <1>1, <1>2, <2>0, <2>1, Begins, NoReadStands
    <2> QED
        BY <2>1, <2>2
<1>4. Sound(Result(c, again, FALSE)) /\ Result(c, again, FALSE).pc # "streaming"
    BY <1>1, <1>2, ResultSound
<1>5. Sound(GoesOn(c)) /\ GoesOn(c).pc # "streaming"
    BY <1>1, GoesOnSound
<1> HIDE DEF d
<1>6. ASSUME Client(IF again.terminal /\ epoch = c.rd.epoch THEN Result(c, again, FALSE)
                    ELSE IF again.terminal THEN GoesOn(c) ELSE d), NoFault
      PROVE  WatchInv'
    <2>1. PICK x \in {Result(c, again, FALSE), GoesOn(c), d} : Client(x)
        BY <1>6
    <2>2. Sound(x) /\ x.pc # "streaming"
        BY <1>3, <1>4, <1>5
    <2> QED
        BY <1>6, <2>1, <2>2, Steps DEF NoFault
<1>7. ASSUME Client(Over(c, "error")), NoFault PROVE WatchInv'
    BY <1>1, <1>7, OverSound, Steps DEF NoFault
<1>8. ASSUME NEW e \in Unanswered, Fails(LastRefused(e)) PROVE WatchInv'
    <2>1. Core(e)
        BY <1>0, UnansweredSound
    <2>2. e.rd \in ReadType /\ ReadStands(e, e.rd)
        BY <2>1 DEF Core, ReadsStand, CliType
    <2>3. Sound(Result(e, e.rd, FALSE)) /\ Result(e, e.rd, FALSE).pc # "streaming"
        BY <2>1, <2>2, ResultSound
    <2>4. Sound(Over(e, "unknown")) /\ Over(e, "unknown").pc # "streaming"
        BY <2>1, OverSound
    <2>5. Sound(LastRefused(e)) /\ LastRefused(e).pc # "streaming"
        BY <2>3, <2>4 DEF LastRefused
    <2> QED
        BY <1>8, <2>5, Steps DEF Fails
<1>9. ASSUME NEW e \in Unanswered, Fails(e) PROVE WatchInv'
    <2>1. Sound(e) /\ e.pc = "again"
        BY <1>0, UnansweredSound
    <2> QED
        BY <1>9, <2>1, Steps DEF Fails
<1> QED
    BY <1>6, <1>7, <1>8, <1>9 DEF ReadAgain, c, again, d

\* readLast's own read: the end found in the pages is the one of the epoch that is reported.
LEMMA LastReadSteps ==
    ASSUME WatchInv, LastRead
    PROVE  WatchInv'
<1> DEFINE c == Observed(cli)
<1> DEFINE end == Head(c.list.items)
<1>0. ServerStands /\ Sound(cli) /\ cli.pc = "last read"
    BY DEF WatchInv, LastRead
<1>1. Sound(c) /\ c.pc = "last read" /\ c.seen = epoch /\ Core(c)
    BY <1>0, ObservedSound, ObservedCore, SoundCore
<1>2. Ending(c) /\ ListFits(c) /\ c \in CliType
    BY <1>1 DEF Sound
<1> HIDE DEF c
<1>3. Genuine(end) /\ end.ev \in enders
    <2>1. Len(c.list.items) = 1 /\ Genuine(c.list.items[1]) /\ c.list.items[1].ev \in enders
        BY <1>1, <1>2 DEF ListFits
    <2>2. c.list.items \in Seq(FrameType)
        BY <1>2 DEF CliType, ListType
    <2>3. end = c.list.items[1]
        BY <2>1, <2>2
    <2> QED
        BY <2>1, <2>3
<1> HIDE DEF end
<1>4. ASSUME end.id.e = epoch
      PROVE  \E i \in Ends(c.seen) : hist[c.seen][i] = end.ev
    BY <1>1, <1>3, <1>4 DEF Genuine, Ends
<1>5. ASSUME NEW e, Core(e), Ending(e), e.pc = "last read" PROVE Sound(Report(e)) /\ Report(e).pc = "over"
    BY <1>0, <1>5, ReportSound
<1>6. ASSUME end.id.e = epoch
      PROVE  Sound(Report([c EXCEPT !.stamp = end.ev])) /\ Report([c EXCEPT !.stamp = end.ev]).pc = "over"
    BY <1>0, <1>1, <1>2, <1>3, <1>4, <1>6, ReportSound
<1>7. ASSUME Client(Report(IF op.state = "terminal" /\ epoch = c.rd.epoch /\ end.id.e = epoch
                           THEN [c EXCEPT !.stamp = end.ev] ELSE c)), NoFault
      PROVE  WatchInv'
    <2>1. CASE op.state = "terminal" /\ epoch = c.rd.epoch /\ end.id.e = epoch
        <3>1. Client(Report([c EXCEPT !.stamp = end.ev])) /\ stream' = stream
            BY <1>7, <2>1 DEF NoFault
        <3> QED
            BY <1>6, <2>1, <3>1, Steps
    <2>2. CASE ~(op.state = "terminal" /\ epoch = c.rd.epoch /\ end.id.e = epoch)
        <3>1. Client(Report(c)) /\ stream' = stream
            BY <1>7, <2>2 DEF NoFault
        <3> QED
            BY <1>1, <1>2, <1>5, <3>1, Steps
    <2> QED
        BY <2>1, <2>2
<1>8. ASSUME NEW e \in Unanswered, Fails(Report(e)) PROVE WatchInv'
    <2>1. Sound(e) /\ Core(e) /\ e.pc = "last read"
        BY <1>0, UnansweredSound
    <2>2. Sound(Report(e)) /\ Report(e).pc = "over"
        BY <1>5, <2>1 DEF Sound
    <2> QED
        BY <1>8, <2>2, Steps DEF Fails
<1> QED
    BY <1>7, <1>8 DEF LastRead, c, end

-----------------------------------------------------------------------------
LEMMA ServerSteps ==
    ASSUME WatchInv, Move \/ TakeBackup \/ Enter \/ Restore
    PROVE  WatchInv'
<1>0. /\ ServerStands /\ Sound(cli) /\ stream \in StreamType /\ (stream.live <=> stream.pass # "none")
      /\ StreamFits(stream, cli)
    BY DEF WatchInv
<1>1. ServerStands' /\ Grown /\ cli' = cli /\ Watching
    BY <1>0, ServerGrows
<1>2. Sound(cli)'
    BY <1>0, <1>1, SoundStays
<1>3. /\ stream' \in StreamType /\ (stream'.live <=> stream'.pass # "none")
      /\ stream'.frames = stream.frames /\ stream'.header = stream.header /\ stream'.from = stream.from
      /\ stream'.live => stream.live
    <2>1. CASE stream' = stream
        BY <1>0, <2>1
    <2>2. CASE stream' = [stream EXCEPT !.live = FALSE, !.pass = "none"]
        BY <1>0, <2>2 DEF StreamType
    <2> QED
        BY <2>1, <2>2 DEF Move, TakeBackup, Enter, Restore
<1>4. \A f : Genuine(f) => /\ f.id.e \in 1 .. epoch' /\ f.id.n \in 1 .. Len(hist'[f.id.e])
                           /\ f.ev = hist'[f.id.e][f.id.n]
    BY <1>0, <1>1, GenuineStays
<1>5. StreamFits(stream, cli)'
    <2> DEFINE fs == stream.frames
    <2> DEFINE k == Skip(fs)
    <2> DEFINE base == IF k = 1 THEN 0 ELSE cli.last.n
    <2>1. cli.pc = "streaming" =>
            /\ stream.header = cli.seen /\ cli.seen # 0
            /\ k = 0 /\ (stream.live \/ fs # <<>>) => cli.last = NoEvent \/ cli.last.e = stream.header
            /\ \A i \in k + 1 .. Len(fs) :
                  Genuine(fs[i]) /\ fs[i].id.e >= stream.header /\ fs[i].id.n = base + i - k
            /\ stream.live => stream.from = base + Len(fs) - k
        BY <1>0 DEF StreamFits
    <2>2. cli.pc = "streaming" =>
            \A i \in k + 1 .. Len(fs) :
                /\ fs[i].id.e \in 1 .. epoch' /\ fs[i].id.n \in 1 .. Len(hist'[fs[i].id.e])
                /\ fs[i].ev = hist'[fs[i].id.e][fs[i].id.n]
        BY <1>4, <2>1
    <2>3. Skip(stream'.frames) = k
        BY <1>3
    <2>4. cli'.pc = "streaming" =>
            \A i \in k + 1 .. Len(stream'.frames) : Genuine(stream.frames[i])'
        BY <1>1, <1>3, <2>2 DEF Genuine
    <2> HIDE DEF k
    <2> QED
        BY <1>1, <1>3, <2>1, <2>3, <2>4 DEF StreamFits
<1> QED
    BY <1>1, <1>2, <1>3, <1>5 DEF WatchInv

LEMMA StillSteps ==
    ASSUME WatchInv, UNCHANGED <<epoch, op, backup, minted, enders, hist, stream, cli>>
    PROVE  WatchInv'
<1>1. ServerStands'
    BY DEF WatchInv, ServerStands, OpStands
<1>2. Counted(cli)' /\ Screen(cli)'
    BY DEF WatchInv, Sound, Counted, Screen
<1>3. ReadsStand(cli)'
    BY DEF WatchInv, Sound, ReadsStand, ReadStands, Ends
<1>4. ListFits(cli)'
    BY DEF WatchInv, Sound, ListFits, Genuine, Ends
<1>5. Ending(cli)' /\ Told(cli)'
    BY DEF WatchInv, Sound, Ending, Told, Ends
<1>6. Sound(cli)'
    BY <1>2, <1>3, <1>4, <1>5 DEF WatchInv, Sound
<1>7. StreamFits(stream, cli)'
    BY DEF WatchInv, StreamFits, Genuine
<1> QED
    BY <1>1, <1>6, <1>7 DEF WatchInv

LEMMA WatchNext ==
    ASSUME WatchInv, [Next]_vars
    PROVE  WatchInv'
<1>1. CASE Move \/ TakeBackup \/ Enter \/ Restore
    BY <1>1, ServerSteps
<1>2. CASE StreamStep \/ CutStream
    BY <1>2, PassSteps DEF StreamStep
<1>3. CASE ClientStep
    BY <1>3, FirstReadSteps, OpenStreamSteps, FrameSteps, EndSteps, ReadPageSteps, ShowItemSteps,
       OperationReadSteps, ReadAgainSteps, LastReadSteps DEF ClientStep
<1>4. CASE GiveUp
    BY <1>4, EndSteps
<1>5. CASE Interrupt
    BY <1>5, StillSteps DEF Interrupt, serverVars
<1>6. CASE UNCHANGED vars
    BY <1>6, StillSteps DEF vars
<1> QED
    BY <1>1, <1>2, <1>3, <1>4, <1>5, <1>6 DEF Next

LEMMA WatchInit ==
    ASSUME Init
    PROVE  WatchInv
<1>0. /\ epoch = 1 /\ minted = 0 /\ enders = {} /\ op = [state |-> "running", events |-> <<>>]
      /\ backup \in {op, [op EXCEPT !.state = "absent"]} /\ hist = [e \in Epochs |-> <<>>] /\ stream = NoStream
    BY DEF Init
<1>1. 1 \in Epochs /\ MaxEvents \in Nat /\ 0 \in 0 .. MaxEvents
    BY WatchAssumption DEF Epochs
<1>2. ASSUME NEW o \in {op, backup} PROVE OpStands(o)
    <2>0. <<>> \in Seq(Nat)
        OBVIOUS
    <2>a. op.events = <<>> /\ op.state = "running" /\ op \in OpType
        BY <1>0, <2>0 DEF OpType
    <2>b. backup.events = <<>> /\ backup.state \in {"running", "absent"} /\ backup \in OpType
        <3>1. CASE backup = op
            BY <2>a, <3>1
        <3>2. CASE backup = [op EXCEPT !.state = "absent"]
            BY <2>a, <3>2 DEF OpType
        <3> QED
            BY <1>0, <3>1, <3>2
    <2>1. o.events = <<>> /\ o.state \in {"running", "absent"} /\ o \in OpType
        BY <2>a, <2>b
    <2>2. Len(o.events) = 0
        BY <2>1
    <2>3. \A i \in 1 .. Len(o.events) : FALSE
        BY <2>2
    <2>4. Len(o.events) <= minted
        BY <1>0, <2>2
    <2> QED
        BY <2>1, <2>3, <2>4 DEF OpStands
<1>3. \A e \in Epochs : hist[e] = <<>> /\ Len(hist[e]) = 0
    BY <1>0
<1>4. ServerStands
    <2>1. hist \in [Epochs -> Seq(Nat)]
        BY <1>0
    <2>2. \A e \in Epochs : Len(hist[e]) <= minted
        BY <1>0, <1>3
    <2>3. \A e \in Epochs : \A i \in 1 .. Len(hist[e]) : FALSE
        BY <1>3
    <2>4. hist[epoch] = op.events
        BY <1>0, <1>1
    <2> QED
        BY <1>0, <1>1, <1>2, <2>1, <2>2, <2>3, <2>4 DEF ServerStands
<1>5. /\ cli.pc = "first" /\ cli.seen = 0 /\ cli.moves = 0 /\ cli.last = NoEvent /\ cli.shown = <<>>
      /\ cli.first = NoRead /\ cli.lastOp = NoRead /\ cli.rd = NoRead /\ cli.list = NoList /\ cli.stamp = 0 /\ cli.out = "none"
    BY DEF Init
<1>6. cli \in CliType
    BY NoReadStands DEF Init, CliType
<1>7. Counted(cli) /\ Screen(cli)
    BY <1>0, <1>5 DEF Counted, Screen
<1>8. ReadsStand(cli)
    BY <1>5, NoReadStands DEF ReadsStand
<1>9. ListFits(cli)
    BY <1>5, NoListFits
<1>10. Ending(cli) /\ Told(cli)
    BY <1>5 DEF Ending, Told
<1>11. stream \in StreamType /\ (stream.live <=> stream.pass # "none") /\ StreamFits(stream, cli)
    BY <1>0, <1>5 DEF NoStream, StreamType, StreamFits
<1> QED
    BY <1>4, <1>6, <1>7, <1>8, <1>9, <1>10, <1>11 DEF WatchInv, Sound

LEMMA WatchTrue ==
    ASSUME WatchInv
    PROVE  WatchIsTrue
<1>0. /\ ServerStands /\ Sound(cli) /\ stream \in StreamType /\ (stream.live <=> stream.pass # "none")
    BY DEF WatchInv
<1>1. cli \in CliType /\ Counted(cli) /\ Screen(cli) /\ Told(cli)
    BY <1>0 DEF Sound
<1>2. /\ epoch \in Nat \ {0} /\ minted \in Nat /\ epoch <= MaxEpoch /\ MaxEpoch \in Nat
      /\ \A e \in 1 .. epoch : hist[e] \in Seq(Nat) /\ Len(hist[e]) \in Nat /\ Len(hist[e]) <= minted
    BY <1>0, Events, WatchAssumption DEF ServerStands
<1>3. cli.last # NoEvent => cli.shown = SubSeq(hist[cli.last.e], 1, cli.last.n) /\ Len(cli.shown) <= minted
    <2> SUFFICES ASSUME cli.last # NoEvent
                 PROVE  cli.shown = SubSeq(hist[cli.last.e], 1, cli.last.n) /\ Len(cli.shown) <= minted
        OBVIOUS
    <2> DEFINE h == hist[cli.last.e]
    <2> DEFINE n == cli.last.n
    <2> DEFINE sub == SubSeq(h, 1, n)
    <2>1. /\ h \in Seq(Nat) /\ Len(h) \in Nat /\ Len(h) <= minted /\ n \in 1 .. Len(h) /\ Len(cli.shown) = n
          /\ \A i \in 1 .. n : cli.shown[i] = h[i]
        BY <1>1, <1>2 DEF Screen
    <2>2. cli.shown \in Seq(Nat)
        BY <1>1 DEF CliType
    <2> HIDE DEF h, n
    <2>3. sub \in Seq(Nat) /\ Len(sub) = n /\ \A i \in 1 .. n : sub[i] = h[i]
        BY <2>1
    <2> HIDE DEF sub
    <2>4. cli.shown = sub
        <3>1. Len(cli.shown) = Len(sub) /\ \A i \in 1 .. Len(cli.shown) : cli.shown[i] = sub[i]
            BY <2>1, <2>3
        <3> DEFINE sh == cli.shown
        <3> HIDE DEF sh
        <3>2. sh \in Seq(Nat) /\ sub \in Seq(Nat) /\ Len(sh) = Len(sub) /\ \A i \in 1 .. Len(sh) : sh[i] = sub[i]
            BY <2>2, <2>3, <3>1 DEF sh
        <3>3. sh = sub
            BY <3>2, SeqEqual
        <3> QED
            BY <3>3 DEF sh
    <2> QED
        BY <1>2, <2>1, <2>4 DEF sub, h, n
<1>4. Len(cli.shown) <= minted
    <2>1. cli.last = NoEvent => Len(cli.shown) = 0
        BY <1>1 DEF Screen
    <2> QED
        BY <1>2, <1>3, <2>1
<1>5. cli.moves \in 0 .. 2 * MaxEpoch
    <2>1. cli.moves \in Nat /\ cli.seen \in Nat /\ cli.moves <= 2 * cli.seen /\ cli.seen <= epoch
        <3>1. cli.moves \in Nat /\ cli.seen \in Nat
            BY <1>1 DEF CliType
        <3>2. cli.seen \in 0 .. epoch /\ cli.moves <= 2 * cli.seen
            BY <1>1 DEF Counted
        <3>3. cli.seen <= epoch
            BY <1>2, <3>2
        <3> QED
            BY <3>1, <3>2, <3>3
    <2>2. cli.seen <= MaxEpoch
        BY <1>2, <2>1
    <2> DEFINE m == cli.moves
    <2> DEFINE s == cli.seen
    <2>3. m \in Nat /\ s \in Nat /\ m <= 2 * s /\ s <= MaxEpoch
        BY <2>1, <2>2
    <2> HIDE DEF m, s
    <2>4. m \in 0 .. 2 * MaxEpoch
        BY <1>2, <2>3
    <2> QED
        BY <2>4 DEF m
<1>6. TypeOK
    BY <1>0, <1>1, <1>4, <1>5 DEF TypeOK, ServerStands, OpStands, OpType, StreamType, CliType, Told
<1>7. ShownIsHistory
    BY <1>1, <1>3, <1>6 DEF ShownIsHistory, Screen
<1>8. EndIsTrue
    BY <1>1 DEF EndIsTrue, Told
<1> QED
    BY <1>7, <1>8 DEF WatchIsTrue

\* What the watch shows is the beginning of one epoch's events, whatever is cut, restored or entered
\* meanwhile; when it reports the end with its events, they are all shown; and the time it prints is that
\* end's (watch.go WatchBody, opwatch.go readLast).
THEOREM WatchTellsTruth == Spec => []WatchIsTrue
<1>1. Init => WatchInv
    BY WatchInit
<1>2. WatchInv /\ [Next]_vars => WatchInv'
    BY WatchNext
<1>3. WatchInv => WatchIsTrue
    BY WatchTrue
<1> QED
    BY <1>1, <1>2, <1>3, PTL DEF Spec

=============================================================================
