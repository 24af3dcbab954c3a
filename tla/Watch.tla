------------------------------- MODULE Watch --------------------------------
(***************************************************************************)
(* bronzewardctl operation watch (cmd/bronzewardctl opwatch.go, internal/  *)
(* client watch.go and list.go) against the server's event stream and      *)
(* event pages (internal/api operations.go, reads.go): streams that are    *)
(* cut and resumed with Last-Event-ID, pages read across cursors, the      *)
(* operation read that decides, and a database that is restored or enters  *)
(* recovery mode meanwhile.                                                *)
(*                                                                         *)
(* An event has an identity of its own here, which the server does not     *)
(* send: what it sends is the number and the epoch of the read. A restore  *)
(* erases events, and later events take their numbers again.               *)
(***************************************************************************)
EXTENDS Integers, Sequences

CONSTANTS
    MaxEpoch,   \* a bound: recovery entries
    MaxEvents,  \* a bound: events in all
    MaxFaults,  \* a bound: backups, restores, entries, cuts and failed requests
    Batch,      \* operations.go streamBatch
    PageSize    \* the page limit

ASSUME WatchAssumption ==
    /\ MaxEpoch \in Nat \ {0} /\ MaxEvents \in Nat /\ MaxFaults \in Nat
    /\ Batch \in Nat \ {0} /\ PageSize \in Nat \ {0}

VARIABLES
    epoch,     \* installation_state.epoch
    op,        \* the operation and its events
    backup,    \* the operation in the latest backup
    minted,    \* events written so far
    enders,    \* the events that record an end of the operation
    hist,      \* history: the operation's events in each epoch
    stream,    \* the open event stream and the frames on their way
    ended,     \* --timeout passed or Ctrl-C was given
    cli,       \* the watch
    left       \* what is left of MaxFaults

vars == <<epoch, op, backup, minted, enders, hist, stream, ended, cli, left>>
serverVars == <<epoch, op, backup, minted, enders, hist>>

Epochs == 1 .. MaxEpoch
NoEvent == [e |-> 0, n |-> 0]
NoRead == [terminal |-> FALSE, epoch |-> 0, moves |-> 0]
\* A frame is an event with its identifier; the reset event has none.
Reset == [id |-> NoEvent, ev |-> 0]
\* The pages read so far, and how far; once all are read, the items that are not shown yet.
NoList == [items |-> <<>>, cursor |-> NoEvent, read |-> FALSE]

\* header is the epoch of the answer and from the number of the last event sent; done is the state
\* that the pass under way read.
NoStream == [live |-> FALSE, header |-> 0, from |-> 0, pass |-> "none", done |-> FALSE,
             frames |-> <<>>]

\* One type invariant, with the counters of the watch.
TypeOK ==
    /\ epoch \in Epochs /\ minted \in 0 .. MaxEvents /\ enders \subseteq 1 .. minted
    /\ op.state \in {"absent", "running", "terminal"}
    /\ stream.pass \in {"none", "head", "events"} /\ (stream.live <=> stream.pass # "none")
    /\ cli.pc \in {"first", "attempt", "streaming", "pages", "read", "final", "again", "last",
                   "last read", "over"}
    /\ cli.out \in {"none", "ended", "ended, undrained", "running", "unknown", "unread", "error"}
    /\ (cli.out = "none" <=> cli.pc # "over")
    /\ cli.moves \in 0 .. 2 * MaxEpoch /\ Len(cli.shown) <= minted
    /\ cli.stamp \in {0} \cup enders

Init ==
    /\ epoch = 1 /\ minted = 0 /\ enders = {} /\ ended = FALSE /\ left = MaxFaults
    /\ op = [state |-> "running", events |-> <<>>]
    /\ backup \in {op, [op EXCEPT !.state = "absent"]}
    /\ hist = [e \in Epochs |-> <<>>]
    /\ stream = NoStream
    /\ cli = [pc |-> "first", seen |-> 0, moves |-> 0, fresh |-> TRUE, pages |-> FALSE, last |-> NoEvent,
              shown |-> <<>>, first |-> NoRead, lastOp |-> NoRead, voided |-> FALSE, rd |-> NoRead,
              drained |-> FALSE, list |-> NoList, stamp |-> 0, out |-> "none"]

\* Nothing is followed once the watch is over.
Watching == cli.pc # "over"
Spend == Watching /\ left > 0 /\ left' = left - 1

-----------------------------------------------------------------------------
\* The operation moves: an event, the event that ends it, or one recorded after its end, such as
\* the response of an attempt that a takeover left behind.
Append1(o, state) == [state |-> state, events |-> Append(o.events, minted + 1)]
Move ==
    /\ Watching /\ minted < MaxEvents /\ op.state # "absent"
    /\ \/ op' = Append1(op, op.state) /\ UNCHANGED enders
       \/ op.state = "running" /\ op' = Append1(op, "terminal") /\ enders' = enders \cup {minted + 1}
    /\ minted' = minted + 1
    /\ hist' = [hist EXCEPT ![epoch] = op'.events]
    /\ UNCHANGED <<epoch, backup, stream, ended, cli, left>>

TakeBackup ==
    /\ Spend /\ backup' = op
    /\ UNCHANGED <<epoch, op, minted, enders, hist, stream, ended, cli>>

\* A recovery entry over the database as it stands, which waits for reads under way and may end a
\* job. An open stream goes on.
Enter ==
    /\ Spend /\ epoch < MaxEpoch /\ stream.pass # "events"
    /\ epoch' = epoch + 1
    /\ \/ UNCHANGED <<op, minted, enders>>
       \/ /\ op.state = "running" /\ minted < MaxEvents
          /\ op' = Append1(op, "terminal") /\ minted' = minted + 1 /\ enders' = enders \cup {minted + 1}
    /\ hist' = [hist EXCEPT ![epoch + 1] = op'.events]
    /\ UNCHANGED <<backup, stream, ended, cli>>

\* The database is restored with every instance stopped, and recovery mode entered. What a stream
\* had sent still arrives.
Restore ==
    /\ Spend /\ epoch < MaxEpoch
    /\ epoch' = epoch + 1 /\ op' = backup
    /\ hist' = [hist EXCEPT ![epoch + 1] = op'.events]
    /\ stream' = [stream EXCEPT !.live = FALSE, !.pass = "none"]
    /\ UNCHANGED <<backup, minted, enders, ended, cli>>

-----------------------------------------------------------------------------
\* eventQuery and scanEvent: the events after a number, at most so many, named in the epoch read.
EventsAfter(n, limit) ==
    [i \in 1 .. IF Len(op.events) <= n THEN 0 ELSE IF Len(op.events) - n < limit THEN Len(op.events) - n ELSE limit |->
        [id |-> [e |-> epoch, n |-> n + i], ev |-> op.events[n + i]]]

\* streamEvents, pass: the state is read before the events.
PassHead ==
    /\ stream.pass = "head" /\ Watching
    /\ op.state = "terminal" \/ Len(op.events) > stream.from
    /\ stream' = [stream EXCEPT !.pass = "events", !.done = op.state = "terminal"]
    /\ UNCHANGED <<serverVars, ended, cli, left>>

\* Defect: a stream whose batch is not full goes on after the terminal state.
LastBatchNever(batch) == FALSE

\* A batch that is not full after a terminal state is the last one.
LastBatch(batch) == Len(batch) < Batch /\ stream.done

PassEvents ==
    /\ stream.pass = "events"
    /\ LET batch == EventsAfter(stream.from, Batch) IN
       stream' = [stream EXCEPT !.frames = @ \o batch, !.from = @ + Len(batch),
                                !.live = ~LastBatch(batch), !.pass = IF LastBatch(batch) THEN "none" ELSE "head"]
    /\ UNCHANGED <<serverVars, ended, cli, left>>

\* The stream ends early: the token's expiry, a failed read, a cut or silent connection. Frames
\* on their way are lost or not.
CutStream ==
    /\ Spend /\ stream.live
    /\ stream' \in {[stream EXCEPT !.live = FALSE, !.pass = "none"],
                    [stream EXCEPT !.live = FALSE, !.pass = "none", !.frames = <<>>]}
    /\ UNCHANGED <<serverVars, ended, cli>>

-----------------------------------------------------------------------------
\* observe: an answer's Bronzeward-Epoch.
Observed(c) ==
    IF c.seen = epoch THEN c
    ELSE [c EXCEPT !.seen = epoch, !.moves = IF c.seen = 0 THEN @ ELSE @ + 1]

\* EpochHolds: no answer and no event showed another epoch since the read.
EpochHolds(c, rd) == rd.moves = c.moves

Cleared(c) == [c EXCEPT !.shown = <<>>, !.last = NoEvent]

\* show: an event that is not after the last one is not shown again.
Show(c, f) ==
    IF c.last # NoEvent /\ f.id.e = c.last.e /\ f.id.n <= c.last.n THEN c
    ELSE [c EXCEPT !.shown = Append(@, f.ev), !.last = f.id]

\* operationReadUntil's answer.
ReadOf(c) == [terminal |-> op.state = "terminal", epoch |-> epoch, moves |-> c.moves]

Over(c, out) == [c EXCEPT !.pc = "over", !.out = out, !.list = NoList, !.rd = NoRead, !.lastOp = NoRead, !.first = NoRead]

\* What the command makes of a read it returns: a terminal one is looked up in the pages once more,
\* for the time of its end.
Result(c, rd, drained) ==
    IF rd.terminal THEN [c EXCEPT !.pc = "last", !.rd = rd, !.drained = drained, !.list = NoList]
    ELSE Over([c EXCEPT !.rd = rd], "running")

Client(c) == cli' = c /\ UNCHANGED <<serverVars, ended>>
NoFault == UNCHANGED <<stream, left>>

\* A request that gives nothing, or a problem, which shows the epoch.
Unanswered == {cli, Observed(cli)}
Fails(c) == Spend /\ UNCHANGED stream /\ Client(c)

\* Server, OperationBody: the reads before the watch.
FirstRead ==
    /\ cli.pc = "first"
    /\ \/ /\ op.state # "absent"
          /\ LET c == Observed(cli) IN Client([c EXCEPT !.first = ReadOf(c), !.pc = "attempt"])
          /\ NoFault
       \/ op.state = "absent" /\ Client(Over(Observed(cli), "error")) /\ NoFault
       \/ (\E d \in Unanswered : Fails(Over(d, "error")))

Attempted(c, pc) == [c EXCEPT !.pc = pc, !.fresh = FALSE]

\* The first attempt is skipped when Until already ends the watch; pages are read when the server
\* answered without a stream; otherwise a stream is opened after the last event shown. An event of
\* another epoch cannot be resumed after: the server sends a reset and everything.
OpenStream ==
    /\ cli.pc = "attempt"
    /\ LET resume == cli.last.e = epoch IN
       \/ cli.fresh /\ ended /\ Client(Attempted(cli, "read")) /\ NoFault
       \/ ~(cli.fresh /\ ended) /\ cli.pages /\ Client([Attempted(cli, "pages") EXCEPT !.list = NoList]) /\ NoFault
       \/ /\ ~(cli.fresh /\ ended) /\ ~cli.pages /\ op.state # "absent"
          /\ Client(Attempted(Observed(cli), "streaming"))
          /\ stream' = [NoStream EXCEPT !.live = TRUE, !.header = epoch, !.pass = "events",
                                        !.done = op.state = "terminal", !.from = IF resume THEN cli.last.n ELSE 0,
                                        !.frames = IF cli.last = NoEvent \/ resume THEN <<>> ELSE <<Reset>>]
          /\ UNCHANGED left
       \/ /\ ~(cli.fresh /\ ended) /\ ~cli.pages
          /\ Spend /\ Client([Attempted(Observed(cli), "read") EXCEPT !.pages = TRUE]) /\ UNCHANGED stream
       \/ ~(cli.fresh /\ ended) /\ ~cli.pages /\ (\E d \in Unanswered : Fails(Attempted(d, "read")))
       \/ /\ ~(cli.fresh /\ ended) /\ ~cli.pages
          /\ op.state = "absent" /\ Client(Over(Observed(cli), "error")) /\ NoFault

\* Defect: a reset is taken for an event to skip.
ResetKept(c) == c

\* A reset event: the server resumed nothing.
ResetSeen(c) == Cleared(c)

\* streamIn, one frame: an event of another epoch than the answer's is counted as a move and ends
\* the attempt. Until is asked after each event.
Closed(c) == Client([c EXCEPT !.pc = "read"]) /\ stream' = NoStream
Frame ==
    /\ cli.pc = "streaming" /\ stream.frames # <<>>
    /\ LET f == Head(stream.frames)
           rest == [stream EXCEPT !.frames = Tail(@)] IN
       \/ f = Reset /\ Client(ResetSeen(cli)) /\ stream' = rest
       \/ f # Reset /\ f.id.e # stream.header /\ Closed([Cleared(cli) EXCEPT !.moves = @ + 1])
       \/ f # Reset /\ f.id.e = stream.header /\ ended /\ Closed(Show(cli, f))
       \/ f # Reset /\ f.id.e = stream.header /\ ~ended /\ Client(Show(cli, f)) /\ stream' = rest
    /\ UNCHANGED left

\* The end of the stream, or a keep-alive after which Until ends it.
StreamEnds ==
    /\ cli.pc = "streaming" /\ stream.frames = <<>>
    /\ ~stream.live \/ ended
    /\ Closed(cli)
    /\ UNCHANGED left

\* A terminal read whose pages were read in the epoch of the read ends the watch. Otherwise what was
\* shown from another epoch than the pages' is cleared, and the watch goes on without the read.
Settled(c, pageEpoch) == pageEpoch = c.rd.epoch /\ (c.last = NoEvent \/ c.last.e = c.rd.epoch)
GoesOn(c) == [c EXCEPT !.pc = "attempt", !.lastOp = NoRead, !.voided = TRUE, !.rd = NoRead, !.list = NoList]
FinalDrain(c, pageEpoch) ==
    IF Settled(c, pageEpoch) THEN Result(c, c.rd, TRUE)
    ELSE GoesOn(IF c.last # NoEvent /\ c.last.e # pageEpoch THEN Cleared(c) ELSE c)

\* readLast: the last event of the pages that records the end.
EndOf(items) ==
    LET found == {i \in 1 .. Len(items) : items[i].ev \in enders} IN
    IF found = {} THEN Reset ELSE items[CHOOSE i \in found : \A j \in found : j <= i]

\* A terminal read is reported while no answer showed another epoch.
Report(c) ==
    Over(c, IF ~EpochHolds(c, c.rd) THEN "unknown" ELSE IF c.drained THEN "ended" ELSE "ended, undrained")

\* drain's end, once no item is left.
Drained(c) ==
    IF c.pc = "pages" THEN [c EXCEPT !.pc = "read", !.list = NoList] ELSE FinalDrain(c, c.list.cursor.e)
Drain(c) == IF c.list.items = <<>> THEN Drained(c) ELSE c

Listed(c, items) ==
    IF c.pc # "last"
    THEN Drain([c EXCEPT !.list = [items |-> items, cursor |-> [e |-> epoch, n |-> Len(items)], read |-> TRUE]])
    ELSE IF EndOf(items) = Reset THEN Report(c)
    ELSE [c EXCEPT !.pc = "last read", !.list.items = <<EndOf(items)>>]

\* ListAt fails: the attempt's error ends the watch, the final drain's is followed by another read
\* of the operation, and the end's time is not shown.
ListFailed(c) ==
    CASE c.pc = "pages" -> Over(c, "error")
      [] c.pc = "final" -> [c EXCEPT !.pc = "again", !.list = NoList]
      [] c.pc = "last"  -> Report(c)

\* ListAt, one page: a cursor of another epoch is refused and the list read again from its start.
ReadPage ==
    /\ cli.pc \in {"pages", "final", "last"} /\ ~cli.list.read
    /\ LET c == Observed(cli)
           page == EventsAfter(c.list.cursor.n, PageSize)
           items == c.list.items \o page IN
       \/ c.list.cursor # NoEvent /\ c.list.cursor.e # epoch /\ Client([c EXCEPT !.list = NoList]) /\ NoFault
       \/ /\ op.state # "absent" /\ (c.list.cursor = NoEvent \/ c.list.cursor.e = epoch)
          /\ IF c.list.cursor.n + Len(page) < Len(op.events)
             THEN Client([c EXCEPT !.list = [items |-> items, cursor |-> [e |-> epoch, n |-> Len(items)], read |-> FALSE]])
             ELSE Client(Listed(c, items))
          /\ NoFault
       \/ op.state = "absent" /\ c.list.cursor = NoEvent /\ Client(ListFailed(c)) /\ NoFault
       \/ (\E d \in Unanswered : Fails(ListFailed(d)))

\* drain, one event: what is shown of another epoch is cleared before the first one. Until is asked
\* after each, but not in the drain of a terminal state.
ShowItem ==
    /\ cli.pc \in {"pages", "final"} /\ cli.list.read
    /\ LET f == Head(cli.list.items)
           first == Len(cli.list.items) = cli.list.cursor.n
           c == Show(IF first /\ cli.last # NoEvent /\ f.id.e # cli.last.e THEN Cleared(cli) ELSE cli, f) IN
       Client(IF ended /\ cli.pc = "pages" THEN Drained(c) ELSE Drain([c EXCEPT !.list.items = Tail(@)]))
    /\ NoFault

\* The operation read that follows an attempt. The read before the watch is not used again.
AfterRead(c, rd) ==
    IF rd.terminal THEN [c EXCEPT !.pc = "final", !.first = NoRead, !.rd = rd, !.lastOp = rd, !.voided = FALSE, !.list = NoList]
    ELSE LET d == [(IF c.last # NoEvent /\ c.last.e # epoch THEN Cleared(c) ELSE c)
                     EXCEPT !.pc = "attempt", !.first = NoRead, !.lastOp = rd, !.voided = FALSE] IN
         IF ended THEN Result(d, rd, FALSE) ELSE d

\* The watch ended while the server was out of reach: the last read, or the one before the watch,
\* unless it is a terminal one of an installation restored since.
Stands(c, rd) == rd # NoRead /\ (rd.terminal => EpochHolds(c, rd))
OutOfReach(c) ==
    IF Stands(c, c.lastOp) THEN Result(c, c.lastOp, FALSE)
    ELSE IF c.lastOp = NoRead /\ ~c.voided /\ Stands(c, c.first) THEN Result(c, c.first, FALSE)
    ELSE Over(c, "unknown")

OperationRead ==
    /\ cli.pc = "read"
    /\ LET c == Observed(cli) IN
       \/ op.state # "absent" /\ Client(AfterRead(c, ReadOf(c))) /\ NoFault
       \/ op.state = "absent" /\ Client(Over(c, "error")) /\ NoFault
       \/ ended /\ (\E d \in Unanswered : Fails(OutOfReach(d)))
       \/ ~ended /\ (\E d \in Unanswered : Fails(d))

\* The watch ended before the second read: the terminal one stands if the epoch held.
LastRefused(c) == IF EpochHolds(c, c.rd) THEN Result(c, c.rd, FALSE) ELSE Over(c, "unknown")

\* The read after a failed final drain: a terminal state of the same epoch stands.
ReadAgain ==
    /\ cli.pc = "again"
    /\ LET c == Observed(cli)
           again == ReadOf(c) IN
       \/ /\ op.state # "absent"
          /\ Client(IF again.terminal /\ epoch = c.rd.epoch THEN Result(c, again, FALSE)
                    ELSE IF again.terminal THEN GoesOn(c)
                    ELSE [c EXCEPT !.pc = "attempt", !.lastOp = again, !.rd = NoRead])
          /\ NoFault
       \/ op.state = "absent" /\ Client(Over(c, "error")) /\ NoFault
       \/ ended /\ (\E d \in Unanswered : Fails(LastRefused(d)))
       \/ ~ended /\ (\E d \in Unanswered : Fails(d))

\* readLast's own read: the time is shown if state, epoch and event belong to one operation.
LastRead ==
    /\ cli.pc = "last read"
    /\ LET c == Observed(cli)
           end == Head(c.list.items) IN
       \/ /\ Client(Report(IF op.state = "terminal" /\ epoch = c.rd.epoch /\ end.id.e = epoch
                           THEN [c EXCEPT !.stamp = end.ev] ELSE c))
          /\ NoFault
       \/ (\E d \in Unanswered : Fails(Report(d)))

\* --timeout or the first Ctrl-C; after the grace time the command stops waiting.
Interrupt ==
    /\ ~ended /\ Watching
    /\ ended' = TRUE
    /\ UNCHANGED <<serverVars, stream, cli, left>>
GiveUp ==
    /\ ended /\ Watching
    /\ Client(Over(cli, "unread")) /\ stream' = NoStream /\ UNCHANGED left

StreamStep == PassHead \/ PassEvents
ClientStep ==
    \/ FirstRead \/ OpenStream \/ Frame \/ StreamEnds \/ ReadPage \/ ShowItem \/ OperationRead \/ ReadAgain \/ LastRead

Next == Move \/ TakeBackup \/ Enter \/ Restore \/ StreamStep \/ CutStream \/ ClientStep \/ Interrupt \/ GiveUp

Spec == Init /\ [][Next]_vars

\* The watch's own steps and the server's passes are taken: both loops run unconditionally, and a
\* request that is answered at all is answered. Failures are bounded by MaxFaults.
FairSpec == Spec /\ WF_vars(ClientStep) /\ WF_vars(StreamStep)

-----------------------------------------------------------------------------
\* What stands on the screen, since it was last cleared, is the beginning of the operation's events
\* in one epoch, up to the last event shown: no event lost, repeated, or joined from before a
\* restore (watch.go stream, drain, show).
ShownIsHistory ==
    /\ TypeOK
    /\ cli.last = NoEvent => cli.shown = <<>>
    /\ cli.last # NoEvent => cli.shown = SubSeq(hist[cli.last.e], 1, cli.last.n)

\* A watch that reports the end, with its events, shows every event of the operation up to its end
\* in the epoch the report is of, and the time it prints is that end's. No answer of another epoch
\* had arrived before (watch.go WatchBody, opwatch.go readLast).
Ends(e) == {i \in 1 .. Len(hist[e]) : hist[e][i] \in enders}
EndIsTrue ==
    /\ cli.out = "ended" =>
         /\ Ends(cli.seen) # {}
         /\ cli.last.e = cli.seen
         /\ \A i \in Ends(cli.seen) : i <= Len(cli.shown)
    /\ cli.out = "ended, undrained" => Ends(cli.seen) # {}
    /\ cli.stamp # 0 /\ cli.out # "unknown" => \E i \in Ends(cli.seen) : hist[cli.seen][i] = cli.stamp

\* What the watch shows and says is the operation's history: at every moment and at its end.
WatchIsTrue == ShownIsHistory /\ EndIsTrue

\* Once the operation has ended for good, or the operator has ended the watch, the watch ends:
\* restores, entries, cuts and events of another epoch never keep it going round.
WatchEnds == (<>[](op.state # "running") \/ <>ended) => <>(cli.pc = "over")
=============================================================================
