------------------------------ MODULE LogWriter ------------------------------
(***************************************************************************)
(* The delivery of log records in src/src/clogger.c: threads put records   *)
(* on a queue, the writer thread gathers them in a batch and writes the    *)
(* batch to the file, and a thread whose record cannot be queued writes it *)
(* itself.  A write may stop anywhere for lack of room; what was not taken *)
(* is kept for a later attempt, or given up and named by a loss marker.    *)
(*                                                                         *)
(* A record is two lines in three units: the first half of its line, the   *)
(* half that ends the line, and a tab-indented continuation line.  So a    *)
(* short write can stop in a line, between the lines, or after a record.   *)
(* A marker is two units; a lone newline one.  The part of the state that  *)
(* shared->mutex guards is the record sh, and what the code does between   *)
(* lock and unlock is one step: an operator that maps sh to the set of its *)
(* possible results, one per outcome of the writes.                        *)
(*                                                                         *)
(* Left out: syslog and datagram targets, FATAL records, the exit drain,   *)
(* time rotation, and how a rotation names its files (LogRotation).        *)
(***************************************************************************)
EXTENDS Integers, Sequences, FiniteSets, Functions, SequencesExt

CONSTANTS
  Threads,         \* the threads that log
  Batch,           \* flush_buffer_size, in units
  Ceiling,         \* cap_limit of the batch buffer, in units
  MaxFile,         \* max_file_size, in units
  QueueSize,       \* capacity of a bounded queue
  Scenarios        \* the instances Init chooses from

VARIABLES
  sc,              \* the instance: configuration and budgets
  sh,              \* what shared->mutex guards
  queue,           \* the messages for the writer thread
  writer,          \* the writer thread
  call             \* each thread's call in progress

vars == <<sc, sh, queue, writer, call>>

SumOver(f) == FoldFunction(+, 0, f)

(***************************************************************************)
(* Units.                                                                  *)
(***************************************************************************)
Record(t, n) == <<t, n>>
Units(r) == [u \in 1 .. 3 |-> [rec |-> r, part |-> u]]
Newline == [rec |-> <<"newline", 0>>, part |-> 2]
Marker(k) == [u \in 1 .. 2 |-> [rec |-> <<"lost", k>>, part |-> u]]

EndsLine(u) == u.part # 1
StartsRecord(u) == u.part = 1

\* _clog_split_after: where a record stands after the first w units of data.
SplitAfter(data, w) ==
  CASE ~EndsLine(data[w])         -> "line"
    [] data[w + 1].part = 3       -> "record"
    [] OTHER                      -> "none"

(***************************************************************************)
(* Writing.  A step may meet one refusal: "full" is lack of room, which a  *)
(* later attempt may outlast, "dead" an error that none does.              *)
(***************************************************************************)
\* _write_all: the unit count taken, and the error.
WriteAll(s, data) ==
  LET after(w) == [s EXCEPT !.out = @ \o SubSeq(data, 1, w), !.bytes = @ + w]
  IN  IF s.dead THEN {[s |-> s, w |-> 0, err |-> "dead"]}
      ELSE {[s |-> after(Len(data)), w |-> Len(data), err |-> "ok"]}
           \union {[s |-> [after(w) EXCEPT !.refusals = @ - 1], w |-> w, err |-> "full"] :
                     w \in {x \in 0 .. Len(data) - 1 : s.refusals > 0}}
           \union {[s |-> [s EXCEPT !.dead = TRUE], w |-> 0, err |-> "dead"] :
                     x \in {y \in {1} : s.mayDie}}

Settled(s) == [s EXCEPT !.nl = FALSE, !.losses = 0, !.lost = 0, !.owed = FALSE]

\* _clog_pay_owed: the newline and the marker the output is owed.
PayOwed(s) ==
  LET data == (IF s.nl THEN <<Newline>> ELSE <<>>)
              \o (IF s.losses = 0 THEN <<>> ELSE Marker(s.lost))
  IN  IF ~s.owed THEN {[s |-> s, ok |-> TRUE]}
      ELSE IF s.split # "none" THEN {[s |-> s, ok |-> ~s.nl]}
      ELSE IF data = <<>> THEN {[s |-> Settled(s), ok |-> TRUE]}
      ELSE {IF o.err # "full" THEN [s |-> Settled(o.s), ok |-> TRUE]
            ELSE LET nl == IF o.w > 0 THEN ~EndsLine(data[o.w]) ELSE s.nl
                 IN  [s |-> [o.s EXCEPT !.nl = nl], ok |-> ~nl] :
              o \in WriteAll(s, data)}

States(results) == {o.s : o \in results}

\* _clog_report_loss.
ReportLoss(s, open, records) ==
  States(PayOwed([s EXCEPT !.nl = @ \/ open, !.losses = @ + 1, !.lost = @ + records, !.owed = TRUE]))

\* _clog_owed_gate and _clog_write_record: a record straight to the file.
WriteRecord(s, data) ==
  UNION {IF ~p.ok THEN ReportLoss(p.s, FALSE, 1)
         ELSE UNION {IF o.err = "ok" THEN {o.s}
                     ELSE ReportLoss(o.s, o.w > 0 /\ ~EndsLine(data[o.w]), 1) :
                       o \in WriteAll(p.s, data)} :
           p \in PayOwed(s)}

(***************************************************************************)
(* Rotation, as far as the lines are concerned.                            *)
(***************************************************************************)
\* The longest prefix that ends with a line.
WholeLines(out) ==
  LET ends == {i \in 0 .. Len(out) : i = 0 \/ EndsLine(out[i])}
  IN  SubSeq(out, 1, CHOOSE i \in ends : \A j \in ends : j <= i)

\* The new file; _clog_close_retired_line ends the old file's open line, or
\* cuts it off, or leaves it to the new file.
Retired(s, out, nl) ==
  LET new == [s EXCEPT !.files = Append(@, out), !.out = <<>>, !.bytes = 0, !.nl = nl]
  IN  [new EXCEPT !.owed = @ /\ (nl \/ new.losses > 0)]

Rotate(s) ==
  IF ~s.nl THEN {Retired(s, s.out, FALSE)}
  ELSE {Retired(s, Append(s.out, Newline), FALSE)}
       \union (IF s.refusals = 0 THEN {}
               ELSE LET t == [s EXCEPT !.refusals = @ - 1]
                    IN  {Retired(t, WholeLines(s.out), FALSE), Retired(t, s.out, TRUE)})

\* The rotations a behaviour has, and where the retry delay stands down.
MayRotate(s) == Len(s.files) < s.rotations

RotationDue(s) == s.bytes >= MaxFile /\ MayRotate(s)

\* _clog_size_rotate_if_due stands down while a record is split.
SizeRotate(s) == IF RotationDue(s) /\ s.split = "none" THEN Rotate(s) ELSE {s}

(***************************************************************************)
(* The batch.                                                              *)
(***************************************************************************)
RecordsIn(data) == Cardinality({i \in 1 .. Len(data) : StartsRecord(data[i])})

\* _clog_repair_split_record: the rest of the split record is given up.
RepairSplit(s) ==
  LET ends == {i \in 1 .. Len(s.buf) : i = Len(s.buf) \/ s.buf[i + 1].part = 1}
      cut  == CHOOSE i \in ends : \A j \in ends : i <= j
  IN  ReportLoss([s EXCEPT !.buf = SubSeq(@, cut + 1, Len(@)), !.split = "none"],
                 s.split = "line", 1)

\* _clog_note_dropped_batch: every record of data is given up.
DropBatch(s, data, split) ==
  ReportLoss(s, split = "line",
             RecordsIn(data) + (IF split = "none" THEN 0 ELSE 1))

\* _clog_backlog_piece: a backlog goes out up to the record that fills the file.
Piece(s, data) ==
  LET room == MaxFile - s.bytes
      ends == {i \in 1 .. Len(data) : i >= room /\ (i = Len(data) \/ data[i + 1].part = 1)}
  IN  IF Len(data) <= Batch \/ room >= Len(data) \/ (room <= 0 /\ ~MayRotate(s)) THEN Len(data)
      ELSE CHOOSE i \in ends : \A j \in ends : i <= j

\* What an attempt leaves, and whether a batch was kept for a later one.
Attempts(states, kept) == {[s |-> s, kept |-> kept] : s \in states}

\* What a refused write leaves: kept when it may yet go out, else dropped.
Refused(s, data, off, err) ==
  LET split == IF off > 0 THEN SplitAfter(data, off) ELSE s.split
      rest  == SubSeq(data, off + 1, Len(data))
      kept  == [s EXCEPT !.split = split, !.buf = rest]
  IN  IF err = "dead" THEN Attempts(DropBatch([s EXCEPT !.split = "none", !.buf = <<>>], rest, split), FALSE)
      ELSE Attempts(IF split # "none" /\ RotationDue(s) THEN RepairSplit(kept) ELSE {kept}, TRUE)

\* The pieces of the batch from unit off on, a rotation check after each.
RECURSIVE WritePieces(_, _, _)
WritePieces(s, data, off) ==
  LET piece == Piece(s, SubSeq(data, off + 1, Len(data)))
  IN  UNION {IF o.err # "ok" THEN Refused(o.s, data, off + o.w, o.err)
             ELSE IF off + piece = Len(data) THEN Attempts({[o.s EXCEPT !.buf = <<>>, !.split = "none"]}, FALSE)
             ELSE UNION {WritePieces(x, data, off + piece) :
                           x \in SizeRotate([o.s EXCEPT !.split = "none"])} :
               o \in WriteAll(s, SubSeq(data, off + 1, off + piece))}

\* One attempt: the debt first, then the batch, then the rotation check.
FlushOnce(s) ==
  IF s.buf = <<>> THEN Attempts(States(PayOwed(s)), FALSE)
  ELSE UNION {UNION {Attempts(SizeRotate(a.s), a.kept) :
                       a \in IF p.ok THEN WritePieces(p.s, p.s.buf, 0) ELSE Attempts({p.s}, TRUE)} :
                p \in PayOwed(s)}

\* _writer_flush_buffer: what was kept across a rotation has one more try, the
\* debt alone where the batch was the rest of a record that was given up.
FlushBuffer(s) ==
  UNION {IF a.kept /\ Len(a.s.files) # Len(s.files) THEN States(FlushOnce(a.s)) ELSE {a.s} :
           a \in FlushOnce(s)}

\* Mutant: the rest of a split record is kept for later.
Settle_Keeps(s) == States(PayOwed(s))

\* _clog_settle_after_flush.
Settle(s) ==
  UNION {States(PayOwed(a)) : a \in IF s.split = "none" THEN {s} ELSE RepairSplit(s)}

FlushAndSettle(s) == UNION {Settle(a) : a \in FlushBuffer(s)}

\* _clog_drop_undelivered.
DropUndelivered(s) ==
  IF s.buf = <<>> THEN {s}
  ELSE DropBatch([s EXCEPT !.buf = <<>>, !.split = "none"], s.buf, "none")

\* A record joins the batch if it fits.
Fits(s) == Len(s.buf) + 3 <= Ceiling
Joined(s, r) == [s EXCEPT !.buf = @ \o Units(r)]

\* The writer thread's job: into the batch, after a flush if it does not
\* fit, given up if it does not even then; a full batch is flushed.
Deliver(s, r) ==
  LET joined == IF Fits(s) THEN {Joined(s, r)}
                ELSE UNION {IF Fits(a) THEN {Joined(a, r)} ELSE ReportLoss(a, FALSE, 1) :
                              a \in FlushAndSettle(s)}
  IN  UNION {IF Len(a.buf) >= Batch THEN FlushBuffer(a) ELSE {a} : a \in joined}

\* _clog_write_sync_body: settle what is split or owed, then write.
WriteSync(s, r) ==
  LET ready == IF s.split # "none" \/ s.owed THEN FlushAndSettle(s) ELSE {s}
  IN  UNION {SizeRotate(b) : b \in UNION {WriteRecord(a, Units(r)) : a \in ready}}

\* The end of _clog_write_async: behind the batch, or straight to the file.
WriteDirect(s, r) ==
  LET ready == IF s.buf # <<>> THEN FlushAndSettle(s) ELSE {s}
  IN  UNION {IF a.buf # <<>> /\ Fits(a) THEN {Joined(a, r)}
             ELSE UNION {SizeRotate(b) : b \in WriteRecord(a, Units(r))} : a \in ready}

\* The last message of the writer thread.
DeliverLast(s) == UNION {DropUndelivered(a) : a \in FlushAndSettle(s)}

(***************************************************************************)
(* The threads.                                                            *)
(***************************************************************************)
NoCall == [pc |-> "idle", n |-> 0, then |-> "idle", flushed |-> FALSE]

Init ==
  /\ sc \in Scenarios
  /\ sh = [out |-> <<>>, files |-> <<>>, bytes |-> 0, buf |-> <<>>, split |-> "none",
           nl |-> FALSE, owed |-> FALSE, losses |-> 0, lost |-> 0, dead |-> FALSE,
           refusals |-> sc.refusals, mayDie |-> sc.mayDie, rotations |-> sc.rotations]
  /\ queue = <<>>
  /\ writer = [pc |-> "wait", msg |-> [kind |-> "none"], noWork |-> TRUE]
  /\ call = [t \in Threads |-> NoCall]

Current(t) == Record(t, call[t].n)

Room == ~sc.bounded \/ Len(queue) < QueueSize

At(t, pc) == call[t].pc = pc
Goto(t, pc) == call' = [call EXCEPT ![t].pc = pc]

InProgress(t) ==
  \/ call[t].pc \in {"send", "sync", "direct"}
  \/ call[t].pc \in {"flush", "waiting"} /\ call[t].then # "idle"

\* A queue without bound can fail to allocate its node.
SendFails == ~sc.bounded /\ sc.sendFails > 0 /\ sc' = [sc EXCEPT !.sendFails = @ - 1]

\* _clog_write_async: the envelope is allocated, or is not.
LogBegin(t) ==
  /\ At(t, "idle") /\ writer.pc # "stopped" /\ sc.open
  /\ sc.records > 0
  /\ \/ /\ sc' = [sc EXCEPT !.records = @ - 1]
        /\ call' = [call EXCEPT ![t].pc = "send", ![t].n = @ + 1]
     \/ /\ sc.envelopeFails > 0
        /\ sc' = [sc EXCEPT !.records = @ - 1, !.envelopeFails = @ - 1]
        /\ call' = [call EXCEPT ![t] = [pc |-> "flush", n |-> @.n + 1, then |-> "sync", flushed |-> FALSE]]
  /\ UNCHANGED <<sh, queue, writer>>

\* Mutant: no flush before the direct write.
LogSend_Ahead(t) ==
  /\ At(t, "send")
  /\ \/ /\ Room
        /\ queue' = Append(queue, [kind |-> "job", rec |-> Current(t)])
        /\ Goto(t, "idle")
        /\ UNCHANGED sc
     \/ /\ SendFails
        /\ Goto(t, "direct")
        /\ UNCHANGED queue
  /\ UNCHANGED <<sh, writer>>

\* The send of the job; a refused one is preceded by a flush.
LogSend(t) ==
  /\ At(t, "send")
  /\ \/ /\ Room
        /\ queue' = Append(queue, [kind |-> "job", rec |-> Current(t)])
        /\ Goto(t, "idle")
        /\ UNCHANGED sc
     \/ /\ SendFails
        /\ call' = [call EXCEPT ![t].pc = "flush", ![t].then = "direct"]
        /\ UNCHANGED queue
  /\ UNCHANGED <<sh, writer>>

\* clog_flush.
FlushBegin(t) ==
  /\ At(t, "idle") /\ sc.open
  /\ sc.flushes > 0
  /\ sc' = [sc EXCEPT !.flushes = @ - 1]
  /\ call' = [call EXCEPT ![t].pc = "flush", ![t].then = "idle"]
  /\ UNCHANGED <<sh, queue, writer>>

\* _clog_flush_pinned: a failed send returns at once.
FlushSend(t) ==
  /\ At(t, "flush")
  /\ \/ /\ Room
        /\ queue' = Append(queue, [kind |-> "flush", by |-> t])
        /\ call' = [call EXCEPT ![t].pc = "waiting", ![t].flushed = FALSE]
        /\ UNCHANGED sc
     \/ /\ SendFails
        /\ Goto(t, call[t].then)
        /\ UNCHANGED queue
  /\ UNCHANGED <<sh, writer>>

FlushWait(t) ==
  /\ At(t, "waiting") /\ call[t].flushed
  /\ call' = [call EXCEPT ![t].pc = call[t].then, ![t].flushed = FALSE]
  /\ UNCHANGED <<sc, sh, queue, writer>>

\* Mutant: nobody tells the writer thread.
WriteItself_Quiet(t) ==
  /\ call[t].pc \in {"sync", "direct"}
  /\ sh' \in IF At(t, "sync") THEN WriteSync(sh, Current(t)) ELSE WriteDirect(sh, Current(t))
  /\ Goto(t, "idle")
  /\ UNCHANGED <<sc, queue, writer>>

\* The record a thread writes itself.
WriteItself(t) ==
  /\ call[t].pc \in {"sync", "direct"}
  /\ \E s \in IF At(t, "sync") THEN WriteSync(sh, Current(t)) ELSE WriteDirect(sh, Current(t)) :
       /\ sh' = s
       /\ Goto(t, IF At(t, "direct") /\ s.buf # <<>> /\ s.buf[Len(s.buf)].rec = Current(t)
                    THEN "idle" ELSE "wake")
  /\ UNCHANGED <<sc, queue, writer>>

\* _clog_wake_writer.
Wake(t) ==
  /\ At(t, "wake")
  /\ Goto(t, "idle")
  /\ \/ /\ queue' = IF Room THEN Append(queue, [kind |-> "wake"]) ELSE queue
        /\ UNCHANGED sc
     \/ /\ ~sc.bounded /\ sc.sendFails > 0
        /\ sc' = [sc EXCEPT !.sendFails = @ - 1, !.wakeLost = TRUE]
        /\ UNCHANGED queue
  /\ UNCHANGED <<sh, writer>>

(***************************************************************************)
(* The writer thread, _clog_writer_thread_main.  It waits with no limit    *)
(* when it last left nothing behind.                                       *)
(***************************************************************************)
HasNoWork(s) == s.buf = <<>> /\ s.split = "none" /\ ~s.owed

WriterTake ==
  /\ writer.pc = "wait"
  /\ queue # <<>>
  /\ writer' = [writer EXCEPT !.pc = "work", !.msg = Head(queue)]
  /\ queue' = Tail(queue)
  /\ UNCHANGED <<sc, sh, call>>

WriterTimeout ==
  /\ writer.pc = "wait"
  /\ ~writer.noWork
  /\ writer' = [writer EXCEPT !.pc = "work", !.msg = [kind |-> "timeout"]]
  /\ UNCHANGED <<sc, sh, queue, call>>

WriterWork ==
  /\ writer.pc = "work"
  /\ LET kind == writer.msg.kind
     IN  \E s \in CASE kind = "job"  -> Deliver(sh, writer.msg.rec)
                    [] kind = "stop" -> DeliverLast(sh)
                    [] OTHER         -> FlushBuffer(sh) :
           /\ sh' = s
           /\ writer' = [writer EXCEPT !.pc = CASE kind = "flush" -> "signal"
                                                [] kind = "stop"  -> "stopped"
                                                [] OTHER          -> "wait",
                                       !.noWork = HasNoWork(s)]
  /\ UNCHANGED <<sc, queue, call>>

WriterSignal ==
  /\ writer.pc = "signal"
  /\ call' = [call EXCEPT ![writer.msg.by].flushed = TRUE]
  /\ writer' = [writer EXCEPT !.pc = "wait"]
  /\ UNCHANGED <<sc, sh, queue>>

(***************************************************************************)
(* The last close: no call is in progress, the sentinel goes on the queue, *)
(* the writer is joined and the last debt paid.                            *)
(***************************************************************************)
CloseBegin ==
  /\ sc.open /\ Room
  /\ \A t \in Threads : At(t, "idle")
  /\ sc' = [sc EXCEPT !.open = FALSE]
  /\ queue' = Append(queue, [kind |-> "stop"])
  /\ UNCHANGED <<sh, writer, call>>

CloseEnd ==
  /\ writer.pc = "stopped"
  /\ \E p \in PayOwed(sh) : sh' = p.s
  /\ writer' = [writer EXCEPT !.pc = "joined"]
  /\ UNCHANGED <<sc, queue, call>>

ThreadStep(t) ==
  \/ LogBegin(t) \/ LogSend(t) \/ FlushBegin(t) \/ FlushSend(t) \/ FlushWait(t)
  \/ WriteItself(t) \/ Wake(t)

WriterStep == WriterTake \/ WriterTimeout \/ WriterWork \/ WriterSignal

Next == (\E t \in Threads : ThreadStep(t)) \/ WriterStep \/ CloseBegin \/ CloseEnd

Spec == Init /\ [][Next]_vars

(***************************************************************************)
(* Properties.                                                             *)
(***************************************************************************)
Files == Range(Append(sh.files, sh.out))

Follows(f, i, r, part) == i > 1 /\ f[i - 1].rec = r /\ f[i - 1].part = part

(* Whatever write stops where, no line of the log mixes two records: a     *)
(* half line is followed by its own other half or by the newline that      *)
(* closes it, and a continuation line follows the line it continues.       *)
LinesIntact ==
  \A f \in Files : \A i \in 1 .. Len(f) :
    /\ f[i].part = 1 /\ i < Len(f)
         => f[i + 1] = Newline \/ (f[i + 1].rec = f[i].rec /\ f[i + 1].part = 2)
    /\ f[i].part = 2 /\ f[i] # Newline => Follows(f, i, f[i].rec, 1)
    /\ f[i].part = 3 => Follows(f, i, f[i].rec, 2)

Whole(f) == Cardinality({i \in 1 .. Len(f) : f[i].part = 3})
Named(f) == LET ends == {i \in 1 .. Len(f) : f[i].rec[1] = "lost" /\ f[i].part = 2}
            IN  SumOver([i \in ends |-> f[i].rec[2]])
Given == SumOver([t \in Threads |-> call[t].n - IF InProgress(t) THEN 1 ELSE 0])
Waiting == Cardinality({i \in 1 .. Len(queue) : queue[i].kind = "job"})
           + (IF writer.pc = "work" /\ writer.msg.kind = "job" THEN 1 ELSE 0)

(* Every record a thread has logged is on its way in the queue or in the   *)
(* batch, or whole in a file once, or counted as lost by a marker or by    *)
(* the debt the next write pays first: nothing vanishes and nothing is     *)
(* written twice, unless the output is dead.                               *)
EveryRecordAccounted ==
  ~sh.dead =>
    Given = Waiting + Whole(sh.buf) + sh.lost
            + SumOver([i \in 1 .. Len(sh.files) |-> Whole(sh.files[i]) + Named(sh.files[i])])
            + Whole(sh.out) + Named(sh.out)

(* The writer thread never waits without a limit while the batch holds     *)
(* records or the output is owed a repair, unless a message or the thread  *)
(* that left them is about to wake it, or that wake-up could not be sent.  *)
NoSleepOnWork ==
  writer.pc = "wait" /\ writer.noWork /\ queue = <<>> /\ ~HasNoWork(sh)
    => sc.wakeLost \/ \E t \in Threads : At(t, "wake")

Log == FlattenSeq(sh.files) \o sh.out

(* The whole records of one thread stand in the log in the order in which  *)
(* it logged them, those it wrote itself included.                         *)
RecordsInOrder ==
  \A i, j \in 1 .. Len(Log) :
    /\ i < j /\ Log[i].part = 3 /\ Log[j].part = 3
    /\ Log[i].rec[1] = Log[j].rec[1]
    => Log[i].rec[2] < Log[j].rec[2]

(* A record whose send was refused never overtakes the queue or the batch: *)
(* where envelopes can be allocated, the flush before it can be sent and   *)
(* the batch has room, the records of a thread stay in order.              *)
DirectKeepsOrder == sc.ordered => RecordsInOrder

(* Each record reaches the log in one piece, either once or as part of a   *)
(* count of lost records, and those written past the queue in their order. *)
RecordsKept == LinesIntact /\ EveryRecordAccounted /\ DirectKeepsOrder

=============================================================================
