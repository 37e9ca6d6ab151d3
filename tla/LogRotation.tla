----------------------------- MODULE LogRotation -----------------------------
(***************************************************************************)
(* The rotating log file of src/src/clogger.c: one directory, the process  *)
(* that writes the live file and rotates it by size and by age, the        *)
(* compressor thread that turns rotated files into ".gz" files, the        *)
(* deletion pass, and the recovery a restart runs.                         *)
(*                                                                         *)
(* Only the directory survives a crash.  A file is an inode; a rotated     *)
(* name is the pair (stamp, sequence number) and appears on disk as a      *)
(* plain name, a ".gz" name or a ".gz.tmp" name.  Every system call that   *)
(* changes the directory is a step of its own, so a crash can fall between *)
(* any two.  shared->mutex is held from the step that leaves "idle" to the *)
(* one that comes back, and by the compressor in its deletion pass.        *)
(*                                                                         *)
(* Left out: the owner, type and name-length filters of foreign directory  *)
(* entries, and the newline a retired file may still owe.                  *)
(***************************************************************************)
EXTENDS Integers, Sequences, FiniteSets, FiniteSetsExt, Functions, SequencesExt

CONSTANTS
  None,            \* no file, no job, no name
  MaxTime,         \* the clock reads 0 .. MaxTime
  MaxFiles,        \* inodes a behaviour may create
  SeqMax,          \* CLOG_ROTATION_SEQ_MAX
  Tolerance,       \* CLOG_ROTATION_FUTURE_TOLERANCE_SECS
  Backoff,         \* CLOG_ROTATE_RETRY_BACKOFF_SECS
  Interval,        \* rotation_interval_us
  MaxSize,         \* max_file_size, in records
  Scenarios        \* the instances Init chooses from

Inodes == 1 .. MaxFiles
Keys == (0 .. MaxTime) \X (0 .. SeqMax)

\* A configuration (max_rotated_files, which is positive, how names are
\* published, which rotations are on) and the budgets of the environment.
ScenarioType ==
  [keep : Nat \ {0}, link : BOOLEAN, clockBack : BOOLEAN, rollbackFails : BOOLEAN,
   timed : BOOLEAN, sized : BOOLEAN,
   opens : Int, crashes : Int, faults : Int, ticks : Int, records : Int]

ASSUME LogAssumption ==
  /\ MaxTime \in Nat \ {0} /\ MaxFiles \in Nat /\ SeqMax \in Nat
  /\ Tolerance \in Nat /\ Backoff \in Nat /\ Interval \in Nat /\ MaxSize \in Nat
  /\ None \notin Nat \cup (Nat \X Nat)
  /\ Scenarios \subseteq ScenarioType

VARIABLES
  sc,              \* the instance: configuration and budgets
  now,             \* the wall clock
  live,            \* the inode at the live name, or None
  fresh,           \* inodes under a private temporary live name
  plain,           \* rotated name -> inode
  gz,              \* rotated name -> what the ".gz" file holds
  gztmp,           \* rotated names with a ".gz.tmp" file
  size,            \* records in each inode
  files,           \* inodes created so far
  proc,            \* the logger: status, descriptor and rotation fields
  rot,             \* the rotation in progress and the deletion pass
  comp             \* the compressor thread and its queue

disk == <<live, fresh, plain, gz, gztmp, size, files>>
vars == <<sc, now, disk, proc, rot, comp>>

(***************************************************************************)
(* Names.                                                                  *)
(***************************************************************************)
\* _rotated_key_cmp: the stamp first, then the sequence as a number.
Older(k, l) == k[1] < l[1] \/ (k[1] = l[1] /\ k[2] < l[2])

NewestOf(S) == CHOOSE k \in S : \A l \in S \ {k} : Older(l, k)
OldestOf(S) == CHOOSE k \in S : \A l \in S \ {k} : Older(k, l)

OnDisk == DOMAIN plain \union DOMAIN gz

\* _clog_gen_filter_init: a stamp too far ahead is not a generation.
IsGeneration(k) ==
  LET ref == IF proc.last # None /\ proc.last[1] > now THEN proc.last[1] ELSE now
  IN  k[1] <= ref + Tolerance

Generations == {k \in OnDisk : IsGeneration(k)}
StaleGz == {k \in gztmp : IsGeneration(k)}

\* _rotated_newest_on_disk.
NewestOnDisk == IF Generations = {} THEN None ELSE NewestOf(Generations)

Without(f, k) == Restrict(f, DOMAIN f \ {k})
With(f, k, v) == [x \in DOMAIN f \union {k} |-> IF x = k THEN v ELSE f[x]]

\* The first name of the rotation, before collisions: the clock's, or the
\* next sequence of the newest name when the clock is not past it.
FirstName(last) ==
  IF last # None /\ now <= last[1] THEN <<last[1], last[2] + 1>> ELSE <<now, 0>>

\* _rotated_name_taken moves the sequence on.
FreeNames(k) == {l \in Keys : l[1] = k[1] /\ l[2] >= k[2] /\ l \notin OnDisk}

(***************************************************************************)
(* The deletion pass: which generations _prune_rotated deletes.  The       *)
(* listing may miss both names of the running compression, which the pass  *)
(* then adds by itself.                                                    *)
(***************************************************************************)
\* Mutant: the pass goes by what it read.
Listed_AsRead(missed) == IF missed THEN Generations \ {comp.running} ELSE Generations

Listed(missed) ==
  LET seen == IF missed THEN Generations \ {comp.running} ELSE Generations
  IN  IF comp.running = None THEN seen ELSE seen \union {comp.running}

\* All but the newest max_rotated_files.
Excess(all) == {k \in all : Cardinality({l \in all : Older(k, l)}) >= sc.keep}

Protected(just) == {just, comp.running} \ {None}

(***************************************************************************)
(* Initially nothing is on disk and no process runs.                       *)
(***************************************************************************)
Down == [status |-> "down", fd |-> None, opened |-> None, last |-> None,
         lastRotation |-> 0, retryAfter |-> 0, clean |-> TRUE]
NoRotation == [pc |-> "idle", next |-> "idle", key |-> None, tmp |-> None,
               did |-> FALSE, doomed |-> {}]
NoCompressor == [pc |-> "none", queue |-> <<>>, running |-> None, src |-> None,
                 got |-> None, left |-> {}, keepTmp |-> FALSE, deferred |-> FALSE]

Init ==
  /\ sc \in Scenarios
  /\ now = 1
  /\ live = None /\ fresh = {} /\ plain = <<>> /\ gz = <<>> /\ gztmp = {}
  /\ size = [i \in Inodes |-> 0] /\ files = 0
  /\ proc = Down /\ rot = NoRotation /\ comp = NoCompressor

MutexFree == rot.pc = "idle" /\ comp.pc # "prune"

Fault == sc.faults > 0 /\ sc' = [sc EXCEPT !.faults = @ - 1]
Unclean == [proc EXCEPT !.clean = FALSE]

(***************************************************************************)
(* Opening the file: clog_create_from_file_mp, then the recovery of        *)
(* _clog_file_register_or_attach.                                          *)
(***************************************************************************)
Open ==
  /\ proc.status \in {"down", "closed"}
  /\ sc.opens > 0
  /\ sc' = [sc EXCEPT !.opens = @ - 1]
  /\ IF live = None
       THEN files < MaxFiles /\ files' = files + 1 /\ live' = files + 1
       ELSE UNCHANGED <<files, live>>
  /\ LET seeded == live # None /\ size[live] > 0
         newest == IF seeded THEN NewestOnDisk ELSE None
     IN  \E birth \in 0 .. now :
           LET seed == IF newest # None THEN newest[1] ELSE birth
           IN  /\ (~seeded \/ newest # None) => birth = now
               /\ proc' = [Down EXCEPT !.status = "opening", !.fd = live', !.opened = live',
                                       !.last = newest,
                                       !.lastRotation = IF seeded /\ seed < now THEN seed ELSE now]
  /\ rot' = NoRotation /\ comp' = NoCompressor
  /\ UNCHANGED <<now, fresh, plain, gz, gztmp, size>>

\* _clog_remove_stale_live_tmps.
RemoveStaleTmp(i) ==
  /\ proc.status = "opening"
  /\ i \in fresh
  /\ size[i] = 0
  /\ fresh' = fresh \ {i}
  /\ UNCHANGED <<sc, now, live, plain, gz, gztmp, size, files, proc, rot, comp>>

\* _clog_recover_compressions: a ".gz.tmp" file goes.
RemoveStaleGz(k) ==
  /\ proc.status = "opening"
  /\ fresh = {}
  /\ k \in StaleGz
  /\ gztmp' = gztmp \ {k}
  /\ UNCHANGED <<sc, now, live, fresh, plain, gz, size, files, proc, rot, comp>>

\* _clog_compress_enqueue, which starts the compressor with the first job.
Enqueued(c, k) ==
  [c EXCEPT !.queue = Append(@, k), !.pc = IF @ = "none" THEN "wait" ELSE @]

\* Mutant: a rotated file with a ".gz" file beside it counts as compressed.
Unrecovered_Skips == (Generations \cap DOMAIN plain) \ (Range(comp.queue) \union DOMAIN gz)

\* The rest of it: every plain generation, oldest first, is queued, and a
\* ".gz" file beside it removed.
Unrecovered == (Generations \cap DOMAIN plain) \ Range(comp.queue)

Requeue(k) ==
  /\ proc.status = "opening"
  /\ fresh = {} /\ StaleGz = {}
  /\ Unrecovered # {} /\ k = OldestOf(Unrecovered)
  /\ gz' = Without(gz, k)
  /\ comp' = Enqueued(comp, k)
  /\ UNCHANGED <<sc, now, live, fresh, plain, gztmp, size, files, proc, rot>>

Opened ==
  /\ proc.status = "opening"
  /\ fresh = {} /\ StaleGz = {} /\ Unrecovered = {}
  /\ proc' = [proc EXCEPT !.status = "up"]
  /\ UNCHANGED <<sc, now, disk, rot, comp>>

(***************************************************************************)
(* A write: a time rotation if one is due, the record, a size rotation if  *)
(* one is due.                                                             *)
(***************************************************************************)
\* _clog_rotate_retry_allowed: a clock that stepped back lifts the delay.
RetryAllowed == proc.retryAfter <= now \/ proc.retryAfter - now > Backoff

\* _clog_time_rotation_elapsed.
TimeDue == sc.timed /\ now >= proc.lastRotation + Interval /\ RetryAllowed

SizeDue(n) == sc.sized /\ n >= MaxSize /\ RetryAllowed

Ready == proc.status = "up" /\ MutexFree /\ sc.records > 0

\* _clog_time_rotate_if_due.
TimeRotate ==
  /\ Ready
  /\ TimeDue
  /\ rot' = [rot EXCEPT !.pc = "create", !.next = "write"]
  /\ UNCHANGED <<sc, now, disk, proc, comp>>

\* The record itself, then _clog_size_rotate_if_due.
Write ==
  /\ (Ready /\ ~TimeDue) \/ rot.pc = "write"
  /\ sc' = [sc EXCEPT !.records = @ - 1]
  /\ size' = [size EXCEPT ![proc.fd] = @ + 1]
  /\ proc' = [proc EXCEPT !.lastRotation = IF rot.pc = "idle" /\ sc.timed /\ now < @ THEN now ELSE @]
  /\ rot' = IF SizeDue(size[proc.fd] + 1)
              THEN [NoRotation EXCEPT !.pc = "create"] ELSE NoRotation
  /\ UNCHANGED <<now, live, fresh, plain, gz, gztmp, files, comp>>

(***************************************************************************)
(* _rotate, a system call at a time.                                       *)
(***************************************************************************)
\* A rotation that failed: the delay before the next attempt starts.
Failed(p) ==
  /\ proc' = [p EXCEPT !.retryAfter = now + Backoff]
  /\ rot' = [NoRotation EXCEPT !.pc = rot.next]

\* The name is chosen and the next live file made under a private name.
RotateCreate ==
  /\ rot.pc = "create"
  /\ LET last == IF proc.last = None THEN NewestOnDisk ELSE proc.last
     IN  \/ /\ files < MaxFiles
            /\ files' = files + 1
            /\ fresh' = fresh \union {files + 1}
            /\ proc' = [proc EXCEPT !.last = last]
            /\ rot' = [rot EXCEPT !.pc = "rename", !.key = FirstName(last), !.tmp = files + 1]
            /\ UNCHANGED sc
         \/ /\ Fault
            /\ Failed([Unclean EXCEPT !.last = last])
            /\ UNCHANGED <<files, fresh>>
  /\ UNCHANGED <<now, live, plain, gz, gztmp, size, comp>>

\* The live file takes the rotated name, replacing nothing.  A live name
\* that is gone leaves a clean slate; every other failure undoes step one.
RotateRename ==
  /\ rot.pc = "rename"
  /\ LET names == FreeNames(rot.key)
     IN  \/ /\ names # {}
            /\ LET k == OldestOf(names)
               IN  IF live = None
                     THEN /\ rot' = [rot EXCEPT !.pc = "replace", !.key = k, !.did = FALSE]
                          /\ UNCHANGED <<live, plain>>
                     ELSE /\ plain' = With(plain, k, live)
                          /\ live' = IF sc.link THEN live ELSE None
                          /\ rot' = [rot EXCEPT !.pc = IF sc.link THEN "unlink" ELSE "replace",
                                                !.key = k, !.did = TRUE]
            /\ UNCHANGED <<sc, fresh, proc>>
         \/ /\ \/ names = {} /\ Failed(proc) /\ UNCHANGED sc
               \/ Fault /\ Failed(Unclean)
            /\ fresh' = fresh \ {rot.tmp}
            /\ UNCHANGED <<live, plain>>
  /\ UNCHANGED <<now, gz, gztmp, size, files, comp>>

\* _clog_publish_no_replace where the rename is a link and an unlink.
RotateUnlink ==
  /\ rot.pc = "unlink"
  /\ live' = None
  /\ rot' = [rot EXCEPT !.pc = "replace"]
  /\ UNCHANGED <<sc, now, fresh, plain, gz, gztmp, size, files, proc, comp>>

\* The new file takes the live name and becomes the descriptor; the old
\* name comes back when that fails.  Then the deletion pass lists the
\* directory.
Adopted ==
  [proc EXCEPT !.fd = rot.tmp, !.last = rot.key, !.lastRotation = now]

RotateReplace ==
  /\ rot.pc = "replace"
  /\ fresh' = fresh \ {rot.tmp}
  /\ \/ /\ live' = rot.tmp
        /\ proc' = Adopted
        /\ rot' = [rot EXCEPT !.pc = "list"]
        /\ UNCHANGED <<sc, plain>>
     \/ /\ Fault
        /\ Failed(Unclean)
        /\ \/ /\ rot.did
              /\ live' = plain[rot.key]
              /\ plain' = Without(plain, rot.key)
           \/ /\ ~rot.did \/ sc.rollbackFails
              /\ UNCHANGED <<live, plain>>
  /\ UNCHANGED <<now, gz, gztmp, size, files, comp>>

\* _prune_rotated lists; a listing that cannot finish deletes nothing.
RotateList ==
  /\ rot.pc = "list"
  /\ LET just == IF rot.did THEN rot.key ELSE None
     IN  \/ \E missed \in BOOLEAN :
              /\ missed => comp.running # None
              /\ rot' = [rot EXCEPT !.pc = "prune", !.doomed = Excess(Listed(missed)) \ Protected(just)]
              /\ comp' = [comp EXCEPT !.deferred = @ \/ Excess(Listed(missed)) \cap Protected(just) # {}]
              /\ UNCHANGED <<sc, proc>>
         \/ /\ Fault
            /\ proc' = Unclean
            /\ rot' = [rot EXCEPT !.pc = "prune", !.doomed = {}]
            /\ UNCHANGED comp
  /\ UNCHANGED <<now, disk>>

\* One generation goes, whichever names it has.
PruneOne ==
  /\ rot.doomed # {}
  /\ LET k == OldestOf(rot.doomed)
     IN  /\ plain' = Without(plain, k)
         /\ gz' = Without(gz, k)
         /\ rot' = [rot EXCEPT !.doomed = @ \ {k}]
  /\ UNCHANGED <<sc, now, live, fresh, gztmp, size, files, proc, comp>>

\* The old descriptor is closed and the rotated file queued.
RotateQueue ==
  /\ rot.pc = "prune" /\ rot.doomed = {}
  /\ rot' = [NoRotation EXCEPT !.pc = rot.next]
  /\ \/ /\ comp' = IF rot.did THEN Enqueued(comp, rot.key) ELSE comp
        /\ UNCHANGED <<sc, proc>>
     \/ /\ rot.did
        /\ Fault
        /\ proc' = Unclean
        /\ UNCHANGED comp
  /\ UNCHANGED <<now, disk>>

(***************************************************************************)
(* The compressor thread, _clog_compressor_main and _gzip_compress_file.   *)
(***************************************************************************)
Running == proc.status \in {"opening", "up", "closing"}

\* A ".gz.tmp" file an earlier job could not remove is removed now.
Retried == gztmp \ comp.left

CompressTake ==
  /\ comp.pc = "wait" /\ MutexFree /\ proc.status # "opening"
  /\ comp.queue # <<>>
  /\ gztmp' = Retried
  /\ comp' = [comp EXCEPT !.pc = "open", !.running = Head(comp.queue), !.queue = Tail(@),
                          !.left = {}]
  /\ UNCHANGED <<sc, now, live, fresh, plain, gz, size, files, proc, rot>>

\* The source is opened and the output made under its temporary name.
CompressOpen ==
  /\ comp.pc = "open"
  /\ LET k == comp.running
     IN  \/ /\ k \in DOMAIN plain /\ k \notin DOMAIN gz
            /\ gztmp' = gztmp \union {k}
            /\ comp' = [comp EXCEPT !.pc = "copy", !.src = plain[k]]
            /\ UNCHANGED <<sc, proc>>
         \/ /\ IF k \notin DOMAIN plain \/ k \in DOMAIN gz
                 THEN UNCHANGED <<sc, proc>> ELSE Fault /\ proc' = Unclean
            /\ comp' = [comp EXCEPT !.pc = "finish"]
            /\ UNCHANGED gztmp
  /\ UNCHANGED <<now, live, fresh, plain, gz, size, files, rot>>

\* The output is removed; when even that fails the job remembers it.
Abandon ==
  \/ /\ gztmp' = gztmp \ {comp.running}
     /\ comp' = [comp EXCEPT !.pc = "finish"]
  \/ /\ UNCHANGED gztmp
     /\ comp' = [comp EXCEPT !.pc = "finish", !.keepTmp = TRUE]

CompressCopy ==
  /\ comp.pc = "copy"
  /\ \/ /\ comp' = [comp EXCEPT !.pc = "publish", !.got = <<comp.src, size[comp.src]>>]
        /\ UNCHANGED <<sc, proc, gztmp>>
     \/ /\ Fault
        /\ proc' = Unclean
        /\ Abandon
  /\ UNCHANGED <<now, live, fresh, plain, gz, size, files, rot>>

CompressPublish ==
  /\ comp.pc = "publish"
  /\ gz' = With(gz, comp.running, comp.got)
  /\ gztmp' = IF sc.link THEN gztmp ELSE gztmp \ {comp.running}
  /\ comp' = [comp EXCEPT !.pc = IF sc.link THEN "linked" ELSE "unlink"]
  /\ UNCHANGED <<sc, now, live, fresh, plain, size, files, proc, rot>>

CompressUnlinkTmp ==
  /\ comp.pc = "linked"
  /\ gztmp' = gztmp \ {comp.running}
  /\ comp' = [comp EXCEPT !.pc = "unlink"]
  /\ UNCHANGED <<sc, now, live, fresh, plain, gz, size, files, proc, rot>>

\* The source goes, only if the name still holds the file that was read.
CompressUnlink ==
  /\ comp.pc = "unlink"
  /\ plain' = IF comp.running \in DOMAIN plain /\ plain[comp.running] = comp.src
                THEN Without(plain, comp.running) ELSE plain
  /\ comp' = [comp EXCEPT !.pc = "finish"]
  /\ UNCHANGED <<sc, now, live, fresh, gz, gztmp, size, files, proc, rot>>

\* Back under the mutex: a deletion pass that was put off runs now.
CompressFinish ==
  /\ comp.pc = "finish" /\ MutexFree
  /\ comp' = [comp EXCEPT !.running = None, !.src = None, !.got = None, !.keepTmp = FALSE,
                          !.left = IF comp.keepTmp THEN @ \union {comp.running} ELSE @,
                          !.deferred = FALSE,
                          !.pc = IF comp.deferred THEN "prune" ELSE "wait"]
  /\ rot' = IF comp.deferred THEN [rot EXCEPT !.doomed = Excess(Generations)] ELSE rot
  /\ UNCHANGED <<sc, now, disk, proc>>

CompressPruned ==
  /\ comp.pc = "prune" /\ rot.doomed = {}
  /\ comp' = [comp EXCEPT !.pc = "wait"]
  /\ UNCHANGED <<sc, now, disk, proc, rot>>

(***************************************************************************)
(* Closing: _shared_compressor_teardown joins a compressor that has        *)
(* emptied its queue, then the descriptor is closed.                       *)
(***************************************************************************)
CloseBegin ==
  /\ proc.status = "up" /\ MutexFree
  /\ proc' = [proc EXCEPT !.status = "closing"]
  /\ UNCHANGED <<sc, now, disk, rot, comp>>

CloseEnd ==
  /\ proc.status = "closing" /\ MutexFree
  /\ comp.pc \in {"none", "wait"} /\ comp.queue = <<>>
  /\ gztmp' = Retried
  /\ proc' = [Down EXCEPT !.status = "closed", !.clean = proc.clean]
  /\ comp' = NoCompressor
  /\ UNCHANGED <<sc, now, live, fresh, plain, gz, size, files, rot>>

(***************************************************************************)
(* The environment: the process dies, the wall clock moves.                *)
(***************************************************************************)
Crash ==
  /\ Running
  /\ sc.crashes > 0
  /\ sc' = [sc EXCEPT !.crashes = @ - 1]
  /\ proc' = Down /\ rot' = NoRotation /\ comp' = NoCompressor
  /\ UNCHANGED <<now, disk>>

Tick ==
  /\ sc.ticks > 0
  /\ sc' = [sc EXCEPT !.ticks = @ - 1]
  /\ now' \in 0 .. MaxTime
  /\ now' # now
  /\ now' > now \/ sc.clockBack
  /\ UNCHANGED <<disk, proc, rot, comp>>

Rotation ==
  \/ RotateCreate \/ RotateRename \/ RotateUnlink \/ RotateReplace
  \/ RotateList \/ PruneOne \/ RotateQueue

Compression ==
  \/ CompressTake \/ CompressOpen \/ CompressCopy \/ CompressPublish
  \/ CompressUnlinkTmp \/ CompressUnlink \/ CompressFinish \/ CompressPruned

Recovery ==
  \/ \E i \in fresh : RemoveStaleTmp(i)
  \/ \E k \in gztmp : RemoveStaleGz(k)
  \/ \E k \in DOMAIN plain : Requeue(k)
  \/ Opened

Next ==
  \/ Open \/ Recovery \/ TimeRotate \/ Write \/ Rotation \/ Compression
  \/ CloseBegin \/ CloseEnd \/ Crash \/ Tick

Spec == Init /\ [][Next]_vars

(***************************************************************************)
(* Properties.                                                             *)
(***************************************************************************)
\* The whole of file i is on disk under some finished name.
Retained(i) ==
  \/ i = live
  \/ i \in Range(plain)
  \/ \E k \in DOMAIN gz : gz[k][1] = i /\ gz[k][2] >= size[i]

Holds(k) == IF k \in DOMAIN plain THEN plain[k] ELSE gz[k][1]

(* A record that was written stays on disk, in the live file, in a rotated *)
(* file or in a whole ".gz" file, until max_rotated_files later files have *)
(* been rotated: whatever crash, failing call or clock step falls between  *)
(* the two renames, the deletion pass, the compression and its recovery.   *)
KeepsNewest ==
  \A i \in Inodes :
    size[i] > 0 => \/ Retained(i)
                   \/ Cardinality({k \in OnDisk : Holds(k) > i}) >= sc.keep

(* Once a rotation of this process has finished and no compression holds a *)
(* generation back, at most max_rotated_files are left: the pass that had  *)
(* to spare the running compression is made up for.                        *)
KeepsAtMost ==
  /\ proc.status = "up" /\ proc.clean /\ proc.fd # proc.opened
  /\ MutexFree /\ comp.running = None
  => Cardinality(OnDisk) <= sc.keep

(* A process that closes its log after a life without failing calls leaves *)
(* no temporary file and no uncompressed generation, those of the crashed  *)
(* processes before it included.                                           *)
CleanClose ==
  proc.status = "closed" /\ proc.clean => fresh = {} /\ gztmp = {} /\ DOMAIN plain = {}

(* The name a rotation gives the live file sorts above every rotated name   *)
(* before it, as the comment of _rotate requires for the deletion pass.     *)
NewNameIsNewest ==
  rot.pc \in {"unlink", "replace"} /\ rot.did
  => \A k \in OnDisk \ {rot.key} : Older(k, rot.key)

(* The newest max_rotated_files files survive, and only they.              *)
RetentionKept == KeepsNewest /\ KeepsAtMost
=============================================================================
