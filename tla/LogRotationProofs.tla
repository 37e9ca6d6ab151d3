-------------------------- MODULE LogRotationProofs --------------------------
(***************************************************************************)
(* Proofs about LogRotation, for every configuration, any number of files, *)
(* crashes, failing calls and clock steps.                                 *)
(*                                                                         *)
(* LogInv rests on the order of the names being the order of the files     *)
(* (MonoInv): then the newest names hold the newest records, and what the  *)
(* deletion pass deletes, enough later files outlive.  A rotation that     *)
(* takes its name back is why some parts speak of the settled names only.  *)
(*                                                                         *)
(* The clock is trusted where no name on disk is past the tolerance of     *)
(* _clog_gen_filter_init, which makes such a name a foreign file that the  *)
(* logger must leave alone, and where a rotation that could not be undone  *)
(* is not followed by a step back of the clock (RotationNames.cfg shows    *)
(* what follows when it is).                                               *)
(***************************************************************************)
EXTENDS LogRotation, SequenceLemmas

\* The names a rotation may still take back, and those that stay.
Pending == rot.pc \in {"unlink", "replace"} /\ rot.did
Settled == IF Pending THEN OnDisk \ {rot.key} ELSE OnDisk

\* The generations of queued and running compressions.
Busy == Range(comp.queue) \cup ({comp.running} \ {None})

AtMost(k, l) == k = l \/ Older(k, l)
LaterThan(k, S) == {l \in S : Older(k, l)}
Newer(i) == {k \in Settled : Holds(k) > i}

\* Inode i needs no rotated name: it is the live file, or enough later files
\* have been rotated.
Safe(i) == live = i \/ Cardinality(Newer(i)) >= sc.keep

\* A copy of n records of inode i under name k suffices.
Enough(k, i, n) ==
  \/ n >= size[i]
  \/ Safe(i)
  \/ \E m \in OnDisk : Older(k, m) /\ Holds(m) = i

ProcType ==
  [status : {"down", "closed", "opening", "up", "closing"}, fd : Inodes \cup {None},
   opened : Inodes \cup {None}, last : Keys \cup {None}, lastRotation : Int, retryAfter : Int,
   clean : BOOLEAN]
RotType ==
  [pc : {"idle", "create", "rename", "unlink", "replace", "list", "prune", "write"},
   next : {"idle", "write"}, key : ((0 .. MaxTime) \X Nat) \cup {None},
   tmp : Inodes \cup {None}, did : BOOLEAN, doomed : SUBSET Keys]
CompType ==
  [pc : {"none", "wait", "open", "copy", "publish", "linked", "unlink", "finish", "prune"},
   queue : Seq(Keys), running : Keys \cup {None}, src : Inodes \cup {None},
   got : (Inodes \X Nat) \cup {None}, left : SUBSET Keys, keepTmp : BOOLEAN, deferred : BOOLEAN]

\* The types of the variables.
TypeInv ==
  /\ now \in 0 .. MaxTime /\ files \in 0 .. MaxFiles
  /\ sc \in ScenarioType
  /\ proc \in ProcType /\ rot \in RotType /\ comp \in CompType
  /\ size \in [Inodes -> Nat]
  /\ gztmp \subseteq Keys /\ fresh \subseteq 1 .. files

\* What is on disk was made, and by one file.
FilesInv ==
  /\ live # None => live \in 1 .. files
  /\ DOMAIN plain \subseteq Keys /\ \A k \in DOMAIN plain : plain[k] \in 1 .. files
  /\ DOMAIN gz \subseteq Keys
  /\ \A k \in DOMAIN gz : gz[k] \in (1 .. files) \X Nat
  /\ \A k \in DOMAIN gz : k \in DOMAIN plain => gz[k][1] = plain[k]

Active == proc.status \in {"opening", "up", "closing"}

\* What the process, the rotation and the compressor are doing at a time.
PhaseInv ==
  /\ ~Active => rot.pc = "idle" /\ rot.doomed = {} /\ comp = NoCompressor
  /\ proc.status = "opening" => rot.pc = "idle" /\ comp.pc \in {"none", "wait"} /\ ~comp.deferred
  /\ proc.status = "closing" => rot.pc = "idle"
  /\ comp.pc = "prune" => rot.pc = "idle"
  /\ rot.doomed # {} => rot.pc = "prune" \/ comp.pc = "prune"
  /\ comp.running = None <=> comp.pc \in {"none", "wait", "prune"}
  /\ comp.pc = "none" => comp.queue = <<>>
  /\ comp.deferred => proc.last # None
  /\ comp.pc = "prune" => proc.last # None

\* The order of the names is the order of the files.
MonoInv ==
  /\ \A k, l \in OnDisk : Older(k, l) => Holds(k) <= Holds(l)
  /\ live # None => \A k \in OnDisk : Holds(k) <= live

\* The next live file is newer than every file with a name.
TmpInv ==
  rot.pc \in {"rename", "unlink", "replace"} =>
    /\ rot.tmp \in 1 .. files
    /\ \A k \in OnDisk : Holds(k) < rot.tmp
    /\ live # None => live < rot.tmp

\* Nothing on disk is newer than the last name, but for a name that could not
\* be taken back; the next one sorts above that too unless the clock steps back.
LastInv ==
  Active =>
    /\ proc.last # None =>
         \A k \in Settled : \/ AtMost(k, proc.last)
                            \/ live = None /\ ~Pending /\ ~sc.clockBack /\ AtMost(k, FirstName(proc.last))
    /\ proc.last = None /\ rot.pc \in {"rename", "unlink", "replace"} => Settled = {}

\* The name of the rotation in progress is newer than every other.
KeyInv ==
  /\ rot.pc = "rename" =>
       /\ rot.key # None
       /\ \A k \in OnDisk : AtMost(k, rot.key)
       /\ proc.last # None => /\ Older(proc.last, rot.key)
                              /\ ~sc.clockBack => AtMost(rot.key, FirstName(proc.last))
  /\ rot.pc \in {"unlink", "replace"} =>
       /\ rot.key \in Keys /\ rot.key \notin Busy
       /\ \A k \in Settled : Older(k, rot.key)
       /\ proc.last # None => Older(proc.last, rot.key)
       /\ rot.did => /\ rot.key \in DOMAIN plain /\ rot.key \notin DOMAIN gz
                     /\ proc.last # None /\ ~sc.clockBack => AtMost(rot.key, FirstName(proc.last))
       /\ rot.pc = "unlink" => rot.did
  /\ rot.pc \in {"list", "prune"} =>
       /\ rot.key \in Keys /\ rot.key = proc.last
       /\ \A k \in OnDisk : AtMost(k, rot.key)
       /\ rot.did => /\ rot.key \in DOMAIN plain /\ rot.key \notin DOMAIN gz
                     /\ rot.key \notin Busy /\ rot.key \notin rot.doomed

\* No compression is of a name newer than the last rotation's.
BusyInv ==
  /\ proc.last = None => Busy \subseteq OnDisk
  /\ proc.last # None => \A p \in Busy : AtMost(p, proc.last)

\* A compression of a generation that is gone is of one past keeping.
PhantomInv == \A p \in Busy \ OnDisk : Cardinality(LaterThan(p, Settled)) >= sc.keep

\* The running compression reads the file its name still holds.
CompInv ==
  /\ comp.pc \in {"copy", "publish", "linked", "unlink"} =>
       comp.running \in DOMAIN plain /\ plain[comp.running] = comp.src
  /\ comp.pc \in {"publish", "linked", "unlink"} =>
       comp.got # None /\ comp.got[1] = comp.src /\ Enough(comp.running, comp.src, comp.got[2])
  /\ comp.pc \in {"linked", "unlink"} => comp.running \in DOMAIN gz /\ gz[comp.running] = comp.got

\* What only a ".gz" file holds is whole, or need not be.
CopyInv == \A k \in DOMAIN gz \ DOMAIN plain : Enough(k, gz[k][1], gz[k][2])

\* The file behind the descriptor when its rotated name could not be taken back.
Stranded ==
  /\ live = None
  /\ \E k \in DOMAIN plain : /\ plain[k] = proc.fd /\ k \notin Busy
                             /\ \A l \in OnDisk \ {k} : Older(l, k)

FdInv ==
  Active =>
    /\ proc.fd \in 1 .. files
    /\ proc.status = "opening" => live = proc.fd
    /\ rot.pc \in {"list", "prune"} => live = proc.fd
    /\ rot.pc = "unlink" => live = proc.fd
    /\ Pending => plain[rot.key] = proc.fd
    /\ rot.pc = "replace" => live = None
    /\ ~Pending => live = proc.fd \/ Stranded

\* What the deletion pass will delete, enough newer generations outlive.
DoomedInv ==
  /\ comp.running \notin rot.doomed
  /\ \A d \in rot.doomed : Cardinality(LaterThan(d, OnDisk \ rot.doomed)) >= sc.keep

\* A file with records is safe, or has a name.
HeldInv == \A i \in Inodes : size[i] > 0 => Safe(i) \/ \E k \in OnDisk : Holds(k) = i

\* After a rotation only what the pass or the running compression still holds
\* is too much.
KeepInv ==
  Active /\ proc.clean /\ proc.fd # proc.opened /\ rot.pc # "list" =>
    \/ Cardinality(Settled \ rot.doomed) <= sc.keep
    \/ /\ comp.running # None /\ comp.deferred
       /\ Cardinality((Settled \ rot.doomed) \ {comp.running}) <= sc.keep

\* After a life without failing calls only the work in hand is unfinished.
UpClean ==
  /\ fresh \subseteq IF rot.pc \in {"rename", "unlink", "replace"} THEN {rot.tmp} ELSE {}
  /\ comp.left = {} /\ ~comp.keepTmp
  /\ gztmp \subseteq IF comp.pc \in {"copy", "publish", "linked"} THEN {comp.running} ELSE {}
  /\ DOMAIN plain \subseteq
       Busy \cup IF rot.pc \in {"unlink", "replace", "list", "prune"} /\ rot.did THEN {rot.key} ELSE {}
  /\ comp.pc = "finish" => comp.running \notin DOMAIN plain
  /\ comp.pc \in {"open", "copy", "publish"} => comp.running \notin DOMAIN gz

QueueClean == \A k \in Range(comp.queue) : k \notin DOMAIN gz

CleanInv ==
  /\ proc.status \in {"up", "closing"} /\ proc.clean => UpClean
  /\ proc.clean => QueueClean
  /\ proc.status = "opening" => proc.clean /\ comp.left = {} /\ ~comp.keepTmp
  /\ CleanClose

\* No generation is in two compressions.
QueueInv == Distinct(comp.queue) /\ comp.running \notin Range(comp.queue)

\* No name on disk is so far ahead of the clock that the logger takes it for
\* a foreign file, and a rotation that cannot be undone is not followed by a
\* step back of the clock.
ClockTrusted ==
  /\ \A k \in OnDisk \cup gztmp : k[1] <= now + Tolerance
  /\ ~(sc.rollbackFails /\ sc.clockBack)

-----------------------------------------------------------------------------
(***************************************************************************)
(* Names are finite in number and in order.                                *)
(***************************************************************************)
LEMMA OrderFacts ==
  ASSUME NEW k \in Nat \X Nat, NEW l \in Nat \X Nat, NEW m \in Nat \X Nat
  PROVE  /\ ~Older(k, k)
         /\ Older(k, l) /\ Older(l, m) => Older(k, m)
         /\ k # l => Older(k, l) \/ Older(l, k)
         /\ ~(Older(k, l) /\ Older(l, k))
BY DEF Older

LEMMA KeysFinite == Keys \subseteq Nat \X Nat /\ \A S \in SUBSET Keys : IsFiniteSet(S) /\ Cardinality(S) \in Nat
<1>1. IsFiniteSet(0 .. MaxTime) /\ IsFiniteSet(0 .. SeqMax) BY LogAssumption, FS_Interval
<1>2. IsFiniteSet(Keys) BY <1>1, FS_Product DEF Keys
<1>3. Keys \subseteq Nat \X Nat BY LogAssumption DEF Keys
<1> QED BY <1>2, <1>3, FS_Subset, FS_CardinalityType

\* A set of naturals that is not empty has a least element.
LEMMA LeastNat ==
  ASSUME NEW S \in SUBSET Nat, S # {}
  PROVE  \E n \in S : \A m \in S : n <= m
<1> DEFINE T == {n \in Nat : \A m \in S : n <= m}
<1>1. SUFFICES ASSUME \A n \in S : n \notin T PROVE FALSE OBVIOUS
<1>2. 0 \in T OBVIOUS
<1>3. \A n \in T : n + 1 \in T
  <2> TAKE n \in T
  <2>1. \A m \in S : n <= m /\ n # m BY <1>1
  <2> QED BY <2>1
<1>4. T \in SUBSET Nat OBVIOUS
<1> HIDE DEF T
<1>5. T = Nat BY <1>2, <1>3, <1>4, NatSetInduction
<1>6. PICK s \in S : TRUE OBVIOUS
<1> QED BY <1>1, <1>5, <1>6

\* So has a set of names an oldest one, and a newest one.
LEMMA OldestExists ==
  ASSUME NEW S \in SUBSET Keys, S # {}
  PROVE  \E k \in S : \A l \in S \ {k} : Older(k, l)
<1>1. S \subseteq Nat \X Nat BY KeysFinite
<1> DEFINE A == {k[1] : k \in S}
<1>2. A \in SUBSET Nat /\ A # {} BY <1>1
<1>3. PICK a \in A : \A m \in A : a <= m BY <1>2, LeastNat
<1> DEFINE B == {k[2] : k \in {x \in S : x[1] = a}}
<1>4. B \in SUBSET Nat /\ B # {} BY <1>1
<1> HIDE DEF B
<1>5. PICK b \in B : \A m \in B : b <= m BY <1>4, LeastNat
<1>6. PICK k \in S : k[1] = a /\ k[2] = b BY <1>5 DEF B
<1>7. ASSUME NEW l \in S \ {k} PROVE Older(k, l)
  <2>1. a <= l[1] BY <1>3
  <2>2. l[1] = a => b <= l[2] BY <1>5 DEF B
  <2>3. k \in Nat \X Nat /\ l \in Nat \X Nat BY <1>1
  <2> QED BY <1>6, <2>1, <2>2, <2>3 DEF Older
<1> QED BY <1>7

LEMMA NewestExists ==
  ASSUME NEW S \in SUBSET Keys, S # {}
  PROVE  \E k \in S : \A l \in S \ {k} : Older(l, k)
<1> DEFINE flip(k) == <<MaxTime - k[1], SeqMax - k[2]>>
<1>1. \A k \in Keys : flip(k) \in Keys /\ k[1] \in 0 .. MaxTime /\ k[2] \in 0 .. SeqMax /\ k = <<k[1], k[2]>>
  BY LogAssumption DEF Keys
<1> DEFINE F == {flip(k) : k \in S}
<1>2. F \in SUBSET Keys /\ F # {} BY <1>1
<1> HIDE DEF F
<1>3. PICK f \in F : \A l \in F \ {f} : Older(f, l) BY <1>2, OldestExists
<1>4. PICK k \in S : f = flip(k) BY DEF F
<1>5. ASSUME NEW l \in S \ {k} PROVE Older(l, k)
  <2>1. flip(l) \in F BY DEF F
  <2>2. MaxTime \in Nat /\ SeqMax \in Nat BY LogAssumption
  <2>3. ASSUME flip(l) = flip(k) PROVE FALSE
    <3>1. k \in Keys /\ l \in Keys OBVIOUS
    <3>2. MaxTime - l[1] = MaxTime - k[1] /\ SeqMax - l[2] = SeqMax - k[2] BY <2>3
    <3>a. k[1] \in 0 .. MaxTime /\ l[1] \in 0 .. MaxTime /\ k[2] \in 0 .. SeqMax /\ l[2] \in 0 .. SeqMax
      BY <1>1, <3>1
    <3> HIDE DEF flip
    <3>3. l[1] = k[1] /\ l[2] = k[2] BY <2>2, <3>a, <3>2
    <3>4. l = k BY <1>1, <3>1, <3>3, Zenon
    <3> QED BY <3>4
  <2>4. Older(flip(k), flip(l)) BY <1>3, <1>4, <2>1, <2>3
  <2>5. k[1] \in 0 .. MaxTime /\ l[1] \in 0 .. MaxTime /\ k[2] \in 0 .. SeqMax /\ l[2] \in 0 .. SeqMax BY <1>1
  <2> QED BY <2>2, <2>4, <2>5 DEF Older
<1> QED BY <1>5

LEMMA OldestIs ==
  ASSUME NEW S \in SUBSET Keys, S # {}
  PROVE  OldestOf(S) \in S /\ \A l \in S \ {OldestOf(S)} : Older(OldestOf(S), l)
BY OldestExists DEF OldestOf

LEMMA NewestIs ==
  ASSUME NEW S \in SUBSET Keys, S # {}
  PROVE  NewestOf(S) \in S /\ \A l \in S \ {NewestOf(S)} : Older(l, NewestOf(S))
BY NewestExists DEF NewestOf

\* Counting later names.
LEMMA LaterGrows ==
  ASSUME NEW S \in SUBSET Keys, NEW T \in SUBSET Keys, S \subseteq T,
         NEW d \in Keys, NEW e \in Keys, AtMost(d, e)
  PROVE  Cardinality(LaterThan(e, S)) <= Cardinality(LaterThan(d, T))
<1>1. Keys \subseteq Nat \X Nat BY KeysFinite
<1>2. LaterThan(e, S) \subseteq LaterThan(d, T)
  <2> SUFFICES ASSUME NEW l \in S, Older(e, l) PROVE l \in T /\ Older(d, l) BY DEF LaterThan
  <2>1. d \in Nat \X Nat /\ e \in Nat \X Nat /\ l \in Nat \X Nat BY <1>1
  <2> QED BY <2>1, OrderFacts DEF AtMost
<1>3. LaterThan(d, T) \in SUBSET Keys /\ LaterThan(e, S) \in SUBSET Keys BY DEF LaterThan
<1> QED BY <1>2, <1>3, KeysFinite, FS_Subset

\* What a deletion pass spares is newer than what it deletes, and no more than
\* it may keep.
LEMMA ExcessSpares ==
  ASSUME NEW L \in SUBSET Keys, NEW d \in Excess(L), sc.keep \in Nat \ {0}
  PROVE  Cardinality(LaterThan(d, L \ Excess(L))) >= sc.keep
<1>1. Excess(L) \in SUBSET Keys /\ Excess(L) # {} BY DEF Excess
<1>2. PICK e \in Excess(L) : \A l \in Excess(L) \ {e} : Older(l, e) BY <1>1, NewestExists
<1>3. LaterThan(e, L) \subseteq L \ Excess(L)
  <2> SUFFICES ASSUME NEW l \in Excess(L), Older(e, l) PROVE FALSE BY DEF LaterThan
  <2>1. l \in Nat \X Nat /\ e \in Nat \X Nat BY <1>1, KeysFinite
  <2> QED BY <1>2, <2>1, OrderFacts
<1>4. LaterThan(e, L) = LaterThan(e, L \ Excess(L)) BY <1>3 DEF LaterThan
<1>5. Cardinality(LaterThan(e, L)) >= sc.keep BY DEF Excess, LaterThan
<1>6. AtMost(d, e) BY <1>2 DEF AtMost
<1>7. L \ Excess(L) \in SUBSET Keys /\ d \in Keys /\ e \in Keys BY <1>1
<1>8. Cardinality(LaterThan(e, L \ Excess(L))) <= Cardinality(LaterThan(d, L \ Excess(L)))
  BY <1>6, <1>7, LaterGrows
<1>9. LaterThan(e, L \ Excess(L)) \in SUBSET Keys /\ LaterThan(d, L \ Excess(L)) \in SUBSET Keys
  BY <1>7 DEF LaterThan
<1>10. Cardinality(LaterThan(e, L \ Excess(L))) \in Nat /\ Cardinality(LaterThan(d, L \ Excess(L))) \in Nat
  BY <1>9, KeysFinite
<1>11. Cardinality(LaterThan(e, L \ Excess(L))) >= sc.keep BY <1>4, <1>5
<1> QED BY <1>8, <1>10, <1>11

LEMMA ExcessBound ==
  ASSUME NEW L \in SUBSET Keys, sc.keep \in Nat \ {0}
  PROVE  Cardinality(L \ Excess(L)) <= sc.keep
<1> DEFINE T == L \ Excess(L)
<1>1. T \in SUBSET Keys OBVIOUS
<1>2. CASE T = {} BY <1>2, FS_EmptySet
<1>3. CASE T # {}
  <2> HIDE DEF T
  <2>1. PICK t \in T : \A l \in T \ {t} : Older(t, l) BY <1>1, <1>3, OldestExists
  <2>2. Cardinality(LaterThan(t, L)) < sc.keep
    <3>1. t \in L /\ ~(Cardinality(LaterThan(t, L)) >= sc.keep) BY <2>1 DEF T, Excess, LaterThan
    <3>2. LaterThan(t, L) \in SUBSET Keys BY DEF LaterThan
    <3> QED BY <3>1, <3>2, KeysFinite
  <2>3. T \ {t} \subseteq LaterThan(t, L) BY <2>1 DEF LaterThan, T
  <2>4. LaterThan(t, L) \in SUBSET Keys /\ T \ {t} \in SUBSET Keys BY <1>1 DEF LaterThan
  <2>5. Cardinality(T \ {t}) <= Cardinality(LaterThan(t, L)) BY <2>3, <2>4, KeysFinite, FS_Subset
  <2>6. Cardinality(T \ {t}) = Cardinality(T) - 1 BY <1>1, <2>1, KeysFinite, FS_RemoveElement
  <2>7. Cardinality(T) \in Nat /\ Cardinality(T \ {t}) \in Nat /\ Cardinality(LaterThan(t, L)) \in Nat
    BY <1>1, <2>4, KeysFinite
  <2> QED BY <2>2, <2>5, <2>6, <2>7 DEF T
<1> QED BY <1>2, <1>3

(***************************************************************************)
(* What each action changes. A fact about a step names the fields of the   *)
(* records it touches, and says that the others stay.                      *)
(***************************************************************************)

LEMMA GenerationsOnDisk ==
  ASSUME TypeInv, FilesInv
  PROVE  OnDisk \in SUBSET Keys /\ Generations \in SUBSET Keys
         /\ NewestOnDisk \in Keys \cup {None}
         /\ (NewestOnDisk # None => NewestOnDisk \in Generations)
<1>1. OnDisk \in SUBSET Keys /\ Generations \in SUBSET Keys BY DEF FilesInv, OnDisk, Generations
<1> QED BY <1>1, NewestIs DEF NewestOnDisk

LEMMA NoneFacts ==
  /\ None \notin Keys /\ None \notin Inodes /\ None \notin Nat /\ None \notin Nat \X Nat
  /\ None \notin (0 .. MaxTime) \X Nat /\ None \notin Inodes \X Nat
BY LogAssumption DEF Keys, Inodes

LEMMA OpenFacts ==
  ASSUME TypeInv, FilesInv, Open
  PROVE  /\ proc.status \in {"down", "closed"}
         /\ sc'.keep = sc.keep /\ sc' \in ScenarioType /\ sc'.clockBack = sc.clockBack
         /\ live' # None /\ proc'.fd = live' /\ proc'.opened = live' /\ proc'.status = "opening" /\ proc'.clean
         /\ proc'.last = IF live # None /\ size[live] > 0 THEN NewestOnDisk ELSE None
         /\ rot' = NoRotation /\ comp' = NoCompressor
         /\ UNCHANGED <<now, fresh, plain, gz, gztmp, size>>
         /\ \/ live = None /\ files < MaxFiles /\ files' = files + 1 /\ live' = files + 1
            \/ live # None /\ UNCHANGED <<files, live>>
         /\ proc' \in ProcType
<1>1. sc \in ScenarioType /\ sc' = [sc EXCEPT !.opens = @ - 1] BY DEF TypeInv, Open
<1>2. sc'.keep = sc.keep /\ sc' \in ScenarioType /\ sc'.clockBack = sc.clockBack BY <1>1 DEF ScenarioType
<1>3. \/ live = None /\ files < MaxFiles /\ files' = files + 1 /\ live' = files + 1
      \/ live # None /\ UNCHANGED <<files, live>>
  BY DEF Open
<1>4. live' # None /\ live' \in Inodes
  <2>1. files \in Nat /\ files <= MaxFiles /\ MaxFiles \in Nat BY LogAssumption DEF TypeInv
  <2>2. live # None => live \in 1 .. files BY DEF FilesInv
  <2>3. files + 1 # None BY <2>1, NoneFacts
  <2> QED BY <1>3, <2>1, <2>2, <2>3 DEF Inodes
<1> DEFINE nn == IF live # None /\ size[live] > 0 THEN NewestOnDisk ELSE None
<1>5. PICK b \in 0 .. now : proc' =
         [Down EXCEPT !.status = "opening", !.fd = live', !.opened = live', !.last = nn,
                      !.lastRotation = IF (live # None /\ size[live] > 0) /\ (IF nn # None THEN nn[1] ELSE b) < now THEN (IF nn # None THEN nn[1] ELSE b) ELSE now]
  BY DEF Open
<1>6. nn \in Keys \cup {None} /\ now \in Nat BY GenerationsOnDisk, LogAssumption DEF TypeInv
<1> HIDE DEF nn
<1>7. \A r \in Int : (IF (live # None /\ size[live] > 0) /\ r < now THEN r ELSE now) \in Int BY <1>6
<1>8. (IF nn # None THEN nn[1] ELSE b) \in Int BY <1>6, LogAssumption DEF Keys
<1>9. PICK t \in Int : proc' = [Down EXCEPT !.status = "opening", !.fd = live', !.opened = live', !.last = nn,
                                             !.lastRotation = t]
  BY <1>5, <1>7, <1>8
<1>10. /\ proc'.fd = live' /\ proc'.opened = live' /\ proc'.status = "opening" /\ proc'.clean
       /\ proc'.last = nn
  BY <1>9 DEF Down
<1>11. proc' \in ProcType
  <2>1. PICK v : v = live' OBVIOUS
  <2>2. proc' = [status |-> "opening", fd |-> v, opened |-> v, last |-> nn,
                 lastRotation |-> t, retryAfter |-> 0, clean |-> TRUE]
    BY <1>9, <2>1 DEF Down
  <2> QED BY <1>4, <1>6, <2>1, <2>2 DEF ProcType
<1> QED BY <1>2, <1>3, <1>4, <1>10, <1>11 DEF Open, nn

LEMMA CreateFacts ==
  ASSUME TypeInv, FilesInv, RotateCreate
  PROVE  /\ rot.pc = "create" /\ UNCHANGED <<now, live, plain, gz, gztmp, size, comp>>
         /\ proc'.last = (IF proc.last = None THEN NewestOnDisk ELSE proc.last)
         /\ proc'.fd = proc.fd /\ proc'.opened = proc.opened /\ proc'.status = proc.status
         /\ proc' \in ProcType /\ rot' \in RotType
         /\ \/ /\ files < MaxFiles /\ files' = files + 1 /\ fresh' = fresh \cup {files + 1} /\ sc' = sc
               /\ proc'.clean = proc.clean
               /\ rot'.pc = "rename" /\ rot'.key = FirstName(proc'.last) /\ rot'.tmp = files + 1
               /\ rot'.doomed = rot.doomed
            \/ /\ UNCHANGED <<files, fresh>> /\ Fault
               /\ ~proc'.clean
               /\ rot' = [NoRotation EXCEPT !.pc = rot.next]
<1> DEFINE last == IF proc.last = None THEN NewestOnDisk ELSE proc.last
<1>1. proc \in ProcType /\ rot \in RotType /\ now \in 0 .. MaxTime /\ files \in 0 .. MaxFiles BY DEF TypeInv
<1>2. last \in Keys \cup {None} BY <1>1, GenerationsOnDisk DEF ProcType
<1>3. rot.pc = "create" /\ UNCHANGED <<now, live, plain, gz, gztmp, size, comp>> BY DEF RotateCreate
<1>4. \/ /\ files < MaxFiles /\ files' = files + 1 /\ fresh' = fresh \cup {files + 1} /\ sc' = sc
         /\ proc' = [proc EXCEPT !.last = last]
         /\ rot' = [rot EXCEPT !.pc = "rename", !.key = FirstName(last), !.tmp = files + 1]
      \/ /\ UNCHANGED <<files, fresh>> /\ Fault
         /\ proc' = [[[proc EXCEPT !.clean = FALSE] EXCEPT !.last = last] EXCEPT !.retryAfter = now + Backoff]
         /\ rot' = [NoRotation EXCEPT !.pc = rot.next]
  BY DEF RotateCreate, Failed, Unclean
<1>5. FirstName(last) \in (0 .. MaxTime) \X Nat
  BY <1>1, <1>2, LogAssumption, NoneFacts DEF FirstName, Keys
<1> HIDE DEF last
<1>6. /\ proc'.last = last /\ proc'.fd = proc.fd /\ proc'.opened = proc.opened /\ proc'.status = proc.status
      /\ proc' \in ProcType
  <2>1. CASE proc' = [proc EXCEPT !.last = last] BY <1>1, <1>2, <2>1 DEF ProcType
  <2>2. CASE proc' = [[[proc EXCEPT !.clean = FALSE] EXCEPT !.last = last] EXCEPT !.retryAfter = now + Backoff]
    <3>1. PICK p : p = [proc EXCEPT !.clean = FALSE] OBVIOUS
    <3>2. p \in ProcType /\ p.fd = proc.fd /\ p.opened = proc.opened /\ p.status = proc.status BY <1>1, <3>1 DEF ProcType
    <3>3. PICK q : q = [p EXCEPT !.last = last] OBVIOUS
    <3>4. q \in ProcType /\ q.fd = p.fd /\ q.opened = p.opened /\ q.status = p.status /\ q.last = last
      BY <1>2, <3>2, <3>3 DEF ProcType
    <3>5. proc' = [q EXCEPT !.retryAfter = now + Backoff] BY <2>2, <3>1, <3>3
    <3>6. now + Backoff \in Int BY <1>1, LogAssumption
    <3> QED BY <3>2, <3>4, <3>5, <3>6 DEF ProcType
  <2> QED BY <1>4, <2>1, <2>2
<1>7. rot' \in RotType
  <2>1. CASE rot' = [NoRotation EXCEPT !.pc = rot.next] BY <1>1, <2>1 DEF RotType, NoRotation
  <2>2. CASE rot' = [rot EXCEPT !.pc = "rename", !.key = FirstName(last), !.tmp = files + 1] /\ files < MaxFiles
    <3>1. PICK k, f : k = FirstName(last) /\ f = files + 1 OBVIOUS
    <3>2. k \in (0 .. MaxTime) \X Nat /\ f \in Inodes BY <1>1, <1>5, <2>2, <3>1, LogAssumption DEF Inodes
    <3>3. rot' = [rot EXCEPT !.pc = "rename", !.key = k, !.tmp = f] BY <2>2, <3>1
    <3> QED BY <1>1, <3>2, <3>3 DEF RotType
  <2> QED BY <1>4, <2>1, <2>2
<1>8. \/ /\ files < MaxFiles /\ files' = files + 1 /\ fresh' = fresh \cup {files + 1} /\ sc' = sc
         /\ proc'.clean = proc.clean
         /\ rot'.pc = "rename" /\ rot'.key = FirstName(last) /\ rot'.tmp = files + 1
         /\ rot'.doomed = rot.doomed
      \/ /\ UNCHANGED <<files, fresh>> /\ Fault /\ ~proc'.clean
         /\ rot' = [NoRotation EXCEPT !.pc = rot.next]
  BY <1>1, <1>4 DEF ProcType, RotType
<1> QED BY <1>3, <1>6, <1>7, <1>8 DEF last

\* What changes in a record is what the action names.
LEMMA EnqueuedFacts ==
  ASSUME NEW c \in CompType, NEW k \in Keys, NEW d, d = Enqueued(c, k)
  PROVE  /\ d \in CompType
         /\ d.queue = Append(c.queue, k) /\ Range(d.queue) = Range(c.queue) \cup {k}
         /\ Distinct(c.queue) /\ k \notin Range(c.queue) => Distinct(d.queue)
         /\ d.pc = IF c.pc = "none" THEN "wait" ELSE c.pc
         /\ d.running = c.running /\ d.src = c.src /\ d.got = c.got /\ d.left = c.left
         /\ d.keepTmp = c.keepTmp /\ d.deferred = c.deferred
<1>1. c.queue \in Seq(Keys) BY DEF CompType
<1>2. PICK q : q = Append(c.queue, k) OBVIOUS
<1>3. q \in Seq(Keys) BY <1>1, <1>2
<1>4. PICK x : x = IF c.pc = "none" THEN "wait" ELSE c.pc OBVIOUS
<1>5. d = [c EXCEPT !.queue = q, !.pc = x] BY <1>2, <1>4 DEF Enqueued
<1>6. x \in {"wait", "open", "copy", "publish", "linked", "unlink", "finish", "prune"} BY <1>4 DEF CompType
<1>7. d \in CompType BY <1>3, <1>5, <1>6 DEF CompType
<1>8. /\ d.queue = q /\ d.pc = x
      /\ d.running = c.running /\ d.src = c.src /\ d.got = c.got /\ d.left = c.left
      /\ d.keepTmp = c.keepTmp /\ d.deferred = c.deferred
  BY <1>5 DEF CompType
<1>9. Range(q) = Range(c.queue) \cup {k} /\ (Distinct(c.queue) /\ k \notin Range(c.queue) => Distinct(q))
  <2>1. PICK s \in Seq(Keys) : s = c.queue BY <1>1
  <2>2. Elems(Append(s, k)) = Elems(s) \cup {k} /\ (Distinct(s) /\ k \notin Elems(s) => Distinct(Append(s, k)))
    BY AppendElems
  <2>3. Range(s) = Elems(s) /\ Range(q) = Elems(q) BY <1>3, RangeElems
  <2> QED BY <1>2, <2>1, <2>2, <2>3
<1> QED BY <1>2, <1>4, <1>7, <1>8, <1>9

LEMMA TimeRotateFacts ==
  ASSUME TypeInv, TimeRotate
  PROVE  /\ rot'.pc = "create" /\ rot'.key = rot.key /\ rot'.tmp = rot.tmp /\ rot'.did = rot.did
         /\ rot'.doomed = rot.doomed /\ rot' \in RotType
         /\ proc.status = "up" /\ rot.pc = "idle" /\ comp.pc # "prune"
         /\ UNCHANGED <<sc, now, live, fresh, plain, gz, gztmp, size, files, proc, comp>>
<1>1. rot \in RotType /\ rot' = [rot EXCEPT !.pc = "create", !.next = "write"] BY DEF TypeInv, TimeRotate
<1>2. rot' \in RotType BY <1>1 DEF RotType
<1> QED BY <1>1, <1>2 DEF RotType, TimeRotate, Ready, MutexFree, disk

LEMMA WriteFacts ==
  ASSUME TypeInv, PhaseInv, FdInv, Write
  PROVE  /\ proc.status = "up" /\ rot.pc \in {"idle", "write"} /\ comp.pc # "prune"
         /\ proc.fd \in Inodes /\ size' = [size EXCEPT ![proc.fd] = @ + 1] /\ size' \in [Inodes -> Nat]
         /\ proc' \in ProcType /\ proc'.fd = proc.fd /\ proc'.opened = proc.opened
         /\ proc'.last = proc.last /\ proc'.clean = proc.clean /\ proc'.status = proc.status
         /\ rot' \in RotType /\ rot'.pc \in {"create", "idle"} /\ rot'.doomed = {}
         /\ sc' \in ScenarioType /\ sc'.keep = sc.keep /\ sc'.clockBack = sc.clockBack
         /\ UNCHANGED <<now, live, fresh, plain, gz, gztmp, files, comp>>
<1>1. /\ sc \in ScenarioType /\ proc \in ProcType /\ rot \in RotType /\ now \in Int /\ size \in [Inodes -> Nat]
  BY LogAssumption DEF TypeInv
<1>2. /\ proc.status = "up" /\ rot.pc \in {"idle", "write"} /\ comp.pc # "prune"
  BY <1>1 DEF Write, Ready, MutexFree, PhaseInv, Active, NoRotation, ProcType
<1>3. proc.fd \in Inodes
  <2>1. proc.fd \in 1 .. files /\ files \in 0 .. MaxFiles BY <1>2 DEF FdInv, Active, TypeInv
  <2> QED BY <2>1, LogAssumption DEF Inodes
<1>4. size' = [size EXCEPT ![proc.fd] = @ + 1] BY DEF Write
<1>5. size' \in [Inodes -> Nat] BY <1>1, <1>3, <1>4
<1>6. sc' = [sc EXCEPT !.records = @ - 1] BY DEF Write
<1>7. sc' \in ScenarioType /\ sc'.keep = sc.keep /\ sc'.clockBack = sc.clockBack BY <1>1, <1>6 DEF ScenarioType
<1>8. PICK t : t = IF rot.pc = "idle" /\ sc.timed /\ now < proc.lastRotation THEN now ELSE proc.lastRotation
  OBVIOUS
<1>9. t \in Int /\ proc' = [proc EXCEPT !.lastRotation = t] BY <1>1, <1>8 DEF ProcType, Write
<1>10. /\ proc' \in ProcType /\ proc'.fd = proc.fd /\ proc'.opened = proc.opened
       /\ proc'.last = proc.last /\ proc'.clean = proc.clean /\ proc'.status = proc.status
  BY <1>1, <1>9 DEF ProcType
<1>11. rot' = [NoRotation EXCEPT !.pc = "create"] \/ rot' = NoRotation BY DEF Write
<1>12. rot' \in RotType /\ rot'.pc \in {"create", "idle"} /\ rot'.doomed = {}
  <2>1. CASE rot' = NoRotation BY <2>1 DEF NoRotation, RotType
  <2>2. CASE rot' = [NoRotation EXCEPT !.pc = "create"] BY <2>2 DEF NoRotation, RotType
  <2> QED BY <1>11, <2>1, <2>2
<1> QED BY <1>2, <1>3, <1>4, <1>5, <1>7, <1>10, <1>12 DEF Write

LEMMA FailedFacts ==
  ASSUME TypeInv, NEW p \in ProcType, Failed(p)
  PROVE  /\ proc' \in ProcType /\ proc'.fd = p.fd /\ proc'.opened = p.opened
         /\ proc'.last = p.last /\ proc'.clean = p.clean /\ proc'.status = p.status
         /\ rot' \in RotType /\ rot'.pc = rot.next /\ rot.next \in {"idle", "write"} /\ rot'.doomed = {}
<1>1. now \in Int /\ rot \in RotType /\ Backoff \in Int BY LogAssumption DEF TypeInv
<1>2. PICK t : t = now + Backoff OBVIOUS
<1>3. proc' = [p EXCEPT !.retryAfter = t] /\ t \in Int BY <1>1, <1>2 DEF Failed
<1>4. /\ proc' \in ProcType /\ proc'.fd = p.fd /\ proc'.opened = p.opened
      /\ proc'.last = p.last /\ proc'.clean = p.clean /\ proc'.status = p.status
  BY <1>3 DEF ProcType
<1>5. rot' = [NoRotation EXCEPT !.pc = rot.next] /\ rot.next \in {"idle", "write"} BY <1>1 DEF Failed, RotType
<1>6. rot' \in RotType /\ rot'.pc = rot.next /\ rot'.doomed = {} BY <1>5 DEF RotType, NoRotation
<1> QED BY <1>4, <1>5, <1>6

LEMMA UncleanFacts ==
  ASSUME TypeInv
  PROVE  /\ Unclean \in ProcType /\ Unclean.fd = proc.fd /\ Unclean.opened = proc.opened
         /\ Unclean.last = proc.last /\ ~Unclean.clean /\ Unclean.status = proc.status
BY DEF TypeInv, Unclean, ProcType

LEMMA FaultFacts ==
  ASSUME TypeInv, Fault
  PROVE  sc' \in ScenarioType /\ sc'.keep = sc.keep /\ sc'.clockBack = sc.clockBack
         /\ sc'.rollbackFails = sc.rollbackFails
<1>1. sc \in ScenarioType /\ sc' = [sc EXCEPT !.faults = @ - 1] BY DEF TypeInv, Fault
<1> QED BY <1>1 DEF ScenarioType

LEMMA RenameFacts ==
  ASSUME TypeInv, RotateRename
  PROVE  /\ rot.pc = "rename" /\ UNCHANGED <<now, gz, gztmp, size, files, comp>>
         /\ proc' \in ProcType /\ rot' \in RotType
         /\ proc'.fd = proc.fd /\ proc'.opened = proc.opened /\ proc'.last = proc.last
         /\ proc'.status = proc.status /\ (proc'.clean => proc.clean)
         /\ \/ /\ FreeNames(rot.key) # {} /\ UNCHANGED <<sc, fresh, proc>>
               /\ rot'.key = OldestOf(FreeNames(rot.key)) /\ rot'.tmp = rot.tmp
               /\ rot'.doomed = rot.doomed
               /\ \/ /\ live = None /\ rot'.pc = "replace" /\ ~rot'.did /\ UNCHANGED <<live, plain>>
                  \/ /\ live # None /\ plain' = With(plain, rot'.key, live) /\ rot'.did
                     /\ \/ rot'.pc = "unlink" /\ live' = live
                        \/ rot'.pc = "replace" /\ live' = None
            \/ /\ fresh' = fresh \ {rot.tmp} /\ UNCHANGED <<live, plain>>
               /\ rot'.pc = rot.next /\ rot.next \in {"idle", "write"} /\ rot'.doomed = {}
               /\ sc' = sc \/ Fault
<1>1. rot \in RotType /\ proc \in ProcType /\ rot.pc = "rename" /\ UNCHANGED <<now, gz, gztmp, size, files, comp>>
  BY DEF TypeInv, RotateRename
<1> DEFINE names == FreeNames(rot.key)
<1>2. CASE /\ UNCHANGED <<sc, fresh, proc>> /\ names # {}
           /\ LET k == OldestOf(names)
              IN IF live = None
                   THEN /\ rot' = [rot EXCEPT !.pc = "replace", !.key = k, !.did = FALSE]
                        /\ UNCHANGED <<live, plain>>
                   ELSE /\ plain' = With(plain, k, live)
                        /\ live' = IF sc.link THEN live ELSE None
                        /\ rot' = [rot EXCEPT !.pc = IF sc.link THEN "unlink" ELSE "replace",
                                              !.key = k, !.did = TRUE]
  <2>1. names \in SUBSET Keys BY DEF FreeNames
  <2>2. OldestOf(names) \in Keys BY <1>2, <2>1, OldestIs
  <2>3. PICK k \in Keys : k = OldestOf(names) BY <2>2
  <2>4. k \in (0 .. MaxTime) \X Nat BY LogAssumption DEF Keys
  <2>5. CASE live = None
    <3>1. rot' = [rot EXCEPT !.pc = "replace", !.key = k, !.did = FALSE] BY <1>2, <2>3, <2>5
    <3>2. rot' \in RotType BY <1>1, <2>4, <3>1 DEF RotType
    <3>3. rot'.pc = "replace" /\ ~rot'.did /\ rot'.key = k /\ rot'.tmp = rot.tmp /\ rot'.doomed = rot.doomed
      BY <1>1, <3>1 DEF RotType
    <3> QED BY <1>1, <1>2, <2>3, <2>5, <3>2, <3>3
  <2>6. CASE live # None
    <3>1. PICK x \in {"unlink", "replace"} : x = IF sc.link THEN "unlink" ELSE "replace" OBVIOUS
    <3>2. rot' = [rot EXCEPT !.pc = x, !.key = k, !.did = TRUE] BY <1>2, <2>3, <2>6, <3>1
    <3>3. rot' \in RotType BY <1>1, <2>4, <3>2 DEF RotType
    <3>4. rot'.pc = x /\ rot'.did /\ rot'.key = k /\ rot'.tmp = rot.tmp /\ rot'.doomed = rot.doomed
      BY <1>1, <3>2 DEF RotType
    <3>5. \/ rot'.pc = "unlink" /\ live' = live
          \/ rot'.pc = "replace" /\ live' = None
      BY <1>2, <2>6, <3>1, <3>4
    <3> QED BY <1>1, <1>2, <2>3, <2>6, <3>3, <3>4, <3>5
  <2> QED BY <2>5, <2>6
<1>3. CASE /\ \/ Failed(proc) /\ UNCHANGED sc
              \/ Fault /\ Failed(Unclean)
           /\ fresh' = fresh \ {rot.tmp} /\ UNCHANGED <<live, plain>>
  <2>1. CASE Failed(proc) /\ UNCHANGED sc BY <1>1, <1>3, <2>1, FailedFacts
  <2>2. CASE Fault /\ Failed(Unclean) BY <1>1, <1>3, <2>2, FailedFacts, UncleanFacts
  <2> QED BY <1>3, <2>1, <2>2
<1> QED BY <1>2, <1>3 DEF RotateRename

LEMMA UnlinkFacts ==
  ASSUME TypeInv, RotateUnlink
  PROVE  /\ rot.pc = "unlink" /\ rot'.pc = "replace" /\ rot'.key = rot.key /\ rot'.tmp = rot.tmp
         /\ rot'.did = rot.did /\ rot'.doomed = rot.doomed /\ rot' \in RotType /\ live' = None
         /\ UNCHANGED <<sc, now, fresh, plain, gz, gztmp, size, files, proc, comp>>
BY DEF TypeInv, RotateUnlink, RotType

LEMMA ReplaceFacts ==
  ASSUME TypeInv, RotateReplace, rot.key \in Keys
  PROVE  /\ rot.pc = "replace" /\ fresh' = fresh \ {rot.tmp}
         /\ UNCHANGED <<now, gz, gztmp, size, files, comp>>
         /\ proc' \in ProcType /\ rot' \in RotType
         /\ proc'.opened = proc.opened /\ proc'.status = proc.status
         /\ rot'.doomed = rot.doomed \/ rot'.doomed = {}
         /\ \/ /\ live' = rot.tmp /\ UNCHANGED <<sc, plain>>
               /\ proc'.fd = rot.tmp /\ proc'.last = rot.key /\ proc'.clean = proc.clean
               /\ rot'.pc = "list" /\ rot'.key = rot.key /\ rot'.tmp = rot.tmp /\ rot'.did = rot.did
               /\ rot'.doomed = rot.doomed
            \/ /\ Fault /\ proc'.fd = proc.fd /\ proc'.last = proc.last /\ ~proc'.clean
               /\ rot'.pc = rot.next /\ rot.next \in {"idle", "write"} /\ rot'.doomed = {}
               /\ \/ rot.did /\ live' = plain[rot.key] /\ plain' = Without(plain, rot.key)
                  \/ (~rot.did \/ sc.rollbackFails) /\ UNCHANGED <<live, plain>>
<1>1. rot \in RotType /\ proc \in ProcType /\ rot.pc = "replace" /\ fresh' = fresh \ {rot.tmp}
      /\ UNCHANGED <<now, gz, gztmp, size, files, comp>> /\ now \in Int
  BY LogAssumption DEF TypeInv, RotateReplace
<1>2. CASE live' = rot.tmp /\ proc' = Adopted /\ rot' = [rot EXCEPT !.pc = "list"] /\ UNCHANGED <<sc, plain>>
  <2>1. PICK f \in Inodes \cup {None}, k \in Keys : f = rot.tmp /\ k = rot.key BY <1>1 DEF RotType
  <2>2. proc' = [proc EXCEPT !.fd = f, !.last = k, !.lastRotation = now] BY <1>2, <2>1 DEF Adopted
  <2>3. proc' \in ProcType BY <1>1, <2>2 DEF ProcType
  <2>4. /\ proc'.fd = f /\ proc'.last = k /\ proc'.clean = proc.clean /\ proc'.opened = proc.opened
        /\ proc'.status = proc.status
    BY <1>1, <2>2 DEF ProcType
  <2>5. /\ rot' \in RotType /\ rot'.pc = "list" /\ rot'.key = rot.key /\ rot'.tmp = rot.tmp
        /\ rot'.did = rot.did /\ rot'.doomed = rot.doomed
    BY <1>1, <1>2 DEF RotType
  <2> QED BY <1>1, <1>2, <2>1, <2>3, <2>4, <2>5
<1>3. CASE /\ Fault /\ Failed(Unclean)
           /\ \/ rot.did /\ live' = plain[rot.key] /\ plain' = Without(plain, rot.key)
              \/ (~rot.did \/ sc.rollbackFails) /\ UNCHANGED <<live, plain>>
  BY <1>1, <1>3, FailedFacts, UncleanFacts
<1> QED BY <1>2, <1>3 DEF RotateReplace

LEMMA ListFacts ==
  ASSUME TypeInv, FilesInv, RotateList
  PROVE  /\ rot.pc = "list" /\ rot'.pc = "prune" /\ rot'.key = rot.key /\ rot'.tmp = rot.tmp /\ rot'.did = rot.did
         /\ UNCHANGED <<now, live, fresh, plain, gz, gztmp, size, files>>
         /\ proc' \in ProcType /\ rot' \in RotType /\ comp' \in CompType
         /\ proc'.fd = proc.fd /\ proc'.opened = proc.opened /\ proc'.last = proc.last /\ proc'.status = proc.status
         /\ comp'.pc = comp.pc /\ comp'.queue = comp.queue /\ comp'.running = comp.running /\ comp'.src = comp.src
         /\ comp'.got = comp.got /\ comp'.left = comp.left /\ comp'.keepTmp = comp.keepTmp
         /\ \/ /\ \E missed \in BOOLEAN :
                    LET just == IF rot.did THEN rot.key ELSE None
                    IN  /\ missed => comp.running # None
                        /\ rot'.doomed = Excess(Listed(missed)) \ Protected(just)
                        /\ comp'.deferred = (comp.deferred \/ Excess(Listed(missed)) \cap Protected(just) # {})
               /\ UNCHANGED <<sc, proc>>
            \/ /\ Fault /\ ~proc'.clean /\ rot'.doomed = {} /\ comp' = comp
<1> DEFINE just == IF rot.did THEN rot.key ELSE None
<1>1. /\ rot \in RotType /\ proc \in ProcType /\ comp \in CompType /\ rot.pc = "list"
      /\ UNCHANGED <<now, live, fresh, plain, gz, gztmp, size, files>>
  BY DEF TypeInv, RotateList, disk
<1>2. ASSUME NEW missed \in BOOLEAN, UNCHANGED <<sc, proc>>,
             rot' = [rot EXCEPT !.pc = "prune", !.doomed = Excess(Listed(missed)) \ Protected(just)],
             comp' = [comp EXCEPT !.deferred = @ \/ Excess(Listed(missed)) \cap Protected(just) # {}]
      PROVE  /\ rot'.pc = "prune" /\ rot'.key = rot.key /\ rot'.tmp = rot.tmp /\ rot'.did = rot.did
             /\ rot' \in RotType /\ comp' \in CompType
             /\ comp'.pc = comp.pc /\ comp'.queue = comp.queue /\ comp'.running = comp.running /\ comp'.src = comp.src
             /\ comp'.got = comp.got /\ comp'.left = comp.left /\ comp'.keepTmp = comp.keepTmp
             /\ rot'.doomed = Excess(Listed(missed)) \ Protected(just)
             /\ comp'.deferred = (comp.deferred \/ Excess(Listed(missed)) \cap Protected(just) # {})
  <2>1. Listed(missed) \in SUBSET Keys BY <1>1, GenerationsOnDisk DEF Listed, CompType
  <2>2. PICK D \in SUBSET Keys : D = Excess(Listed(missed)) \ Protected(just) BY <2>1 DEF Excess
  <2>3. PICK b \in BOOLEAN : b = (comp.deferred \/ Excess(Listed(missed)) \cap Protected(just) # {})
    OBVIOUS
  <2>4. rot' = [rot EXCEPT !.pc = "prune", !.doomed = D] BY <1>2, <2>2
  <2>5. comp' = [comp EXCEPT !.deferred = b] BY <1>2, <2>3
  <2>6. /\ rot' \in RotType /\ rot'.pc = "prune" /\ rot'.key = rot.key /\ rot'.tmp = rot.tmp /\ rot'.did = rot.did
        /\ rot'.doomed = D
    BY <1>1, <2>4 DEF RotType
  <2>7. /\ comp' \in CompType /\ comp'.deferred = b
        /\ comp'.pc = comp.pc /\ comp'.queue = comp.queue /\ comp'.running = comp.running /\ comp'.src = comp.src
        /\ comp'.got = comp.got /\ comp'.left = comp.left /\ comp'.keepTmp = comp.keepTmp
    BY <1>1, <2>5 DEF CompType
  <2> QED BY <2>2, <2>3, <2>6, <2>7
<1>3. CASE Fault /\ proc' = Unclean /\ rot' = [rot EXCEPT !.pc = "prune", !.doomed = {}] /\ UNCHANGED comp
  <2>1. /\ rot' \in RotType /\ rot'.pc = "prune" /\ rot'.key = rot.key /\ rot'.tmp = rot.tmp /\ rot'.did = rot.did
        /\ rot'.doomed = {}
    BY <1>1, <1>3 DEF RotType
  <2> QED BY <1>1, <1>3, <2>1, UncleanFacts
<1>4. CASE \E missed \in BOOLEAN :
             /\ missed => comp.running # None
             /\ rot' = [rot EXCEPT !.pc = "prune", !.doomed = Excess(Listed(missed)) \ Protected(just)]
             /\ comp' = [comp EXCEPT !.deferred = @ \/ Excess(Listed(missed)) \cap Protected(just) # {}]
             /\ UNCHANGED <<sc, proc>>
  <2>1. PICK missed \in BOOLEAN :
             /\ missed => comp.running # None
             /\ rot' = [rot EXCEPT !.pc = "prune", !.doomed = Excess(Listed(missed)) \ Protected(just)]
             /\ comp' = [comp EXCEPT !.deferred = @ \/ Excess(Listed(missed)) \cap Protected(just) # {}]
             /\ UNCHANGED <<sc, proc>>
    BY <1>4
  <2> HIDE DEF just
  <2>2. /\ rot'.pc = "prune" /\ rot'.key = rot.key /\ rot'.tmp = rot.tmp /\ rot'.did = rot.did
        /\ rot' \in RotType /\ comp' \in CompType
        /\ comp'.pc = comp.pc /\ comp'.queue = comp.queue /\ comp'.running = comp.running /\ comp'.src = comp.src
        /\ comp'.got = comp.got /\ comp'.left = comp.left /\ comp'.keepTmp = comp.keepTmp
        /\ rot'.doomed = Excess(Listed(missed)) \ Protected(just)
        /\ comp'.deferred = (comp.deferred \/ Excess(Listed(missed)) \cap Protected(just) # {})
    BY <1>2, <2>1
  <2>3. /\ \E x \in BOOLEAN : /\ x => comp.running # None
                              /\ rot'.doomed = Excess(Listed(x)) \ Protected(just)
                              /\ comp'.deferred = (comp.deferred \/ Excess(Listed(x)) \cap Protected(just) # {})
        /\ UNCHANGED <<sc, proc>>
    BY <2>1, <2>2
  <2> QED BY <1>1, <2>1, <2>2, <2>3 DEF just
<1> QED BY <1>3, <1>4 DEF RotateList

LEMMA PruneFacts ==
  ASSUME TypeInv, PruneOne
  PROVE  LET k == OldestOf(rot.doomed) IN
         /\ k \in rot.doomed /\ k \in Keys /\ plain' = Without(plain, k) /\ gz' = Without(gz, k)
         /\ rot'.doomed = rot.doomed \ {k} /\ rot' \in RotType
         /\ rot'.pc = rot.pc /\ rot'.key = rot.key /\ rot'.tmp = rot.tmp /\ rot'.did = rot.did
         /\ UNCHANGED <<sc, now, live, fresh, gztmp, size, files, proc, comp>>
<1>1. rot \in RotType /\ rot.doomed \in SUBSET Keys /\ rot.doomed # {} BY DEF TypeInv, RotType, PruneOne
<1>2. PICK k \in Keys : k = OldestOf(rot.doomed) /\ k \in rot.doomed BY <1>1, OldestIs
<1>3. rot' = [rot EXCEPT !.doomed = @ \ {k}] BY <1>2 DEF PruneOne
<1>4. /\ rot'.doomed = rot.doomed \ {k} /\ rot' \in RotType
      /\ rot'.pc = rot.pc /\ rot'.key = rot.key /\ rot'.tmp = rot.tmp /\ rot'.did = rot.did
  BY <1>1, <1>3 DEF RotType
<1> QED BY <1>2, <1>4 DEF PruneOne

LEMMA QueueFacts ==
  ASSUME TypeInv, RotateQueue, rot.key \in Keys
  PROVE  /\ rot.pc = "prune" /\ rot.doomed = {}
         /\ rot' \in RotType /\ rot'.pc \in {"idle", "write"} /\ rot'.doomed = {}
         /\ proc' \in ProcType /\ comp' \in CompType
         /\ UNCHANGED <<now, live, fresh, plain, gz, gztmp, size, files>>
         /\ proc'.fd = proc.fd /\ proc'.opened = proc.opened /\ proc'.last = proc.last /\ proc'.status = proc.status
         /\ \/ rot.did /\ comp' = Enqueued(comp, rot.key) /\ UNCHANGED <<sc, proc>>
            \/ ~rot.did /\ comp' = comp /\ UNCHANGED <<sc, proc>>
            \/ rot.did /\ Fault /\ ~proc'.clean /\ comp' = comp
<1>1. /\ rot \in RotType /\ proc \in ProcType /\ comp \in CompType /\ rot.pc = "prune" /\ rot.doomed = {}
      /\ UNCHANGED <<now, live, fresh, plain, gz, gztmp, size, files>>
      /\ rot' = [NoRotation EXCEPT !.pc = rot.next]
  BY DEF TypeInv, RotateQueue, disk
<1>2. rot' \in RotType /\ rot'.pc \in {"idle", "write"} /\ rot'.doomed = {} BY <1>1 DEF RotType, NoRotation
<1>3. CASE comp' = (IF rot.did THEN Enqueued(comp, rot.key) ELSE comp) /\ UNCHANGED <<sc, proc>>
  <2>1. PICK d : d = Enqueued(comp, rot.key) OBVIOUS
  <2>2. d \in CompType BY <1>1, <2>1, EnqueuedFacts
  <2> QED BY <1>1, <1>2, <1>3, <2>1, <2>2 DEF RotType
<1>4. CASE rot.did /\ Fault /\ proc' = Unclean /\ UNCHANGED comp
  BY <1>1, <1>2, <1>4, UncleanFacts
<1> QED BY <1>3, <1>4 DEF RotateQueue

LEMMA TakeFacts ==
  ASSUME TypeInv, CompressTake
  PROVE  /\ comp.pc = "wait" /\ rot.pc = "idle" /\ proc.status # "opening" /\ comp.queue # <<>>
         /\ gztmp' = gztmp \ comp.left
         /\ comp' \in CompType /\ comp'.pc = "open" /\ comp'.running = Head(comp.queue)
         /\ comp'.queue = Tail(comp.queue) /\ comp'.left = {}
         /\ comp'.keepTmp = comp.keepTmp /\ comp'.deferred = comp.deferred
         /\ Range(comp.queue) = Range(comp'.queue) \cup {comp'.running}
         /\ comp'.running \in Keys
         /\ Distinct(comp.queue) => Distinct(comp'.queue) /\ comp'.running \notin Range(comp'.queue)
         /\ UNCHANGED <<sc, now, live, fresh, plain, gz, size, files, proc, rot>>
<1>1. comp \in CompType /\ comp.queue \in Seq(Keys) BY DEF TypeInv, CompType
<1>2. PICK q \in Seq(Keys) : q = comp.queue BY <1>1
<1>3. q # <<>> BY <1>2 DEF CompressTake
<1>4. Head(q) \in Keys /\ Tail(q) \in Seq(Keys) BY <1>3
<1>5. PICK h \in Keys, t \in Seq(Keys) : h = Head(q) /\ t = Tail(q) BY <1>4
<1>6. comp' = [comp EXCEPT !.pc = "open", !.running = h, !.queue = t, !.left = {}]
  BY <1>2, <1>5 DEF CompressTake
<1>7. comp' \in CompType BY <1>1, <1>6 DEF CompType
<1>8. /\ comp'.pc = "open" /\ comp'.running = h /\ comp'.queue = t /\ comp'.left = {}
      /\ comp'.keepTmp = comp.keepTmp /\ comp'.deferred = comp.deferred
  BY <1>1, <1>6 DEF CompType
<1>9. Range(q) = Elems(q) /\ Range(t) = Elems(t) BY RangeElems
<1>10. /\ Elems(q) = Elems(t) \cup {h}
       /\ Distinct(q) => Distinct(t) /\ h \notin Elems(t)
  <2>1. CASE Distinct(q) BY <1>3, <1>5, <2>1, TailElems
  <2>2. /\ Len(q) \in Nat /\ Len(q) # 0 /\ Len(t) = Len(q) - 1
        /\ h = q[1] /\ \A i \in 1 .. Len(t) : t[i] = q[i + 1]
    BY <1>3, <1>5, HeadTailProperties, LenProperties, EmptySeq
  <2>3. ASSUME NEW x \in Elems(q) PROVE x \in Elems(t) \cup {h}
    <3>1. PICK i \in 1 .. Len(q) : x = q[i] BY DEF Elems
    <3>2. CASE i = 1 BY <2>2, <3>1, <3>2
    <3>3. CASE i # 1
      <4>1. i - 1 \in 1 .. Len(t) /\ (i - 1) + 1 = i BY <2>2, <3>3
      <4>2. x = t[i - 1] BY <2>2, <3>1, <4>1
      <4> QED BY <4>1, <4>2 DEF Elems
    <3> QED BY <3>2, <3>3
  <2>4. ASSUME NEW x \in Elems(t) PROVE x \in Elems(q)
    <3>1. PICK i \in 1 .. Len(t) : x = t[i] BY DEF Elems
    <3>2. i + 1 \in 1 .. Len(q) /\ x = q[i + 1] BY <2>2, <3>1
    <3> QED BY <3>2 DEF Elems
  <2>5. h \in Elems(q)
    <3>1. 1 \in 1 .. Len(q) BY <2>2
    <3> QED BY <2>2, <3>1 DEF Elems
  <2> QED BY <2>1, <2>3, <2>4, <2>5
<1> QED BY <1>2, <1>3, <1>5, <1>7, <1>8, <1>9, <1>10 DEF CompressTake, MutexFree, Retried

CompSame == /\ comp'.queue = comp.queue /\ comp'.running = comp.running
            /\ comp'.left = comp.left /\ comp'.deferred = comp.deferred

LEMMA CompressOpenFacts ==
  ASSUME TypeInv, FilesInv, PhaseInv, CompressOpen
  PROVE  /\ comp.pc = "open" /\ CompSame /\ comp' \in CompType /\ comp'.keepTmp = comp.keepTmp
         /\ UNCHANGED <<now, live, fresh, plain, gz, size, files, rot>>
         /\ \/ /\ comp.running \in DOMAIN plain /\ comp.running \notin DOMAIN gz
               /\ gztmp' = gztmp \cup {comp.running} /\ gztmp' \subseteq Keys
               /\ comp'.pc = "copy" /\ comp'.src = plain[comp.running] /\ UNCHANGED <<sc, proc>>
            \/ /\ gztmp' = gztmp /\ comp'.pc = "finish"
               /\ comp.running \notin DOMAIN plain \/ comp.running \in DOMAIN gz
               /\ UNCHANGED <<sc, proc>>
            \/ gztmp' = gztmp /\ comp'.pc = "finish" /\ Fault /\ proc' = Unclean
<1>1. comp \in CompType /\ comp.pc = "open" /\ UNCHANGED <<now, live, fresh, plain, gz, size, files, rot>>
      /\ gztmp \subseteq Keys
  BY DEF TypeInv, CompressOpen
<1>2. comp.running \in Keys BY <1>1 DEF PhaseInv, CompType
<1>3. CASE /\ comp.running \in DOMAIN plain /\ comp.running \notin DOMAIN gz
           /\ gztmp' = gztmp \cup {comp.running}
           /\ comp' = [comp EXCEPT !.pc = "copy", !.src = plain[comp.running]] /\ UNCHANGED <<sc, proc>>
  <2>1. plain[comp.running] \in 1 .. files /\ files \in 0 .. MaxFiles BY <1>3 DEF FilesInv, TypeInv
  <2>2. plain[comp.running] \in Inodes BY <2>1, LogAssumption DEF Inodes
  <2>3. PICK s \in Inodes : s = plain[comp.running] BY <2>2
  <2>4. comp' = [comp EXCEPT !.pc = "copy", !.src = s] BY <1>3, <2>3
  <2>5. comp' \in CompType BY <1>1, <2>4 DEF CompType
  <2>6. CompSame /\ comp'.keepTmp = comp.keepTmp /\ comp'.pc = "copy" /\ comp'.src = s
    BY <1>1, <2>4 DEF CompType, CompSame
  <2> QED BY <1>1, <1>2, <1>3, <2>3, <2>5, <2>6
<1>4. CASE /\ IF comp.running \notin DOMAIN plain \/ comp.running \in DOMAIN gz
                THEN UNCHANGED <<sc, proc>> ELSE Fault /\ proc' = Unclean
           /\ comp' = [comp EXCEPT !.pc = "finish"]
           /\ UNCHANGED gztmp
  <2>1. comp' \in CompType /\ CompSame /\ comp'.keepTmp = comp.keepTmp /\ comp'.pc = "finish"
    BY <1>1, <1>4 DEF CompType, CompSame
  <2> QED BY <1>1, <1>4, <2>1
<1> QED BY <1>3, <1>4 DEF CompressOpen

LEMMA CopyFacts ==
  ASSUME TypeInv, PhaseInv, CompressCopy, comp.src \in Inodes
  PROVE  /\ comp.pc = "copy" /\ CompSame /\ comp' \in CompType
         /\ UNCHANGED <<now, live, fresh, plain, gz, size, files, rot>>
         /\ \/ /\ comp'.pc = "publish" /\ comp'.src = comp.src /\ comp'.got = <<comp.src, size[comp.src]>>
               /\ comp'.keepTmp = comp.keepTmp /\ UNCHANGED <<sc, proc, gztmp>>
            \/ /\ Fault /\ proc' = Unclean /\ comp'.pc = "finish"
               /\ gztmp' = gztmp \ {comp.running} \/ gztmp' = gztmp
<1>1. comp \in CompType /\ comp.pc = "copy" /\ UNCHANGED <<now, live, fresh, plain, gz, size, files, rot>>
      /\ size \in [Inodes -> Nat]
  BY DEF TypeInv, CompressCopy
<1>2. CASE comp' = [comp EXCEPT !.pc = "publish", !.got = <<comp.src, size[comp.src]>>] /\ UNCHANGED <<sc, proc, gztmp>>
  <2>1. PICK g : g = <<comp.src, size[comp.src]>> OBVIOUS
  <2>2. g \in Inodes \X Nat BY <1>1, <2>1
  <2>3. comp' = [comp EXCEPT !.pc = "publish", !.got = g] BY <1>2, <2>1
  <2>4. comp' \in CompType BY <1>1, <2>2, <2>3 DEF CompType
  <2>5. CompSame /\ comp'.pc = "publish" /\ comp'.src = comp.src /\ comp'.got = g /\ comp'.keepTmp = comp.keepTmp
    BY <1>1, <2>3 DEF CompType, CompSame
  <2> QED BY <1>1, <1>2, <2>1, <2>4, <2>5
<1>3. CASE Fault /\ proc' = Unclean /\ Abandon
  <2>1. comp' = [comp EXCEPT !.pc = "finish"] \/ comp' = [comp EXCEPT !.pc = "finish", !.keepTmp = TRUE]
    BY <1>3 DEF Abandon
  <2>2. comp' \in CompType /\ CompSame /\ comp'.pc = "finish"
    <3>1. CASE comp' = [comp EXCEPT !.pc = "finish"] BY <1>1, <3>1 DEF CompType, CompSame
    <3>2. CASE comp' = [comp EXCEPT !.pc = "finish", !.keepTmp = TRUE] BY <1>1, <3>2 DEF CompType, CompSame
    <3> QED BY <2>1, <3>1, <3>2
  <2>3. gztmp' = gztmp \ {comp.running} \/ gztmp' = gztmp BY <1>3 DEF Abandon
  <2> QED BY <1>1, <1>3, <2>2, <2>3
<1> QED BY <1>2, <1>3 DEF CompressCopy

LEMMA PublishFacts ==
  ASSUME TypeInv, CompressPublish
  PROVE  /\ comp.pc = "publish" /\ CompSame /\ comp' \in CompType /\ comp'.pc \in {"linked", "unlink"}
         /\ comp'.src = comp.src /\ comp'.got = comp.got /\ comp'.keepTmp = comp.keepTmp
         /\ gz' = With(gz, comp.running, comp.got)
         /\ \/ comp'.pc = "linked" /\ gztmp' = gztmp
            \/ comp'.pc = "unlink" /\ gztmp' = gztmp \ {comp.running}
         /\ UNCHANGED <<sc, now, live, fresh, plain, size, files, proc, rot>>
<1>1. comp \in CompType BY DEF TypeInv
<1>2. PICK x \in {"linked", "unlink"} : x = IF sc.link THEN "linked" ELSE "unlink" OBVIOUS
<1>3. comp' = [comp EXCEPT !.pc = x] BY <1>2 DEF CompressPublish
<1>4. /\ comp' \in CompType /\ CompSame /\ comp'.pc = x /\ comp'.src = comp.src /\ comp'.got = comp.got
      /\ comp'.keepTmp = comp.keepTmp
  BY <1>1, <1>3 DEF CompType, CompSame
<1> QED BY <1>2, <1>4 DEF CompressPublish

LEMMA UnlinkTmpFacts ==
  ASSUME TypeInv, CompressUnlinkTmp
  PROVE  /\ comp.pc = "linked" /\ CompSame /\ comp' \in CompType /\ comp'.pc = "unlink"
         /\ comp'.src = comp.src /\ comp'.got = comp.got /\ comp'.keepTmp = comp.keepTmp
         /\ gztmp' = gztmp \ {comp.running}
         /\ UNCHANGED <<sc, now, live, fresh, plain, gz, size, files, proc, rot>>
BY DEF TypeInv, CompressUnlinkTmp, CompType, CompSame

LEMMA UnlinkSourceFacts ==
  ASSUME TypeInv, CompressUnlink
  PROVE  /\ comp.pc = "unlink" /\ CompSame /\ comp' \in CompType /\ comp'.pc = "finish"
         /\ comp'.keepTmp = comp.keepTmp
         /\ plain' = (IF comp.running \in DOMAIN plain /\ plain[comp.running] = comp.src
                        THEN Without(plain, comp.running) ELSE plain)
         /\ UNCHANGED <<sc, now, live, fresh, gz, gztmp, size, files, proc, rot>>
BY DEF TypeInv, CompressUnlink, CompType, CompSame

LEMMA FinishFacts ==
  ASSUME TypeInv, FilesInv, PhaseInv, CompressFinish
  PROVE  /\ comp.pc = "finish" /\ rot.pc = "idle"
         /\ comp' \in CompType /\ rot' \in RotType
         /\ comp'.queue = comp.queue /\ comp'.running = None /\ ~comp'.deferred /\ ~comp'.keepTmp
         /\ comp.keepTmp \/ comp'.left = comp.left
         /\ rot'.pc = rot.pc /\ rot'.key = rot.key /\ rot'.tmp = rot.tmp /\ rot'.did = rot.did
         /\ \/ comp.deferred /\ comp'.pc = "prune" /\ rot'.doomed = Excess(Generations)
            \/ ~comp.deferred /\ comp'.pc = "wait" /\ rot' = rot
         /\ UNCHANGED <<sc, now, live, fresh, plain, gz, gztmp, size, files, proc>>
<1>1. comp \in CompType /\ rot \in RotType /\ comp.pc = "finish" BY DEF TypeInv, CompressFinish
<1>2. comp.running \in Keys BY <1>1 DEF PhaseInv, CompType
<1>3. PICK x \in {"prune", "wait"} : x = IF comp.deferred THEN "prune" ELSE "wait" OBVIOUS
<1>4. PICK l : l = IF comp.keepTmp THEN comp.left \cup {comp.running} ELSE comp.left OBVIOUS
<1>5. l \in SUBSET Keys BY <1>1, <1>2, <1>4 DEF CompType
<1>6. comp' = [comp EXCEPT !.running = None, !.src = None, !.got = None, !.keepTmp = FALSE,
                           !.left = l, !.deferred = FALSE, !.pc = x]
  BY <1>3, <1>4 DEF CompressFinish
<1>7. comp' \in CompType BY <1>1, <1>5, <1>6 DEF CompType
<1>8. /\ comp'.queue = comp.queue /\ comp'.running = None /\ ~comp'.deferred /\ ~comp'.keepTmp
      /\ comp'.left = l /\ comp'.pc = x
  BY <1>1, <1>6 DEF CompType
<1>9. CASE comp.deferred
  <2>1. PICK D : D = Excess(Generations) OBVIOUS
  <2>2. D \in SUBSET Keys BY <2>1, GenerationsOnDisk DEF Excess
  <2>3. rot' = [rot EXCEPT !.doomed = D] BY <1>9, <2>1 DEF CompressFinish
  <2>4. /\ rot' \in RotType /\ rot'.doomed = D
        /\ rot'.pc = rot.pc /\ rot'.key = rot.key /\ rot'.tmp = rot.tmp /\ rot'.did = rot.did
    BY <1>1, <2>2, <2>3 DEF RotType
  <2> QED BY <1>3, <1>4, <1>7, <1>8, <1>9, <2>1, <2>4 DEF CompressFinish, MutexFree, disk
<1>10. CASE ~comp.deferred
  BY <1>1, <1>3, <1>4, <1>7, <1>8, <1>10 DEF CompressFinish, MutexFree, disk
<1> QED BY <1>9, <1>10

LEMMA PrunedFacts ==
  ASSUME TypeInv, CompressPruned
  PROVE  /\ comp.pc = "prune" /\ rot.doomed = {} /\ CompSame /\ comp' \in CompType /\ comp'.pc = "wait"
         /\ comp'.keepTmp = comp.keepTmp
         /\ UNCHANGED <<sc, now, live, fresh, plain, gz, gztmp, size, files, proc, rot>>
BY DEF TypeInv, CompressPruned, CompType, CompSame, disk

LEMMA CloseBeginFacts ==
  ASSUME TypeInv, CloseBegin
  PROVE  /\ proc.status = "up" /\ rot.pc = "idle" /\ comp.pc # "prune"
         /\ proc' \in ProcType /\ proc'.status = "closing" /\ proc'.fd = proc.fd /\ proc'.opened = proc.opened
         /\ proc'.last = proc.last /\ proc'.clean = proc.clean
         /\ UNCHANGED <<sc, now, live, fresh, plain, gz, gztmp, size, files, rot, comp>>
BY DEF TypeInv, CloseBegin, ProcType, MutexFree, disk

LEMMA OpenedFacts ==
  ASSUME TypeInv, Opened
  PROVE  /\ proc.status = "opening" /\ fresh = {} /\ StaleGz = {} /\ Unrecovered = {}
         /\ proc' \in ProcType /\ proc'.status = "up" /\ proc'.fd = proc.fd /\ proc'.opened = proc.opened
         /\ proc'.last = proc.last /\ proc'.clean = proc.clean
         /\ UNCHANGED <<sc, now, live, fresh, plain, gz, gztmp, size, files, rot, comp>>
BY DEF TypeInv, Opened, ProcType, disk

LEMMA CloseEndFacts ==
  ASSUME TypeInv, CloseEnd
  PROVE  /\ proc.status = "closing" /\ rot.pc = "idle" /\ comp.pc \in {"none", "wait"} /\ comp.queue = <<>>
         /\ gztmp' = gztmp \ comp.left
         /\ proc' \in ProcType /\ proc'.status = "closed" /\ proc'.clean = proc.clean /\ proc'.last = None
         /\ comp' = NoCompressor /\ comp' \in CompType
         /\ UNCHANGED <<sc, now, live, fresh, plain, gz, size, files, rot>>
<1>1. proc \in ProcType BY DEF TypeInv
<1>2. PICK b \in BOOLEAN : b = proc.clean BY <1>1 DEF ProcType
<1>3. proc' = [Down EXCEPT !.status = "closed", !.clean = b] BY <1>2 DEF CloseEnd
<1>4. proc' = [status |-> "closed", fd |-> None, opened |-> None, last |-> None,
               lastRotation |-> 0, retryAfter |-> 0, clean |-> b]
  BY <1>3 DEF Down
<1>6. proc' \in ProcType /\ proc'.status = "closed" /\ proc'.clean = b /\ proc'.last = None
  BY <1>4 DEF ProcType
<1>5. NoCompressor \in CompType BY DEF NoCompressor, CompType
<1> QED BY <1>2, <1>6, <1>5 DEF CloseEnd, MutexFree, Retried

LEMMA CrashFacts ==
  ASSUME TypeInv, Crash
  PROVE  /\ sc' \in ScenarioType /\ sc'.keep = sc.keep /\ sc'.clockBack = sc.clockBack
         /\ proc' = Down /\ rot' = NoRotation /\ comp' = NoCompressor
         /\ proc' \in ProcType /\ rot' \in RotType /\ comp' \in CompType
         /\ UNCHANGED <<now, live, fresh, plain, gz, gztmp, size, files>>
<1>1. sc \in ScenarioType /\ sc' = [sc EXCEPT !.crashes = @ - 1] BY DEF TypeInv, Crash
<1>2. sc' \in ScenarioType /\ sc'.keep = sc.keep /\ sc'.clockBack = sc.clockBack BY <1>1 DEF ScenarioType
<1>3. Down \in ProcType /\ NoRotation \in RotType /\ NoCompressor \in CompType
  BY DEF Down, ProcType, NoRotation, RotType, NoCompressor, CompType
<1> QED BY <1>2, <1>3 DEF Crash, disk

LEMMA TickFacts ==
  ASSUME TypeInv, Tick
  PROVE  /\ sc' \in ScenarioType /\ sc'.keep = sc.keep /\ sc'.clockBack = sc.clockBack
         /\ now' \in 0 .. MaxTime /\ (now' > now \/ sc.clockBack)
         /\ UNCHANGED <<live, fresh, plain, gz, gztmp, size, files, proc, rot, comp>>
<1>1. sc \in ScenarioType /\ sc' = [sc EXCEPT !.ticks = @ - 1] BY DEF TypeInv, Tick
<1>2. sc' \in ScenarioType /\ sc'.keep = sc.keep /\ sc'.clockBack = sc.clockBack BY <1>1 DEF ScenarioType
<1> QED BY <1>2 DEF Tick, disk

\* A name more, a name less.
LEMMA WithoutIs ==
  ASSUME NEW f, NEW k
  PROVE  /\ DOMAIN Without(f, k) = DOMAIN f \ {k}
         /\ \A x \in DOMAIN f \ {k} : Without(f, k)[x] = f[x]
BY DEF Without, Restrict

LEMMA WithIs ==
  ASSUME NEW f, NEW k, NEW v
  PROVE  /\ DOMAIN With(f, k, v) = DOMAIN f \cup {k}
         /\ With(f, k, v)[k] = v
         /\ \A x \in DOMAIN f \ {k} : With(f, k, v)[x] = f[x]
BY DEF With

\* Files and names that go leave what FilesInv says.
LEMMA FilesKept ==
  ASSUME FilesInv, files \in Nat, files' \in Nat, files <= files',
         live' # None => live' \in 1 .. files',
         DOMAIN plain' \subseteq DOMAIN plain, \A k \in DOMAIN plain' : plain'[k] = plain[k],
         DOMAIN gz' \subseteq DOMAIN gz, \A k \in DOMAIN gz' : gz'[k] = gz[k]
  PROVE  FilesInv'
<1>1. DOMAIN plain' \subseteq Keys /\ \A k \in DOMAIN plain' : plain'[k] \in 1 .. files'
  BY DEF FilesInv
<1>2. DOMAIN gz' \subseteq Keys /\ \A k \in DOMAIN gz' : gz'[k] \in (1 .. files') \X Nat
  <2>1. ASSUME NEW k \in DOMAIN gz' PROVE gz'[k] \in (1 .. files') \X Nat
    <3>1. gz[k] \in (1 .. files) \X Nat /\ gz'[k] = gz[k] BY DEF FilesInv
    <3>2. PICK a \in 1 .. files, b \in Nat : gz[k] = <<a, b>> BY <3>1
    <3> QED BY <3>1, <3>2
  <2> QED BY <2>1 DEF FilesInv
<1>3. \A k \in DOMAIN gz' : k \in DOMAIN plain' => gz'[k][1] = plain'[k] BY DEF FilesInv
<1> QED BY <1>1, <1>2, <1>3 DEF FilesInv

LEMMA FilesSame ==
  ASSUME FilesInv, files \in Nat, UNCHANGED <<live, plain, gz, files>>
  PROVE  FilesInv'
BY DEF FilesInv

(***************************************************************************)
(* The types are kept.                                                     *)
(***************************************************************************)

\* The inductive invariant.
LogInv ==
  /\ TypeInv /\ FilesInv /\ PhaseInv /\ MonoInv /\ TmpInv /\ LastInv /\ KeyInv /\ BusyInv
  /\ PhantomInv /\ CompInv /\ CopyInv /\ FdInv /\ DoomedInv /\ HeldInv /\ KeepInv /\ CleanInv
  /\ QueueInv

LEMMA FilesNat ==
  ASSUME TypeInv
  PROVE  files \in Nat /\ 1 .. files \subseteq Inodes /\ now \in Nat /\ MaxTime \in Nat /\ MaxFiles \in Nat
BY LogAssumption DEF TypeInv, Inodes

LEMMA RotationTypes ==
  ASSUME LogInv, Rotation
  PROVE  TypeInv' /\ FilesInv'
<1> USE DEF LogInv
<1> files \in Nat /\ MaxFiles \in Nat BY FilesNat
<1>1. CASE RotateCreate
  <2>1. CASE files' = files
    <3>1. sc' \in ScenarioType /\ fresh' = fresh BY <1>1, <2>1, CreateFacts, FaultFacts
    <3> QED BY <1>1, <2>1, <3>1, CreateFacts, FilesSame DEF TypeInv
  <2>2. CASE /\ files < MaxFiles /\ files' = files + 1 /\ fresh' = fresh \cup {files + 1} /\ sc' = sc
    <3>1. TypeInv' BY <1>1, <2>2, CreateFacts DEF TypeInv
    <3>2. live' # None => live' \in 1 .. files' BY <1>1, <2>2, CreateFacts DEF FilesInv
    <3> QED BY <1>1, <2>2, <3>1, <3>2, CreateFacts, FilesKept
  <2> QED BY <1>1, <2>1, <2>2, CreateFacts
<1>2. CASE RotateRename
  <2>1. sc' \in ScenarioType BY <1>2, RenameFacts, FaultFacts DEF TypeInv
  <2>2. TypeInv'
    <3>1. proc' \in ProcType /\ rot' \in RotType /\ fresh' \subseteq fresh /\ UNCHANGED <<now, gztmp, size, files, comp>>
      BY <1>2, RenameFacts
    <3> QED BY <2>1, <3>1 DEF TypeInv
  <2>3. CASE live' = live /\ plain' = plain BY <1>2, <2>2, <2>3, RenameFacts, FilesSame
  <2>4. CASE /\ FreeNames(rot.key) # {} /\ rot'.key = OldestOf(FreeNames(rot.key))
             /\ live # None /\ plain' = With(plain, rot'.key, live)
             /\ live' = live \/ live' = None
    <3>1. FreeNames(rot.key) \in SUBSET Keys BY DEF FreeNames
    <3>2. rot'.key \in FreeNames(rot.key) BY <2>4, <3>1, OldestIs
    <3>3. PICK k \in Keys : k = rot'.key /\ k \notin OnDisk BY <3>2 DEF FreeNames
    <3>4. live \in 1 .. files BY <2>4 DEF FilesInv
    <3>5. DOMAIN plain' = DOMAIN plain \cup {k} /\ plain'[k] = live
          /\ \A x \in DOMAIN plain : plain'[x] = plain[x]
      <4>1. plain' = With(plain, k, live) /\ k \notin DOMAIN plain BY <2>4, <3>3 DEF OnDisk
      <4> QED BY <4>1 DEF With
    <3>6. gz' = gz /\ files' = files BY <1>2, RenameFacts
    <3>7. \A x \in DOMAIN gz' : x \in DOMAIN plain' => gz'[x][1] = plain'[x]
      BY <3>3, <3>5, <3>6 DEF FilesInv, OnDisk
    <3> QED BY <2>2, <2>4, <3>3, <3>4, <3>5, <3>6, <3>7 DEF FilesInv
  <2> QED BY <1>2, <2>3, <2>4, RenameFacts
<1>3. CASE RotateUnlink
  <2>1. TypeInv' BY <1>3, UnlinkFacts DEF TypeInv
  <2> QED BY <1>3, <2>1, UnlinkFacts, FilesKept
<1>4. CASE RotateReplace
  <2>1. rot.key \in Keys /\ rot.pc = "replace" BY <1>4 DEF KeyInv, RotateReplace
  <2>2. sc' \in ScenarioType BY <1>4, <2>1, ReplaceFacts, FaultFacts DEF TypeInv
  <2>3. TypeInv' BY <1>4, <2>1, <2>2, ReplaceFacts DEF TypeInv
  <2>4. UNCHANGED <<files, gz>> BY <1>4, <2>1, ReplaceFacts
  <2>5. CASE live' = rot.tmp /\ plain' = plain BY <2>1, <2>3, <2>4, <2>5, FilesKept DEF TmpInv
  <2>6. CASE rot.did /\ live' = plain[rot.key] /\ plain' = Without(plain, rot.key)
    <3>1. live' \in 1 .. files BY <2>1, <2>6 DEF KeyInv, FilesInv
    <3>2. DOMAIN plain' \subseteq DOMAIN plain /\ \A x \in DOMAIN plain' : plain'[x] = plain[x]
      BY <2>6 DEF Without, Restrict
    <3> QED BY <2>3, <2>4, <3>1, <3>2, FilesKept
  <2>7. CASE UNCHANGED <<live, plain>> BY <2>3, <2>4, <2>7, FilesSame
  <2> QED BY <1>4, <2>1, <2>5, <2>6, <2>7, ReplaceFacts
<1>5. CASE RotateList
  <2>1. sc' \in ScenarioType BY <1>5, ListFacts, FaultFacts DEF TypeInv
  <2>2. TypeInv' BY <1>5, <2>1, ListFacts DEF TypeInv
  <2> QED BY <1>5, <2>2, ListFacts, FilesSame
<1>6. CASE PruneOne
  <2>1. TypeInv' BY <1>6, PruneFacts DEF TypeInv
  <2>2. live' # None => live' \in 1 .. files' BY <1>6, PruneFacts DEF FilesInv
  <2>3. PICK k : plain' = Without(plain, k) /\ gz' = Without(gz, k) /\ files' = files BY <1>6, PruneFacts
  <2>4. /\ DOMAIN plain' \subseteq DOMAIN plain /\ \A x \in DOMAIN plain' : plain'[x] = plain[x]
        /\ DOMAIN gz' \subseteq DOMAIN gz /\ \A x \in DOMAIN gz' : gz'[x] = gz[x]
    BY <2>3, WithoutIs
  <2> QED BY <2>1, <2>2, <2>3, <2>4, FilesKept
<1>7. CASE RotateQueue
  <2>1. rot.key \in Keys /\ rot.pc = "prune" BY <1>7 DEF KeyInv, RotateQueue
  <2>2. sc' \in ScenarioType BY <1>7, <2>1, QueueFacts, FaultFacts DEF TypeInv
  <2>3. TypeInv' BY <1>7, <2>1, <2>2, QueueFacts DEF TypeInv
  <2> QED BY <1>7, <2>1, <2>3, QueueFacts, FilesSame
<1> QED BY <1>1, <1>2, <1>3, <1>4, <1>5, <1>6, <1>7 DEF Rotation

LEMMA CompressionTypes ==
  ASSUME LogInv, Compression
  PROVE  TypeInv' /\ FilesInv'
<1> USE DEF LogInv
<1> files \in Nat /\ MaxFiles \in Nat /\ 1 .. files \subseteq Inodes BY FilesNat
<1>1. CASE CompressTake
  <2>1. TypeInv' BY <1>1, TakeFacts DEF TypeInv
  <2> QED BY <1>1, <2>1, TakeFacts, FilesSame
<1>2. CASE CompressOpen
  <2>1. sc' \in ScenarioType /\ proc' \in ProcType /\ gztmp' \subseteq Keys
    BY <1>2, CompressOpenFacts, FaultFacts, UncleanFacts DEF TypeInv
  <2>2. TypeInv' BY <1>2, <2>1, CompressOpenFacts DEF TypeInv
  <2> QED BY <1>2, <2>2, CompressOpenFacts, FilesSame
<1>3. CASE CompressCopy
  <2>1. comp.pc = "copy" /\ comp.src \in Inodes BY <1>3 DEF CompInv, FilesInv, CompressCopy
  <2>2. sc' \in ScenarioType /\ proc' \in ProcType /\ gztmp' \subseteq Keys
    BY <1>3, <2>1, CopyFacts, FaultFacts, UncleanFacts DEF TypeInv
  <2>3. TypeInv' BY <1>3, <2>1, <2>2, CopyFacts DEF TypeInv
  <2> QED BY <1>3, <2>1, <2>3, CopyFacts, FilesSame
<1>4. CASE CompressPublish
  <2>1. TypeInv' BY <1>4, PublishFacts DEF TypeInv
  <2>2. /\ comp.running \in DOMAIN plain /\ plain[comp.running] = comp.src
        /\ comp.got # None /\ comp.got[1] = comp.src
    BY <1>4, PublishFacts DEF CompInv
  <2>3. comp.got \in Inodes \X Nat BY <2>2 DEF TypeInv, CompType
  <2>4. PICK a \in Inodes, n \in Nat : comp.got = <<a, n>> BY <2>3
  <2>5. PICK r \in Keys : r = comp.running BY <2>2 DEF FilesInv
  <2>6. a = plain[r] /\ a \in 1 .. files BY <2>2, <2>4, <2>5 DEF FilesInv
  <2>7. /\ DOMAIN gz' = DOMAIN gz \cup {r} /\ gz'[r] = <<a, n>>
        /\ \A x \in DOMAIN gz \ {r} : gz'[x] = gz[x]
    <3>1. gz' = With(gz, r, <<a, n>>) BY <1>4, <2>4, <2>5, PublishFacts
    <3> QED BY <3>1 DEF With
  <2>8. UNCHANGED <<live, plain, files>> BY <1>4, PublishFacts
  <2>9. \A x \in DOMAIN gz' : gz'[x] \in (1 .. files) \X Nat /\ (x \in DOMAIN plain => gz'[x][1] = plain[x])
    BY <2>6, <2>7 DEF FilesInv
  <2> QED BY <2>1, <2>5, <2>7, <2>8, <2>9 DEF FilesInv
<1>5. CASE CompressUnlinkTmp
  <2>1. TypeInv' BY <1>5, UnlinkTmpFacts DEF TypeInv
  <2> QED BY <1>5, <2>1, UnlinkTmpFacts, FilesSame
<1>6. CASE CompressUnlink
  <2>1. TypeInv' BY <1>6, UnlinkSourceFacts DEF TypeInv
  <2>2. live' # None => live' \in 1 .. files' BY <1>6, UnlinkSourceFacts DEF FilesInv
  <2>3. DOMAIN plain' \subseteq DOMAIN plain /\ \A k \in DOMAIN plain' : plain'[k] = plain[k]
    <3>1. plain' = Without(plain, comp.running) \/ plain' = plain BY <1>6, UnlinkSourceFacts
    <3> QED BY <3>1 DEF Without, Restrict
  <2> QED BY <1>6, <2>1, <2>2, <2>3, UnlinkSourceFacts, FilesKept
<1>7. CASE CompressFinish
  <2>1. TypeInv' BY <1>7, FinishFacts DEF TypeInv
  <2> QED BY <1>7, <2>1, FinishFacts, FilesSame
<1>8. CASE CompressPruned
  <2>1. TypeInv' BY <1>8, PrunedFacts DEF TypeInv
  <2> QED BY <1>8, <2>1, PrunedFacts, FilesSame
<1> QED BY <1>1, <1>2, <1>3, <1>4, <1>5, <1>6, <1>7, <1>8 DEF Compression

LEMMA RestTypes == Down \in ProcType /\ NoRotation \in RotType /\ NoCompressor \in CompType
BY DEF Down, NoRotation, NoCompressor, ProcType, RotType, CompType

LEMMA ProcessTypes ==
  ASSUME LogInv, Open \/ Recovery \/ TimeRotate \/ Write \/ CloseBegin \/ CloseEnd \/ Crash \/ Tick
  PROVE  TypeInv' /\ FilesInv'
<1> USE DEF LogInv
<1> files \in Nat /\ MaxFiles \in Nat /\ 1 .. files \subseteq Inodes /\ files <= MaxFiles BY FilesNat DEF TypeInv
<1>1. CASE Open
  <2>1. files' \in 0 .. MaxFiles /\ files <= files' BY <1>1, OpenFacts
  <2>2. rot' \in RotType /\ comp' \in CompType BY <1>1, OpenFacts, RestTypes
  <2>3. fresh' \subseteq 1 .. files'
    <3>1. fresh' = fresh /\ fresh \subseteq 1 .. files BY <1>1, OpenFacts DEF TypeInv
    <3> QED BY <2>1, <3>1
  <2>4. TypeInv' BY <1>1, <2>1, <2>2, <2>3, OpenFacts DEF TypeInv
  <2>5. live' # None => live' \in 1 .. files'
    <3>1. CASE live' = live /\ files' = files BY <3>1 DEF FilesInv
    <3>2. CASE live' = files + 1 /\ files' = files + 1 BY <3>2
    <3> QED BY <1>1, <3>1, <3>2, OpenFacts
  <2>6. UNCHANGED <<plain, gz>> BY <1>1, OpenFacts
  <2> QED BY <2>1, <2>4, <2>5, <2>6, FilesKept
<1>2. ASSUME NEW i \in fresh, RemoveStaleTmp(i) PROVE TypeInv' /\ FilesInv'
  <2>1. TypeInv' BY <1>2 DEF TypeInv, RemoveStaleTmp
  <2>2. UNCHANGED <<live, plain, gz, files>> BY <1>2 DEF RemoveStaleTmp
  <2> QED BY <2>1, <2>2, FilesSame
<1>3. ASSUME NEW k \in gztmp, RemoveStaleGz(k) PROVE TypeInv' /\ FilesInv'
  <2>1. TypeInv' BY <1>3 DEF TypeInv, RemoveStaleGz
  <2>2. UNCHANGED <<live, plain, gz, files>> BY <1>3 DEF RemoveStaleGz
  <2> QED BY <2>1, <2>2, FilesSame
<1>4. ASSUME NEW k \in DOMAIN plain, Requeue(k) PROVE TypeInv' /\ FilesInv'
  <2>1. k \in Keys /\ comp' = Enqueued(comp, k) /\ comp \in CompType BY <1>4 DEF FilesInv, TypeInv, Requeue
  <2>2. comp' \in CompType BY <2>1, EnqueuedFacts
  <2>3. TypeInv' BY <1>4, <2>2 DEF TypeInv, Requeue
  <2>4. /\ UNCHANGED <<live, plain, files>>
        /\ DOMAIN gz' \subseteq DOMAIN gz /\ \A x \in DOMAIN gz' : gz'[x] = gz[x]
    BY <1>4 DEF Requeue, Without, Restrict
  <2>5. live' # None => live' \in 1 .. files' BY <2>4 DEF FilesInv
  <2> QED BY <2>3, <2>4, <2>5, FilesKept
<1>5. CASE Opened
  <2>1. TypeInv' BY <1>5, OpenedFacts DEF TypeInv
  <2> QED BY <1>5, <2>1, OpenedFacts, FilesSame
<1>6. CASE TimeRotate
  <2>1. TypeInv' BY <1>6, TimeRotateFacts DEF TypeInv
  <2> QED BY <1>6, <2>1, TimeRotateFacts, FilesSame
<1>7. CASE Write
  <2>1. TypeInv' BY <1>7, WriteFacts DEF TypeInv
  <2> QED BY <1>7, <2>1, WriteFacts, FilesSame
<1>8. CASE CloseBegin
  <2>1. TypeInv' BY <1>8, CloseBeginFacts DEF TypeInv
  <2> QED BY <1>8, <2>1, CloseBeginFacts, FilesSame
<1>9. CASE CloseEnd
  <2>1. TypeInv' BY <1>9, CloseEndFacts DEF TypeInv
  <2> QED BY <1>9, <2>1, CloseEndFacts, FilesSame
<1>10. CASE Crash
  <2>1. TypeInv' BY <1>10, CrashFacts DEF TypeInv
  <2> QED BY <1>10, <2>1, CrashFacts, FilesSame
<1>11. CASE Tick
  <2>1. TypeInv' BY <1>11, TickFacts DEF TypeInv
  <2> QED BY <1>11, <2>1, TickFacts, FilesSame
<1> QED BY <1>1, <1>2, <1>3, <1>4, <1>5, <1>6, <1>7, <1>8, <1>9, <1>10, <1>11 DEF Recovery

LEMMA InitTypes == Init => TypeInv /\ FilesInv /\ PhaseInv /\ QueueInv
<1> SUFFICES ASSUME Init PROVE TypeInv /\ FilesInv /\ PhaseInv /\ QueueInv OBVIOUS
<1>1. proc \in ProcType /\ rot \in RotType /\ comp \in CompType
  BY RestTypes DEF Init
<1>2. TypeInv BY <1>1, LogAssumption DEF Init, TypeInv, Inodes
<1>3. FilesInv BY DEF Init, FilesInv
<1>4. PhaseInv BY DEF Init, PhaseInv, Active, Down, NoRotation, NoCompressor
<1>5. comp.queue = <<>> /\ Len(comp.queue) = 0 BY DEF Init, NoCompressor
<1>6. DOMAIN comp.queue = {} BY <1>5
<1>7. Range(comp.queue) = {} BY <1>6 DEF Range
<1>8. QueueInv BY <1>5, <1>7 DEF QueueInv, Distinct
<1> QED BY <1>2, <1>3, <1>4, <1>8

(***************************************************************************)
(* The phases, and the queue of the compressor.                            *)
(***************************************************************************)

LEMMA IdleFacts ==
  /\ NoRotation.pc = "idle" /\ NoRotation.doomed = {} /\ ~NoRotation.did
  /\ NoCompressor.pc = "none" /\ NoCompressor.queue = <<>> /\ NoCompressor.running = None
  /\ NoCompressor.left = {} /\ ~NoCompressor.keepTmp /\ ~NoCompressor.deferred
  /\ Down.status = "down" /\ Down.fd = None /\ Down.last = None /\ Down.clean
BY DEF NoRotation, NoCompressor, Down

LEMMA EmptyQueue == Distinct(<<>>) /\ Range(<<>>) = {}
<1> DEFINE s == <<>>
<1>1. Len(s) = 0 /\ DOMAIN s = {} OBVIOUS
<1> QED BY <1>1 DEF Distinct, Range

LEMMA EnqueueStep ==
  ASSUME comp \in CompType, NEW k \in Keys, comp' = Enqueued(comp, k)
  PROVE  /\ comp' \in CompType
         /\ comp'.queue = Append(comp.queue, k) /\ Range(comp'.queue) = Range(comp.queue) \cup {k}
         /\ Distinct(comp.queue) /\ k \notin Range(comp.queue) => Distinct(comp'.queue)
         /\ comp'.pc = IF comp.pc = "none" THEN "wait" ELSE comp.pc
         /\ comp'.running = comp.running /\ comp'.src = comp.src /\ comp'.got = comp.got
         /\ comp'.left = comp.left /\ comp'.keepTmp = comp.keepTmp /\ comp'.deferred = comp.deferred
<1>0. PICK c \in CompType : c = comp OBVIOUS
<1>1. PICK d : c = comp /\ d = comp' /\ d = Enqueued(c, k) BY <1>0
<1>2. /\ d \in CompType
      /\ d.queue = Append(c.queue, k) /\ Range(d.queue) = Range(c.queue) \cup {k}
      /\ Distinct(c.queue) /\ k \notin Range(c.queue) => Distinct(d.queue)
      /\ d.pc = IF c.pc = "none" THEN "wait" ELSE c.pc
      /\ d.running = c.running /\ d.src = c.src /\ d.got = c.got /\ d.left = c.left
      /\ d.keepTmp = c.keepTmp /\ d.deferred = c.deferred
  BY <1>1, EnqueuedFacts
<1> QED BY <1>1, <1>2

LEMMA PhaseKept ==
  ASSUME LogInv, Next
  PROVE  PhaseInv' /\ QueueInv'
<1> USE DEF LogInv
<1>1. CASE Open
  BY <1>1, OpenFacts, IdleFacts, EmptyQueue DEF PhaseInv, QueueInv, Active
<1>2. ASSUME NEW i \in fresh, RemoveStaleTmp(i) PROVE PhaseInv' /\ QueueInv'
  BY <1>2 DEF PhaseInv, QueueInv, Active, RemoveStaleTmp
<1>3. ASSUME NEW k \in gztmp, RemoveStaleGz(k) PROVE PhaseInv' /\ QueueInv'
  BY <1>3 DEF PhaseInv, QueueInv, Active, RemoveStaleGz
<1>4. ASSUME NEW k \in DOMAIN plain, Requeue(k) PROVE PhaseInv' /\ QueueInv'
  <2>1. k \in Keys /\ comp \in CompType BY <1>4 DEF FilesInv, TypeInv, Requeue
  <2>2. comp' = Enqueued(comp, k) /\ k \in Unrecovered /\ proc.status = "opening" /\ UNCHANGED <<proc, rot>>
    <3>1. Unrecovered \in SUBSET Keys BY DEF Unrecovered, FilesInv
    <3> QED BY <1>4, <3>1, OldestIs DEF Requeue
  <2>3. comp.running = None /\ comp.pc \in {"none", "wait"} BY <2>2 DEF PhaseInv
  <2>4. k \notin Range(comp.queue) /\ k # None BY <2>1, <2>2, NoneFacts DEF Unrecovered
  <2>5. PhaseInv' BY <2>1, <2>2, <2>3, EnqueueStep DEF PhaseInv, Active
  <2>6. /\ Range(comp'.queue) = Range(comp.queue) \cup {k} /\ Distinct(comp'.queue)
        /\ comp'.running = comp.running
    <3>1. Distinct(comp.queue) BY DEF QueueInv
    <3> QED BY <2>1, <2>2, <2>4, <3>1, EnqueueStep
  <2> QED BY <2>3, <2>4, <2>5, <2>6 DEF QueueInv
<1>5. CASE Opened BY <1>5, OpenedFacts DEF PhaseInv, QueueInv, Active
<1>6. CASE TimeRotate BY <1>6, TimeRotateFacts DEF PhaseInv, QueueInv, Active
<1>7. CASE Write BY <1>7, WriteFacts DEF PhaseInv, QueueInv, Active
<1>8. CASE CloseBegin BY <1>8, CloseBeginFacts DEF PhaseInv, QueueInv, Active
<1>9. CASE CloseEnd BY <1>9, CloseEndFacts, IdleFacts, EmptyQueue DEF PhaseInv, QueueInv, Active
<1>10. CASE Crash BY <1>10, CrashFacts, IdleFacts, EmptyQueue DEF PhaseInv, QueueInv, Active
<1>11. CASE Tick BY <1>11, TickFacts DEF PhaseInv, QueueInv, Active
<1>12. CASE RotateCreate
  <2>1. rot.doomed = {} BY <1>12, CreateFacts DEF PhaseInv
  <2>2. comp.deferred => proc'.last # None BY <1>12, CreateFacts DEF PhaseInv
  <2>3. rot'.doomed = {} /\ rot'.pc \in {"rename", "idle", "write"}
    BY <1>12, <2>1, CreateFacts, IdleFacts DEF TypeInv, RotType, NoRotation
  <2> QED BY <1>12, <2>2, <2>3, CreateFacts DEF PhaseInv, QueueInv, Active
<1>13. CASE RotateRename BY <1>13, RenameFacts DEF PhaseInv, QueueInv, Active
<1>14. CASE RotateUnlink BY <1>14, UnlinkFacts DEF PhaseInv, QueueInv, Active
<1>15. CASE RotateReplace
  <2>1. rot.key \in Keys BY <1>15 DEF KeyInv, RotateReplace
  <2>2. comp.deferred => proc'.last # None BY <1>15, <2>1, ReplaceFacts, NoneFacts DEF PhaseInv
  <2> QED BY <1>15, <2>1, <2>2, ReplaceFacts DEF PhaseInv, QueueInv, Active
<1>16. CASE RotateList
  <2>1. proc.last # None BY <1>16, NoneFacts DEF KeyInv, RotateList
  <2> QED BY <1>16, <2>1, ListFacts DEF PhaseInv, QueueInv, Active
<1>17. CASE PruneOne BY <1>17, PruneFacts DEF PhaseInv, QueueInv, Active
<1>18. CASE RotateQueue
  <2>1. rot.key \in Keys /\ (rot.did => rot.key \notin Busy) /\ comp \in CompType
    BY <1>18 DEF KeyInv, RotateQueue, TypeInv
  <2>2. CASE comp' = comp BY <1>18, <2>1, <2>2, QueueFacts DEF PhaseInv, QueueInv, Active
  <2>3. CASE rot.did /\ comp' = Enqueued(comp, rot.key)
    <3>1. rot.key \notin Range(comp.queue) /\ rot.key # comp.running
      BY <2>1, <2>3, NoneFacts DEF Busy
    <3>2. PICK k \in Keys : k = rot.key BY <2>1
    <3>3. /\ comp'.queue = Append(comp.queue, k) /\ Range(comp'.queue) = Range(comp.queue) \cup {k}
          /\ Distinct(comp'.queue) /\ comp'.running = comp.running /\ comp'.deferred = comp.deferred
          /\ comp'.pc = IF comp.pc = "none" THEN "wait" ELSE comp.pc
      <4>1. comp' = Enqueued(comp, k) /\ k \notin Range(comp.queue) /\ Distinct(comp.queue)
        BY <2>3, <3>1, <3>2 DEF QueueInv
      <4> QED BY <2>1, <4>1, EnqueueStep
    <3>4. PhaseInv' BY <1>18, <2>1, <3>3, QueueFacts DEF PhaseInv, Active
    <3> QED BY <3>1, <3>2, <3>3, <3>4 DEF QueueInv
  <2> QED BY <1>18, <2>1, <2>2, <2>3, QueueFacts
<1>19. CASE CompressTake
  <2>1. comp'.running # None BY <1>19, TakeFacts, NoneFacts
  <2>2. PhaseInv' BY <1>19, <2>1, IdleFacts, TakeFacts DEF PhaseInv, Active
  <2> QED BY <1>19, <2>2, TakeFacts DEF QueueInv
<1>20. CASE CompressOpen
  <2>1. proc'.status = proc.status /\ proc'.last = proc.last BY <1>20, CompressOpenFacts, UncleanFacts
  <2> QED BY <1>20, <2>1, IdleFacts, CompressOpenFacts DEF PhaseInv, QueueInv, Active, CompSame
<1>21. CASE CompressCopy
  <2>1. comp.src \in Inodes BY <1>21, FilesNat DEF CompInv, FilesInv, CompressCopy
  <2>2. proc'.status = proc.status /\ proc'.last = proc.last BY <1>21, <2>1, CopyFacts, UncleanFacts
  <2> QED BY <1>21, <2>1, <2>2, IdleFacts, CopyFacts DEF PhaseInv, QueueInv, Active, CompSame
<1>22. CASE CompressPublish BY <1>22, IdleFacts, PublishFacts DEF PhaseInv, QueueInv, Active, CompSame
<1>23. CASE CompressUnlinkTmp BY <1>23, IdleFacts, UnlinkTmpFacts DEF PhaseInv, QueueInv, Active, CompSame
<1>24. CASE CompressUnlink BY <1>24, IdleFacts, UnlinkSourceFacts DEF PhaseInv, QueueInv, Active, CompSame
<1>25. CASE CompressFinish
  <2>1. None \notin Range(comp.queue)
    <3>1. comp.queue \in Seq(Keys) BY DEF TypeInv, CompType
    <3>2. \A i \in DOMAIN comp.queue : comp.queue[i] \in Keys BY <3>1
    <3> QED BY <3>2, NoneFacts DEF Range
  <2>2. PhaseInv' BY <1>25, IdleFacts, FinishFacts DEF PhaseInv, Active
  <2> QED BY <1>25, <2>1, <2>2, FinishFacts DEF QueueInv
<1>26. CASE CompressPruned BY <1>26, IdleFacts, PrunedFacts DEF PhaseInv, QueueInv, Active, CompSame
<1> QED BY <1>1, <1>2, <1>3, <1>4, <1>5, <1>6, <1>7, <1>8, <1>9, <1>10, <1>11, <1>12, <1>13, <1>14,
           <1>15, <1>16, <1>17, <1>18, <1>19, <1>20, <1>21, <1>22, <1>23, <1>24, <1>25, <1>26
        DEF Next, Recovery, Rotation, Compression

(***************************************************************************)
(* What is on disk after a step, by the file each name holds.              *)
(***************************************************************************)
LEMMA DiskFacts ==
  ASSUME TypeInv, FilesInv
  PROVE  /\ OnDisk \in SUBSET Keys /\ Settled \subseteq OnDisk
         /\ \A k \in OnDisk : Holds(k) \in 1 .. files /\ Holds(k) \in Nat /\ Holds(k) \in Inodes
         /\ sc.keep \in Nat \ {0} /\ files \in Nat
<1>1. OnDisk \in SUBSET Keys /\ Settled \subseteq OnDisk BY DEF OnDisk, Settled, FilesInv
<1>2. files \in Nat /\ 1 .. files \subseteq Inodes BY FilesNat
<1>3. ASSUME NEW k \in OnDisk PROVE Holds(k) \in 1 .. files
  <2>1. CASE k \in DOMAIN plain BY <2>1 DEF FilesInv, Holds
  <2>2. CASE k \notin DOMAIN plain
    <3>1. k \in DOMAIN gz BY <2>2 DEF OnDisk
    <3>2. gz[k] \in (1 .. files) \X Nat BY <3>1 DEF FilesInv
    <3> QED BY <2>2, <3>2 DEF Holds
  <2> QED BY <2>1, <2>2
<1>4. sc.keep \in Nat \ {0} BY DEF TypeInv, ScenarioType
<1> QED BY <1>1, <1>2, <1>3, <1>4

\* More names for later files cannot endanger a file.
LEMMA MoreIsSafe ==
  ASSUME NEW S \in SUBSET Keys, NEW T \in SUBSET Keys, S \subseteq T, NEW n \in Nat, Cardinality(S) >= n
  PROVE  Cardinality(T) >= n
<1>1. IsFiniteSet(T) /\ Cardinality(S) \in Nat /\ Cardinality(T) \in Nat BY KeysFinite
<1>2. Cardinality(S) <= Cardinality(T) BY <1>1, FS_Subset
<1> QED BY <1>1, <1>2

LEMMA NewerGrows ==
  ASSUME TypeInv, FilesInv, FilesInv', sc'.keep = sc.keep,
         Settled \subseteq Settled', \A k \in Settled : Holds(k)' = Holds(k),
         NEW i \in Inodes, Cardinality(Newer(i)) >= sc.keep
  PROVE  Cardinality(Newer(i)') >= sc'.keep
<1>1. Newer(i) \subseteq Newer(i)' BY DEF Newer
<1>2. Newer(i) \in SUBSET Keys /\ sc.keep \in Nat BY DiskFacts DEF Newer
<1>3. Newer(i)' \in SUBSET Keys BY DEF Newer, Settled, OnDisk, FilesInv
<1> QED BY <1>1, <1>2, <1>3, MoreIsSafe

LEMMA ViewGrows ==
  ASSUME TypeInv, FilesInv, FilesInv', sc'.keep = sc.keep, size' = size,
         OnDisk \subseteq OnDisk', \A k \in OnDisk : Holds(k)' = Holds(k),
         Settled \subseteq Settled', \A i \in Inodes : live = i => live' = i
  PROVE  /\ HeldInv => HeldInv'
         /\ \A k, n : \A i \in Inodes : Enough(k, i, n) => Enough(k, i, n)'
<1>1. \A k \in Settled : Holds(k)' = Holds(k) BY DiskFacts
<1>2. \A i \in Inodes : Safe(i) => Safe(i)' BY <1>1, NewerGrows DEF Safe
<1>3. HeldInv => HeldInv' BY <1>2 DEF HeldInv
<1>4. \A k, n : \A i \in Inodes : Enough(k, i, n) => Enough(k, i, n)' BY <1>2 DEF Enough
<1> QED BY <1>3, <1>4

LEMMA SameView ==
  ASSUME UNCHANGED <<live, plain, gz, size>>, sc'.keep = sc.keep, Settled' = Settled
  PROVE  /\ OnDisk' = OnDisk /\ \A k : Holds(k)' = Holds(k)
         /\ \A i : Newer(i)' = Newer(i) /\ (Safe(i) => Safe(i)')
         /\ MonoInv => MonoInv'
         /\ HeldInv => HeldInv'
         /\ CopyInv => CopyInv'
         /\ \A k, i, n : Enough(k, i, n) => Enough(k, i, n)'
<1>1. OnDisk' = OnDisk /\ \A k : Holds(k)' = Holds(k) BY DEF OnDisk, Holds
<1>2. \A i : Newer(i)' = Newer(i) BY <1>1 DEF Newer
<1>3. \A i : Safe(i) => Safe(i)' BY <1>2 DEF Safe
<1>4. MonoInv => MonoInv' BY <1>1 DEF MonoInv
<1>5. HeldInv => HeldInv' BY <1>1, <1>3 DEF HeldInv
<1>6. \A k, i, n : Enough(k, i, n) => Enough(k, i, n)' BY <1>1, <1>3 DEF Enough
<1>7. CopyInv => CopyInv' BY <1>6 DEF CopyInv
<1> QED BY <1>1, <1>2, <1>3, <1>4, <1>5, <1>6, <1>7

\* What the directory holds.
DiskInv == MonoInv /\ HeldInv /\ CopyInv /\ CompInv

LEMMA OpenDisk ==
  ASSUME LogInv, Open, FilesInv'
  PROVE  DiskInv'
<1> USE DEF LogInv
<1>1. ~Pending /\ ~Pending' BY OpenFacts, IdleFacts DEF PhaseInv, Active, Pending
<1>2. UNCHANGED <<plain, gz, size>> /\ sc'.keep = sc.keep BY OpenFacts
<1>3. OnDisk' = OnDisk /\ (\A k : Holds(k)' = Holds(k)) /\ Settled = OnDisk /\ Settled' = OnDisk
  BY <1>1, <1>2 DEF OnDisk, Holds, Settled
<1>4. \A i \in Inodes : live = i => live' = i BY OpenFacts, NoneFacts
<1>5. HeldInv' /\ \A k, n : \A i \in Inodes : Enough(k, i, n) => Enough(k, i, n)'
  BY <1>2, <1>3, <1>4, ViewGrows
<1>6. MonoInv'
  <2>1. \A k \in OnDisk' : Holds(k)' <= live'
    <3>1. CASE live' = live /\ live # None BY <1>3, <3>1 DEF MonoInv
    <3>2. CASE live' = files + 1 BY <1>3, <3>2, DiskFacts
    <3> QED BY <3>1, <3>2, OpenFacts
  <2> QED BY <1>3, <2>1 DEF MonoInv
<1>7. CopyInv'
  <2>1. \A k \in DOMAIN gz : gz[k][1] \in Inodes BY FilesNat DEF FilesInv
  <2> QED BY <1>2, <1>5, <2>1 DEF CopyInv
<1>8. CompInv' BY OpenFacts, IdleFacts DEF CompInv
<1> QED BY <1>5, <1>6, <1>7, <1>8 DEF DiskInv

LEMMA RequeueDisk ==
  ASSUME LogInv, FilesInv', NEW q \in DOMAIN plain, Requeue(q)
  PROVE  DiskInv'
<1> USE DEF LogInv
<1>1. /\ proc.status = "opening" /\ UNCHANGED <<sc, live, plain, size, rot>>
      /\ gz' = Without(gz, q) /\ comp' = Enqueued(comp, q)
  BY DEF Requeue
<1>2. DOMAIN gz' = DOMAIN gz \ {q} /\ \A k \in DOMAIN gz' : gz'[k] = gz[k]
  BY <1>1 DEF Without, Restrict
<1>3. OnDisk' = OnDisk /\ \A k \in OnDisk : Holds(k)' = Holds(k) BY <1>1, <1>2 DEF OnDisk, Holds
<1>4. Settled' = Settled BY <1>1, <1>3 DEF Settled, Pending
<1>5. HeldInv' /\ \A k, n : \A i \in Inodes : Enough(k, i, n) => Enough(k, i, n)'
  BY <1>1, <1>3, <1>4, ViewGrows
<1>6. MonoInv' BY <1>1, <1>3 DEF MonoInv
<1>7. CopyInv'
  <2>1. \A k \in DOMAIN gz : gz[k][1] \in Inodes BY FilesNat DEF FilesInv
  <2> QED BY <1>1, <1>2, <1>5, <2>1 DEF CopyInv
<1>8. CompInv'
  <2>1. q \in Keys /\ comp \in CompType BY DEF FilesInv, TypeInv
  <2>2. comp'.pc \in {"none", "wait"} BY <1>1, <2>1, EnqueueStep DEF PhaseInv
  <2> QED BY <2>2 DEF CompInv
<1> QED BY <1>5, <1>6, <1>7, <1>8 DEF DiskInv

\* A write goes to the live file, or to the one whose name is the newest.
LEMMA WriteDisk ==
  ASSUME LogInv, Write
  PROVE  DiskInv'
<1> USE DEF LogInv
<1>1. /\ UNCHANGED <<live, plain, gz, comp>> /\ sc'.keep = sc.keep /\ proc.status = "up" /\ proc.fd \in Inodes
      /\ size' = [size EXCEPT ![proc.fd] = @ + 1] /\ rot.pc \in {"idle", "write"} /\ rot'.pc \in {"idle", "create"}
  BY WriteFacts
<1>2. OnDisk' = OnDisk /\ (\A k : Holds(k)' = Holds(k)) /\ Settled' = Settled /\ Settled = OnDisk
  BY <1>1 DEF OnDisk, Holds, Settled, Pending
<1>3. \A i : Newer(i)' = Newer(i) BY <1>2 DEF Newer
<1>4. \A i : Safe(i) => Safe(i)' BY <1>1, <1>3 DEF Safe
<1>5. size \in [Inodes -> Nat] /\ \A i \in Inodes : i # proc.fd => size'[i] = size[i] BY <1>1 DEF TypeInv
<1>6. live = proc.fd \/ Stranded BY <1>1 DEF FdInv, Active, Pending
<1>7. MonoInv' BY <1>1, <1>2 DEF MonoInv
<1>8. HeldInv'
  <2>1. CASE live = proc.fd BY <1>1, <1>2, <1>4, <1>5, <2>1 DEF HeldInv, Safe
  <2>2. CASE Stranded
    <3>1. PICK k \in DOMAIN plain : plain[k] = proc.fd BY <2>2 DEF Stranded
    <3>2. k \in OnDisk /\ Holds(k) = proc.fd BY <3>1 DEF OnDisk, Holds
    <3> QED BY <1>2, <1>4, <1>5, <3>2 DEF HeldInv
  <2> QED BY <1>6, <2>1, <2>2
<1>9. ASSUME NEW k \in OnDisk, NEW i \in Inodes, NEW n, Enough(k, i, n), k \in Busy \/ k \notin DOMAIN plain
      PROVE  Enough(k, i, n)'
  <2>1. CASE i # proc.fd BY <1>2, <1>4, <1>5, <1>9, <2>1 DEF Enough
  <2>2. CASE i = proc.fd /\ live = proc.fd BY <1>1, <2>2 DEF Enough, Safe
  <2>3. CASE i = proc.fd /\ Stranded
    <3>1. PICK m \in DOMAIN plain : /\ plain[m] = proc.fd /\ m \notin Busy
                                    /\ \A l \in OnDisk \ {m} : Older(l, m)
      BY <2>3 DEF Stranded
    <3>2. m \in OnDisk /\ Holds(m) = i /\ k # m BY <1>9, <2>3, <3>1 DEF OnDisk, Holds
    <3> QED BY <1>2, <3>1, <3>2 DEF Enough
  <2> QED BY <1>6, <2>1, <2>2, <2>3
<1>10. CopyInv'
  <2>1. \A k \in DOMAIN gz : gz[k][1] \in Inodes /\ k \in OnDisk BY FilesNat DEF FilesInv, OnDisk
  <2> QED BY <1>1, <1>9, <2>1 DEF CopyInv
<1>11. CompInv'
  <2>1. CASE comp.pc \in {"publish", "linked", "unlink"}
    <3>1. comp.running \in DOMAIN plain /\ plain[comp.running] = comp.src BY <2>1 DEF CompInv
    <3>2. comp.running \in OnDisk /\ comp.running \in Busy /\ comp.src \in Inodes
      BY <3>1, NoneFacts, FilesNat DEF OnDisk, Busy, FilesInv
    <3>0. PICK n : n = comp.got[2] OBVIOUS
    <3>3. PICK k \in OnDisk, i \in Inodes : k = comp.running /\ i = comp.src /\ n = comp.got[2]
      BY <3>0, <3>2
    <3>4. Enough(k, i, n) BY <2>1, <3>3 DEF CompInv
    <3>5. Enough(k, i, n)' BY <1>9, <3>2, <3>3, <3>4
    <3>6. Enough(comp.running, comp.src, comp.got[2])' BY <1>1, <3>3, <3>5 DEF Enough, Safe
    <3> QED BY <1>1, <3>6 DEF CompInv
  <2>2. CASE comp.pc \notin {"publish", "linked", "unlink"} BY <1>1, <2>2 DEF CompInv
  <2> QED BY <2>1, <2>2
<1> QED BY <1>7, <1>8, <1>10, <1>11 DEF DiskInv

\* The name of a rotation is free, and newer than every name.
LEMMA RotatedName ==
  ASSUME LogInv, rot.pc = "rename", FreeNames(rot.key) # {}, NEW k, k = OldestOf(FreeNames(rot.key))
  PROVE  /\ k \in Keys /\ k \notin OnDisk /\ \A l \in OnDisk : Older(l, k)
         /\ proc.last # None => Older(proc.last, k)
<1> USE DEF LogInv
<1>1. FreeNames(rot.key) \in SUBSET Keys BY DEF FreeNames
<1>2. k \in FreeNames(rot.key) BY <1>1, OldestIs
<1>3. k \in Keys /\ k \notin OnDisk /\ k[1] = rot.key[1] /\ k[2] >= rot.key[2] BY <1>2 DEF FreeNames
<1>4. rot.key # None /\ rot.key \in ((0 .. MaxTime) \X Nat) \cup {None} BY DEF TypeInv, RotType, KeyInv
<1>5. PICK r \in Nat \X Nat : r = rot.key BY <1>4, LogAssumption
<1>6. PICK x \in Nat \X Nat : x = k BY <1>3, KeysFinite
<1>7. x = r \/ Older(r, x)
  <2>1. x[1] = r[1] /\ x[2] \in Nat /\ r[2] \in Nat /\ x[2] >= r[2] BY <1>3, <1>5, <1>6
  <2>2. x = <<x[1], x[2]>> /\ r = <<r[1], r[2]>> BY <1>5, <1>6
  <2> QED BY <2>1, <2>2 DEF Older
<1>8. ASSUME NEW l \in Nat \X Nat, AtMost(l, r) PROVE l = x \/ Older(l, x)
  BY <1>7, <1>8, OrderFacts DEF AtMost
<1>9. ASSUME NEW l \in OnDisk PROVE Older(l, k)
  <2>1. AtMost(l, r) /\ l \in Nat \X Nat BY <1>5, KeysFinite, DiskFacts DEF KeyInv
  <2> QED BY <1>3, <1>6, <1>8, <2>1
<1>10. ASSUME proc.last # None PROVE Older(proc.last, k)
  <2>1. proc.last \in Keys BY <1>10 DEF TypeInv, ProcType
  <2>2. PICK p \in Nat \X Nat : p = proc.last BY <2>1, KeysFinite
  <2>3. Older(p, r) BY <1>5, <1>10, <2>2 DEF KeyInv
  <2> QED BY <1>6, <1>7, <2>2, <2>3, OrderFacts
<1> QED BY <1>3, <1>9, <1>10

LEMMA RenameDisk ==
  ASSUME LogInv, RotateRename, FilesInv'
  PROVE  DiskInv' /\ Settled' = Settled
<1> USE DEF LogInv
<1>1. /\ rot.pc = "rename" /\ UNCHANGED <<gz, size, comp>> /\ sc'.keep = sc.keep
  <2>1. sc'.keep = sc.keep BY RenameFacts, FaultFacts
  <2> QED BY <2>1, RenameFacts
<1>2. Settled = OnDisk BY <1>1 DEF Settled, Pending
<1>3. CASE UNCHANGED <<live, plain>>
  <2>1. ~Pending'
    <3>1. CASE rot'.did BY <1>1, <1>3, <3>1, RenameFacts, RotatedName DEF OnDisk, Pending, With
    <3>2. CASE ~rot'.did BY <3>2 DEF Pending
    <3> QED BY <3>1, <3>2
  <2>2. Settled' = Settled BY <1>1, <1>2, <1>3, <2>1 DEF Settled, OnDisk
  <2>3. /\ MonoInv' /\ HeldInv' /\ CopyInv'
        /\ \A k, i, n : Enough(k, i, n) => Enough(k, i, n)'
    BY <1>1, <1>3, <2>2, SameView
  <2>4. CompInv' BY <1>1, <1>3, <2>3 DEF CompInv
  <2> QED BY <2>2, <2>3, <2>4 DEF DiskInv
<1>4. ASSUME NEW k, k = rot'.key, k = OldestOf(FreeNames(rot.key)), FreeNames(rot.key) # {},
             live # None, plain' = With(plain, k, live), rot'.did, rot'.pc \in {"unlink", "replace"},
             live' = live \/ live' = None
      PROVE  DiskInv' /\ Settled' = Settled
  <2>1. k \in Keys /\ k \notin OnDisk /\ \A l \in OnDisk : Older(l, k) BY <1>1, <1>4, RotatedName
  <2>2. /\ DOMAIN plain' = DOMAIN plain \cup {k} /\ plain'[k] = live
        /\ \A x \in DOMAIN plain : plain'[x] = plain[x]
    <3>1. k \notin DOMAIN plain BY <2>1 DEF OnDisk
    <3> QED BY <1>4, <3>1 DEF With
  <2>3. /\ OnDisk' = OnDisk \cup {k} /\ Holds(k)' = live
        /\ \A x \in OnDisk : Holds(x)' = Holds(x)
    BY <1>1, <2>1, <2>2 DEF OnDisk, Holds
  <2>4. Settled' = OnDisk /\ Settled' = Settled BY <1>2, <1>4, <2>1, <2>3 DEF Settled, Pending
  <2>5. live \in Inodes /\ live \in Nat BY <1>4, FilesNat DEF FilesInv
  <2>6. \A i \in Inodes : Cardinality(Newer(i)) >= sc.keep => Cardinality(Newer(i)') >= sc'.keep
    BY <1>1, <1>2, <2>3, <2>4, NewerGrows
  <2>7. \A i \in Inodes : Safe(i) => i = live \/ Safe(i)' BY <2>6 DEF Safe
  <2>8. MonoInv'
    <3>1. ASSUME NEW x \in OnDisk', NEW y \in OnDisk', Older(x, y) PROVE Holds(x)' <= Holds(y)'
      <4>1. CASE x = k
        <5>1. x \in Nat \X Nat /\ y \in Nat \X Nat BY <2>1, <2>3, DiskFacts, KeysFinite
        <5>2. y = k \/ Older(y, k) BY <2>1, <2>3
        <5> QED BY <3>1, <4>1, <5>1, <5>2, OrderFacts
      <4>2. CASE x # k /\ y = k BY <1>4, <2>3, <4>2 DEF MonoInv
      <4>3. CASE x # k /\ y # k BY <2>3, <3>1, <4>3 DEF MonoInv
      <4> QED BY <4>1, <4>2, <4>3
    <3>2. live' # None => \A x \in OnDisk' : Holds(x)' <= live' BY <1>4, <2>3, <2>5 DEF MonoInv
    <3> QED BY <3>1, <3>2 DEF MonoInv
  <2>9. HeldInv' BY <1>1, <2>3, <2>7 DEF HeldInv
  <2>10. ASSUME NEW l \in OnDisk, NEW i \in Inodes, NEW n, Enough(l, i, n) PROVE Enough(l, i, n)'
    BY <1>1, <2>1, <2>3, <2>7, <2>10 DEF Enough
  <2>11. CopyInv'
    <3>1. \A x \in DOMAIN gz : gz[x][1] \in Inodes /\ x \in OnDisk BY FilesNat DEF FilesInv, OnDisk
    <3> QED BY <1>1, <2>2, <2>10, <3>1 DEF CopyInv
  <2>12. CompInv'
    <3>1. CASE comp.pc \in {"copy", "publish", "linked", "unlink"}
      <4>1. comp.running \in DOMAIN plain /\ plain[comp.running] = comp.src BY <3>1 DEF CompInv
      <4>2. comp.running \in OnDisk /\ comp.src \in Inodes BY <4>1, FilesNat DEF OnDisk, FilesInv
      <4>0. PICK n : n = comp.got[2] OBVIOUS
      <4>3. PICK l \in OnDisk, i \in Inodes : l = comp.running /\ i = comp.src /\ n = comp.got[2]
        BY <4>0, <4>2
      <4>4. Enough(comp.running, comp.src, comp.got[2]) => Enough(comp.running, comp.src, comp.got[2])'
        <5>1. Enough(l, i, n) => Enough(l, i, n)' BY <2>10
        <5> QED BY <1>1, <4>3, <5>1 DEF Enough, Safe
      <4> QED BY <1>1, <2>2, <3>1, <4>1, <4>4 DEF CompInv
    <3>2. CASE comp.pc \notin {"copy", "publish", "linked", "unlink"} BY <1>1, <3>2 DEF CompInv
    <3> QED BY <3>1, <3>2
  <2> QED BY <2>4, <2>8, <2>9, <2>11, <2>12 DEF DiskInv
<1> QED BY <1>3, <1>4, RenameFacts

\* A copy of the running compression is judged as any other.
LEMMA CompKept ==
  ASSUME LogInv, comp' = comp, gz' = gz,
         comp.running \in DOMAIN plain => comp.running \in DOMAIN plain' /\ plain'[comp.running] = plain[comp.running],
         \A l \in OnDisk, i \in Inodes : \A n : l # rot.key \/ ~Pending => (Enough(l, i, n) => Enough(l, i, n)')
  PROVE  CompInv'
<1> USE DEF LogInv
<1>1. CASE comp.pc \in {"copy", "publish", "linked", "unlink"}
  <2>1. comp.running \in DOMAIN plain /\ plain[comp.running] = comp.src BY <1>1 DEF CompInv
  <2>2. comp.running \in OnDisk /\ comp.src \in Inodes /\ comp.running \in Busy
    BY <2>1, FilesNat, NoneFacts DEF OnDisk, FilesInv, Busy
  <2>3. comp.running # rot.key \/ ~Pending BY <2>2 DEF KeyInv, Pending
  <2>4. PICK n : n = comp.got[2] OBVIOUS
  <2>5. PICK l \in OnDisk, i \in Inodes : l = comp.running /\ i = comp.src BY <2>2
  <2>6. Enough(comp.running, comp.src, comp.got[2]) => Enough(comp.running, comp.src, comp.got[2])'
    <3>1. Enough(l, i, n) => Enough(l, i, n)' BY <2>3, <2>5
    <3> QED BY <2>4, <2>5, <3>1 DEF Enough, Safe
  <2> QED BY <1>1, <2>1, <2>6 DEF CompInv
<1>2. CASE comp.pc \notin {"copy", "publish", "linked", "unlink"} BY <1>2 DEF CompInv
<1> QED BY <1>1, <1>2

LEMMA CopyKept ==
  ASSUME LogInv, gz' = gz, DOMAIN gz' \ DOMAIN plain' \subseteq DOMAIN gz \ DOMAIN plain,
         \A l \in OnDisk, i \in Inodes : \A n : l # rot.key \/ ~Pending => (Enough(l, i, n) => Enough(l, i, n)')
  PROVE  CopyInv'
<1> USE DEF LogInv
<1>1. \A x \in DOMAIN gz : gz[x][1] \in Inodes /\ x \in OnDisk BY FilesNat DEF FilesInv, OnDisk
<1>2. Pending => rot.key \in DOMAIN plain BY DEF KeyInv, Pending
<1> QED BY <1>1, <1>2 DEF CopyInv

LEMMA UnlinkDisk ==
  ASSUME LogInv, RotateUnlink, FilesInv'
  PROVE  DiskInv' /\ Settled' = Settled
<1> USE DEF LogInv
<1>1. /\ rot.pc = "unlink" /\ rot'.pc = "replace" /\ rot'.key = rot.key /\ rot'.did = rot.did /\ live' = None
      /\ UNCHANGED <<sc, plain, gz, size, comp>>
  BY UnlinkFacts
<1>2. /\ rot.did /\ rot.key \in Keys /\ rot.key \in DOMAIN plain /\ \A k \in Settled : Older(k, rot.key)
      /\ plain[rot.key] = proc.fd /\ live = proc.fd
  BY <1>1, NoneFacts DEF KeyInv, FdInv, PhaseInv, Active, Pending
<1>3. OnDisk' = OnDisk /\ (\A k : Holds(k)' = Holds(k)) /\ Settled' = Settled /\ Settled = OnDisk \ {rot.key}
  BY <1>1, <1>2 DEF OnDisk, Holds, Settled, Pending
<1>4. Holds(rot.key) = live /\ rot.key \in OnDisk BY <1>2 DEF Holds, OnDisk
<1>5. \A i : Newer(i)' = Newer(i) BY <1>3 DEF Newer
<1>6. \A i \in Inodes : Safe(i) => i = live \/ Safe(i)' BY <1>1, <1>5 DEF Safe
<1>7. MonoInv' BY <1>1, <1>3 DEF MonoInv
<1>8. HeldInv' BY <1>1, <1>3, <1>4, <1>6 DEF HeldInv
<1>9. ASSUME NEW l \in OnDisk, NEW i \in Inodes, NEW n, l # rot.key, Enough(l, i, n) PROVE Enough(l, i, n)'
  <2>1. Older(l, rot.key) BY <1>2, <1>3, <1>9
  <2> QED BY <1>1, <1>3, <1>4, <1>6, <1>9, <2>1 DEF Enough
<1>10. \A l \in OnDisk, i \in Inodes : \A n : l # rot.key \/ ~Pending => (Enough(l, i, n) => Enough(l, i, n)')
  BY <1>1, <1>2, <1>9 DEF Pending
<1>11. CopyInv' /\ CompInv' BY <1>1, <1>10, CopyKept, CompKept
<1> QED BY <1>3, <1>7, <1>8, <1>11 DEF DiskInv

LEMMA ReplaceDisk ==
  ASSUME LogInv, RotateReplace, FilesInv'
  PROVE  DiskInv'
<1> USE DEF LogInv
<1>0. rot.key \in Keys /\ rot.pc = "replace" BY DEF KeyInv, RotateReplace
<1>1. /\ UNCHANGED <<gz, size, files, comp>> /\ sc'.keep = sc.keep /\ live = None /\ proc.status = "up"
      /\ rot'.pc \in {"list", "idle", "write"}
  <2>1. sc'.keep = sc.keep BY <1>0, ReplaceFacts, FaultFacts
  <2>2. proc.status = "up" BY <1>0, IdleFacts DEF PhaseInv, Active, TypeInv, ProcType
  <2> QED BY <1>0, <2>1, <2>2, ReplaceFacts DEF FdInv, Active
<1>2. Settled' = OnDisk' BY <1>1 DEF Settled, Pending
<1>3. \A i \in Inodes : live # i BY <1>1, NoneFacts
<1>4. CASE plain' = plain /\ (live' = rot.tmp \/ live' = live)
  <2>1. OnDisk' = OnDisk /\ \A k : Holds(k)' = Holds(k) BY <1>1, <1>4 DEF OnDisk, Holds
  <2>2. Settled \subseteq Settled' BY <1>2, <2>1, DiskFacts
  <2>3. HeldInv' /\ \A k, n : \A i \in Inodes : Enough(k, i, n) => Enough(k, i, n)'
    BY <1>1, <1>3, <2>1, <2>2, ViewGrows
  <2>4. CopyInv' /\ CompInv' BY <1>1, <1>4, <2>3, CopyKept, CompKept
  <2>6. MonoInv'
    <3>1. live' # None => \A k \in OnDisk : Holds(k) <= live'
      <4>1. CASE live' = rot.tmp BY <1>0, <4>1, DiskFacts DEF TmpInv
      <4> QED BY <1>1, <1>4, <4>1
    <3> QED BY <2>1, <3>1 DEF MonoInv
  <2> QED BY <2>3, <2>4, <2>6 DEF DiskInv
<1>5. CASE rot.did /\ live' = plain[rot.key] /\ plain' = Without(plain, rot.key)
  <2>1. /\ Pending /\ rot.key \in DOMAIN plain /\ rot.key \notin DOMAIN gz /\ rot.key \notin Busy
        /\ \A k \in Settled : Older(k, rot.key)
    BY <1>0, <1>5 DEF KeyInv, Pending
  <2>2. DOMAIN plain' = DOMAIN plain \ {rot.key} /\ \A k \in DOMAIN plain' : plain'[k] = plain[k]
    BY <1>5 DEF Without, Restrict
  <2>3. /\ OnDisk' = OnDisk \ {rot.key} /\ Settled = OnDisk'
        /\ \A k \in OnDisk' : Holds(k)' = Holds(k)
    BY <1>1, <2>1, <2>2 DEF OnDisk, Holds, Settled
  <2>4. live' \in Inodes /\ Holds(rot.key) = live' /\ rot.key \in OnDisk
    BY <1>5, <2>1, FilesNat DEF FilesInv, OnDisk, Holds
  <2>5. \A i \in Inodes : Safe(i) => Safe(i)' BY <1>1, <1>2, <1>3, <2>3, NewerGrows DEF Safe
  <2>6. HeldInv' BY <1>1, <2>3, <2>4, <2>5 DEF HeldInv, Safe
  <2>7. MonoInv'
    <3>1. \A k \in OnDisk' : Holds(k)' <= live' BY <2>1, <2>3, <2>4 DEF MonoInv
    <3> QED BY <2>3, <3>1 DEF MonoInv
  <2>8. ASSUME NEW l \in OnDisk, NEW i \in Inodes, NEW n, l # rot.key, Enough(l, i, n) PROVE Enough(l, i, n)'
    BY <1>1, <2>3, <2>4, <2>5, <2>8 DEF Enough, Safe
  <2>9. CopyInv'
    <3>1. DOMAIN gz' \ DOMAIN plain' \subseteq DOMAIN gz \ DOMAIN plain BY <1>1, <2>1, <2>2
    <3> QED BY <1>1, <2>1, <2>8, <3>1, CopyKept
  <2>10. CompInv'
    <3>1. comp.running # rot.key BY <2>1, NoneFacts, <1>0 DEF Busy
    <3> QED BY <1>1, <2>1, <2>2, <2>8, <3>1, CompKept
  <2> QED BY <2>6, <2>7, <2>9, <2>10 DEF DiskInv
<1> QED BY <1>0, <1>4, <1>5, ReplaceFacts

\* What a deletion pass deletes, max_rotated_files newer generations outlive.
LEMMA PruneDisk ==
  ASSUME LogInv, PruneOne, FilesInv'
  PROVE  DiskInv'
<1> USE DEF LogInv
<1>1. PICK d \in Keys : /\ d \in rot.doomed /\ plain' = Without(plain, d) /\ gz' = Without(gz, d)
                        /\ UNCHANGED <<sc, live, size, comp>> /\ rot'.pc = rot.pc
  BY PruneFacts
<1>2. /\ DOMAIN plain' = DOMAIN plain \ {d} /\ \A k \in DOMAIN plain' : plain'[k] = plain[k]
      /\ DOMAIN gz' = DOMAIN gz \ {d} /\ \A k \in DOMAIN gz' : gz'[k] = gz[k]
  BY <1>1 DEF Without, Restrict
<1>3. OnDisk' = OnDisk \ {d} /\ \A k \in OnDisk' : Holds(k)' = Holds(k) BY <1>2 DEF OnDisk, Holds
<1>4. ~Pending /\ ~Pending' /\ Settled = OnDisk /\ Settled' = OnDisk'
  BY <1>1 DEF PhaseInv, Settled, Pending
<1> DEFINE S == LaterThan(d, OnDisk \ rot.doomed)
<1>5. /\ S \subseteq OnDisk' /\ S \in SUBSET Keys /\ OnDisk' \in SUBSET Keys /\ sc.keep \in Nat /\ Cardinality(S) >= sc.keep
      /\ \A s \in S : Older(d, s)
  <2>1. S \subseteq OnDisk' /\ \A s \in S : Older(d, s) BY <1>1, <1>3 DEF LaterThan
  <2>2. Cardinality(S) >= sc.keep BY <1>1 DEF DoomedInv
  <2> QED BY <1>3, <2>1, <2>2, DiskFacts
<1>6. \A s \in S : d \in OnDisk => Holds(d) <= Holds(s) /\ Holds(s)' = Holds(s) BY <1>3, <1>5 DEF MonoInv
<1> HIDE DEF S
<1>7. ASSUME NEW i \in Inodes, d \in OnDisk, Holds(d) > i PROVE Safe(i)'
  <2>1. \A s \in S : s \in OnDisk /\ Holds(s) \in Nat /\ i \in Nat /\ Holds(d) \in Nat
    BY <1>3, <1>5, <1>7, DiskFacts, FilesNat DEF Inodes
  <2>2. S \subseteq Newer(i)' BY <1>4, <1>5, <1>6, <1>7, <2>1 DEF Newer
  <2>3. Newer(i)' \in SUBSET Keys BY <1>4, <1>5 DEF Newer
  <2> QED BY <1>1, <1>5, <2>2, <2>3, MoreIsSafe DEF Safe
<1>8. ASSUME NEW i \in Inodes, Safe(i) PROVE Safe(i)'
  <2>1. CASE d \in OnDisk /\ Holds(d) > i BY <1>7, <2>1
  <2>2. CASE ~(d \in OnDisk /\ Holds(d) > i)
    <3>1. Newer(i) = Newer(i)' BY <1>3, <1>4, <2>2 DEF Newer
    <3> QED BY <1>1, <1>8, <3>1 DEF Safe
  <2> QED BY <2>1, <2>2
\* A file only the deleted name holds has enough later ones.
<1>9. ASSUME NEW i \in Inodes, d \in OnDisk, Holds(d) = i
      PROVE  Safe(i)' \/ \E s \in OnDisk' : Older(d, s) /\ Holds(s)' = i
  <2>1. CASE \E s \in S : Holds(s) = i BY <1>3, <1>5, <2>1
  <2>2. CASE \A s \in S : Holds(s) # i
    <3>1. \A s \in S : s \in OnDisk /\ Holds(s) \in Nat /\ i \in Nat BY <1>3, <1>5, DiskFacts, FilesNat DEF Inodes
    <3>2. \A s \in S : Holds(s) > i /\ Holds(s)' = Holds(s) BY <1>6, <1>9, <2>2, <3>1
    <3>3. S \subseteq Newer(i)' BY <1>4, <1>5, <3>2 DEF Newer
    <3>4. Newer(i)' \in SUBSET Keys BY <1>4, <1>5 DEF Newer
    <3> QED BY <1>1, <1>5, <3>3, <3>4, MoreIsSafe DEF Safe
  <2> QED BY <2>1, <2>2
<1>10. MonoInv' BY <1>1, <1>3 DEF MonoInv
<1>11. HeldInv' BY <1>1, <1>3, <1>8, <1>9 DEF HeldInv
<1>12. ASSUME NEW l \in OnDisk, NEW i \in Inodes, NEW n, Enough(l, i, n) PROVE Enough(l, i, n)'
  <2>1. CASE n >= size[i] \/ Safe(i) BY <1>1, <1>8, <2>1 DEF Enough
  <2>2. ASSUME NEW m \in OnDisk, Older(l, m), Holds(m) = i PROVE Enough(l, i, n)'
    <3>1. CASE m # d BY <1>3, <2>2, <3>1 DEF Enough
    <3>2. CASE m = d
      <4>1. ASSUME NEW s \in OnDisk', Older(d, s), Holds(s)' = i PROVE Enough(l, i, n)'
        <5>1. /\ l \in Nat \X Nat /\ d \in Nat \X Nat /\ s \in Nat \X Nat
          BY <1>3, <4>1, DiskFacts, KeysFinite
        <5>2. Older(l, s) BY <2>2, <3>2, <4>1, <5>1, OrderFacts
        <5> QED BY <4>1, <5>2 DEF Enough
      <4> QED BY <1>9, <2>2, <3>2, <4>1 DEF Enough
    <3> QED BY <3>1, <3>2
  <2> QED BY <1>12, <2>1, <2>2 DEF Enough
<1>13. CopyInv'
  <2>1. \A x \in DOMAIN gz : gz[x][1] \in Inodes /\ x \in OnDisk BY FilesNat DEF FilesInv, OnDisk
  <2>2. ASSUME NEW x \in DOMAIN gz' \ DOMAIN plain' PROVE Enough(x, gz[x][1], gz[x][2])'
    <3>1. x \in DOMAIN gz \ DOMAIN plain /\ gz'[x] = gz[x] BY <1>2
    <3>2. PICK i \in Inodes : i = gz[x][1] BY <2>1, <3>1
    <3>3. PICK n : n = gz[x][2] OBVIOUS
    <3>4. Enough(x, i, n)' BY <1>12, <2>1, <3>1, <3>2, <3>3 DEF CopyInv
    <3> QED BY <3>1, <3>2, <3>3, <3>4 DEF Enough, Safe
  <2> QED BY <2>2 DEF CopyInv
<1>14. CompInv'
  <2>1. d # comp.running BY <1>1 DEF DoomedInv
  <2>2. CASE comp.pc \in {"copy", "publish", "linked", "unlink"}
    <3>1. comp.running \in DOMAIN plain /\ plain[comp.running] = comp.src BY <2>2 DEF CompInv
    <3>2. comp.running \in OnDisk /\ comp.src \in Inodes BY <3>1, FilesNat DEF OnDisk, FilesInv
    <3>3. PICK n : n = comp.got[2] OBVIOUS
    <3>4. PICK l \in OnDisk, i \in Inodes : l = comp.running /\ i = comp.src BY <3>2
    <3>5. Enough(comp.running, comp.src, comp.got[2]) => Enough(comp.running, comp.src, comp.got[2])'
      <4>1. Enough(l, i, n) => Enough(l, i, n)' BY <1>12
      <4> QED BY <1>1, <3>3, <3>4, <4>1 DEF Enough, Safe
    <3> QED BY <1>1, <1>2, <2>1, <2>2, <3>1, <3>5 DEF CompInv
  <2>3. CASE comp.pc \notin {"copy", "publish", "linked", "unlink"} BY <1>1, <2>3 DEF CompInv
  <2> QED BY <2>2, <2>3
<1> QED BY <1>10, <1>11, <1>13, <1>14 DEF DiskInv

LEMMA PublishDisk ==
  ASSUME LogInv, CompressPublish, FilesInv'
  PROVE  DiskInv' /\ OnDisk' = OnDisk /\ \A k \in OnDisk : Holds(k)' = Holds(k)
<1> USE DEF LogInv
<1>1. /\ comp.pc = "publish" /\ comp'.pc \in {"linked", "unlink"} /\ comp'.running = comp.running
      /\ comp'.src = comp.src /\ comp'.got = comp.got /\ gz' = With(gz, comp.running, comp.got)
      /\ UNCHANGED <<sc, live, plain, size, rot>>
  BY PublishFacts DEF CompSame
<1>2. /\ comp.running \in DOMAIN plain /\ plain[comp.running] = comp.src
      /\ comp.got # None /\ comp.got[1] = comp.src /\ Enough(comp.running, comp.src, comp.got[2])
  BY <1>1 DEF CompInv
<1>3. /\ DOMAIN gz' = DOMAIN gz \cup {comp.running} /\ gz'[comp.running] = comp.got
      /\ \A x \in DOMAIN gz : x # comp.running => gz'[x] = gz[x]
  BY <1>1 DEF With
<1>4. OnDisk' = OnDisk /\ \A k \in OnDisk : Holds(k)' = Holds(k) BY <1>1, <1>2, <1>3 DEF OnDisk, Holds
<1>5. Settled' = Settled BY <1>1, <1>4 DEF Settled, Pending
<1>6. HeldInv' /\ \A k, n : \A i \in Inodes : Enough(k, i, n) => Enough(k, i, n)'
  BY <1>1, <1>4, <1>5, ViewGrows
<1>7. MonoInv' BY <1>1, <1>4 DEF MonoInv
<1>8. CopyInv'
  <2>1. \A x \in DOMAIN gz : gz[x][1] \in Inodes BY FilesNat DEF FilesInv
  <2>2. \A x \in DOMAIN gz' \ DOMAIN plain' : x \in DOMAIN gz \ DOMAIN plain /\ gz'[x] = gz[x]
    BY <1>1, <1>2, <1>3
  <2>3. ASSUME NEW x \in DOMAIN gz' \ DOMAIN plain' PROVE Enough(x, gz[x][1], gz[x][2])'
    <3>1. PICK i \in Inodes : i = gz[x][1] BY <2>1, <2>2
    <3>2. PICK n : n = gz[x][2] OBVIOUS
    <3>3. Enough(x, i, n)' BY <1>6, <2>2, <3>1, <3>2 DEF CopyInv
    <3> QED BY <2>2, <3>1, <3>2, <3>3 DEF Enough, Safe
  <2> QED BY <2>3 DEF CopyInv
<1>9. CompInv'
  <2>1. PICK i \in Inodes : i = comp.src BY <1>2, FilesNat DEF FilesInv
  <2>2. PICK l, n : l = comp.running /\ n = comp.got[2] OBVIOUS
  <2>3. Enough(l, i, n)' BY <1>2, <1>6, <2>1, <2>2
  <2>4. Enough(comp.running, comp.src, comp.got[2])' BY <1>1, <2>1, <2>2, <2>3 DEF Enough, Safe
  <2> QED BY <1>1, <1>2, <1>3, <2>4 DEF CompInv
<1> QED BY <1>4, <1>6, <1>7, <1>8, <1>9 DEF DiskInv

\* The source goes only when its name still holds the file the copy is of.
LEMMA SourceDisk ==
  ASSUME LogInv, CompressUnlink, FilesInv'
  PROVE  /\ DiskInv' /\ OnDisk' = OnDisk /\ \A k \in OnDisk : Holds(k)' = Holds(k)
         /\ DOMAIN plain' = DOMAIN plain \ {comp.running}
         /\ \A k \in DOMAIN plain' : plain'[k] = plain[k]
<1> USE DEF LogInv
<1>1. /\ comp.pc = "unlink" /\ comp'.pc = "finish"
      /\ UNCHANGED <<sc, live, gz, size, rot>>
      /\ plain' = (IF comp.running \in DOMAIN plain /\ plain[comp.running] = comp.src
                   THEN Without(plain, comp.running) ELSE plain)
  BY UnlinkSourceFacts
<1>2. /\ comp.running \in DOMAIN plain /\ plain[comp.running] = comp.src
      /\ comp.got # None /\ comp.got[1] = comp.src /\ Enough(comp.running, comp.src, comp.got[2])
      /\ comp.running \in DOMAIN gz /\ gz[comp.running] = comp.got
  BY <1>1 DEF CompInv
<1>3. plain' = Without(plain, comp.running) BY <1>1, <1>2
<1>4. DOMAIN plain' = DOMAIN plain \ {comp.running} /\ \A k \in DOMAIN plain' : plain'[k] = plain[k]
  BY <1>3 DEF Without, Restrict
<1>5. OnDisk' = OnDisk /\ \A k \in OnDisk : Holds(k)' = Holds(k)
  BY <1>1, <1>2, <1>4 DEF OnDisk, Holds
<1>6. Settled' = Settled BY <1>1, <1>5 DEF Settled, Pending
<1>7. HeldInv' /\ \A k, n : \A i \in Inodes : Enough(k, i, n) => Enough(k, i, n)'
  BY <1>1, <1>5, <1>6, ViewGrows
<1>8. MonoInv' BY <1>1, <1>5 DEF MonoInv
<1>9. CopyInv'
  <2>1. \A x \in DOMAIN gz : gz[x][1] \in Inodes BY FilesNat DEF FilesInv
  <2>2. ASSUME NEW x \in DOMAIN gz' \ DOMAIN plain' PROVE Enough(x, gz[x][1], gz[x][2])'
    <3>1. x \in DOMAIN gz /\ (x = comp.running \/ x \notin DOMAIN plain) BY <1>1, <1>4
    <3>2. PICK i \in Inodes : i = gz[x][1] BY <2>1, <3>1
    <3>3. PICK n : n = gz[x][2] OBVIOUS
    <3>4. Enough(x, i, n)
      <4>1. CASE x = comp.running BY <1>2, <3>2, <3>3, <4>1
      <4>2. CASE x \notin DOMAIN plain BY <3>1, <3>2, <3>3, <4>2 DEF CopyInv
      <4> QED BY <3>1, <4>1, <4>2
    <3>5. Enough(x, i, n)' BY <1>7, <3>4
    <3> QED BY <1>1, <3>2, <3>3, <3>5 DEF Enough, Safe
  <2> QED BY <2>2 DEF CopyInv
<1>10. CompInv' BY <1>1 DEF CompInv
<1> QED BY <1>4, <1>5, <1>7, <1>8, <1>9, <1>10 DEF DiskInv

LEMMA CrashDisk ==
  ASSUME LogInv, Crash, FilesInv'
  PROVE  DiskInv'
<1> USE DEF LogInv
<1>1. /\ UNCHANGED <<live, plain, gz, size>> /\ sc'.keep = sc.keep /\ ~Pending' /\ comp'.pc = "none"
  BY CrashFacts, IdleFacts DEF Pending
<1>2. OnDisk' = OnDisk /\ \A k : Holds(k)' = Holds(k) BY <1>1 DEF OnDisk, Holds
<1>3. Settled \subseteq Settled' BY <1>1, <1>2, DiskFacts DEF Settled
<1>4. HeldInv' /\ \A k, n : \A i \in Inodes : Enough(k, i, n) => Enough(k, i, n)'
  BY <1>1, <1>2, <1>3, ViewGrows
<1>5. MonoInv' BY <1>1, <1>2 DEF MonoInv
<1>6. CopyInv'
  <2>1. \A x \in DOMAIN gz : gz[x][1] \in Inodes BY FilesNat DEF FilesInv
  <2>2. ASSUME NEW x \in DOMAIN gz' \ DOMAIN plain' PROVE Enough(x, gz[x][1], gz[x][2])'
    <3>1. PICK i \in Inodes : i = gz[x][1] BY <1>1, <2>1
    <3>2. PICK n : n = gz[x][2] OBVIOUS
    <3>3. Enough(x, i, n)' BY <1>1, <1>4, <3>1, <3>2 DEF CopyInv
    <3> QED BY <1>1, <3>1, <3>2, <3>3 DEF Enough, Safe
  <2> QED BY <2>2 DEF CopyInv
<1>7. CompInv' BY <1>1 DEF CompInv
<1> QED BY <1>4, <1>5, <1>6, <1>7 DEF DiskInv

\* The actions that change no finished name.
Quiet ==
  /\ UNCHANGED <<live, plain, gz, size>> /\ sc'.keep = sc.keep
  /\ Pending' <=> Pending
  /\ Pending => rot'.key = rot.key

LEMMA QuietView ==
  ASSUME Quiet
  PROVE  OnDisk' = OnDisk /\ Settled' = Settled /\ \A k : Holds(k)' = Holds(k)
BY DEF Quiet, OnDisk, Settled, Holds

LEMMA QuietDisk ==
  ASSUME LogInv, Quiet
  PROVE  /\ MonoInv' /\ HeldInv' /\ CopyInv'
         /\ \A k, i, n : Enough(k, i, n) => Enough(k, i, n)'
BY QuietView, SameView DEF Quiet, LogInv

LEMMA QuietSame ==
  ASSUME LogInv, Quiet, comp'.pc = comp.pc, comp'.running = comp.running, comp'.src = comp.src,
         comp'.got = comp.got
  PROVE  DiskInv'
<1> USE DEF LogInv
<1>1. UNCHANGED <<plain, gz>> BY DEF Quiet
<1>2. Enough(comp.running, comp.src, comp.got[2]) => Enough(comp.running, comp.src, comp.got[2])'
  <2>1. PICK k, i, n : k = comp.running /\ i = comp.src /\ n = comp.got[2] OBVIOUS
  <2>2. Enough(k, i, n) => Enough(k, i, n)' BY QuietDisk
  <2>3. comp'.running = k /\ comp'.src = i /\ comp'.got[2] = n BY <2>1
  <2> QED BY <2>1, <2>2, <2>3 DEF Enough, Safe
<1>3. CompInv' BY <1>1, <1>2 DEF CompInv
<1> QED BY <1>3, QuietDisk DEF DiskInv

LEMMA CompressorDisk ==
  ASSUME LogInv, CompressTake \/ CompressOpen \/ CompressCopy \/ CompressUnlinkTmp
                 \/ CompressFinish \/ CompressPruned
  PROVE  Quiet /\ DiskInv'
<1> USE DEF LogInv
<1>1. CASE CompressTake
  <2>1. Quiet BY <1>1, TakeFacts DEF Quiet, Pending
  <2>2. CompInv' BY <1>1, TakeFacts DEF CompInv
  <2> QED BY <2>1, <2>2, QuietDisk DEF DiskInv
<1>2. CASE CompressOpen
  <2>1. sc'.keep = sc.keep BY <1>2, CompressOpenFacts, FaultFacts
  <2>2. Quiet BY <1>2, <2>1, CompressOpenFacts DEF Quiet, Pending
  <2>3. CompInv' BY <1>2, CompressOpenFacts DEF CompInv, CompSame
  <2> QED BY <2>2, <2>3, QuietDisk DEF DiskInv
<1>3. CASE CompressCopy
  <2>1. /\ comp.pc = "copy" /\ comp.src \in Inodes /\ comp.running \in DOMAIN plain
        /\ plain[comp.running] = comp.src
    BY <1>3, FilesNat DEF CompInv, FilesInv, CompressCopy
  <2>2. sc'.keep = sc.keep BY <1>3, <2>1, CopyFacts, FaultFacts
  <2>3. Quiet BY <1>3, <2>1, <2>2, CopyFacts DEF Quiet, Pending
  <2>4. CompInv'
    <3>1. CASE comp'.pc = "finish" BY <3>1 DEF CompInv
    <3>2. CASE comp'.pc = "publish" /\ comp'.src = comp.src /\ comp'.got = <<comp.src, size[comp.src]>>
      <4>1. size[comp.src] \in Nat BY <2>1 DEF TypeInv
      <4>2. comp'.running = comp.running /\ UNCHANGED <<plain, gz, size>> BY <1>3, <2>1, CopyFacts DEF CompSame
      <4>3. comp'.got \in Inodes \X Nat BY <2>1, <3>2, <4>1
      <4>4. comp'.got # None BY <4>3, NoneFacts
      <4>5. Enough(comp.running, comp.src, comp.got[2])'
        <5>1. comp'.got[2] >= size'[comp'.src] BY <3>2, <4>1, <4>2
        <5> QED BY <5>1 DEF Enough
      <4> QED BY <2>1, <3>2, <4>2, <4>4, <4>5 DEF CompInv
    <3> QED BY <1>3, <2>1, <3>1, <3>2, CopyFacts
  <2> QED BY <2>3, <2>4, QuietDisk DEF DiskInv
<1>4. CASE CompressUnlinkTmp
  <2>1. Quiet BY <1>4, UnlinkTmpFacts DEF Quiet, Pending
  <2>2. comp'.running = comp.running /\ comp'.src = comp.src /\ comp'.got = comp.got
        /\ comp.pc = "linked" /\ comp'.pc = "unlink" /\ UNCHANGED <<plain, gz>>
    BY <1>4, UnlinkTmpFacts DEF CompSame
  <2>3. Enough(comp.running, comp.src, comp.got[2]) => Enough(comp.running, comp.src, comp.got[2])'
    <3>1. PICK k, i, n : k = comp.running /\ i = comp.src /\ n = comp.got[2] OBVIOUS
    <3>2. Enough(k, i, n) => Enough(k, i, n)' BY <2>1, QuietDisk
    <3>3. comp'.running = k /\ comp'.src = i /\ comp'.got[2] = n BY <2>2, <3>1
    <3> QED BY <3>1, <3>2, <3>3 DEF Enough, Safe
  <2>4. CompInv' BY <2>2, <2>3 DEF CompInv
  <2> QED BY <2>1, <2>4, QuietDisk DEF DiskInv
<1>5. CASE CompressFinish
  <2>1. Quiet BY <1>5, FinishFacts DEF Quiet, Pending
  <2>2. CompInv' BY <1>5, FinishFacts DEF CompInv
  <2> QED BY <2>1, <2>2, QuietDisk DEF DiskInv
<1>6. CASE CompressPruned
  <2>1. Quiet BY <1>6, PrunedFacts DEF Quiet, Pending
  <2>2. CompInv' BY <1>6, PrunedFacts DEF CompInv
  <2> QED BY <2>1, <2>2, QuietDisk DEF DiskInv
<1> QED BY <1>1, <1>2, <1>3, <1>4, <1>5, <1>6

LEMMA OtherDisk ==
  ASSUME LogInv,
         \/ \E i \in fresh : RemoveStaleTmp(i)
         \/ \E k \in gztmp : RemoveStaleGz(k)
         \/ Opened \/ TimeRotate \/ RotateCreate \/ RotateList \/ RotateQueue
         \/ CloseBegin \/ CloseEnd \/ Tick
  PROVE  Quiet /\ DiskInv'
<1> USE DEF LogInv
<1>1. ASSUME NEW i \in fresh, RemoveStaleTmp(i) PROVE Quiet /\ DiskInv'
  <2>1. Quiet BY <1>1 DEF Quiet, Pending, RemoveStaleTmp
  <2> QED BY <1>1, <2>1, QuietSame DEF RemoveStaleTmp
<1>2. ASSUME NEW k \in gztmp, RemoveStaleGz(k) PROVE Quiet /\ DiskInv'
  <2>1. Quiet BY <1>2 DEF Quiet, Pending, RemoveStaleGz
  <2> QED BY <1>2, <2>1, QuietSame DEF RemoveStaleGz
<1>3. CASE Opened
  <2>1. Quiet BY <1>3, OpenedFacts DEF Quiet, Pending
  <2> QED BY <1>3, <2>1, QuietSame, OpenedFacts
<1>4. CASE TimeRotate
  <2>1. Quiet BY <1>4, TimeRotateFacts DEF Quiet, Pending
  <2> QED BY <1>4, <2>1, QuietSame, TimeRotateFacts
<1>5. CASE RotateCreate
  <2>1. sc'.keep = sc.keep BY <1>5, CreateFacts, FaultFacts
  <2>2. rot'.pc \in {"rename", "idle", "write"}
    <3>1. rot.next \in {"idle", "write"} BY DEF TypeInv, RotType
    <3> QED BY <1>5, <3>1, CreateFacts DEF NoRotation
  <2>3. Quiet BY <1>5, <2>1, <2>2, CreateFacts DEF Quiet, Pending
  <2> QED BY <1>5, <2>3, QuietSame, CreateFacts
<1>6. CASE RotateList
  <2>1. sc'.keep = sc.keep BY <1>6, ListFacts, FaultFacts
  <2>2. Quiet BY <1>6, <2>1, ListFacts DEF Quiet, Pending
  <2> QED BY <1>6, <2>2, QuietSame, ListFacts
<1>7. CASE RotateQueue
  <2>1. rot.key \in Keys BY <1>7 DEF KeyInv, RotateQueue
  <2>2. sc'.keep = sc.keep BY <1>7, <2>1, QueueFacts, FaultFacts
  <2>3. Quiet BY <1>7, <2>1, <2>2, QueueFacts DEF Quiet, Pending
  <2>4. CASE comp' = comp BY <2>3, <2>4, QuietSame
  <2>5. CASE comp' = Enqueued(comp, rot.key)
    <3>1. /\ comp'.running = comp.running /\ comp'.src = comp.src /\ comp'.got = comp.got
          /\ comp'.pc \in {comp.pc, "wait"}
      <4>1. PICK k \in Keys : k = rot.key BY <2>1
      <4>2. comp \in CompType /\ comp' = Enqueued(comp, k) BY <2>5, <4>1 DEF TypeInv
      <4> QED BY <4>2, EnqueueStep
    <3>2. CASE comp'.pc = comp.pc BY <2>3, <3>1, <3>2, QuietSame
    <3>3. CASE comp'.pc = "wait"
      <4>1. CompInv' BY <3>3 DEF CompInv
      <4> QED BY <2>3, <4>1, QuietDisk DEF DiskInv
    <3> QED BY <3>1, <3>2, <3>3
  <2> QED BY <1>7, <2>1, <2>4, <2>5, QueueFacts
<1>8. CASE CloseBegin
  <2>1. Quiet BY <1>8, CloseBeginFacts DEF Quiet, Pending
  <2> QED BY <1>8, <2>1, QuietSame, CloseBeginFacts
<1>9. CASE CloseEnd
  <2>1. Quiet BY <1>9, CloseEndFacts DEF Quiet, Pending
  <2>2. CompInv' BY <1>9, CloseEndFacts, IdleFacts DEF CompInv
  <2> QED BY <2>1, <2>2, QuietDisk DEF DiskInv
<1>10. CASE Tick
  <2>1. Quiet BY <1>10, TickFacts DEF Quiet, Pending
  <2> QED BY <1>10, <2>1, QuietSame, TickFacts
<1> QED BY <1>1, <1>2, <1>3, <1>4, <1>5, <1>6, <1>7, <1>8, <1>9, <1>10

(***************************************************************************)
(* The steps that leave the rotation, and the names on disk, as they are.  *)
(***************************************************************************)
\* Outside the part of a rotation that has chosen a name.
Away == rot.pc \in {"idle", "create", "write"}

Calm ==
  /\ UNCHANGED <<live, files>> /\ sc'.keep = sc.keep /\ sc'.clockBack = sc.clockBack
  /\ now' >= now \/ sc.clockBack
  /\ proc'.last = proc.last /\ proc'.fd = proc.fd /\ proc'.opened = proc.opened
  /\ proc'.clean => proc.clean
  /\ Active' <=> Active
  /\ proc'.status = "opening" => proc.status = "opening"
  /\ (Away /\ Away') \/ UNCHANGED rot
  /\ OnDisk' = OnDisk /\ \A k \in OnDisk : Holds(k)' = Holds(k)
  /\ \A k : k \notin Busy => /\ k \in DOMAIN plain => k \in DOMAIN plain' /\ plain'[k] = plain[k]
                             /\ k \in DOMAIN gz' => k \in DOMAIN gz
  /\ \/ Busy' \subseteq Busy
     \/ proc.status = "opening" /\ \E q \in OnDisk : Busy' = Busy \cup {q}

LEMMA SameNames ==
  ASSUME UNCHANGED <<plain, gz>>
  PROVE  /\ OnDisk' = OnDisk /\ \A k : Holds(k)' = Holds(k)
         /\ \A k : k \notin Busy => /\ k \in DOMAIN plain => k \in DOMAIN plain' /\ plain'[k] = plain[k]
                                    /\ k \in DOMAIN gz' => k \in DOMAIN gz
BY DEF OnDisk, Holds

LEMMA CalmSteps ==
  ASSUME LogInv, FilesInv',
         \/ Recovery \/ TimeRotate \/ Write \/ CloseBegin \/ Tick \/ Compression
  PROVE  Calm
<1> USE DEF LogInv
<1> now \in Nat BY FilesNat
<1>1. ASSUME NEW i \in fresh, RemoveStaleTmp(i) PROVE Calm
  BY <1>1, SameNames DEF RemoveStaleTmp, Calm, Busy, Active
<1>2. ASSUME NEW k \in gztmp, RemoveStaleGz(k) PROVE Calm
  BY <1>2, SameNames DEF RemoveStaleGz, Calm, Busy, Active
<1>3. ASSUME NEW q \in DOMAIN plain, Requeue(q) PROVE Calm
  <2>1. /\ proc.status = "opening" /\ UNCHANGED <<sc, now, live, plain, files, proc, rot>>
        /\ gz' = Without(gz, q) /\ comp' = Enqueued(comp, q)
    BY <1>3 DEF Requeue
  <2>2. DOMAIN gz' = DOMAIN gz \ {q} /\ \A k \in DOMAIN gz' : gz'[k] = gz[k]
    BY <2>1 DEF Without, Restrict
  <2>3. OnDisk' = OnDisk /\ (\A k \in OnDisk : Holds(k)' = Holds(k)) /\ q \in OnDisk
    BY <2>1, <2>2 DEF OnDisk, Holds
  <2>4. Busy' = Busy \cup {q}
    <3>1. q \in Keys /\ comp \in CompType BY DEF FilesInv, TypeInv
    <3>2. Range(comp'.queue) = Range(comp.queue) \cup {q} /\ comp'.running = comp.running
      BY <2>1, <3>1, EnqueueStep
    <3> QED BY <3>2 DEF Busy
  <2> QED BY <2>1, <2>2, <2>3, <2>4 DEF Calm, Active
<1>4. CASE Opened BY <1>4, OpenedFacts, SameNames DEF Calm, Busy, Active
<1>5. CASE TimeRotate BY <1>5, TimeRotateFacts, SameNames DEF Calm, Busy, Active, Away
<1>6. CASE Write BY <1>6, WriteFacts, SameNames DEF Calm, Busy, Active, Away
<1>7. CASE CloseBegin BY <1>7, CloseBeginFacts, SameNames DEF Calm, Busy, Active
<1>8. CASE Tick BY <1>8, TickFacts, SameNames DEF Calm, Busy, Active
<1>9. CASE CompressTake
  <2>1. Busy' \subseteq Busy BY <1>9, TakeFacts DEF Busy
  <2> QED BY <1>9, <2>1, TakeFacts, SameNames DEF Calm, Active
<1>10. CASE CompressOpen
  <2>1. Busy' = Busy BY <1>10, CompressOpenFacts DEF Busy, CompSame
  <2>2. sc'.keep = sc.keep /\ sc'.clockBack = sc.clockBack /\ proc'.last = proc.last /\ proc'.fd = proc.fd
        /\ proc'.opened = proc.opened /\ proc'.status = proc.status /\ (proc'.clean => proc.clean)
    BY <1>10, CompressOpenFacts, FaultFacts, UncleanFacts
  <2> QED BY <1>10, <2>1, <2>2, CompressOpenFacts, SameNames DEF Calm, Active
<1>11. CASE CompressCopy
  <2>1. comp.src \in Inodes BY <1>11, FilesNat DEF CompInv, FilesInv, CompressCopy
  <2>2. Busy' = Busy BY <1>11, <2>1, CopyFacts DEF Busy, CompSame
  <2>3. sc'.keep = sc.keep /\ sc'.clockBack = sc.clockBack /\ proc'.last = proc.last /\ proc'.fd = proc.fd
        /\ proc'.opened = proc.opened /\ proc'.status = proc.status /\ (proc'.clean => proc.clean)
    BY <1>11, <2>1, CopyFacts, FaultFacts, UncleanFacts
  <2> QED BY <1>11, <2>1, <2>2, <2>3, CopyFacts, SameNames DEF Calm, Active
<1>12. CASE CompressPublish
  <2>1. Busy' = Busy BY <1>12, PublishFacts DEF Busy, CompSame
  <2>2. comp.running \in Busy
    <3>1. comp.running \in Keys BY <1>12, PublishFacts DEF CompInv, FilesInv
    <3> QED BY <3>1, NoneFacts DEF Busy
  <2>3. DOMAIN gz' = DOMAIN gz \cup {comp.running} BY <1>12, PublishFacts DEF With
  <2> QED BY <1>12, <2>1, <2>2, <2>3, PublishFacts, PublishDisk DEF Calm, Active
<1>13. CASE CompressUnlinkTmp
  <2>1. Busy' = Busy BY <1>13, UnlinkTmpFacts DEF Busy, CompSame
  <2> QED BY <1>13, <2>1, UnlinkTmpFacts, SameNames DEF Calm, Active
<1>14. CASE CompressUnlink
  <2>1. Busy' = Busy BY <1>14, UnlinkSourceFacts DEF Busy, CompSame
  <2>2. comp.running \in Busy
    <3>1. comp.running \in Keys BY <1>14, UnlinkSourceFacts DEF CompInv, FilesInv
    <3> QED BY <3>1, NoneFacts DEF Busy
  <2> QED BY <1>14, <2>1, <2>2, UnlinkSourceFacts, SourceDisk DEF Calm, Active
<1>15. CASE CompressFinish
  <2>1. Busy' \subseteq Busy BY <1>15, FinishFacts DEF Busy
  <2> QED BY <1>15, <2>1, FinishFacts, SameNames DEF Calm, Active, Away
<1>16. CASE CompressPruned
  <2>1. Busy' = Busy BY <1>16, PrunedFacts DEF Busy, CompSame
  <2> QED BY <1>16, <2>1, PrunedFacts, SameNames DEF Calm, Active
<1> QED BY <1>1, <1>2, <1>3, <1>4, <1>5, <1>6, <1>7, <1>8, <1>9, <1>10, <1>11, <1>12, <1>13, <1>14, <1>15, <1>16
        DEF Recovery, Compression

LEMMA CalmView ==
  ASSUME LogInv, Calm
  PROVE  /\ Pending' <=> Pending
         /\ ~Away \/ ~Away' => UNCHANGED rot
         /\ Settled' = Settled
<1>1. (Pending' <=> Pending) /\ (~Away \/ ~Away' => UNCHANGED rot) BY DEF Calm, Away, Pending
<1>2. Pending => rot'.key = rot.key BY <1>1 DEF Away, Pending
<1> QED BY <1>1, <1>2 DEF Settled, Calm

\* The first name of a rotation follows the last one, and the clock.
LEMMA FirstNameFollows ==
  ASSUME NEW last \in Keys, now \in 0 .. MaxTime
  PROVE  FirstName(last) \in (0 .. MaxTime) \X Nat /\ FirstName(last) \in Nat \X Nat /\ Older(last, FirstName(last))
<1>1. last # None /\ MaxTime \in Nat /\ SeqMax \in Nat BY NoneFacts, LogAssumption
<1>2. PICK a \in 0 .. MaxTime, b \in 0 .. SeqMax : last = <<a, b>> BY DEF Keys
<1>3. last[1] = a /\ last[2] = b /\ b + 1 \in Nat BY <1>1, <1>2
<1>4. CASE now <= a
  <2>1. FirstName(last) = <<a, b + 1>> BY <1>1, <1>3, <1>4 DEF FirstName
  <2> QED BY <1>1, <1>2, <1>3, <2>1 DEF Older
<1>5. CASE ~(now <= a)
  <2>1. FirstName(last) = <<now, 0>> BY <1>1, <1>3, <1>5 DEF FirstName
  <2>2. now \in Nat /\ a \in Nat /\ a < now BY <1>1, <1>5
  <2> QED BY <1>1, <1>2, <1>3, <2>1, <2>2 DEF Older
<1> QED BY <1>4, <1>5

LEMMA FirstNameGrows ==
  ASSUME NEW last \in Keys, now \in 0 .. MaxTime, now' \in 0 .. MaxTime, now' >= now,
         NEW k \in Keys \cup (Nat \X Nat), AtMost(k, FirstName(last))
  PROVE  AtMost(k, FirstName(last)')
<1>1. last # None /\ MaxTime \in Nat /\ SeqMax \in Nat BY NoneFacts, LogAssumption
<1>2. PICK a \in 0 .. MaxTime, b \in 0 .. SeqMax : last = <<a, b>> BY DEF Keys
<1>3. last[1] = a /\ last[2] = b /\ b \in Nat /\ a \in Nat /\ now \in Nat /\ now' \in Nat BY <1>1, <1>2
<1>4. k \in Nat \X Nat BY KeysFinite
<1>5. FirstName(last) = (IF now <= a THEN <<a, b + 1>> ELSE <<now, 0>>) BY <1>1, <1>3 DEF FirstName
<1>6. FirstName(last)' = (IF now' <= a THEN <<a, b + 1>> ELSE <<now', 0>>) BY <1>1, <1>3 DEF FirstName
<1>7. PICK f \in Nat \X Nat, g \in Nat \X Nat : f = FirstName(last) /\ g = FirstName(last)' BY <1>3, <1>5, <1>6
<1>8. f = g \/ Older(f, g)
  <2>1. CASE now' <= a BY <1>3, <1>5, <1>6, <1>7, <2>1
  <2>2. CASE ~(now' <= a) /\ now <= a
    <3>1. f[1] = a /\ g[1] = now' /\ a < now' BY <1>3, <1>5, <1>6, <1>7, <2>2
    <3> QED BY <3>1 DEF Older
  <2>3. CASE ~(now <= a)
    <3>1. ~(now' <= a) BY <1>3, <2>3
    <3>2. f = <<now, 0>> /\ g = <<now', 0>> BY <1>5, <1>6, <1>7, <2>3, <3>1
    <3>3. now < now' \/ now = now' BY <1>3
    <3> QED BY <3>2, <3>3 DEF Older
  <2> QED BY <2>1, <2>2, <2>3
<1> QED BY <1>4, <1>7, <1>8, OrderFacts DEF AtMost

LEMMA CalmNames ==
  ASSUME LogInv, Calm, TypeInv'
  PROVE  TmpInv' /\ LastInv' /\ KeyInv'
<1> USE DEF LogInv
<1>1. /\ UNCHANGED <<live, files>> /\ sc'.clockBack = sc.clockBack /\ proc'.last = proc.last /\ (Active' <=> Active)
      /\ OnDisk' = OnDisk /\ \A k \in OnDisk : Holds(k)' = Holds(k)
      /\ Settled' = Settled /\ (Pending' <=> Pending)
  BY CalmView DEF Calm
<1>2. ~Away' => UNCHANGED rot /\ ~Away BY CalmView DEF Away
<1>3. now \in 0 .. MaxTime /\ now' \in 0 .. MaxTime /\ (now' >= now \/ sc.clockBack) /\ proc.last \in Keys \cup {None}
  BY DEF TypeInv, ProcType, Calm
<1>4. ASSUME NEW k \in Keys \cup (Nat \X Nat), proc.last # None, ~sc.clockBack, AtMost(k, FirstName(proc.last))
      PROVE  AtMost(k, FirstName(proc.last)')
  <2>1. PICK p \in Keys : p = proc.last BY <1>3, <1>4
  <2>2. AtMost(k, FirstName(p)) BY <1>4, <2>1
  <2>3. AtMost(k, FirstName(p)') BY <1>3, <1>4, <2>2, FirstNameGrows
  <2>4. FirstName(p)' = FirstName(proc.last)' BY <1>1, <2>1 DEF FirstName
  <2> QED BY <2>3, <2>4
<1>5. TmpInv' BY <1>1, <1>2 DEF TmpInv, Away
<1>6. Settled \in SUBSET Keys BY DiskFacts
<1>7. LastInv'
  <2>1. ASSUME Active', proc'.last # None, NEW k \in Settled'
        PROVE  AtMost(k, proc.last) \/ (live' = None /\ ~Pending' /\ ~sc'.clockBack /\ AtMost(k, FirstName(proc.last)'))
    BY <1>1, <1>4, <1>6, <2>1 DEF LastInv
  <2>2. Active' /\ proc'.last = None /\ rot'.pc \in {"rename", "unlink", "replace"} => Settled' = {}
    BY <1>1, <1>2 DEF LastInv, Away
  <2> QED BY <1>1, <2>1, <2>2 DEF LastInv
<1>8. KeyInv'
  <2>1. CASE ~Away'
    <3>1. UNCHANGED rot /\ ~Away BY <1>2, <2>1
    <3>2. rot.key \in ((0 .. MaxTime) \X Nat) \cup {None} BY DEF TypeInv, RotType
    <3>3. proc.last # None /\ ~sc.clockBack /\ rot.key # None /\ AtMost(rot.key, FirstName(proc.last))
          => AtMost(rot.key, FirstName(proc.last)')
      <4>1. rot.key # None => rot.key \in Nat \X Nat BY <3>2, LogAssumption
      <4> QED BY <1>4, <4>1
    <3>4. rot.pc \in {"unlink", "replace", "list", "prune"} => Busy' \subseteq Busy
      <4>1. proc.status = "opening" => rot.pc = "idle" BY DEF PhaseInv
      <4> QED BY <4>1 DEF Calm
    <3>5. \A k : k \notin Busy => /\ k \in DOMAIN plain => k \in DOMAIN plain' /\ plain'[k] = plain[k]
                                  /\ k \in DOMAIN gz' => k \in DOMAIN gz
      BY DEF Calm
    <3>6. rot.pc = "rename" => KeyInv' BY <1>1, <3>1, <3>3 DEF KeyInv
    <3>7. rot.pc \in {"unlink", "replace"} => KeyInv'
      <4>1. rot.pc \in {"unlink", "replace"} => rot.key # None BY NoneFacts DEF KeyInv
      <4> QED BY <1>1, <3>1, <3>3, <3>4, <3>5, <4>1 DEF KeyInv
    <3>8. rot.pc \in {"list", "prune"} => KeyInv' BY <1>1, <3>1, <3>4, <3>5 DEF KeyInv
    <3>9. rot.pc \in {"rename", "unlink", "replace", "list", "prune"} BY <3>1 DEF Away, TypeInv, RotType
    <3> QED BY <3>6, <3>7, <3>8, <3>9
  <2>2. CASE Away' BY <2>2 DEF Away, KeyInv
  <2> QED BY <2>1, <2>2
<1> QED BY <1>5, <1>7, <1>8

LEMMA CalmJobs ==
  ASSUME LogInv, Calm
  PROVE  BusyInv' /\ PhantomInv' /\ FdInv'
<1> USE DEF LogInv
<1>1. /\ UNCHANGED <<live, files>> /\ sc'.keep = sc.keep /\ proc'.last = proc.last /\ (Active' <=> Active)
      /\ proc'.fd = proc.fd
      /\ OnDisk' = OnDisk /\ \A k \in OnDisk : Holds(k)' = Holds(k)
      /\ Settled' = Settled /\ (Pending' <=> Pending)
  BY CalmView DEF Calm
<1>2. ~Away' \/ ~Away => UNCHANGED rot BY CalmView
<1>3. \A k : k \notin Busy /\ k \in DOMAIN plain => k \in DOMAIN plain' /\ plain'[k] = plain[k]
  BY DEF Calm
<1>4. CASE Busy' \subseteq Busy
  <2>1. BusyInv' BY <1>1, <1>4 DEF BusyInv
  <2>2. PhantomInv'
    <3>1. \A p : LaterThan(p, Settled)' = LaterThan(p, Settled) BY <1>1 DEF LaterThan
    <3> QED BY <1>1, <1>4, <3>1 DEF PhantomInv
  <2>3. Stranded => Stranded' BY <1>1, <1>3, <1>4 DEF Stranded
  <2>4. Pending => rot.key \notin Busy /\ rot.key \in DOMAIN plain /\ ~Away BY DEF KeyInv, Pending, Away
  <2>5. (~Away \/ ~Away') => rot'.pc = rot.pc /\ rot'.key = rot.key BY <1>2
  <2>6. proc'.status = "opening" => proc.status = "opening" BY DEF Calm
  <2>7. FdInv'
    <3>1. Active' => Active /\ proc'.fd \in 1 .. files' /\ (proc'.status = "opening" => live' = proc'.fd)
      BY <1>1, <2>6 DEF FdInv
    <3>2. Active' /\ rot'.pc \in {"list", "prune", "unlink"} => live' = proc'.fd
      BY <1>1, <2>5 DEF FdInv, Away
    <3>3. Active' /\ rot'.pc = "replace" => live' = None BY <1>1, <2>5 DEF FdInv, Away
    <3>4. Active' /\ Pending' => plain'[rot'.key] = proc'.fd BY <1>1, <1>3, <2>4, <2>5 DEF FdInv
    <3>5. Active' /\ ~Pending' => live' = proc'.fd \/ Stranded' BY <1>1, <2>3 DEF FdInv
    <3> QED BY <3>1, <3>2, <3>3, <3>4, <3>5 DEF FdInv
  <2> QED BY <2>1, <2>2, <2>7
<1>5. CASE proc.status = "opening" /\ \E q \in OnDisk : Busy' = Busy \cup {q}
  <2>1. PICK q \in OnDisk : Busy' = Busy \cup {q} BY <1>5
  <2>2. rot.pc = "idle" /\ ~Pending /\ Active /\ live = proc.fd /\ live # None /\ Settled = OnDisk
    BY <1>5, NoneFacts, FilesNat DEF PhaseInv, FdInv, Active, Pending, Settled
  <2>3. BusyInv' BY <1>1, <2>1, <2>2 DEF BusyInv, LastInv
  <2>4. PhantomInv'
    <3>1. \A p : LaterThan(p, Settled)' = LaterThan(p, Settled) BY <1>1 DEF LaterThan
    <3> QED BY <1>1, <2>1, <3>1 DEF PhantomInv
  <2>5. rot'.pc \in {"idle", "create", "write"} /\ ~Pending' BY <1>1, <1>2, <2>2 DEF Away
  <2>6. FdInv' BY <1>1, <1>5, <2>2, <2>5 DEF FdInv, Active
  <2> QED BY <2>3, <2>4, <2>6
<1> QED BY <1>4, <1>5 DEF Calm

(***************************************************************************)
(* The names of rotations and compressions.                                *)
(***************************************************************************)

\* The names in use.
NamesInv == TmpInv /\ LastInv /\ KeyInv /\ BusyInv /\ PhantomInv /\ FdInv

\* On a clock to be trusted nothing on disk is foreign.
LEMMA AllGenerations ==
  ASSUME TypeInv, FilesInv, ClockTrusted
  PROVE  /\ Generations = OnDisk /\ StaleGz = gztmp
         /\ NewestOnDisk = None => OnDisk = {}
         /\ NewestOnDisk # None => NewestOnDisk \in OnDisk /\ \A k \in OnDisk : AtMost(k, NewestOnDisk)
<1>1. now \in Nat /\ Tolerance \in Nat /\ gztmp \subseteq Keys /\ OnDisk \subseteq Keys /\ Keys \subseteq Nat \X Nat
  BY FilesNat, LogAssumption, DiskFacts, KeysFinite DEF TypeInv
<1>2. proc.last \in Keys \cup {None} BY DEF TypeInv, ProcType
<1>3. ASSUME NEW k \in OnDisk \cup gztmp PROVE IsGeneration(k)
  <2>1. k[1] <= now + Tolerance /\ k[1] \in Nat BY <1>1, <1>3 DEF ClockTrusted
  <2>2. CASE proc.last # None /\ proc.last[1] > now
    <3>1. proc.last[1] \in Nat BY <1>1, <1>2, <2>2
    <3> QED BY <1>1, <2>1, <2>2, <3>1 DEF IsGeneration
  <2>3. CASE ~(proc.last # None /\ proc.last[1] > now) BY <2>1, <2>3 DEF IsGeneration
  <2> QED BY <2>2, <2>3
<1>4. Generations = OnDisk /\ StaleGz = gztmp BY <1>3 DEF Generations, StaleGz
<1>5. CASE OnDisk = {} BY <1>4, <1>5 DEF NewestOnDisk
<1>6. CASE OnDisk # {}
  <2>1. NewestOnDisk = NewestOf(OnDisk) BY <1>4, <1>6 DEF NewestOnDisk
  <2>2. NewestOf(OnDisk) \in OnDisk /\ \A k \in OnDisk \ {NewestOf(OnDisk)} : Older(k, NewestOf(OnDisk))
    BY <1>1, <1>6, NewestIs
  <2>3. NewestOnDisk # None BY <1>1, <2>1, <2>2, NoneFacts
  <2> QED BY <1>4, <1>6, <2>1, <2>2, <2>3 DEF AtMost
<1> QED BY <1>5, <1>6, <1>4

LEMMA OpenNames ==
  ASSUME LogInv, ClockTrusted, Open, FilesInv'
  PROVE  NamesInv'
<1> USE DEF LogInv
<1>1. /\ ~Pending' /\ rot'.pc = "idle" /\ comp'.queue = <<>> /\ comp'.running = None
      /\ UNCHANGED <<now, plain, gz>> /\ proc'.fd = live' /\ live' # None
      /\ proc'.last = IF live # None /\ size[live] > 0 THEN NewestOnDisk ELSE None
  BY OpenFacts, IdleFacts DEF Pending
<1>2. OnDisk' = OnDisk /\ Settled' = OnDisk BY <1>1 DEF OnDisk, Settled
<1>3. Busy' = {} BY <1>1, EmptyQueue DEF Busy
<1>4. LastInv' BY <1>1, <1>2, AllGenerations DEF LastInv
<1>5. FdInv' BY <1>1 DEF FdInv, FilesInv
<1>6. TmpInv' /\ KeyInv' /\ BusyInv' /\ PhantomInv' BY <1>1, <1>3 DEF TmpInv, KeyInv, BusyInv, PhantomInv
<1> QED BY <1>4, <1>5, <1>6 DEF NamesInv

LEMMA CreateNames ==
  ASSUME LogInv, ClockTrusted, RotateCreate
  PROVE  NamesInv'
<1> USE DEF LogInv
<1>1. /\ rot.pc = "create" /\ UNCHANGED <<now, live, plain, gz, comp>> /\ sc'.keep = sc.keep
      /\ sc'.clockBack = sc.clockBack
      /\ proc'.last = (IF proc.last = None THEN NewestOnDisk ELSE proc.last)
      /\ proc'.fd = proc.fd /\ proc'.status = proc.status /\ proc' \in ProcType
      /\ files' \in {files, files + 1}
  BY CreateFacts, FaultFacts
<1>2. rot.next \in {"idle", "write"} /\ files \in Nat BY FilesNat DEF TypeInv, RotType
<1>3. /\ rot'.pc \in {"rename", "idle", "write"}
      /\ rot'.pc = "rename" => rot'.key = FirstName(proc'.last) /\ rot'.tmp = files + 1 /\ files' = files + 1
  BY <1>2, CreateFacts DEF NoRotation
<1>4. OnDisk' = OnDisk /\ (\A k : Holds(k)' = Holds(k)) /\ Settled = OnDisk /\ Settled' = OnDisk /\ ~Pending /\ ~Pending'
      /\ Busy' = Busy
  BY <1>1, <1>3 DEF OnDisk, Holds, Settled, Pending, Busy
<1>5. Active /\ Active' /\ proc.status = "up" BY <1>1, IdleFacts DEF PhaseInv, Active, TypeInv, ProcType
<1>6. PICK last : last = proc'.last OBVIOUS
<1>7. last \in Keys \cup {None} /\ now \in 0 .. MaxTime /\ MaxTime \in Nat BY <1>1, <1>6, LogAssumption DEF ProcType, TypeInv
<1>8. FirstName(last) = FirstName(proc'.last) /\ FirstName(proc.last)' = FirstName(last) BY <1>1, <1>6 DEF FirstName
<1>9. last # None => \A k \in OnDisk : AtMost(k, last) \/ (live = None /\ ~sc.clockBack /\ AtMost(k, FirstName(last)))
  <2>1. CASE proc.last = None BY <1>1, <1>6, <2>1, AllGenerations
  <2>2. CASE proc.last # None BY <1>1, <1>4, <1>5, <1>6, <2>2 DEF LastInv
  <2> QED BY <2>1, <2>2
<1>10. last = None => OnDisk = {} BY <1>1, <1>6, AllGenerations
<1>11. LastInv' BY <1>1, <1>4, <1>6, <1>8, <1>9, <1>10 DEF LastInv
<1>12. TmpInv'
  <2>1. \A k \in OnDisk : Holds(k) < files + 1 BY <1>2, DiskFacts
  <2>2. live # None => live < files + 1 BY <1>2 DEF FilesInv
  <2> QED BY <1>1, <1>2, <1>3, <1>4, <2>1, <2>2 DEF TmpInv
<1>13. KeyInv'
  <2>1. CASE rot'.pc = "rename"
    <3>1. rot'.key = FirstName(last) BY <1>3, <1>6, <1>8, <2>1
    <3>2. CASE last = None
      <4>1. FirstName(last) = <<now, 0>> BY <3>2 DEF FirstName
      <4>2. FirstName(last) \in Nat \X Nat BY <1>7, <4>1
      <4> QED BY <1>4, <1>6, <1>10, <2>1, <3>1, <3>2, <4>2, NoneFacts DEF KeyInv
    <3>3. CASE last # None
      <4>1. /\ FirstName(last) \in Nat \X Nat /\ Older(last, FirstName(last)) /\ last \in Nat \X Nat
        BY <1>7, <3>3, FirstNameFollows, KeysFinite
      <4>2. ASSUME NEW k \in OnDisk PROVE AtMost(k, FirstName(last))
        <5>1. k \in Nat \X Nat BY DiskFacts, KeysFinite
        <5> QED BY <1>9, <3>3, <4>1, <5>1, OrderFacts DEF AtMost
      <4>3. AtMost(FirstName(last), FirstName(last)) BY DEF AtMost
      <4> QED BY <1>4, <1>6, <1>8, <2>1, <3>1, <3>3, <4>1, <4>2, <4>3, NoneFacts DEF KeyInv
    <3> QED BY <3>2, <3>3
  <2>2. CASE rot'.pc # "rename" BY <1>3, <2>2 DEF KeyInv
  <2> QED BY <2>1, <2>2
<1>14. BusyInv'
  <2>1. CASE proc.last = None BY <1>1, <1>4, <1>10, <1>6, <2>1, AllGenerations DEF BusyInv
  <2>2. CASE proc.last # None BY <1>1, <1>4, <2>2 DEF BusyInv
  <2> QED BY <2>1, <2>2
<1>15. PhantomInv' BY <1>1, <1>4 DEF PhantomInv, LaterThan
<1>16. FdInv'
  <2>1. Stranded => Stranded' BY <1>1, <1>4 DEF Stranded
  <2>2. proc.fd \in 1 .. files /\ (live = proc.fd \/ Stranded) BY <1>4, <1>5 DEF FdInv
  <2>3. proc.fd \in 1 .. files' BY <1>1, <1>2, <2>2
  <2> QED BY <1>1, <1>3, <1>4, <1>5, <2>1, <2>2, <2>3 DEF FdInv
<1> QED BY <1>11, <1>12, <1>13, <1>14, <1>15, <1>16 DEF NamesInv

\* A name the clock chose is taken as it is, when every name is known.
LEMMA FirstNameFree ==
  ASSUME LogInv, rot.pc = "rename", FreeNames(rot.key) # {}, NEW k, k = OldestOf(FreeNames(rot.key)),
         live # None, proc.last # None
  PROVE  k = rot.key
<1> USE DEF LogInv
<1>1. FreeNames(rot.key) \in SUBSET Keys BY DEF FreeNames
<1>2. k \in FreeNames(rot.key) /\ \A l \in FreeNames(rot.key) \ {k} : Older(k, l) BY <1>1, OldestIs
<1>3. rot.key # None /\ rot.key \in ((0 .. MaxTime) \X Nat) \cup {None} /\ proc.last \in Keys
  BY DEF TypeInv, RotType, KeyInv, ProcType
<1>4. PICK r \in (0 .. MaxTime) \X Nat : r = rot.key BY <1>3
<1>5. r \in Nat \X Nat /\ proc.last \in Nat \X Nat /\ k \in Nat \X Nat /\ k \in Keys BY <1>1, <1>2, <1>3, <1>4, KeysFinite, LogAssumption
<1>6. k[1] = r[1] /\ k[2] >= r[2] /\ k[2] \in 0 .. SeqMax BY <1>2, <1>4, <1>5 DEF FreeNames, Keys
<1>7. r[2] \in 0 .. SeqMax BY <1>4, <1>6, LogAssumption
<1>8. r = <<r[1], r[2]>> /\ r[1] \in 0 .. MaxTime BY <1>4
<1>9. r \in Keys BY <1>7, <1>8 DEF Keys
<1>10. r \notin OnDisk
  <2>1. Active /\ Settled = OnDisk BY IdleFacts DEF PhaseInv, Settled, Pending
  <2>2. ASSUME r \in OnDisk PROVE FALSE
    <3>1. AtMost(r, proc.last) BY <2>1, <2>2 DEF LastInv
    <3>2. Older(proc.last, r) BY <1>4 DEF KeyInv
    <3> QED BY <1>5, <3>1, <3>2, OrderFacts DEF AtMost
  <2> QED BY <2>2
<1>11. r \in FreeNames(rot.key) BY <1>4, <1>5, <1>8, <1>9, <1>10 DEF FreeNames
<1>12. k # r => Older(k, r) BY <1>2, <1>11
<1>13. ~Older(k, r)
  <2>1. k[2] \in Nat /\ r[2] \in Nat /\ k[1] \in Nat BY <1>5
  <2> QED BY <1>6, <2>1 DEF Older
<1> QED BY <1>4, <1>12, <1>13

LEMMA RenameNames ==
  ASSUME LogInv, RotateRename, FilesInv'
  PROVE  NamesInv'
<1> USE DEF LogInv
<1>1. /\ rot.pc = "rename" /\ UNCHANGED <<now, gz, files, comp>> /\ sc'.keep = sc.keep /\ sc'.clockBack = sc.clockBack
      /\ proc'.last = proc.last /\ proc'.fd = proc.fd /\ proc'.status = proc.status
  <2>1. sc'.keep = sc.keep /\ sc'.clockBack = sc.clockBack BY RenameFacts, FaultFacts
  <2> QED BY <2>1, RenameFacts
<1>2. /\ Settled = OnDisk /\ Settled' = OnDisk /\ Busy' = Busy /\ ~Pending BY <1>1, RenameDisk DEF Settled, Pending, Busy
<1>3. Active /\ Active' /\ proc.status = "up" BY <1>1, IdleFacts DEF PhaseInv, Active, TypeInv, ProcType
<1>4. PICK last : last = proc.last OBVIOUS
<1>5. last \in Keys \cup {None} /\ FirstName(last) = FirstName(proc.last) /\ FirstName(proc.last)' = FirstName(last)
  BY <1>1, <1>4 DEF FirstName, TypeInv, ProcType
<1>6. proc.fd \in 1 .. files /\ (live = proc.fd \/ Stranded) BY <1>2, <1>3 DEF FdInv
<1>7. CASE UNCHANGED <<live, plain>> /\ rot'.pc \in {"idle", "write"}
  <2>1. OnDisk' = OnDisk /\ ~Pending' BY <1>1, <1>7 DEF OnDisk, Pending
  <2>2. LastInv' BY <1>1, <1>2, <1>3, <1>4, <1>5, <1>7, <2>1 DEF LastInv
  <2>3. TmpInv' /\ KeyInv' BY <1>7 DEF TmpInv, KeyInv
  <2>4. BusyInv' /\ PhantomInv' BY <1>1, <1>2, <2>1 DEF BusyInv, PhantomInv, LaterThan
  <2>5. Stranded => Stranded' BY <1>1, <1>2, <1>7, <2>1 DEF Stranded
  <2>6. FdInv' BY <1>1, <1>3, <1>6, <1>7, <2>1, <2>5 DEF FdInv
  <2> QED BY <2>2, <2>3, <2>4, <2>6 DEF NamesInv
<1>8. ASSUME FreeNames(rot.key) # {}, NEW k, k = rot'.key, k = OldestOf(FreeNames(rot.key)), rot'.tmp = rot.tmp
      PROVE  /\ k \in Keys /\ k \notin Busy /\ k \notin OnDisk /\ \A l \in OnDisk : Older(l, k)
             /\ last # None => Older(last, k)
             /\ last = None => OnDisk = {}
             /\ live # None /\ last # None /\ ~sc.clockBack => AtMost(k, FirstName(last))
             /\ live # None /\ last # None => \A l \in OnDisk : AtMost(l, last)
  <2>1. /\ k \in Keys /\ k \notin OnDisk /\ \A l \in OnDisk : Older(l, k)
        /\ last # None => Older(last, k)
    BY <1>1, <1>4, <1>8, RotatedName
  <2>2. last = None => OnDisk = {} BY <1>1, <1>2, <1>3, <1>4 DEF LastInv
  <2>3. live # None /\ last # None => \A l \in OnDisk : AtMost(l, last) BY <1>2, <1>3, <1>4 DEF LastInv
  <2>4. k \notin Busy
    <3>1. CASE last = None BY <1>4, <2>2, <3>1 DEF BusyInv
    <3>2. CASE last # None
      <4>1. k \in Busy => AtMost(k, last) BY <1>4, <3>2 DEF BusyInv
      <4>2. last \in Nat \X Nat /\ k \in Nat \X Nat BY <1>5, <2>1, <3>2, KeysFinite
      <4> QED BY <2>1, <3>2, <4>1, <4>2, OrderFacts DEF AtMost
    <3> QED BY <3>1, <3>2
  <2>5. live # None /\ last # None /\ ~sc.clockBack => AtMost(k, FirstName(last))
    <3>1. last # None /\ ~sc.clockBack => AtMost(rot.key, FirstName(last)) BY <1>1, <1>4, <1>5 DEF KeyInv
    <3>2. live # None /\ last # None => k = rot.key BY <1>1, <1>4, <1>8, FirstNameFree
    <3> QED BY <3>1, <3>2
  <2> QED BY <2>1, <2>2, <2>3, <2>4, <2>5
<1>9. ASSUME FreeNames(rot.key) # {}, NEW k, k = rot'.key, k = OldestOf(FreeNames(rot.key)), rot'.tmp = rot.tmp,
             live = None, rot'.pc = "replace", ~rot'.did, UNCHANGED <<live, plain>>
      PROVE  NamesInv'
  <2>1. OnDisk' = OnDisk /\ ~Pending' /\ \A l \in OnDisk : Holds(l)' = Holds(l) BY <1>1, <1>9 DEF OnDisk, Pending, Holds
  <2>2. LastInv' BY <1>1, <1>2, <1>3, <1>4, <1>5, <1>9, <2>1 DEF LastInv
  <2>3. TmpInv' BY <1>1, <1>9, <2>1 DEF TmpInv
  <2>4. KeyInv' BY <1>1, <1>2, <1>4, <1>8, <1>9 DEF KeyInv
  <2>5. BusyInv' /\ PhantomInv' BY <1>1, <1>2, <2>1 DEF BusyInv, PhantomInv, LaterThan
  <2>6. Stranded => Stranded' BY <1>1, <1>2, <1>9, <2>1 DEF Stranded
  <2>7. Stranded BY <1>6, <1>9, NoneFacts, FilesNat
  <2>8. FdInv' BY <1>1, <1>3, <1>6, <1>9, <2>1, <2>6, <2>7 DEF FdInv
  <2> QED BY <2>2, <2>3, <2>4, <2>5, <2>8 DEF NamesInv
<1>10. ASSUME FreeNames(rot.key) # {}, NEW k, k = rot'.key, k = OldestOf(FreeNames(rot.key)), rot'.tmp = rot.tmp,
              live # None, plain' = With(plain, k, live), rot'.did,
              (rot'.pc = "unlink" /\ live' = live) \/ (rot'.pc = "replace" /\ live' = None)
       PROVE  NamesInv'
  <2>1. /\ k \in Keys /\ k \notin Busy /\ k \notin OnDisk /\ \A l \in OnDisk : Older(l, k)
        /\ last # None => Older(last, k)
        /\ last = None => OnDisk = {}
        /\ last # None /\ ~sc.clockBack => AtMost(k, FirstName(last))
        /\ last # None => \A l \in OnDisk : AtMost(l, last)
    BY <1>8, <1>10
  <2>2. /\ DOMAIN plain' = DOMAIN plain \cup {k} /\ plain'[k] = live
        /\ \A x \in DOMAIN plain : x # k => plain'[x] = plain[x]
    BY <1>10 DEF With
  <2>3. OnDisk' = OnDisk \cup {k} /\ Pending' /\ Holds(k)' = live /\ \A l \in OnDisk : Holds(l)' = Holds(l)
    BY <1>1, <1>10, <2>1, <2>2 DEF OnDisk, Pending, Holds
  <2>4. live = proc.fd BY <1>6, <1>10 DEF Stranded
  <2>5. LastInv' BY <1>1, <1>2, <1>4, <1>5, <2>1, <2>3 DEF LastInv
  <2>6. TmpInv' BY <1>1, <1>10, <2>3 DEF TmpInv
  <2>7. KeyInv'
    <3>1. k \in DOMAIN plain' /\ k \notin DOMAIN gz' BY <1>1, <2>1, <2>2 DEF OnDisk
    <3> QED BY <1>1, <1>2, <1>4, <1>5, <1>10, <2>1, <3>1 DEF KeyInv
  <2>8. BusyInv' BY <1>1, <1>2, <2>3 DEF BusyInv
  <2>9. PhantomInv' BY <1>1, <1>2, <2>3 DEF PhantomInv, LaterThan
  <2>10. FdInv' BY <1>1, <1>3, <1>6, <1>10, <2>2, <2>3, <2>4 DEF FdInv
  <2> QED BY <2>5, <2>6, <2>7, <2>8, <2>9, <2>10 DEF NamesInv
<1> QED BY <1>7, <1>9, <1>10, RenameFacts

LEMMA UnlinkNames ==
  ASSUME LogInv, RotateUnlink, FilesInv'
  PROVE  NamesInv'
<1> USE DEF LogInv
<1>1. /\ rot.pc = "unlink" /\ rot'.pc = "replace" /\ rot'.key = rot.key /\ rot'.tmp = rot.tmp /\ rot'.did = rot.did
      /\ live' = None /\ UNCHANGED <<sc, now, plain, gz, files, proc, comp>>
  BY UnlinkFacts
<1>2. OnDisk' = OnDisk /\ (\A k : Holds(k)' = Holds(k)) /\ Settled' = Settled /\ Busy' = Busy
  BY <1>1, UnlinkDisk DEF OnDisk, Holds, Busy
<1>3. rot.did /\ Pending /\ Pending' BY <1>1 DEF KeyInv, Pending
<1>4. FirstName(proc.last)' = FirstName(proc.last) /\ (Active' <=> Active) BY <1>1 DEF FirstName, Active
<1>5. LastInv' BY <1>1, <1>2, <1>3, <1>4 DEF LastInv
<1>6. TmpInv' BY <1>1, <1>2 DEF TmpInv
<1>7. KeyInv' BY <1>1, <1>2, <1>3, <1>4 DEF KeyInv
<1>8. BusyInv' /\ PhantomInv' BY <1>1, <1>2 DEF BusyInv, PhantomInv, LaterThan
<1>9. proc.status # "opening" BY <1>1 DEF PhaseInv
<1>10. FdInv' BY <1>1, <1>3, <1>4, <1>9 DEF FdInv
<1> QED BY <1>5, <1>6, <1>7, <1>8, <1>10 DEF NamesInv

LEMMA LaterGrowsIn ==
  ASSUME NEW S \in SUBSET Keys, NEW T \in SUBSET Keys, S \subseteq T, NEW p, NEW n \in Nat,
         Cardinality(LaterThan(p, S)) >= n
  PROVE  Cardinality(LaterThan(p, T)) >= n
<1>1. LaterThan(p, S) \in SUBSET Keys /\ LaterThan(p, T) \in SUBSET Keys /\ LaterThan(p, S) \subseteq LaterThan(p, T)
  BY DEF LaterThan
<1> QED BY <1>1, MoreIsSafe

LEMMA ReplaceNames ==
  ASSUME LogInv, ClockTrusted, RotateReplace, FilesInv'
  PROVE  NamesInv'
<1> USE DEF LogInv
<1>0. rot.key \in Keys /\ rot.pc = "replace" /\ rot.doomed = {} BY DEF KeyInv, PhaseInv, RotateReplace
<1>1. /\ UNCHANGED <<now, gz, size, files, comp>> /\ sc'.keep = sc.keep /\ sc'.clockBack = sc.clockBack
      /\ proc'.status = proc.status
  <2>1. sc'.keep = sc.keep /\ sc'.clockBack = sc.clockBack BY <1>0, ReplaceFacts, FaultFacts
  <2> QED BY <1>0, <2>1, ReplaceFacts
<1>2. Active /\ Active' /\ proc.status = "up" BY <1>0, <1>1, IdleFacts DEF PhaseInv, Active, TypeInv, ProcType
<1>3. live = None /\ Busy' = Busy BY <1>0, <1>1, <1>2 DEF FdInv, Busy
<1>4. /\ rot.key \notin Busy /\ \A k \in Settled : Older(k, rot.key)
      /\ proc.last # None => Older(proc.last, rot.key)
      /\ rot.did => /\ rot.key \in DOMAIN plain /\ rot.key \notin DOMAIN gz
                    /\ proc.last # None /\ ~sc.clockBack => AtMost(rot.key, FirstName(proc.last))
  BY <1>0 DEF KeyInv
<1>5. proc.last = None => Settled = {} BY <1>0, <1>2 DEF LastInv
<1>6. proc.fd \in 1 .. files BY <1>2 DEF FdInv
<1>7. proc.last \in Keys \cup {None} /\ FirstName(proc.last) = FirstName(proc.last) BY DEF TypeInv, ProcType
<1>8. OnDisk \in SUBSET Keys /\ Settled \subseteq OnDisk /\ sc.keep \in Nat BY DiskFacts
<1>9. Settled = OnDisk \/ (rot.did /\ Pending /\ Settled = OnDisk \ {rot.key}) BY <1>0 DEF Settled, Pending
<1>10. CASE /\ live' = rot.tmp /\ plain' = plain /\ proc'.fd = rot.tmp /\ proc'.last = rot.key
            /\ rot'.pc = "list" /\ rot'.key = rot.key /\ rot'.did = rot.did /\ rot'.doomed = rot.doomed
  <2>1. OnDisk' = OnDisk /\ Settled' = OnDisk /\ ~Pending' BY <1>1, <1>10 DEF OnDisk, Settled, Pending
  <2>2. \A k \in OnDisk : AtMost(k, rot.key) BY <1>4, <1>9 DEF AtMost
  <2>3. rot.key # None BY <1>0, NoneFacts
  <2>4. LastInv' BY <1>10, <2>1, <2>2, <2>3 DEF LastInv
  <2>5. TmpInv' BY <1>10 DEF TmpInv
  <2>6. KeyInv' BY <1>0, <1>1, <1>3, <1>4, <1>10, <2>1, <2>2 DEF KeyInv
  <2>7. BusyInv'
    <3>1. ASSUME NEW p \in Busy PROVE AtMost(p, rot.key)
      <4>1. CASE proc.last = None BY <2>2, <3>1, <4>1 DEF BusyInv
      <4>2. CASE proc.last # None
        <5>1. AtMost(p, proc.last) /\ Older(proc.last, rot.key) BY <1>4, <3>1, <4>2 DEF BusyInv
        <5>2. p \in Nat \X Nat
          <6>1. CASE p = proc.last BY <1>7, <4>2, <6>1, KeysFinite
          <6>2. CASE p # proc.last
            <7>1. comp.queue \in Seq(Keys) /\ comp.running \in Keys \cup {None} BY DEF TypeInv, CompType
            <7>2. \A i \in DOMAIN comp.queue : comp.queue[i] \in Keys BY <7>1
            <7>3. p \in Keys BY <3>1, <7>1, <7>2 DEF Busy, Range
            <7> QED BY <7>3, KeysFinite
          <6> QED BY <6>1, <6>2
        <5>3. proc.last \in Nat \X Nat /\ rot.key \in Nat \X Nat BY <1>0, <1>7, <4>2, KeysFinite
        <5> QED BY <5>1, <5>2, <5>3, OrderFacts DEF AtMost
      <4> QED BY <4>1, <4>2
    <3> QED BY <1>3, <1>10, <2>3, <3>1 DEF BusyInv
  <2>8. PhantomInv'
    <3>1. ASSUME NEW p \in Busy \ OnDisk PROVE Cardinality(LaterThan(p, OnDisk)) >= sc.keep
      BY <1>8, <3>1, LaterGrowsIn DEF PhantomInv
    <3>2. \A p : LaterThan(p, Settled)' = LaterThan(p, OnDisk) BY <2>1 DEF LaterThan
    <3> QED BY <1>1, <1>3, <2>1, <3>1, <3>2 DEF PhantomInv
  <2>9. FdInv' BY <1>0, <1>1, <1>2, <1>10, <2>1 DEF FdInv, TmpInv
  <2> QED BY <2>4, <2>5, <2>6, <2>7, <2>8, <2>9 DEF NamesInv
<1>11. ASSUME proc'.fd = proc.fd, proc'.last = proc.last, rot'.pc \in {"idle", "write"},
              rot.did, live' = plain[rot.key], plain' = Without(plain, rot.key)
       PROVE  NamesInv'
  <2>1. Pending BY <1>0, <1>11 DEF Pending
  <2>2. DOMAIN plain' = DOMAIN plain \ {rot.key} BY <1>11 DEF Without, Restrict
  <2>3. OnDisk' = OnDisk \ {rot.key} /\ Settled = OnDisk' /\ Settled' = OnDisk' /\ ~Pending'
    BY <1>1, <1>4, <1>11, <2>1, <2>2 DEF OnDisk, Settled, Pending
  <2>4. LastInv' BY <1>2, <1>11, <2>1, <2>3 DEF LastInv
  <2>5. TmpInv' /\ KeyInv' BY <1>11 DEF TmpInv, KeyInv
  <2>6. BusyInv' BY <1>3, <1>4, <1>11, <2>3 DEF BusyInv
  <2>7. PhantomInv'
    <3>1. \A p : LaterThan(p, Settled)' = LaterThan(p, Settled) BY <2>3 DEF LaterThan
    <3> QED BY <1>1, <1>3, <1>4, <2>3, <3>1 DEF PhantomInv
  <2>8. live' = proc.fd BY <1>2, <1>11, <2>1 DEF FdInv
  <2>9. FdInv' BY <1>1, <1>2, <1>6, <1>11, <2>3, <2>8 DEF FdInv
  <2> QED BY <2>4, <2>5, <2>6, <2>7, <2>9 DEF NamesInv
<1>12. ASSUME proc'.fd = proc.fd, proc'.last = proc.last, rot'.pc \in {"idle", "write"},
              ~rot.did \/ sc.rollbackFails, UNCHANGED <<live, plain>>
       PROVE  NamesInv'
  <2>1. OnDisk' = OnDisk /\ Settled' = OnDisk /\ ~Pending' BY <1>1, <1>12 DEF OnDisk, Settled, Pending
  <2>2. FirstName(proc.last)' = FirstName(proc.last) BY <1>1, <1>12 DEF FirstName
  <2>3. LastInv'
    <3>1. CASE ~rot.did
      <4>1. ~Pending /\ Settled = OnDisk BY <3>1 DEF Pending, Settled
      <4> QED BY <1>1, <1>2, <1>3, <1>12, <2>1, <2>2, <4>1 DEF LastInv
    <3>2. CASE rot.did
      <4>1. Pending /\ ~sc.clockBack BY <1>0, <1>12, <3>2 DEF Pending, ClockTrusted
      <4>2. proc.last # None => AtMost(rot.key, FirstName(proc.last)) BY <1>4, <3>2, <4>1
      <4>3. proc.last # None => \A k \in Settled : AtMost(k, proc.last) BY <1>2, <4>1 DEF LastInv
      <4>4. Settled = OnDisk \ {rot.key} BY <4>1 DEF Settled
      <4> QED BY <1>1, <1>3, <1>12, <2>1, <2>2, <4>1, <4>2, <4>3, <4>4 DEF LastInv
    <3> QED BY <3>1, <3>2
  <2>4. TmpInv' /\ KeyInv' BY <1>12 DEF TmpInv, KeyInv
  <2>5. BusyInv' BY <1>3, <1>12, <2>1 DEF BusyInv
  <2>6. PhantomInv'
    <3>1. ASSUME NEW p \in Busy \ OnDisk PROVE Cardinality(LaterThan(p, OnDisk)) >= sc.keep
      BY <1>8, <3>1, LaterGrowsIn DEF PhantomInv
    <3>2. \A p : LaterThan(p, Settled)' = LaterThan(p, OnDisk) BY <2>1 DEF LaterThan
    <3> QED BY <1>1, <1>3, <2>1, <3>1, <3>2 DEF PhantomInv
  <2>7. Stranded'
    <3>1. CASE ~rot.did
      <4>1. ~Pending BY <3>1 DEF Pending
      <4>2. Stranded BY <1>2, <1>3, <1>6, <4>1, NoneFacts, FilesNat DEF FdInv
      <4> QED BY <1>1, <1>3, <1>12, <2>1, <4>2 DEF Stranded
    <3>2. CASE rot.did
      <4>1. Pending /\ Settled = OnDisk \ {rot.key} BY <1>0, <3>2 DEF Pending, Settled
      <4>2. plain[rot.key] = proc.fd BY <1>2, <4>1 DEF FdInv
      <4> QED BY <1>3, <1>4, <1>12, <2>1, <3>2, <4>1, <4>2 DEF Stranded
    <3> QED BY <3>1, <3>2
  <2>8. FdInv' BY <1>1, <1>2, <1>6, <1>12, <2>1, <2>7 DEF FdInv
  <2> QED BY <2>3, <2>4, <2>5, <2>6, <2>8 DEF NamesInv
<1> QED BY <1>0, <1>10, <1>11, <1>12, ReplaceFacts

LEMMA ListNames ==
  ASSUME LogInv, RotateList
  PROVE  NamesInv'
<1> USE DEF LogInv
<1>1. /\ rot.pc = "list" /\ rot'.pc = "prune" /\ rot'.key = rot.key /\ rot'.did = rot.did
      /\ UNCHANGED <<now, live, plain, gz, files>> /\ sc'.keep = sc.keep /\ sc'.clockBack = sc.clockBack
      /\ proc'.fd = proc.fd /\ proc'.last = proc.last /\ proc'.status = proc.status
      /\ comp'.queue = comp.queue /\ comp'.running = comp.running
  <2>1. sc'.keep = sc.keep /\ sc'.clockBack = sc.clockBack BY ListFacts, FaultFacts
  <2> QED BY <2>1, ListFacts
<1>2. OnDisk' = OnDisk /\ Settled = OnDisk /\ Settled' = OnDisk /\ Busy' = Busy /\ ~Pending /\ ~Pending'
      /\ (Active' <=> Active)
  BY <1>1 DEF OnDisk, Settled, Pending, Busy, Active
<1>3. rot.did => rot.key \notin rot'.doomed
  <2>1. rot.key # None BY <1>1, NoneFacts DEF KeyInv
  <2>2. CASE rot'.doomed = {} BY <2>2
  <2>3. ASSUME rot.did, NEW missed \in BOOLEAN,
               rot'.doomed = Excess(Listed(missed)) \ Protected(IF rot.did THEN rot.key ELSE None)
        PROVE  rot.key \notin rot'.doomed
    BY <2>1, <2>3 DEF Protected
  <2> QED BY <2>2, <2>3, ListFacts
<1>4. FirstName(proc.last)' = FirstName(proc.last) BY <1>1 DEF FirstName
<1>5. LastInv' BY <1>1, <1>2, <1>4 DEF LastInv
<1>6. TmpInv' BY <1>1 DEF TmpInv
<1>7. KeyInv' BY <1>1, <1>2, <1>3 DEF KeyInv
<1>8. BusyInv' /\ PhantomInv' BY <1>1, <1>2 DEF BusyInv, PhantomInv, LaterThan
<1>9. proc.status # "opening" BY <1>1 DEF PhaseInv
<1>10. FdInv' BY <1>1, <1>2, <1>9 DEF FdInv
<1> QED BY <1>5, <1>6, <1>7, <1>8, <1>10 DEF NamesInv

LEMMA PruneNames ==
  ASSUME LogInv, PruneOne
  PROVE  NamesInv'
<1> USE DEF LogInv
<1>1. PICK d \in Keys : /\ d \in rot.doomed /\ plain' = Without(plain, d) /\ gz' = Without(gz, d)
                        /\ UNCHANGED <<sc, now, live, files, proc, comp>>
                        /\ rot'.pc = rot.pc /\ rot'.key = rot.key /\ rot'.did = rot.did
                        /\ rot'.doomed = rot.doomed \ {d}
  BY PruneFacts
<1>2. /\ DOMAIN plain' = DOMAIN plain \ {d} /\ \A k \in DOMAIN plain' : plain'[k] = plain[k]
      /\ DOMAIN gz' = DOMAIN gz \ {d}
  BY <1>1 DEF Without, Restrict
<1>3. OnDisk' = OnDisk \ {d} BY <1>2 DEF OnDisk
<1>4. rot.pc \in {"prune", "idle"} /\ (rot.pc = "idle" => comp.pc = "prune") BY <1>1 DEF PhaseInv
<1>5. ~Pending /\ ~Pending' /\ Settled = OnDisk /\ Settled' = OnDisk' /\ Busy' = Busy /\ (Active' <=> Active)
  BY <1>1, <1>4 DEF Settled, Pending, Busy, Active
<1>6. proc.last # None
  <2>1. CASE rot.pc = "prune" BY <2>1, NoneFacts DEF KeyInv
  <2>2. CASE comp.pc = "prune" BY <2>2 DEF PhaseInv
  <2> QED BY <1>4, <2>1, <2>2
<1>7. FirstName(proc.last)' = FirstName(proc.last) BY <1>1 DEF FirstName
<1>8. LastInv' BY <1>1, <1>3, <1>5, <1>6, <1>7 DEF LastInv
<1>9. TmpInv' BY <1>1, <1>4 DEF TmpInv
<1>10. KeyInv' BY <1>1, <1>2, <1>3, <1>4, <1>5 DEF KeyInv
<1>11. BusyInv' BY <1>1, <1>5, <1>6 DEF BusyInv
<1> DEFINE S == LaterThan(d, OnDisk \ rot.doomed)
<1>12. /\ S \subseteq OnDisk' /\ S \in SUBSET Keys /\ OnDisk' \in SUBSET Keys /\ sc.keep \in Nat \ {0}
       /\ Cardinality(S) >= sc.keep /\ \A s \in S : Older(d, s)
  <2>1. S \subseteq OnDisk' /\ \A s \in S : Older(d, s) BY <1>1, <1>3 DEF LaterThan
  <2>2. Cardinality(S) >= sc.keep BY <1>1 DEF DoomedInv
  <2> QED BY <1>3, <2>1, <2>2, DiskFacts
<1> HIDE DEF S
<1>13. PhantomInv'
  <2>1. ASSUME NEW p \in Busy, p \notin OnDisk', p \in Nat \X Nat PROVE Cardinality(LaterThan(p, OnDisk')) >= sc.keep
    <3>1. CASE p = d \/ Older(p, d)
      <4>1. \A s \in S : s \in Nat \X Nat /\ d \in Nat \X Nat BY <1>12, KeysFinite
      <4>2. S \subseteq LaterThan(p, OnDisk') BY <1>12, <2>1, <3>1, <4>1, OrderFacts DEF LaterThan
      <4>3. LaterThan(p, OnDisk') \in SUBSET Keys BY <1>12 DEF LaterThan
      <4> QED BY <1>12, <4>2, <4>3, MoreIsSafe
    <3>2. CASE ~(p = d \/ Older(p, d))
      <4>1. p \notin OnDisk BY <1>3, <2>1, <3>2
      <4>2. LaterThan(p, OnDisk) = LaterThan(p, OnDisk') BY <1>3, <3>2 DEF LaterThan
      <4> QED BY <1>5, <2>1, <4>1, <4>2 DEF PhantomInv
    <3> QED BY <3>1, <3>2
  <2>2. Busy \subseteq Nat \X Nat
    <3>1. comp.queue \in Seq(Keys) /\ comp.running \in Keys \cup {None} BY DEF TypeInv, CompType
    <3>2. \A i \in DOMAIN comp.queue : comp.queue[i] \in Keys BY <3>1
    <3> QED BY <3>1, <3>2, KeysFinite DEF Busy, Range
  <2>3. \A p : LaterThan(p, Settled)' = LaterThan(p, OnDisk') BY <1>5 DEF LaterThan
  <2> QED BY <1>1, <1>5, <2>1, <2>2, <2>3 DEF PhantomInv
<1>14. Stranded => Stranded'
  <2>1. ASSUME Stranded PROVE Stranded'
    <3>1. PICK k \in DOMAIN plain : /\ plain[k] = proc.fd /\ k \notin Busy
                                    /\ \A l \in OnDisk \ {k} : Older(l, k)
      BY <2>1 DEF Stranded
    <3>2. S # {}
      <4>1. CASE S = {} BY <1>12, <4>1, FS_EmptySet
      <4> QED BY <4>1
    <3>3. PICK s \in S : TRUE BY <3>2
    <3>4. k \in Nat \X Nat /\ s \in Nat \X Nat /\ d \in Nat \X Nat /\ s \in OnDisk /\ Older(d, s)
      BY <1>3, <1>12, <3>1, DiskFacts, KeysFinite DEF OnDisk
    <3>5. k # d BY <3>1, <3>4, OrderFacts
    <3> QED BY <1>1, <1>2, <1>3, <1>5, <2>1, <3>1, <3>5 DEF Stranded
  <2> QED BY <2>1
<1>15. FdInv' BY <1>1, <1>4, <1>5, <1>14 DEF FdInv
<1> QED BY <1>8, <1>9, <1>10, <1>11, <1>13, <1>15 DEF NamesInv

LEMMA QueueNames ==
  ASSUME LogInv, RotateQueue
  PROVE  NamesInv'
<1> USE DEF LogInv
<1>0. rot.key \in Keys /\ rot.pc = "prune" BY DEF KeyInv, RotateQueue
<1>1. /\ rot'.pc \in {"idle", "write"} /\ UNCHANGED <<now, live, plain, gz, files>>
      /\ sc'.keep = sc.keep /\ sc'.clockBack = sc.clockBack
      /\ proc'.fd = proc.fd /\ proc'.last = proc.last /\ proc'.status = proc.status
  <2>1. sc'.keep = sc.keep /\ sc'.clockBack = sc.clockBack BY <1>0, QueueFacts, FaultFacts
  <2> QED BY <1>0, <2>1, QueueFacts
<1>2. OnDisk' = OnDisk /\ Settled = OnDisk /\ Settled' = OnDisk /\ ~Pending /\ ~Pending' /\ (Active' <=> Active)
  BY <1>0, <1>1 DEF OnDisk, Settled, Pending, Active
<1>3. Busy' = Busy \/ (Busy' = Busy \cup {rot.key} /\ rot.key \in OnDisk)
  <2>1. CASE comp' = comp BY <2>1 DEF Busy
  <2>2. CASE rot.did /\ comp' = Enqueued(comp, rot.key)
    <3>1. PICK k \in Keys : k = rot.key BY <1>0
    <3>2. comp \in CompType /\ comp' = Enqueued(comp, k) BY <2>2, <3>1 DEF TypeInv
    <3>3. Range(comp'.queue) = Range(comp.queue) \cup {k} /\ comp'.running = comp.running BY <3>2, EnqueueStep
    <3>4. rot.key \in OnDisk BY <1>0, <2>2 DEF KeyInv, OnDisk
    <3> QED BY <3>1, <3>3, <3>4 DEF Busy
  <2> QED BY <1>0, <2>1, <2>2, QueueFacts
<1>4. FirstName(proc.last)' = FirstName(proc.last) BY <1>1 DEF FirstName
<1>5. LastInv' BY <1>1, <1>2, <1>4 DEF LastInv
<1>6. TmpInv' /\ KeyInv' BY <1>1 DEF TmpInv, KeyInv
<1>7. BusyInv'
  <2>1. proc.last = rot.key /\ proc.last # None BY <1>0, NoneFacts DEF KeyInv
  <2> QED BY <1>1, <1>3, <2>1 DEF BusyInv, AtMost
<1>8. PhantomInv'
  <2>1. \A p : LaterThan(p, Settled)' = LaterThan(p, Settled) BY <1>2 DEF LaterThan
  <2> QED BY <1>1, <1>2, <1>3, <2>1 DEF PhantomInv
<1>9. proc.status # "opening" BY <1>0 DEF PhaseInv
<1>10. FdInv' BY <1>0, <1>1, <1>2, <1>9 DEF FdInv
<1> QED BY <1>5, <1>6, <1>7, <1>8, <1>10 DEF NamesInv

LEMMA StopNames ==
  ASSUME LogInv, CloseEnd \/ Crash
  PROVE  NamesInv'
<1> USE DEF LogInv
<1>1. ~Active' /\ rot'.pc = "idle" /\ comp'.queue = <<>> /\ comp'.running = None
  <2>1. CASE CloseEnd BY <2>1, CloseEndFacts, IdleFacts DEF Active
  <2>2. CASE Crash BY <2>2, CrashFacts, IdleFacts DEF Active
  <2> QED BY <2>1, <2>2
<1>2. Busy' = {} BY <1>1, EmptyQueue DEF Busy
<1> QED BY <1>1, <1>2 DEF NamesInv, TmpInv, LastInv, KeyInv, BusyInv, PhantomInv, FdInv

(***************************************************************************)
(* The deletion pass keeps what it must and no more than it may.           *)
(***************************************************************************)

\* What is deleted and what is kept.
RetainInv == DoomedInv /\ KeepInv

LEMMA FewerFit ==
  ASSUME NEW S \in SUBSET Keys, NEW T \in SUBSET Keys, S \subseteq T, NEW n \in Nat, Cardinality(T) <= n
  PROVE  Cardinality(S) <= n
<1>1. IsFiniteSet(T) /\ Cardinality(S) \in Nat /\ Cardinality(T) \in Nat BY KeysFinite
<1>2. Cardinality(S) <= Cardinality(T) BY <1>1, FS_Subset
<1> QED BY <1>1, <1>2

\* The pass works on the names on disk and the running compression's.
LEMMA ListedIs ==
  ASSUME LogInv, ClockTrusted, NEW missed \in BOOLEAN, missed => comp.running # None
  PROVE  Listed(missed) = OnDisk \cup ({comp.running} \ {None}) /\ Listed(missed) \in SUBSET Keys
<1> USE DEF LogInv
<1>1. Generations = OnDisk /\ OnDisk \in SUBSET Keys BY AllGenerations, DiskFacts
<1>2. comp.running \in Keys \cup {None} /\ None \notin Keys BY NoneFacts DEF TypeInv, CompType
<1>3. CASE comp.running = None
  <2>1. Listed(missed) = Generations BY <1>3 DEF Listed
  <2> QED BY <1>1, <1>3, <2>1
<1>4. CASE comp.running # None
  <2>1. Listed(missed) = (IF missed THEN Generations \ {comp.running} ELSE Generations) \cup {comp.running}
    BY <1>4 DEF Listed
  <2> QED BY <1>1, <1>2, <1>4, <2>1
<1> QED BY <1>3, <1>4

LEMMA ListRetains ==
  ASSUME LogInv, ClockTrusted, RotateList
  PROVE  RetainInv'
<1> USE DEF LogInv
<1>1. /\ rot.pc = "list" /\ rot'.pc = "prune" /\ UNCHANGED <<live, plain, gz>>
      /\ sc'.keep = sc.keep /\ comp'.running = comp.running
  <2>1. sc'.keep = sc.keep BY ListFacts, FaultFacts
  <2> QED BY <2>1, ListFacts
<1>2. OnDisk' = OnDisk /\ Settled = OnDisk /\ Settled' = OnDisk BY <1>1 DEF OnDisk, Settled, Pending
<1>3. sc.keep \in Nat \ {0} /\ OnDisk \in SUBSET Keys BY DiskFacts
<1>4. CASE rot'.doomed = {} /\ ~proc'.clean BY <1>4 DEF RetainInv, DoomedInv, KeepInv
<1>5. ASSUME NEW missed \in BOOLEAN, missed => comp.running # None, NEW just, just = IF rot.did THEN rot.key ELSE None,
             rot'.doomed = Excess(Listed(missed)) \ Protected(just),
             comp'.deferred = (comp.deferred \/ Excess(Listed(missed)) \cap Protected(just) # {})
      PROVE  RetainInv'
  <2>1. PICK L : L = Listed(missed) OBVIOUS
  <2>2. L = OnDisk \cup ({comp.running} \ {None}) /\ L \in SUBSET Keys BY <1>5, <2>1, ListedIs
  <2>3. Excess(L) = {k \in L : Cardinality(LaterThan(k, L)) >= sc.keep} BY DEF Excess, LaterThan
  <2>4. Excess(L) \subseteq L BY <2>3
  <2>5. None \notin Keys /\ comp.running \in Keys \cup {None} BY NoneFacts DEF TypeInv, CompType
  \* The running compression of a generation that is gone is past keeping.
  <2>6. L \ Excess(L) \subseteq OnDisk
    <3>1. ASSUME comp.running # None, comp.running \notin OnDisk PROVE comp.running \in Excess(L)
      <4>1. comp.running \in Busy \ OnDisk BY <3>1 DEF Busy
      <4>2. Cardinality(LaterThan(comp.running, OnDisk)) >= sc.keep BY <1>2, <4>1 DEF PhantomInv
      <4>3. Cardinality(LaterThan(comp.running, L)) >= sc.keep BY <1>3, <2>2, <4>2, LaterGrowsIn
      <4> QED BY <2>2, <2>3, <3>1, <4>3
    <3> QED BY <2>2, <3>1
  <2>7. rot.did => rot.key \notin Excess(L)
    <3>1. rot.key \in Keys /\ rot.key = proc.last /\ \A k \in OnDisk : AtMost(k, rot.key) BY <1>1 DEF KeyInv
    <3>2. comp.running # None => AtMost(comp.running, rot.key) BY <3>1, <2>5 DEF BusyInv, Busy
    <3>3. ASSUME NEW k \in L PROVE ~Older(rot.key, k)
      <4>1. AtMost(k, rot.key) BY <2>2, <3>1, <3>2, <3>3
      <4>2. k \in Nat \X Nat /\ rot.key \in Nat \X Nat BY <2>2, <3>1, KeysFinite
      <4> QED BY <4>1, <4>2, OrderFacts DEF AtMost
    <3>4. LaterThan(rot.key, L) = {} BY <3>3 DEF LaterThan
    <3>5. Cardinality(LaterThan(rot.key, L)) = 0 BY <3>4, FS_EmptySet
    <3> QED BY <1>3, <2>3, <3>5
  <2>8. Protected(just) \cap Excess(L) = {comp.running} \cap Excess(L)
    <3>1. None \notin Excess(L) BY <2>2, <2>4, <2>5
    <3> QED BY <1>5, <2>7, <3>1 DEF Protected
  <2>9. rot'.doomed = Excess(L) \ {comp.running} BY <1>5, <2>1, <2>8
  <2>10. DoomedInv'
    <3>1. ASSUME NEW d \in rot'.doomed PROVE Cardinality(LaterThan(d, OnDisk \ rot'.doomed)) >= sc.keep
      <4>1. d \in Excess(L) BY <2>9, <3>1
      <4>2. Cardinality(LaterThan(d, L \ Excess(L))) >= sc.keep BY <1>3, <2>2, <4>1, ExcessSpares
      <4>3. L \ Excess(L) \subseteq OnDisk \ rot'.doomed BY <2>6, <2>9
      <4>4. L \ Excess(L) \in SUBSET Keys /\ OnDisk \ rot'.doomed \in SUBSET Keys BY <1>3, <2>2
      <4> QED BY <1>3, <4>2, <4>3, <4>4, LaterGrowsIn
    <3>2. \A d : LaterThan(d, OnDisk \ rot.doomed)' = LaterThan(d, OnDisk \ rot'.doomed) BY <1>2 DEF LaterThan
    <3>3. comp'.running \notin rot'.doomed BY <1>1, <2>9
    <3> QED BY <1>1, <3>1, <3>2, <3>3 DEF DoomedInv
  <2>11. KeepInv'
    <3>1. Cardinality(L \ Excess(L)) <= sc.keep /\ L \ Excess(L) \in SUBSET Keys BY <1>3, <2>2, ExcessBound
    <3>2. CASE comp.running \in Excess(L)
      <4>1. comp'.deferred /\ comp.running # None BY <1>5, <2>1, <2>2, <2>4, <2>5, <2>8, <3>2
      <4>2. (OnDisk \ rot'.doomed) \ {comp.running} \subseteq L \ Excess(L) BY <2>2, <2>9
      <4>3. (OnDisk \ rot'.doomed) \ {comp.running} \in SUBSET Keys BY <1>3
      <4>4. Cardinality((OnDisk \ rot'.doomed) \ {comp.running}) <= sc.keep BY <1>3, <3>1, <4>2, <4>3, FewerFit
      <4> QED BY <1>1, <1>2, <4>1, <4>4 DEF KeepInv
    <3>3. CASE comp.running \notin Excess(L)
      <4>1. OnDisk \ rot'.doomed \subseteq L \ Excess(L) BY <2>2, <2>9, <3>3
      <4>2. OnDisk \ rot'.doomed \in SUBSET Keys BY <1>3
      <4>3. Cardinality(OnDisk \ rot'.doomed) <= sc.keep BY <1>3, <3>1, <4>1, <4>2, FewerFit
      <4> QED BY <1>1, <1>2, <4>3 DEF KeepInv
    <3> QED BY <3>2, <3>3
  <2> QED BY <2>10, <2>11 DEF RetainInv
<1>6. CASE \E missed \in BOOLEAN :
             /\ missed => comp.running # None
             /\ rot'.doomed = Excess(Listed(missed)) \ Protected(IF rot.did THEN rot.key ELSE None)
             /\ comp'.deferred = (comp.deferred \/ Excess(Listed(missed)) \cap Protected(IF rot.did THEN rot.key ELSE None) # {})
  <2>1. PICK just : just = IF rot.did THEN rot.key ELSE None OBVIOUS
  <2> QED BY <1>5, <1>6, <2>1
<1> QED BY <1>4, <1>6, ListFacts

LEMMA NoneDoomed ==
  ASSUME LogInv, rot.pc # "prune", comp.pc # "prune"
  PROVE  rot.doomed = {}
BY DEF LogInv, PhaseInv

LEMMA KeepSame ==
  ASSUME LogInv, Settled' \ rot'.doomed = Settled \ rot.doomed, sc'.keep = sc.keep,
         comp'.running = comp.running, comp'.deferred = comp.deferred,
         proc'.clean => proc.clean, proc'.fd = proc.fd, proc'.opened = proc.opened, Active' => Active,
         rot.pc = "list" => rot'.pc = "list"
  PROVE  KeepInv'
BY DEF LogInv, KeepInv

LEMMA CalmRetains ==
  ASSUME LogInv, Calm, rot'.doomed = rot.doomed, comp'.running = comp.running, comp'.deferred = comp.deferred
  PROVE  RetainInv'
<1> USE DEF LogInv
<1>1. OnDisk' = OnDisk /\ sc'.keep = sc.keep /\ Settled' = Settled BY CalmView DEF Calm
<1>2. \A d : LaterThan(d, OnDisk \ rot.doomed)' = LaterThan(d, OnDisk \ rot.doomed) BY <1>1 DEF LaterThan
<1>3. DoomedInv' BY <1>1, <1>2 DEF DoomedInv
<1>4. rot.pc = "list" => rot'.pc = "list" BY DEF Calm, Away
<1>5. KeepInv' BY <1>1, <1>4, KeepSame DEF Calm
<1> QED BY <1>3, <1>5 DEF RetainInv

LEMMA FinishRetains ==
  ASSUME LogInv, ClockTrusted, CompressFinish
  PROVE  RetainInv'
<1> USE DEF LogInv
<1>1. /\ comp.pc = "finish" /\ rot.pc = "idle" /\ comp'.running = None /\ ~comp'.deferred
      /\ rot'.pc = rot.pc
      /\ \/ comp.deferred /\ comp'.pc = "prune" /\ rot'.doomed = Excess(Generations)
         \/ ~comp.deferred /\ comp'.pc = "wait" /\ rot' = rot
      /\ UNCHANGED <<sc, now, live, fresh, plain, gz, gztmp, size, files, proc>>
  BY FinishFacts
<1>2. /\ OnDisk' = OnDisk /\ ~Pending /\ ~Pending' /\ Settled = OnDisk /\ Settled' = OnDisk
      /\ rot.doomed = {} /\ (Active' <=> Active)
  BY <1>1, NoneDoomed DEF OnDisk, Pending, Settled, Active
<1>3. Generations = OnDisk /\ OnDisk \in SUBSET Keys /\ sc.keep \in Nat \ {0} BY AllGenerations, DiskFacts
<1>4. CASE comp.deferred /\ comp'.pc = "prune" /\ rot'.doomed = Excess(Generations)
  <2>1. PICK D \in SUBSET Keys : D = Excess(OnDisk) BY <1>3 DEF Excess
  <2>2. rot'.doomed = D BY <1>3, <1>4, <2>1
  <2>3. \A d \in D : Cardinality(LaterThan(d, OnDisk \ D)) >= sc.keep BY <1>3, <2>1, ExcessSpares
  <2>4. \A d : LaterThan(d, OnDisk \ rot.doomed)' = LaterThan(d, OnDisk \ D) BY <1>2, <2>2 DEF LaterThan
  <2>5. comp'.running \notin D BY <1>1, <2>1, NoneFacts
  <2>6. DoomedInv' BY <1>1, <2>2, <2>3, <2>4, <2>5 DEF DoomedInv
  <2>7. Cardinality(OnDisk \ D) <= sc.keep BY <1>3, <2>1, ExcessBound
  <2>8. KeepInv' BY <1>1, <1>2, <2>2, <2>7 DEF KeepInv
  <2> QED BY <2>6, <2>8 DEF RetainInv
<1>5. CASE ~comp.deferred /\ comp'.pc = "wait" /\ rot' = rot
  <2>1. DoomedInv' BY <1>2, <1>5 DEF DoomedInv
  <2>2. KeepInv' BY <1>1, <1>2, <1>5 DEF KeepInv
  <2> QED BY <2>1, <2>2 DEF RetainInv
<1> QED BY <1>1, <1>4, <1>5

LEMMA CalmRetain ==
  ASSUME LogInv, ClockTrusted, FilesInv', Recovery \/ TimeRotate \/ Write \/ CloseBegin \/ Tick \/ Compression
  PROVE  RetainInv'
<1> USE DEF LogInv
<1>1. Calm BY CalmSteps
<1>2. CASE CompressFinish BY <1>2, FinishRetains
<1>3. CASE CompressTake
  <2>1. comp.running = None /\ rot.doomed = {} /\ rot' = rot /\ comp.pc = "wait" BY <1>3, TakeFacts, NoneDoomed DEF PhaseInv
  <2>2. DoomedInv' BY <2>1 DEF DoomedInv
  <2>3. sc'.keep = sc.keep /\ Settled' = Settled BY <1>1, CalmView DEF Calm
  <2>4. KeepInv' BY <1>1, <2>1, <2>3 DEF KeepInv, Calm
  <2> QED BY <2>2, <2>4 DEF RetainInv
<1>4. ASSUME NEW q \in DOMAIN plain, Requeue(q) PROVE RetainInv'
  <2>1. PICK k \in Keys : k = q BY DEF FilesInv
  <2>2. comp' = Enqueued(comp, k) /\ rot' = rot /\ comp \in CompType BY <1>4, <2>1 DEF Requeue, TypeInv
  <2>3. comp'.running = comp.running /\ comp'.deferred = comp.deferred BY <2>2, EnqueueStep
  <2> QED BY <1>1, <2>2, <2>3, CalmRetains
<1>5. CASE Write
  <2>1. rot.pc \in {"idle", "write"} /\ comp.pc # "prune" /\ rot'.doomed = {} /\ comp' = comp BY <1>5, WriteFacts
  <2>2. rot.doomed = {} BY <2>1, NoneDoomed
  <2> QED BY <1>1, <2>1, <2>2, CalmRetains
<1>6. CASE CompressOpen \/ CompressCopy \/ CompressPublish \/ CompressUnlinkTmp \/ CompressUnlink \/ CompressPruned
  <2>1. comp'.running = comp.running /\ comp'.deferred = comp.deferred /\ rot' = rot
    <3>1. CASE CompressOpen BY <3>1, CompressOpenFacts DEF CompSame
    <3>2. CASE CompressCopy
      <4>1. comp.src \in Inodes BY <3>2, FilesNat DEF CompressCopy, CompInv, FilesInv
      <4> QED BY <3>2, <4>1, CopyFacts DEF CompSame
    <3>3. CASE CompressPublish BY <3>3, PublishFacts DEF CompSame
    <3>4. CASE CompressUnlinkTmp BY <3>4, UnlinkTmpFacts DEF CompSame
    <3>5. CASE CompressUnlink BY <3>5, UnlinkSourceFacts DEF CompSame
    <3>6. CASE CompressPruned BY <3>6, PrunedFacts DEF CompSame
    <3> QED BY <1>6, <3>1, <3>2, <3>3, <3>4, <3>5, <3>6
  <2> QED BY <1>1, <2>1, CalmRetains
<1>7. ASSUME NEW i \in fresh, RemoveStaleTmp(i) PROVE RetainInv' BY <1>1, <1>7, CalmRetains DEF RemoveStaleTmp
<1>8. ASSUME NEW k \in gztmp, RemoveStaleGz(k) PROVE RetainInv' BY <1>1, <1>8, CalmRetains DEF RemoveStaleGz
<1>9. CASE Opened BY <1>1, <1>9, OpenedFacts, CalmRetains
<1>10. CASE TimeRotate BY <1>1, <1>10, TimeRotateFacts, CalmRetains
<1>11. CASE CloseBegin BY <1>1, <1>11, CloseBeginFacts, CalmRetains
<1>12. CASE Tick BY <1>1, <1>12, TickFacts, CalmRetains
<1> QED BY <1>2, <1>3, <1>4, <1>5, <1>6, <1>7, <1>8, <1>9, <1>10, <1>11, <1>12 DEF Recovery, Compression

LEMMA StartStopRetain ==
  ASSUME LogInv, Open \/ CloseEnd \/ Crash
  PROVE  RetainInv'
<1> USE DEF LogInv
<1>1. CASE Open
  <2>1. rot'.doomed = {} /\ proc'.fd = proc'.opened BY <1>1, OpenFacts, IdleFacts
  <2> QED BY <2>1 DEF RetainInv, DoomedInv, KeepInv
<1>2. CASE CloseEnd
  <2>1. rot' = rot /\ rot.doomed = {} /\ proc'.status = "closed" BY <1>2, CloseEndFacts, NoneDoomed
  <2> QED BY <2>1 DEF RetainInv, DoomedInv, KeepInv, Active
<1>3. CASE Crash
  <2>1. rot'.doomed = {} /\ proc'.status = "down" BY <1>3, CrashFacts, IdleFacts
  <2> QED BY <2>1 DEF RetainInv, DoomedInv, KeepInv, Active
<1> QED BY <1>1, <1>2, <1>3

\* A step of the rotation that dooms nothing.
LEMMA RotationRetains ==
  ASSUME LogInv, sc'.keep = sc.keep, rot.doomed = {}, rot'.doomed = {}, rot.pc # "list",
         comp'.running = comp.running, comp'.deferred = comp.deferred,
         proc'.clean => /\ proc.clean /\ proc'.fd = proc.fd /\ proc'.opened = proc.opened /\ Settled' = Settled
                        /\ (Active' => Active)
  PROVE  RetainInv'
<1> USE DEF LogInv
<1>1. DoomedInv' BY DEF DoomedInv
<1>2. CASE ~proc'.clean BY <1>1, <1>2 DEF RetainInv, KeepInv
<1>3. CASE proc'.clean
  <2>1. KeepInv' BY <1>3, KeepSame
  <2> QED BY <1>1, <2>1 DEF RetainInv
<1> QED BY <1>2, <1>3

LEMMA PruneRetains ==
  ASSUME LogInv, PruneOne
  PROVE  RetainInv'
<1> USE DEF LogInv
<1>1. PICK d \in Keys : /\ d \in rot.doomed /\ plain' = Without(plain, d) /\ gz' = Without(gz, d)
                        /\ UNCHANGED <<sc, live, proc, comp>> /\ rot'.pc = rot.pc /\ rot'.doomed = rot.doomed \ {d}
  BY PruneFacts
<1>2. DOMAIN plain' = DOMAIN plain \ {d} /\ DOMAIN gz' = DOMAIN gz \ {d}
  BY <1>1 DEF Without, Restrict
<1>3. OnDisk' = OnDisk \ {d} BY <1>2 DEF OnDisk
<1>4. rot.pc # "list" /\ ~Pending /\ ~Pending' /\ Settled = OnDisk /\ Settled' = OnDisk' /\ (Active' => Active)
  BY <1>1 DEF PhaseInv, Pending, Settled, Active
<1>5. OnDisk' \ rot'.doomed = OnDisk \ rot.doomed BY <1>1, <1>3
<1>6. \A e : LaterThan(e, OnDisk \ rot.doomed)' = LaterThan(e, OnDisk \ rot.doomed) BY <1>5 DEF LaterThan
<1>7. DoomedInv' BY <1>1, <1>6 DEF DoomedInv
<1>8. KeepInv' BY <1>1, <1>4, <1>5, KeepSame
<1> QED BY <1>7, <1>8 DEF RetainInv

LEMMA ReplaceRetains ==
  ASSUME LogInv, RotateReplace
  PROVE  RetainInv'
<1> USE DEF LogInv
<1>1. rot.pc = "replace" /\ rot.key \in Keys BY DEF RotateReplace, KeyInv
<1>2. rot.doomed = {} /\ rot'.doomed = {} BY <1>1, NoneDoomed, ReplaceFacts DEF PhaseInv
<1>3. rot'.pc = "list" \/ ~proc'.clean BY <1>1, ReplaceFacts
<1> QED BY <1>2, <1>3 DEF RetainInv, DoomedInv, KeepInv

LEMMA RotationRetain ==
  ASSUME LogInv, ClockTrusted, FilesInv', Rotation
  PROVE  RetainInv'
<1> USE DEF LogInv
<1>1. CASE RotateCreate
  <2>1. /\ rot.pc = "create" /\ comp' = comp /\ proc'.fd = proc.fd /\ proc'.opened = proc.opened
        /\ proc'.status = proc.status /\ (proc'.clean => proc.clean)
    BY <1>1, CreateFacts
  <2>2. rot.doomed = {} BY <2>1, NoneDoomed DEF PhaseInv
  <2>3. rot'.doomed = {}
    <3>1. CASE rot'.doomed = rot.doomed BY <2>2, <3>1
    <3>2. CASE rot' = [NoRotation EXCEPT !.pc = rot.next] BY <3>2 DEF NoRotation
    <3> QED BY <1>1, <3>1, <3>2, CreateFacts
  <2>4. sc'.keep = sc.keep /\ Settled' = Settled BY <1>1, OtherDisk, QuietView DEF Quiet
  <2>5. Active' => Active BY <2>1 DEF Active
  <2> QED BY <2>1, <2>2, <2>3, <2>4, <2>5, RotationRetains
<1>2. CASE RotateRename
  <2>1. /\ rot.pc = "rename" /\ comp' = comp /\ proc'.fd = proc.fd /\ proc'.opened = proc.opened
        /\ proc'.status = proc.status /\ (proc'.clean => proc.clean)
    BY <1>2, RenameFacts
  <2>2. rot.doomed = {} BY <2>1, NoneDoomed DEF PhaseInv
  <2>3. rot'.doomed = {} BY <1>2, <2>2, RenameFacts
  <2>4. sc'.keep = sc.keep BY <1>2, RenameFacts, FaultFacts
  <2>5. Settled' = Settled BY <1>2, RenameDisk
  <2>6. Active' => Active BY <2>1 DEF Active
  <2> QED BY <2>1, <2>2, <2>3, <2>4, <2>5, <2>6, RotationRetains
<1>3. CASE RotateUnlink
  <2>1. /\ rot.pc = "unlink" /\ UNCHANGED <<sc, comp, proc>> /\ rot'.doomed = rot.doomed BY <1>3, UnlinkFacts
  <2>2. rot.doomed = {} BY <2>1, NoneDoomed DEF PhaseInv
  <2>3. Settled' = Settled BY <1>3, UnlinkDisk
  <2>4. Active' => Active BY <2>1 DEF Active
  <2> QED BY <2>1, <2>2, <2>3, <2>4, RotationRetains
<1>4. CASE RotateQueue
  <2>1. rot.pc = "prune" /\ rot.doomed = {} /\ rot.key \in Keys BY <1>4 DEF RotateQueue, KeyInv
  <2>2. /\ rot'.doomed = {} /\ proc'.fd = proc.fd /\ proc'.opened = proc.opened /\ proc'.status = proc.status
        /\ (proc'.clean => proc.clean)
        /\ (comp' = Enqueued(comp, rot.key) \/ comp' = comp)
    BY <1>4, <2>1, QueueFacts
  <2>3. PICK k \in Keys : k = rot.key BY <2>1
  <2>4. comp'.running = comp.running /\ comp'.deferred = comp.deferred
    <3>1. comp \in CompType BY DEF TypeInv
    <3> QED BY <2>2, <2>3, <3>1, EnqueueStep
  <2>5. sc'.keep = sc.keep /\ Settled' = Settled BY <1>4, OtherDisk, QuietView DEF Quiet
  <2>6. Active' => Active BY <2>2 DEF Active
  <2> QED BY <2>1, <2>2, <2>4, <2>5, <2>6, RotationRetains
<1> QED BY <1>1, <1>2, <1>3, <1>4, ListRetains, PruneRetains, ReplaceRetains DEF Rotation

LEMMA RetainKept ==
  ASSUME LogInv, ClockTrusted, FilesInv', Next
  PROVE  RetainInv'
BY CalmRetain, RotationRetain, StartStopRetain DEF Next

(***************************************************************************)
(* A clean life leaves nothing unfinished.                                 *)
(***************************************************************************)

\* A failing call leaves the process nothing to promise.
LEMMA UncleanKept ==
  ASSUME LogInv, ~proc'.clean, proc'.status # "opening"
  PROVE  CleanInv'
BY DEF CleanInv, CleanClose

LEMMA UpKept ==
  ASSUME LogInv, proc'.status \in {"up", "closing"}, proc'.clean => UpClean' /\ QueueClean'
  PROVE  CleanInv'
BY DEF CleanInv, CleanClose

\* What an active process that is not opening its file relies on.
LEMMA WasUp ==
  ASSUME LogInv, Active, proc.status # "opening", proc.clean
  PROVE  UpClean /\ QueueClean
BY DEF LogInv, CleanInv, Active

LEMMA OpenClean ==
  ASSUME LogInv, Open
  PROVE  CleanInv'
<1>1. /\ proc'.status = "opening" /\ proc'.clean /\ comp'.queue = <<>> /\ comp'.left = {} /\ ~comp'.keepTmp
  BY OpenFacts, IdleFacts DEF LogInv
<1>2. QueueClean' BY <1>1, EmptyQueue DEF QueueClean
<1> QED BY <1>1, <1>2 DEF CleanInv, CleanClose

LEMMA RecoveryClean ==
  ASSUME LogInv, ClockTrusted, Recovery
  PROVE  CleanInv'
<1> USE DEF LogInv
<1>1. proc.status = "opening" BY DEF Recovery, RemoveStaleTmp, RemoveStaleGz, Requeue, Opened
<1>2. proc.clean /\ comp.left = {} /\ ~comp.keepTmp /\ QueueClean BY <1>1 DEF CleanInv
<1>3. CASE UNCHANGED <<gz, proc, comp>>
  <2>1. QueueClean' BY <1>2, <1>3 DEF QueueClean
  <2> QED BY <1>1, <1>2, <1>3, <2>1 DEF CleanInv, CleanClose
<1>4. ASSUME NEW q \in DOMAIN plain, Requeue(q) PROVE CleanInv'
  <2>1. PICK k \in Keys : k = q BY DEF FilesInv
  <2>2. comp' = Enqueued(comp, k) /\ UNCHANGED proc /\ comp \in CompType /\ gz' = Without(gz, k)
    BY <1>4, <2>1 DEF Requeue, TypeInv
  <2>3. comp'.left = {} /\ ~comp'.keepTmp /\ Range(comp'.queue) = Range(comp.queue) \cup {k}
    BY <1>2, <2>2, EnqueueStep
  <2>4. DOMAIN gz' = DOMAIN gz \ {k} BY <2>2 DEF Without, Restrict
  <2>5. QueueClean' BY <1>2, <2>3, <2>4 DEF QueueClean
  <2> QED BY <1>1, <1>2, <2>2, <2>3, <2>5 DEF CleanInv, CleanClose
<1>5. CASE Opened
  <2>1. /\ fresh = {} /\ StaleGz = {} /\ Unrecovered = {} /\ proc'.status = "up"
        /\ UNCHANGED <<live, fresh, plain, gz, gztmp, rot, comp>>
    BY <1>5, OpenedFacts
  <2>2. Generations = OnDisk /\ StaleGz = gztmp BY AllGenerations
  <2>3. DOMAIN plain \subseteq Range(comp.queue) BY <2>1, <2>2 DEF Unrecovered, OnDisk
  <2>4. rot.pc = "idle" /\ comp.pc \in {"none", "wait"} BY <1>1 DEF PhaseInv
  <2>5. fresh' = {} /\ gztmp' = {} /\ DOMAIN plain' \subseteq Busy' BY <2>1, <2>2, <2>3 DEF Busy
  <2>6. UpClean' BY <1>2, <2>1, <2>4, <2>5 DEF UpClean
  <2>7. QueueClean' BY <1>2, <2>1 DEF QueueClean
  <2> QED BY <2>1, <2>6, <2>7, UpKept
<1> QED BY <1>3, <1>4, <1>5 DEF Recovery, RemoveStaleTmp, RemoveStaleGz

LEMMA ProcessClean ==
  ASSUME LogInv, TimeRotate \/ Write \/ CloseBegin \/ Tick
  PROVE  CleanInv'
<1> USE DEF LogInv
<1>1. CASE TimeRotate \/ Write \/ CloseBegin
  <2>1. /\ proc.status = "up" /\ proc'.status \in {"up", "closing"} /\ proc'.clean = proc.clean
        /\ UNCHANGED <<fresh, plain, gz, gztmp, comp>>
        /\ rot.pc \in {"idle", "write"} /\ rot'.pc \in {"idle", "create"}
    BY <1>1, TimeRotateFacts, WriteFacts, CloseBeginFacts
  <2>2. Busy' = Busy BY <2>1 DEF Busy
  <2>3. ASSUME proc.clean PROVE UpClean' /\ QueueClean'
    <3>1. UpClean /\ QueueClean BY <2>1, <2>3, WasUp DEF Active
    <3>2. UpClean' BY <2>1, <2>2, <3>1 DEF UpClean
    <3>3. QueueClean' BY <2>1, <3>1 DEF QueueClean
    <3> QED BY <3>2, <3>3
  <2> QED BY <2>1, <2>3, UpKept
<1>2. CASE Tick
  <2>1. UNCHANGED <<live, fresh, plain, gz, gztmp, size, files, proc, rot, comp>> BY <1>2, TickFacts
  <2>2. Busy' = Busy BY <2>1 DEF Busy
  <2>3. UpClean' = UpClean /\ QueueClean' = QueueClean /\ CleanClose' = CleanClose
    BY <2>1, <2>2 DEF UpClean, QueueClean, CleanClose
  <2> QED BY <2>1, <2>3 DEF CleanInv
<1> QED BY <1>1, <1>2

LEMMA StopClean ==
  ASSUME LogInv, CloseEnd \/ Crash
  PROVE  CleanInv'
<1> USE DEF LogInv
<1>1. CASE CloseEnd
  <2>1. /\ proc.status = "closing" /\ rot.pc = "idle" /\ comp.pc \in {"none", "wait"} /\ comp.queue = <<>>
        /\ gztmp' = gztmp \ comp.left /\ proc'.status = "closed" /\ proc'.clean = proc.clean
        /\ comp' = NoCompressor /\ UNCHANGED <<fresh, plain>>
    BY <1>1, CloseEndFacts
  <2>2. comp.running = None /\ Busy = {} BY <2>1, EmptyQueue DEF PhaseInv, Busy
  <2>3. ASSUME proc.clean PROVE fresh' = {} /\ gztmp' = {} /\ DOMAIN plain' = {}
    <3>1. UpClean BY <2>1, <2>3, WasUp DEF Active
    <3> QED BY <2>1, <2>2, <3>1 DEF UpClean
  <2>4. QueueClean' BY <2>1, EmptyQueue, IdleFacts DEF QueueClean
  <2> QED BY <2>1, <2>3, <2>4 DEF CleanInv, CleanClose
<1>2. CASE Crash
  <2>1. proc'.status = "down" /\ comp'.queue = <<>> BY <1>2, CrashFacts, IdleFacts
  <2>2. QueueClean' BY <2>1, EmptyQueue DEF QueueClean
  <2> QED BY <2>1, <2>2 DEF CleanInv, CleanClose
<1> QED BY <1>1, <1>2

LEMMA RotatingIsUp ==
  ASSUME LogInv, rot.pc # "idle"
  PROVE  proc.status = "up"
BY DEF LogInv, PhaseInv, Active, TypeInv, ProcType

LEMMA CreateClean ==
  ASSUME LogInv, RotateCreate
  PROVE  CleanInv'
<1> USE DEF LogInv
<1>1. rot.pc = "create" /\ proc'.status = "up" /\ UNCHANGED <<plain, gz, gztmp, comp>>
  BY CreateFacts, RotatingIsUp
<1>2. CASE ~proc'.clean BY <1>1, <1>2, UncleanKept
<1>3. CASE proc'.clean
  <2>1. /\ fresh' = fresh \cup {files + 1} /\ proc'.clean = proc.clean
        /\ rot'.pc = "rename" /\ rot'.tmp = files + 1
    BY <1>3, CreateFacts
  <2>2. UpClean /\ QueueClean BY <1>1, <1>3, <2>1, WasUp, RotatingIsUp DEF Active
  <2>3. Busy' = Busy BY <1>1 DEF Busy
  <2>4. UpClean' BY <1>1, <2>1, <2>2, <2>3 DEF UpClean
  <2>5. QueueClean' BY <1>1, <2>2 DEF QueueClean
  <2> QED BY <1>1, <2>4, <2>5, UpKept
<1> QED BY <1>2, <1>3

LEMMA RenameClean ==
  ASSUME LogInv, RotateRename, FilesInv'
  PROVE  CleanInv'
<1> USE DEF LogInv
<1>1. /\ rot.pc = "rename" /\ proc'.status = "up" /\ UNCHANGED <<gz, gztmp, comp>>
      /\ (proc'.clean => proc.clean)
  BY RenameFacts, RotatingIsUp
<1>2. CASE ~proc'.clean BY <1>1, <1>2, UncleanKept
<1>3. CASE proc'.clean
  <2>1. UpClean /\ QueueClean BY <1>1, <1>3, WasUp, RotatingIsUp DEF Active
  <2>2. Busy' = Busy BY <1>1 DEF Busy
  <2>3. QueueClean' BY <1>1, <2>1 DEF QueueClean
  <2>4. UpClean' => CleanInv' BY <1>1, <2>3, UpKept
  <2>5. CASE /\ fresh' = fresh /\ rot'.tmp = rot.tmp
             /\ live = None /\ rot'.pc = "replace" /\ UNCHANGED <<live, plain>>
    <3>1. UpClean' BY <1>1, <2>1, <2>2, <2>5 DEF UpClean
    <3> QED BY <2>4, <3>1
  <2>6. CASE /\ fresh' = fresh /\ rot'.tmp = rot.tmp /\ plain' = With(plain, rot'.key, live) /\ rot'.did
             /\ rot'.pc \in {"unlink", "replace"}
    <3>1. KeyInv' BY RenameNames DEF NamesInv
    <3>2. rot'.key \in Keys /\ rot'.key \notin Busy BY <2>2, <2>6, <3>1 DEF KeyInv
    <3>3. DOMAIN plain' = DOMAIN plain \cup {rot'.key} BY <2>6 DEF With
    <3>4. comp.pc = "finish" => comp.running \in Busy BY DEF PhaseInv, Busy
    <3>5. UpClean' BY <1>1, <2>1, <2>2, <2>6, <3>2, <3>3, <3>4 DEF UpClean
    <3> QED BY <2>4, <3>5
  <2>7. CASE fresh' = fresh \ {rot.tmp} /\ UNCHANGED <<live, plain>> /\ rot'.pc \in {"idle", "write"}
    <3>1. UpClean' BY <1>1, <2>1, <2>2, <2>7 DEF UpClean
    <3> QED BY <2>4, <3>1
  <2> QED BY <2>5, <2>6, <2>7, RenameFacts
<1> QED BY <1>2, <1>3

LEMMA ReplaceClean ==
  ASSUME LogInv, RotateUnlink \/ RotateReplace
  PROVE  CleanInv'
<1> USE DEF LogInv
<1>1. rot.pc \in {"unlink", "replace"} /\ rot.key \in Keys BY DEF RotateUnlink, RotateReplace, KeyInv
<1>2. CASE ~proc'.clean
  <2>1. proc'.status = "up" BY <1>1, RotatingIsUp, UnlinkFacts, ReplaceFacts
  <2> QED BY <1>2, <2>1, UncleanKept
<1>3. CASE proc'.clean
  <2>1. /\ fresh' = fresh \/ (fresh' = fresh \ {rot.tmp} /\ rot'.pc = "list")
        /\ rot'.pc \in {"replace", "list"} /\ rot'.tmp = rot.tmp /\ rot'.key = rot.key /\ rot'.did = rot.did
        /\ (fresh' = fresh => rot'.pc = "replace" \/ fresh' = fresh \ {rot.tmp})
        /\ UNCHANGED <<plain, gz, gztmp, comp>> /\ proc'.clean = proc.clean /\ proc'.status = proc.status
    BY <1>1, <1>3, UnlinkFacts, ReplaceFacts
  <2>2. UpClean /\ QueueClean /\ proc.status = "up" BY <1>1, <1>3, <2>1, WasUp, RotatingIsUp DEF Active
  <2>3. Busy' = Busy BY <2>1 DEF Busy
  <2>4. fresh' \subseteq IF rot'.pc = "replace" THEN {rot.tmp} ELSE {} BY <1>1, <2>1, <2>2 DEF UpClean
  <2>5. UpClean' BY <1>1, <2>1, <2>2, <2>3, <2>4 DEF UpClean
  <2>6. QueueClean' BY <2>1, <2>2 DEF QueueClean
  <2> QED BY <2>1, <2>2, <2>5, <2>6, UpKept
<1> QED BY <1>2, <1>3

LEMMA PassClean ==
  ASSUME LogInv, RotateList \/ PruneOne
  PROVE  CleanInv'
<1> USE DEF LogInv
<1>1. CASE RotateList
  <2>1. /\ rot.pc = "list" /\ rot'.pc = "prune" /\ rot'.key = rot.key /\ rot'.did = rot.did
        /\ UNCHANGED <<fresh, plain, gz, gztmp>> /\ proc'.status = "up"
        /\ comp'.pc = comp.pc /\ comp'.queue = comp.queue /\ comp'.running = comp.running
        /\ comp'.left = comp.left /\ comp'.keepTmp = comp.keepTmp
    BY <1>1, ListFacts, RotatingIsUp
  <2>2. CASE ~proc'.clean BY <2>1, <2>2, UncleanKept
  <2>3. CASE proc'.clean
    <3>1. proc' = proc BY <1>1, <2>3, ListFacts
    <3>2. UpClean /\ QueueClean BY <2>1, <2>3, <3>1, WasUp DEF Active
    <3>3. Busy' = Busy BY <2>1 DEF Busy
    <3>4. UpClean' BY <2>1, <3>2, <3>3 DEF UpClean
    <3>5. QueueClean' BY <2>1, <3>2 DEF QueueClean
    <3> QED BY <2>1, <3>4, <3>5, UpKept
  <2> QED BY <2>2, <2>3
<1>2. CASE PruneOne
  <2>1. PICK d \in Keys : /\ d \in rot.doomed /\ plain' = Without(plain, d) /\ gz' = Without(gz, d)
                          /\ UNCHANGED <<fresh, gztmp, proc, comp>>
                          /\ rot'.pc = rot.pc /\ rot'.key = rot.key /\ rot'.did = rot.did
    BY <1>2, PruneFacts
  <2>2. DOMAIN plain' = DOMAIN plain \ {d} /\ DOMAIN gz' = DOMAIN gz \ {d}
    BY <2>1 DEF Without, Restrict
  <2>3. rot.pc \in {"prune", "idle"} /\ Active /\ proc.status # "opening" BY <2>1 DEF PhaseInv
  <2>4. proc'.status \in {"up", "closing"} BY <2>1, <2>3 DEF Active
  <2>5. Busy' = Busy BY <2>1 DEF Busy
  <2>6. ASSUME proc'.clean PROVE UpClean' /\ QueueClean'
    <3>1. UpClean /\ QueueClean BY <2>1, <2>3, <2>6, WasUp
    <3>2. UpClean' BY <2>1, <2>2, <2>3, <2>5, <3>1 DEF UpClean
    <3>3. QueueClean' BY <2>1, <2>2, <3>1 DEF QueueClean
    <3> QED BY <3>2, <3>3
  <2> QED BY <2>4, <2>6, UpKept
<1> QED BY <1>1, <1>2

LEMMA QueueIsClean ==
  ASSUME LogInv, RotateQueue
  PROVE  CleanInv'
<1> USE DEF LogInv
<1>1. rot.pc = "prune" /\ rot.key \in Keys /\ comp \in CompType BY DEF RotateQueue, KeyInv, TypeInv
<1>2. /\ rot'.pc \in {"idle", "write"} /\ UNCHANGED <<fresh, plain, gz, gztmp>> /\ proc'.status = "up"
      /\ \/ rot.did /\ comp' = Enqueued(comp, rot.key) /\ proc' = proc
         \/ ~rot.did /\ comp' = comp /\ proc' = proc
         \/ ~proc'.clean
  BY <1>1, QueueFacts, RotatingIsUp
<1>3. CASE ~proc'.clean BY <1>2, <1>3, UncleanKept
<1>4. CASE proc'.clean
  <2>1. UpClean /\ QueueClean BY <1>1, <1>2, <1>4, WasUp, RotatingIsUp DEF Active
  <2>2. CASE rot.did /\ comp' = Enqueued(comp, rot.key)
    <3>1. PICK k \in Keys : k = rot.key BY <1>1
    <3>2. /\ Range(comp'.queue) = Range(comp.queue) \cup {k} /\ comp'.running = comp.running
          /\ comp'.left = comp.left /\ comp'.keepTmp = comp.keepTmp
          /\ comp'.pc = IF comp.pc = "none" THEN "wait" ELSE comp.pc
      BY <1>1, <2>2, <3>1, EnqueueStep
    <3>3. k \notin DOMAIN gz BY <1>1, <2>2, <3>1 DEF KeyInv
    <3>4. Busy' = Busy \cup {k} BY <3>2 DEF Busy
    <3>5. fresh' = {} /\ gztmp' = gztmp /\ DOMAIN plain' \subseteq Busy' BY <1>1, <1>2, <2>1, <3>1, <3>4 DEF UpClean
    <3>6. UpClean' BY <1>1, <1>2, <2>1, <3>2, <3>5 DEF UpClean
    <3>7. QueueClean' BY <1>2, <2>1, <3>2, <3>3 DEF QueueClean
    <3> QED BY <1>2, <3>6, <3>7, UpKept
  <2>3. CASE ~rot.did /\ comp' = comp
    <3>1. Busy' = Busy BY <2>3 DEF Busy
    <3>2. UpClean' BY <1>1, <1>2, <2>1, <2>3, <3>1 DEF UpClean
    <3>3. QueueClean' BY <1>2, <2>1, <2>3 DEF QueueClean
    <3> QED BY <1>2, <3>2, <3>3, UpKept
  <2> QED BY <1>2, <1>4, <2>2, <2>3
<1> QED BY <1>3, <1>4

LEMMA CompressingIsUp ==
  ASSUME LogInv, Compression
  PROVE  proc.status \in {"up", "closing"}
<1>1. comp.pc # "none" BY DEF Compression, CompressTake, CompressOpen, CompressCopy, CompressPublish,
                              CompressUnlinkTmp, CompressUnlink, CompressFinish, CompressPruned
<1>2. Active BY <1>1, IdleFacts DEF LogInv, PhaseInv
<1>3. proc.status # "opening"
  <2>1. CASE CompressTake BY <2>1 DEF CompressTake
  <2>2. CASE comp.pc # "wait" BY <1>1, <2>2 DEF LogInv, PhaseInv
  <2> QED BY <2>1, <2>2 DEF Compression, CompressOpen, CompressCopy, CompressPublish,
                            CompressUnlinkTmp, CompressUnlink, CompressFinish, CompressPruned
<1> QED BY <1>2, <1>3 DEF Active

LEMMA TakeClean ==
  ASSUME LogInv, CompressTake
  PROVE  CleanInv'
<1> USE DEF LogInv
<1>1. /\ comp.pc = "wait" /\ rot.pc = "idle" /\ gztmp' = gztmp \ comp.left
      /\ comp'.pc = "open" /\ comp'.left = {} /\ comp'.keepTmp = comp.keepTmp /\ comp'.running \in Keys
      /\ Range(comp.queue) = Range(comp'.queue) \cup {comp'.running}
      /\ UNCHANGED <<fresh, plain, gz, proc, rot>>
  BY TakeFacts
<1>2. proc'.status \in {"up", "closing"} BY <1>1, CompressingIsUp DEF Compression
<1>3. comp.running = None /\ None \notin Keys BY <1>1, NoneFacts DEF PhaseInv
<1>4. Busy' = Busy BY <1>1, <1>3 DEF Busy
<1>5. ASSUME proc.clean PROVE UpClean' /\ QueueClean'
  <2>1. UpClean /\ QueueClean BY <1>1, <1>2, <1>5, WasUp DEF Active
  <2>2. fresh' = {} /\ gztmp' = {} /\ DOMAIN plain' \subseteq Busy' BY <1>1, <1>4, <2>1 DEF UpClean
  <2>3. comp'.running \notin DOMAIN gz BY <1>1, <2>1 DEF QueueClean
  <2>4. UpClean' BY <1>1, <2>1, <2>2, <2>3 DEF UpClean
  <2>5. QueueClean' BY <1>1, <2>1 DEF QueueClean
  <2> QED BY <2>4, <2>5
<1> QED BY <1>1, <1>2, <1>5, UpKept

LEMMA JobClean ==
  ASSUME LogInv, CompressOpen \/ CompressCopy
  PROVE  CleanInv'
<1> USE DEF LogInv
<1>1. proc.status \in {"up", "closing"} BY CompressingIsUp DEF Compression
<1>2. comp.pc = "copy" => comp.src \in Inodes BY FilesNat DEF CompInv, FilesInv
<1>3. /\ comp'.queue = comp.queue /\ comp'.running = comp.running /\ comp'.left = comp.left
      /\ UNCHANGED <<fresh, plain, gz, rot>>
  BY <1>2, CompressOpenFacts, CopyFacts DEF CompSame, CompressCopy
<1>4. proc' = proc \/ proc' = Unclean BY <1>2, CompressOpenFacts, CopyFacts DEF CompressCopy
<1>5. proc'.status \in {"up", "closing"} BY <1>1, <1>4, UncleanFacts
<1>6. CASE ~proc'.clean BY <1>5, <1>6, UncleanKept
<1>7. CASE proc'.clean
  <2>1. proc' = proc BY <1>4, <1>7, UncleanFacts
  <2>2. UpClean /\ QueueClean BY <1>1, <1>7, <2>1, WasUp DEF Active
  <2>3. Busy' = Busy BY <1>3 DEF Busy
  <2>4. QueueClean' BY <1>3, <2>2 DEF QueueClean
  <2>5. UpClean' => CleanInv' BY <1>5, <2>4, UpKept
  <2>6. CASE CompressOpen
    <3>1. /\ comp.pc = "open" /\ comp'.keepTmp = comp.keepTmp
          /\ \/ gztmp' = gztmp \cup {comp.running} /\ comp'.pc = "copy" /\ comp.running \notin DOMAIN gz
             \/ /\ gztmp' = gztmp /\ comp'.pc = "finish"
                /\ comp.running \notin DOMAIN plain \/ comp.running \in DOMAIN gz
      BY <1>7, <2>6, CompressOpenFacts, UncleanFacts
    <3>2. UpClean' BY <1>3, <2>2, <2>3, <3>1 DEF UpClean
    <3> QED BY <2>5, <3>2
  <2>7. CASE CompressCopy
    <3>1. comp.pc = "copy" /\ comp'.keepTmp = comp.keepTmp /\ gztmp' = gztmp /\ comp'.pc = "publish"
      BY <1>2, <1>7, <2>7, CopyFacts, UncleanFacts DEF CompressCopy
    <3>2. UpClean' BY <1>3, <2>2, <2>3, <3>1 DEF UpClean
    <3> QED BY <2>5, <3>2
  <2> QED BY <2>6, <2>7
<1> QED BY <1>6, <1>7

LEMMA OutputClean ==
  ASSUME LogInv, CompressPublish \/ CompressUnlinkTmp \/ CompressUnlink, FilesInv'
  PROVE  CleanInv'
<1> USE DEF LogInv
<1>1. proc.status \in {"up", "closing"} BY CompressingIsUp DEF Compression
<1>2. /\ comp'.queue = comp.queue /\ comp'.running = comp.running /\ comp'.left = comp.left
      /\ comp'.keepTmp = comp.keepTmp /\ UNCHANGED <<fresh, proc, rot>>
  BY PublishFacts, UnlinkTmpFacts, UnlinkSourceFacts DEF CompSame
<1>3. Busy' = Busy BY <1>2 DEF Busy
<1>4. ASSUME proc.clean PROVE UpClean' /\ QueueClean'
  <2>1. UpClean /\ QueueClean BY <1>1, <1>4, WasUp DEF Active
  <2>2. CASE CompressPublish
    <3>1. /\ comp.pc = "publish" /\ gz' = With(gz, comp.running, comp.got) /\ plain' = plain
          /\ \/ comp'.pc = "linked" /\ gztmp' = gztmp
             \/ comp'.pc = "unlink" /\ gztmp' = gztmp \ {comp.running}
      BY <2>2, PublishFacts
    <3>2. DOMAIN gz' = DOMAIN gz \cup {comp.running} BY <3>1 DEF With
    <3>3. UpClean' BY <1>2, <1>3, <2>1, <3>1 DEF UpClean
    <3>4. QueueClean' BY <1>2, <2>1, <3>2 DEF QueueClean, QueueInv
    <3> QED BY <3>3, <3>4
  <2>3. CASE CompressUnlinkTmp
    <3>1. /\ comp.pc = "linked" /\ comp'.pc = "unlink" /\ gztmp' = gztmp \ {comp.running}
          /\ UNCHANGED <<plain, gz>>
      BY <2>3, UnlinkTmpFacts
    <3>2. UpClean' BY <1>2, <1>3, <2>1, <3>1 DEF UpClean
    <3>3. QueueClean' BY <1>2, <2>1, <3>1 DEF QueueClean
    <3> QED BY <3>2, <3>3
  <2>4. CASE CompressUnlink
    <3>1. comp.pc = "unlink" /\ comp'.pc = "finish" /\ UNCHANGED <<gz, gztmp>>
      BY <2>4, UnlinkSourceFacts
    <3>2. DOMAIN plain' = DOMAIN plain \ {comp.running} BY <2>4, SourceDisk
    <3>3. UpClean' BY <1>2, <1>3, <2>1, <3>1, <3>2 DEF UpClean
    <3>4. QueueClean' BY <1>2, <2>1, <3>1 DEF QueueClean
    <3> QED BY <3>3, <3>4
  <2> QED BY <2>2, <2>3, <2>4
<1> QED BY <1>1, <1>2, <1>4, UpKept

LEMMA EndClean ==
  ASSUME LogInv, CompressFinish \/ CompressPruned
  PROVE  CleanInv'
<1> USE DEF LogInv
<1>1. proc.status \in {"up", "closing"} BY CompressingIsUp DEF Compression
<1>2. /\ comp'.queue = comp.queue /\ UNCHANGED <<fresh, plain, gz, gztmp, proc>>
      /\ rot'.pc = rot.pc /\ rot'.key = rot.key /\ rot'.tmp = rot.tmp /\ rot'.did = rot.did
  BY FinishFacts, PrunedFacts DEF CompSame
<1>3. ASSUME proc.clean PROVE UpClean' /\ QueueClean'
  <2>1. UpClean /\ QueueClean BY <1>1, <1>3, WasUp DEF Active
  <2>2. QueueClean' BY <1>2, <2>1 DEF QueueClean
  <2>3. CASE CompressFinish
    <3>1. /\ comp.pc = "finish" /\ comp'.running = None /\ ~comp'.keepTmp /\ rot.pc = "idle"
          /\ comp.keepTmp \/ comp'.left = comp.left
          /\ comp'.pc \in {"prune", "wait"}
      BY <2>3, FinishFacts
    <3>2. gztmp' = {} /\ fresh' = {} /\ comp'.left = {} /\ DOMAIN plain' \subseteq Busy'
      BY <1>2, <2>1, <3>1 DEF UpClean, Busy
    <3>3. UpClean' BY <1>2, <3>1, <3>2 DEF UpClean
    <3> QED BY <2>2, <3>3
  <2>4. CASE CompressPruned
    <3>1. /\ comp.pc = "prune" /\ comp'.pc = "wait" /\ comp'.running = comp.running /\ comp'.left = comp.left
          /\ comp'.keepTmp = comp.keepTmp
      BY <2>4, PrunedFacts DEF CompSame
    <3>2. Busy' = Busy BY <1>2, <3>1 DEF Busy
    <3>3. UpClean' BY <1>2, <2>1, <3>1, <3>2 DEF UpClean
    <3> QED BY <2>2, <3>3
  <2> QED BY <2>3, <2>4
<1> QED BY <1>1, <1>2, <1>3, UpKept

LEMMA CleanKept ==
  ASSUME LogInv, ClockTrusted, FilesInv', Next
  PROVE  CleanInv'
<1>1. CASE Rotation
  BY <1>1, CreateClean, RenameClean, ReplaceClean, PassClean, QueueIsClean DEF Rotation
<1>2. CASE Compression
  BY <1>2, TakeClean, JobClean, OutputClean, EndClean DEF Compression
<1> QED BY <1>1, <1>2, OpenClean, RecoveryClean, ProcessClean, StopClean DEF Next

(***************************************************************************)
(* The invariant holds, and says what the properties say.                  *)
(***************************************************************************)

\* Each part of the invariant survives every step.
LEMMA DiskKept ==
  ASSUME LogInv, FilesInv', Next
  PROVE  DiskInv'
<1>1. CASE Recovery BY <1>1, RequeueDisk, OtherDisk DEF Recovery
<1>2. CASE Rotation BY <1>2, OtherDisk, RenameDisk, UnlinkDisk, ReplaceDisk, PruneDisk DEF Rotation
<1>3. CASE Compression BY <1>3, CompressorDisk, PublishDisk, SourceDisk DEF Compression
<1> QED BY <1>1, <1>2, <1>3, OpenDisk, WriteDisk, CrashDisk, OtherDisk DEF Next

LEMMA NamesKept ==
  ASSUME LogInv, ClockTrusted, TypeInv', FilesInv', Next
  PROVE  NamesInv'
<1>1. CASE Recovery \/ TimeRotate \/ Write \/ CloseBegin \/ Tick \/ Compression
  <2>1. Calm BY <1>1, CalmSteps
  <2> QED BY <2>1, CalmNames, CalmJobs DEF NamesInv
<1>2. CASE Rotation
  BY <1>2, CreateNames, RenameNames, UnlinkNames, ReplaceNames, ListNames, PruneNames, QueueNames DEF Rotation
<1> QED BY <1>1, <1>2, OpenNames, StopNames DEF Next

LEMMA LogKept ==
  ASSUME LogInv, ClockTrusted, [Next]_vars
  PROVE  LogInv'
<1>1. CASE Next
  <2>1. TypeInv' /\ FilesInv' BY <1>1, RotationTypes, CompressionTypes, ProcessTypes DEF Next
  <2>2. PhaseInv' /\ QueueInv' BY <1>1, PhaseKept
  <2>3. DiskInv' BY <1>1, <2>1, DiskKept
  <2>4. NamesInv' BY <1>1, <2>1, NamesKept
  <2>5. RetainInv' BY <1>1, <2>1, RetainKept
  <2>6. CleanInv' BY <1>1, <2>1, CleanKept
  <2> QED BY <2>1, <2>2, <2>3, <2>4, <2>5, <2>6 DEF LogInv, DiskInv, NamesInv, RetainInv
<1>2. CASE UNCHANGED vars
  <2>1. UNCHANGED <<sc, now, live, fresh, plain, gz, gztmp, size, files, proc, rot, comp>>
    BY <1>2 DEF vars, disk
  <2>2. OnDisk' = OnDisk /\ Settled' = Settled /\ Busy' = Busy /\ (Pending' <=> Pending) /\ (Active' <=> Active)
        /\ FirstName(proc.last)' = FirstName(proc.last)
    BY <2>1 DEF OnDisk, Settled, Busy, Pending, Active, FirstName
  <2>3. TypeInv' /\ FilesInv' /\ PhaseInv' /\ QueueInv'
    BY <2>1, <2>2 DEF LogInv, TypeInv, FilesInv, PhaseInv, QueueInv
  <2>4. Quiet BY <2>1, <2>2 DEF Quiet
  <2>5. DiskInv' BY <2>1, <2>4, QuietSame
  <2>6. Calm
    <3>1. \A k : Holds(k)' = Holds(k) BY <2>1 DEF Holds
    <3>2. now \in Nat BY FilesNat DEF LogInv
    <3> QED BY <2>1, <2>2, <3>1, <3>2 DEF Calm
  <2>7. NamesInv' BY <2>3, <2>6, CalmNames, CalmJobs DEF NamesInv
  <2>8. RetainInv' BY <2>1, <2>6, CalmRetains
  <2>9. CleanInv'
    <3>1. UpClean' = UpClean /\ QueueClean' = QueueClean /\ CleanClose' = CleanClose
      BY <2>1, <2>2 DEF UpClean, QueueClean, CleanClose
    <3> QED BY <2>1, <3>1 DEF LogInv, CleanInv
  <2> QED BY <2>3, <2>5, <2>7, <2>8, <2>9 DEF LogInv, DiskInv, NamesInv, RetainInv
<1> QED BY <1>1, <1>2

LEMMA InitLog == Init => LogInv
<1> SUFFICES ASSUME Init PROVE LogInv OBVIOUS
<1>1. TypeInv /\ FilesInv /\ PhaseInv /\ QueueInv BY InitTypes
<1>2. /\ live = None /\ fresh = {} /\ gztmp = {} /\ size = [i \in Inodes |-> 0]
      /\ proc.status = "down" /\ rot.pc = "idle" /\ rot.doomed = {} /\ proc.last = None
      /\ comp.pc = "none" /\ comp.queue = <<>> /\ comp.running = None
  BY IdleFacts DEF Init
<1>3. DOMAIN plain = {} /\ DOMAIN gz = {} BY DEF Init
<1>4. OnDisk = {} /\ Settled = {} /\ Busy = {} BY <1>2, <1>3, EmptyQueue DEF OnDisk, Settled, Pending, Busy
<1>5. MonoInv BY <1>2, <1>4 DEF MonoInv
<1>6. TmpInv BY <1>2 DEF TmpInv
<1>7. LastInv BY <1>2 DEF LastInv, Active
<1>8. KeyInv BY <1>2 DEF KeyInv
<1>9. BusyInv /\ PhantomInv BY <1>4 DEF BusyInv, PhantomInv
<1>10. CompInv /\ CopyInv BY <1>2, <1>3 DEF CompInv, CopyInv
<1>11. FdInv BY <1>2 DEF FdInv, Active
<1>12. DoomedInv BY <1>2 DEF DoomedInv
<1>13. HeldInv BY <1>2 DEF HeldInv
<1>14. KeepInv BY <1>2 DEF KeepInv, Active
<1>15. CleanInv BY <1>2, EmptyQueue DEF CleanInv, CleanClose, QueueClean
<1> QED BY <1>1, <1>5, <1>6, <1>7, <1>8, <1>9, <1>10, <1>11, <1>12, <1>13, <1>14, <1>15 DEF LogInv

\* A file the newest of its names holds is whole, or safe.
LEMMA NewestKept ==
  ASSUME LogInv
  PROVE  KeepsNewest
<1> USE DEF LogInv
<1>1. /\ OnDisk \in SUBSET Keys /\ Settled \subseteq OnDisk /\ sc.keep \in Nat
      /\ \A k \in OnDisk : Holds(k) \in Inodes
  BY DiskFacts
<1>2. ASSUME NEW i \in Inodes, Safe(i)
      PROVE  Retained(i) \/ Cardinality({k \in OnDisk : Holds(k) > i}) >= sc.keep
  <2>1. PICK S \in SUBSET Keys : S = Newer(i) BY <1>1 DEF Newer
  <2>2. PICK T \in SUBSET Keys : T = {k \in OnDisk : Holds(k) > i} BY <1>1
  <2>3. S \subseteq T BY <1>1, <2>1, <2>2 DEF Newer
  <2>4. CASE live = i BY <2>4 DEF Retained
  <2>5. CASE Cardinality(S) >= sc.keep BY <1>1, <2>2, <2>3, <2>5, MoreIsSafe
  <2> QED BY <1>2, <2>1, <2>4, <2>5 DEF Safe
<1>3. ASSUME NEW i \in Inodes, NEW h \in OnDisk, Holds(h) = i
      PROVE  Retained(i) \/ Safe(i)
  <2>1. PICK H \in SUBSET Keys : H = {k \in OnDisk : Holds(k) = i} BY <1>1
  <2>2. PICK k \in H : \A l \in H \ {k} : Older(l, k) BY <1>3, <2>1, NewestExists
  <2>3. k \in OnDisk /\ Holds(k) = i BY <2>1, <2>2
  <2>4. CASE k \in DOMAIN plain BY <2>3, <2>4 DEF Holds, Retained, Range
  <2>5. CASE k \notin DOMAIN plain
    <3>1. k \in DOMAIN gz \ DOMAIN plain /\ gz[k][1] = i BY <2>3, <2>5 DEF OnDisk, Holds
    <3>2. Enough(k, i, gz[k][2]) BY <3>1 DEF CopyInv
    <3>3. ~(\E m \in OnDisk : Older(k, m) /\ Holds(m) = i)
      <4>1. ASSUME NEW m \in OnDisk, Older(k, m), Holds(m) = i PROVE FALSE
        <5>1. m \in H /\ m \in Nat \X Nat /\ k \in Nat \X Nat BY <1>1, <2>1, <2>2, <4>1, KeysFinite
        <5>2. m # k BY <4>1, <5>1, OrderFacts
        <5>3. Older(m, k) BY <2>2, <5>1, <5>2
        <5> QED BY <4>1, <5>1, <5>3, OrderFacts
      <4> QED BY <4>1
    <3>4. CASE Safe(i) BY <3>4
    <3>5. CASE gz[k][2] >= size[i] BY <3>1, <3>5 DEF Retained
    <3> QED BY <3>2, <3>3, <3>4, <3>5 DEF Enough
  <2> QED BY <2>4, <2>5
<1> QED BY <1>2, <1>3 DEF HeldInv, KeepsNewest

LEMMA AtMostKept ==
  ASSUME LogInv
  PROVE  KeepsAtMost
<1> SUFFICES ASSUME proc.status = "up", proc.clean, proc.fd # proc.opened, MutexFree, comp.running = None
             PROVE  Cardinality(OnDisk) <= sc.keep
  BY DEF KeepsAtMost
<1>1. rot.pc = "idle" /\ comp.pc # "prune" BY DEF MutexFree
<1>2. rot.doomed = {} /\ Settled = OnDisk BY <1>1, NoneDoomed DEF Settled, Pending
<1>3. Active BY DEF Active
<1>4. Cardinality(Settled \ rot.doomed) <= sc.keep BY <1>1, <1>3 DEF LogInv, KeepInv
<1>5. Settled \ rot.doomed = OnDisk BY <1>2
<1> QED BY <1>4, <1>5

\* Every behaviour on a clock to be trusted satisfies the invariant.
LEMMA LogHolds == Spec /\ []ClockTrusted => []LogInv
<1>1. LogInv /\ ClockTrusted /\ [Next]_vars => LogInv' BY LogKept
<1> QED BY <1>1, InitLog, PTL DEF Spec

\* While the clock can be trusted, whatever crash or failing call falls between
\* two directory operations of _rotate, _prune_rotated, _gzip_compress_file and
\* _clog_recover_compressions: the files of the newest max_rotated_files
\* rotations keep every record, and a pass that is over leaves no more files.
THEOREM FilesRetained == Spec /\ []ClockTrusted => []RetentionKept
<1>1. LogInv => RetentionKept BY NewestKept, AtMostKept DEF RetentionKept
<1> QED BY <1>1, LogHolds, PTL

\* Under the same condition _shared_compressor_teardown, after a life without
\* failing calls, leaves no temporary file and no uncompressed generation.
THEOREM ClosesClean == Spec /\ []ClockTrusted => []CleanClose
<1>1. LogInv => CleanClose BY DEF LogInv, CleanInv
<1> QED BY <1>1, LogHolds, PTL

\* And the name _rotate takes sorts above every rotated name before it.
THEOREM NamesInOrder == Spec /\ []ClockTrusted => []NewNameIsNewest
<1>1. LogInv => NewNameIsNewest BY DEF LogInv, KeyInv, NewNameIsNewest, Settled, Pending
<1> QED BY <1>1, LogHolds, PTL

(***************************************************************************)
(* A clock that does not step back.                                        *)
(***************************************************************************)

\* Names no newer than the clock.
Past == {k \in Keys : k[1] <= now}

\* No name is ahead of the clock.
StampInv ==
  /\ ~sc.clockBack
  /\ OnDisk \cup gztmp \cup Busy \subseteq Past
  /\ proc.last \in Past \cup {None}
  /\ rot.pc \in {"rename", "unlink", "replace", "list", "prune"} => rot.key[1] <= now

\* So the clock can be trusted.
LEMMA StampTrusted ==
  ASSUME LogInv, StampInv
  PROVE  ClockTrusted
<1>1. now \in Nat /\ Tolerance \in Nat BY FilesNat, LogAssumption DEF LogInv
<1>2. \A k \in Past : k[1] \in Nat /\ k[1] <= now BY KeysFinite DEF Past
<1>3. \A k \in Past : k[1] <= now + Tolerance BY <1>1, <1>2
<1> QED BY <1>3 DEF StampInv, ClockTrusted

LEMMA PastGrows ==
  ASSUME TypeInv, TypeInv', now' >= now
  PROVE  Past \subseteq Past' /\ \A n \in Nat : n <= now => n <= now'
<1>1. now \in Nat /\ now' \in Nat BY LogAssumption DEF TypeInv
<1>2. \A n \in Nat : n <= now => n <= now' BY <1>1
<1>3. \A k \in Keys : k[1] \in Nat BY KeysFinite
<1> QED BY <1>2, <1>3 DEF Past

LEMMA CalmStamps ==
  ASSUME LogInv, StampInv, TypeInv', Calm, gztmp' \subseteq gztmp \cup Busy
  PROVE  StampInv'
<1> USE DEF LogInv
<1>1. now' >= now /\ ~sc'.clockBack /\ OnDisk' = OnDisk /\ proc'.last = proc.last BY DEF Calm, StampInv
<1>2. Past \subseteq Past' /\ \A n \in Nat : n <= now => n <= now' BY <1>1, PastGrows
<1>3. Busy' \subseteq Busy \cup OnDisk BY DEF Calm
<1>4. OnDisk' \cup gztmp' \cup Busy' \subseteq Past' BY <1>1, <1>2, <1>3 DEF StampInv
<1>5. ASSUME rot'.pc \in {"rename", "unlink", "replace", "list", "prune"} PROVE rot'.key[1] <= now'
  <2>1. rot' = rot BY <1>5 DEF Calm, Away
  <2>2. rot.key \in (0 .. MaxTime) \X Nat
    <3>1. rot.key # None BY <1>5, <2>1, NoneFacts DEF KeyInv
    <3> QED BY <3>1 DEF TypeInv, RotType
  <2>3. rot.key[1] \in Nat /\ rot.key[1] <= now BY <1>5, <2>1, <2>2, LogAssumption DEF StampInv
  <2> QED BY <1>2, <2>1, <2>3
<1> QED BY <1>1, <1>2, <1>4, <1>5 DEF StampInv

LEMMA OutputStamps ==
  ASSUME LogInv, Recovery \/ TimeRotate \/ Write \/ CloseBegin \/ Tick \/ Compression
  PROVE  gztmp' \subseteq gztmp \cup Busy
<1> USE DEF LogInv
<1>1. CASE Recovery BY <1>1, OpenedFacts DEF Recovery, RemoveStaleTmp, RemoveStaleGz, Requeue
<1>2. CASE TimeRotate \/ Write \/ CloseBegin \/ Tick
  BY <1>2, TimeRotateFacts, WriteFacts, CloseBeginFacts, TickFacts
<1>3. CASE CompressOpen
  <2>1. comp.running \in Busy BY <1>3, CompressOpenFacts DEF PhaseInv, Busy
  <2> QED BY <1>3, <2>1, CompressOpenFacts
<1>4. CASE CompressCopy
  <2>1. comp.src \in Inodes BY <1>4, FilesNat DEF CompressCopy, CompInv, FilesInv
  <2> QED BY <1>4, <2>1, CopyFacts
<1>5. CASE CompressTake BY <1>5, TakeFacts
<1>6. CASE CompressPublish \/ CompressUnlinkTmp \/ CompressUnlink \/ CompressFinish \/ CompressPruned
  BY <1>6, PublishFacts, UnlinkTmpFacts, UnlinkSourceFacts, FinishFacts, PrunedFacts
<1> QED BY <1>1, <1>2, <1>3, <1>4, <1>5, <1>6 DEF Compression

LEMMA StartStopStamps ==
  ASSUME LogInv, StampInv, Open \/ CloseEnd \/ Crash
  PROVE  StampInv'
<1> USE DEF LogInv
<1>1. /\ now' = now /\ OnDisk' = OnDisk /\ gztmp' \subseteq gztmp /\ ~sc'.clockBack
      /\ comp'.queue = <<>> /\ comp'.running = None /\ rot'.pc = "idle"
      /\ proc'.last \in OnDisk \cup {None}
  <2>1. CASE Open
    <3>1. NewestOnDisk \in OnDisk \cup {None} BY GenerationsOnDisk DEF Generations
    <3> QED BY <2>1, <3>1, OpenFacts, IdleFacts DEF StampInv, OnDisk
  <2>2. CASE CloseEnd BY <2>2, CloseEndFacts, IdleFacts DEF StampInv, OnDisk
  <2>3. CASE Crash BY <2>3, CrashFacts, IdleFacts DEF StampInv, OnDisk
  <2> QED BY <2>1, <2>2, <2>3
<1>2. Busy' = {} BY <1>1, EmptyQueue DEF Busy
<1>3. Past' = Past BY <1>1 DEF Past
<1> QED BY <1>1, <1>2, <1>3 DEF StampInv

LEMMA CreateStamps ==
  ASSUME LogInv, StampInv, RotateCreate
  PROVE  StampInv'
<1> USE DEF LogInv
<1>1. /\ UNCHANGED <<now, plain, gz, gztmp, comp>>
      /\ proc'.last = (IF proc.last = None THEN NewestOnDisk ELSE proc.last)
      /\ ~sc'.clockBack
  BY CreateFacts, FaultFacts DEF StampInv
<1>2. OnDisk' = OnDisk /\ Busy' = Busy /\ Past' = Past BY <1>1 DEF OnDisk, Busy, Past
<1>3. NewestOnDisk \in OnDisk \cup {None} BY GenerationsOnDisk DEF Generations
<1>4. proc'.last \in Past \cup {None} BY <1>1, <1>3 DEF StampInv
<1>5. now \in Nat /\ \A k \in Past : k[1] \in Nat /\ k[1] <= now BY KeysFinite, FilesNat DEF Past
<1>6. FirstName(proc'.last)[1] <= now
  <2>1. CASE proc'.last # None /\ now <= proc'.last[1] BY <1>4, <1>5, <2>1 DEF FirstName
  <2>2. CASE ~(proc'.last # None /\ now <= proc'.last[1])
    <3>1. FirstName(proc'.last) = <<now, 0>> BY <2>2 DEF FirstName
    <3> QED BY <1>5, <3>1
  <2> QED BY <2>1, <2>2
<1>7. \/ rot'.pc = "rename" /\ rot'.key = FirstName(proc'.last)
      \/ rot'.pc \in {"idle", "write"}
  <2>1. rot.next \in {"idle", "write"} BY DEF TypeInv, RotType
  <2>2. rot' = [NoRotation EXCEPT !.pc = rot.next] => rot'.pc = rot.next BY DEF NoRotation
  <2> QED BY <2>1, <2>2, CreateFacts
<1> QED BY <1>1, <1>2, <1>4, <1>6, <1>7 DEF StampInv

LEMMA RenameStamps ==
  ASSUME LogInv, StampInv, RotateRename
  PROVE  StampInv'
<1> USE DEF LogInv
<1>1. /\ rot.pc = "rename" /\ UNCHANGED <<now, gz, gztmp, comp>> /\ proc'.last = proc.last /\ ~sc'.clockBack
  BY RenameFacts, FaultFacts DEF StampInv
<1>2. Busy' = Busy /\ Past' = Past BY <1>1 DEF Busy, Past
<1>3. CASE /\ FreeNames(rot.key) # {} /\ rot'.key = OldestOf(FreeNames(rot.key))
           /\ \/ plain' = plain
              \/ plain' = With(plain, rot'.key, live)
  <2>1. FreeNames(rot.key) \in SUBSET Keys BY DEF FreeNames
  <2>2. rot'.key \in FreeNames(rot.key) BY <1>3, <2>1, OldestIs
  <2>3. rot'.key \in Keys /\ rot'.key[1] = rot.key[1] BY <2>2 DEF FreeNames
  <2>4. rot'.key \in Past /\ rot'.key[1] <= now BY <1>1, <2>3 DEF StampInv, Past
  <2>5. OnDisk' \subseteq OnDisk \cup {rot'.key} BY <1>1, <1>3 DEF OnDisk, With
  <2> QED BY <1>1, <1>2, <2>4, <2>5 DEF StampInv
<1>4. CASE plain' = plain /\ rot'.pc \in {"idle", "write"}
  <2>1. OnDisk' = OnDisk BY <1>1, <1>4 DEF OnDisk
  <2> QED BY <1>1, <1>2, <1>4, <2>1 DEF StampInv
<1> QED BY <1>3, <1>4, RenameFacts

LEMMA RotationStamps ==
  ASSUME LogInv, StampInv, RotateUnlink \/ RotateReplace \/ RotateList \/ PruneOne \/ RotateQueue
  PROVE  StampInv'
<1> USE DEF LogInv
<1>1. CASE PruneOne
  <2>1. PICK d \in Keys : /\ plain' = Without(plain, d) /\ gz' = Without(gz, d)
                          /\ UNCHANGED <<sc, now, gztmp, proc, comp>>
                          /\ rot'.pc = rot.pc /\ rot'.key = rot.key
    BY <1>1, PruneFacts
  <2>2. OnDisk' \subseteq OnDisk BY <2>1 DEF OnDisk, Without, Restrict
  <2>3. Busy' = Busy /\ Past' = Past BY <2>1 DEF Busy, Past
  <2> QED BY <2>1, <2>2, <2>3 DEF StampInv
<1>2. CASE ~PruneOne
  <2>1. rot.pc \in {"unlink", "replace", "list", "prune"}
    BY <1>2 DEF RotateUnlink, RotateReplace, RotateList, RotateQueue
  <2>2. PICK k \in Keys : k = rot.key BY <2>1 DEF KeyInv
  <2>3. k \in Past BY <2>1, <2>2 DEF StampInv, Past
  <2>4. /\ now' = now /\ gztmp' = gztmp /\ ~sc'.clockBack /\ proc'.last \in {proc.last, k}
        /\ gz' = gz /\ DOMAIN plain' \subseteq DOMAIN plain
        /\ rot'.pc \in {"idle", "write"} \/ rot'.key = k
    <3>1. CASE RotateUnlink BY <2>2, <3>1, UnlinkFacts DEF StampInv
    <3>2. CASE RotateReplace
      <4>1. DOMAIN Without(plain, k) \subseteq DOMAIN plain BY DEF Without, Restrict
      <4> QED BY <2>2, <3>2, <4>1, ReplaceFacts, FaultFacts DEF StampInv
    <3>3. CASE RotateList BY <2>2, <3>3, ListFacts, FaultFacts DEF StampInv
    <3>4. CASE RotateQueue BY <2>2, <3>4, QueueFacts, FaultFacts DEF StampInv
    <3> QED BY <1>2, <3>1, <3>2, <3>3, <3>4
  <2>5. Busy' \subseteq Busy \cup {k}
    <3>1. CASE comp' = Enqueued(comp, k)
      <4>1. comp \in CompType BY DEF TypeInv
      <4> QED BY <3>1, <4>1, EnqueueStep DEF Busy
    <3>2. CASE comp'.queue = comp.queue /\ comp'.running = comp.running BY <3>2 DEF Busy
    <3> QED BY <1>2, <2>2, <3>1, <3>2, UnlinkFacts, ReplaceFacts, ListFacts, QueueFacts
  <2>6. OnDisk' \subseteq OnDisk BY <2>4 DEF OnDisk
  <2>7. Past' = Past BY <2>4 DEF Past
  <2> QED BY <2>3, <2>4, <2>5, <2>6, <2>7 DEF StampInv, Past
<1> QED BY <1>1, <1>2

LEMMA StampsKept ==
  ASSUME LogInv, StampInv, [Next]_vars
  PROVE  LogInv' /\ StampInv'
<1>1. LogInv' BY StampTrusted, LogKept
<1>2. CASE Recovery \/ TimeRotate \/ Write \/ CloseBegin \/ Tick \/ Compression
  <2>1. FilesInv' /\ TypeInv' BY <1>1 DEF LogInv
  <2>2. Calm BY <1>2, <2>1, CalmSteps
  <2> QED BY <1>1, <1>2, <2>1, <2>2, OutputStamps, CalmStamps
<1>3. CASE Rotation BY <1>1, <1>3, CreateStamps, RenameStamps, RotationStamps DEF Rotation
<1>4. CASE UNCHANGED vars
  <2>1. UNCHANGED <<sc, now, plain, gz, gztmp, proc, rot, comp>> BY <1>4 DEF vars, disk
  <2>2. OnDisk' = OnDisk /\ Busy' = Busy /\ Past' = Past BY <2>1 DEF OnDisk, Busy, Past
  <2> QED BY <1>1, <2>1, <2>2 DEF StampInv
<1> QED BY <1>1, <1>2, <1>3, <1>4, StartStopStamps DEF Next

\* Where the clock does not step back the condition always holds, so that all
\* three properties do, however many crashes and failing calls there are.
THEOREM SteadyClockRetains ==
  ASSUME \A s \in Scenarios : ~s.clockBack
  PROVE  Spec => [](RetentionKept /\ CleanClose /\ NewNameIsNewest)
<1>1. Init => StampInv
  <2>1. Init => /\ sc \in Scenarios /\ proc.last = None /\ rot.pc = "idle" /\ comp.queue = <<>>
                /\ comp.running = None /\ DOMAIN plain = {} /\ DOMAIN gz = {} /\ gztmp = {}
    BY IdleFacts DEF Init
  <2> QED BY <2>1, EmptyQueue DEF StampInv, OnDisk, Busy
<1>2. LogInv /\ StampInv /\ [Next]_vars => LogInv' /\ StampInv' BY StampsKept
<1>3. LogInv => RetentionKept /\ CleanClose /\ NewNameIsNewest
  <2>1. LogInv => RetentionKept /\ CleanClose BY NewestKept, AtMostKept DEF RetentionKept, LogInv, CleanInv
  <2>2. LogInv => NewNameIsNewest BY DEF LogInv, KeyInv, NewNameIsNewest, Settled, Pending
  <2> QED BY <2>1, <2>2
<1> QED BY <1>1, <1>2, <1>3, InitLog, PTL DEF Spec
=============================================================================
