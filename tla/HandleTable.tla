---------------------------- MODULE HandleTable ----------------------------
(***************************************************************************)
(* The handle machinery behind every opaque uint64_t handle of the         *)
(* library: the lock-free pin table (src/src/cpintable.c) together with    *)
(* the owning module's slot table that publishes, retires and recycles its *)
(* indices (src/src/cthreadpool.c; clogger, clrucache and chttpclient keep *)
(* tables of the same shape).                                              *)
(*                                                                         *)
(* A thread resolves a handle with atomic loads and one increment of its   *)
(* own stripe, uses the object and unpins.  A destroy retires the index,   *)
(* sums the stripes one by one until it reads zero, frees the object and   *)
(* gives the index back.  Steps are single atomic accesses of the pin      *)
(* table; a section under the table's write lock is one step, except that  *)
(* publish stores the pointer and the state in two steps a reader can fall *)
(* between.  All four accesses that race are seq_cst, so interleaving      *)
(* semantics is the code's.                                                *)
(***************************************************************************)
EXTENDS Integers, FiniteSets, Sequences

CONSTANTS
  Callers,     \* threads calling into the library
  Objs,        \* objects (pools) the run can allocate
  MaxSlots,    \* CCOL_PIN_MAX_SLOTS
  NStripes,    \* CCOL_PIN_STRIPES
  StripeOf,    \* thread -> stripe; a thread keeps its stripe for life
  GenMod,      \* 2^32: generations are uint32_t
  QuietExit,   \* exit-time disposal waits for resolves in flight (the caller's duty)
  NoObj

Slot   == 0 .. MaxSlots - 1
Stripe == 0 .. NStripes - 1
Gen    == 0 .. GenMod - 1
Handle == Slot \X Gen

ASSUME ThreadsAssumption == IsFiniteSet(Callers)
ASSUME SizesAssumption   == /\ MaxSlots \in Nat \ {0}
                            /\ NStripes \in Nat \ {0}
                            /\ GenMod \in Nat \ {0, 1}
ASSUME StripeAssumption  == StripeOf \in [Callers -> Stripe]
ASSUME NoneAssumption    == NoObj \notin Objs \cup Callers \cup Handle
ASSUME ExitAssumption    == QuietExit \in BOOLEAN

VARIABLES
  slotPtr,     \* slot table: object of the slot, NoObj when released
  slotGen,     \* slot table: generation
  slotInUse,   \* slot table: in_use
  nslots,      \* elements of the slots vector
  freeIdx,     \* free_indices, a LIFO
  lost,        \* lost_indices
  deferred,    \* release_deferred
  released,    \* the slots vector and the pin chunks are gone
  wlock,       \* holder of the write lock across steps, or NoObj
  state,       \* pin slot: [gen, live], one atomic word
  pinPtr,      \* pin slot: published pointer
  storage,     \* pin slot: chunk and stripe block allocated
  count,       \* pin slot: one counter per stripe
  obj,         \* life of each object
  self,        \* pool->self_handle, NoObj when unset
  ctl, hnd, ptr, stripeAt, acc,   \* per thread: control, handle, pointer, stripe, sum
  issued       \* handles some create has returned

tableVars  == <<slotPtr, slotGen, slotInUse, nslots, freeIdx, lost, deferred, released>>
pinVars    == <<state, pinPtr, storage, count>>
objVars    == <<obj, self>>
threadVars == <<ctl, hnd, ptr, stripeAt, acc>>
handleVars == <<tableVars, wlock, pinVars, objVars, threadVars, issued>>

Idx(h) == h[1]
GenOf(h) == h[2]

\* A thread between its fetch_add and the matching fetch_sub.
Counted == {"recheck", "load", "use", "backout"}
Pc == {"idle", "acquire", "store", "resolve", "add", "scan", "free", "release", "abandon"} \cup Counted

\* A call that has looked a slot up and has not finished with it.
InPinTable == {"add"} \cup Counted

HandleInit ==
  /\ slotPtr = [s \in Slot |-> NoObj]
  /\ slotGen = [s \in Slot |-> 0]
  /\ slotInUse = [s \in Slot |-> FALSE]
  /\ nslots = 0 /\ freeIdx = <<>> /\ lost = 0
  /\ deferred = FALSE /\ released = FALSE
  /\ wlock = NoObj
  /\ state = [s \in Slot |-> [gen |-> 0, live |-> FALSE]]
  /\ pinPtr = [s \in Slot |-> NoObj]
  /\ storage = [s \in Slot |-> FALSE]
  /\ count = [sk \in Slot \X Stripe |-> 0]
  /\ obj = [o \in Objs |-> "unborn"]
  /\ self = [o \in Objs |-> NoObj]
  /\ ctl = [t \in Callers |-> "idle"]
  /\ hnd = [t \in Callers |-> <<0, 0>>]
  /\ ptr = [t \in Callers |-> NoObj]
  /\ stripeAt = [t \in Callers |-> 0]
  /\ acc = [t \in Callers |-> 0]
  /\ issued = {}

GoesTo(t, from, to) == ctl[t] = from /\ ctl' = [ctl EXCEPT ![t] = to]

-----------------------------------------------------------------------------
(* Creating an object and publishing its handle.                           *)

\* cthrpool_create_mp allocates the pool and goes on to acquire a slot.
Create(t, o) ==
  /\ obj[o] = "unborn"
  /\ GoesTo(t, "idle", "acquire")
  /\ obj' = [obj EXCEPT ![o] = "live"]
  /\ ptr' = [ptr EXCEPT ![t] = o]
  /\ UNCHANGED <<tableVars, wlock, pinVars, self, hnd, stripeAt, acc, issued>>

\* _cthrpool_reclaim_lost_index_locked scans for the first released slot.
Reclaimable == {s \in Slot : s < nslots /\ slotPtr[s] = NoObj /\ ~slotInUse[s]}
LostSlot(s) == s \in Reclaimable /\ \A r \in Reclaimable : s <= r

\* The index an acquire takes and what becomes of the table: the top of the
\* free list, else a lost index, else a fresh element.  A lost count above zero
\* with nothing to reclaim is reset.
TakeIndex(s) ==
  \/ /\ freeIdx # <<>>
     /\ s = freeIdx[Len(freeIdx)]
     /\ freeIdx' = SubSeq(freeIdx, 1, Len(freeIdx) - 1)
     /\ UNCHANGED <<lost, nslots>>
  \/ /\ freeIdx = <<>> /\ lost > 0
     /\ LostSlot(s)
     /\ lost' = lost - 1
     /\ UNCHANGED <<freeIdx, nslots>>
  \/ /\ freeIdx = <<>> /\ (lost > 0 => Reclaimable = {})
     /\ nslots < MaxSlots
     /\ s = nslots
     /\ nslots' = nslots + 1
     /\ lost' = 0
     /\ UNCHANGED freeIdx

\* uint32_t generation++, and the acquire's increment that skips 0.
Bump(g) == IF g = GenMod - 1 THEN 0 ELSE g + 1
NextGen(g) == IF Bump(g) = 0 THEN 1 ELSE Bump(g)

\* _cthrpool_handle_slot_acquire up to ccol_pintable_publish's store of the
\* pointer.  The write lock stays held for the store of the state.
AcquireSlot(t, s) ==
  /\ ~released /\ wlock = NoObj
  /\ GoesTo(t, "acquire", "store")
  /\ TakeIndex(s)
  /\ wlock' = t
  /\ LET h == <<s, NextGen(slotGen[s])>>
     IN  /\ slotGen' = [slotGen EXCEPT ![s] = GenOf(h)]
         /\ self' = [self EXCEPT ![ptr[t]] = h]
         /\ hnd' = [hnd EXCEPT ![t] = h]
  /\ storage' = [storage EXCEPT ![s] = TRUE]
  /\ pinPtr' = [pinPtr EXCEPT ![s] = ptr[t]]
  /\ UNCHANGED <<slotPtr, slotInUse, deferred, released, state, count, obj, ptr, stripeAt, acc, issued>>

\* ccol_pintable_publish's last store makes the slot live; the slot table
\* takes the object and the handle is returned.
PublishState(t) ==
  LET s == Idx(hnd[t]) IN
  /\ GoesTo(t, "store", "idle")
  /\ state' = [state EXCEPT ![s] = [gen |-> GenOf(hnd[t]), live |-> TRUE]]
  /\ slotPtr' = [slotPtr EXCEPT ![s] = ptr[t]]
  /\ slotInUse' = [slotInUse EXCEPT ![s] = TRUE]
  /\ wlock' = NoObj
  /\ issued' = issued \cup {hnd[t]}
  /\ UNCHANGED <<slotGen, nslots, freeIdx, lost, deferred, released, pinPtr, storage, count,
                 objVars, hnd, ptr, stripeAt, acc>>

\* _cthrpool_free_index_release_locked: the push of the index may fail for
\* want of memory, and then the index is counted as lost.
GiveBack(s, free) ==
  \/ freeIdx' = Append(free, s) /\ lost' = lost
  \/ freeIdx' = free /\ lost' = lost + 1

\* No memory for the chunk or the stripe block: publish fails before any
\* store and the acquire rolls back.  The pool has no handle.
AcquireFails(t, s) ==
  /\ ~released /\ wlock = NoObj
  /\ GoesTo(t, "acquire", "abandon")
  /\ ~storage[s]
  /\ \/ /\ freeIdx # <<>> /\ s = freeIdx[Len(freeIdx)]
        /\ GiveBack(s, SubSeq(freeIdx, 1, Len(freeIdx) - 1))
        /\ UNCHANGED nslots
     \/ /\ freeIdx = <<>> /\ lost > 0 /\ LostSlot(s)
        /\ \/ freeIdx' = <<s>> /\ lost' = lost - 1
           \/ UNCHANGED <<freeIdx, lost>>
        /\ UNCHANGED nslots
     \/ /\ freeIdx = <<>> /\ (lost > 0 => Reclaimable = {})
        /\ nslots < MaxSlots /\ s = nslots
        /\ nslots' = nslots + 1
        /\ \/ freeIdx' = <<s>> /\ lost' = 0
           \/ UNCHANGED freeIdx /\ lost' = 1
  /\ slotGen' = [slotGen EXCEPT ![s] = NextGen(@)]
  /\ slotPtr' = [slotPtr EXCEPT ![s] = NoObj]
  /\ UNCHANGED <<slotInUse, deferred, released, wlock, pinVars, objVars, hnd, ptr, stripeAt, acc, issued>>

\* The table is full, gone, or its vector cannot grow: the acquire returns 0.
AcquireRefused(t) ==
  /\ wlock = NoObj
  /\ \/ released
     \/ freeIdx = <<>> /\ (lost > 0 => Reclaimable = {})
  /\ GoesTo(t, "acquire", "abandon")
  /\ lost' = IF released THEN lost ELSE 0
  /\ UNCHANGED <<slotPtr, slotGen, slotInUse, nslots, freeIdx, deferred, released,
                 wlock, pinVars, objVars, hnd, ptr, stripeAt, acc, issued>>

\* _cthrpool_teardown_raw of a pool without a handle: no pins to wait for.
Abandon(t) ==
  /\ GoesTo(t, "abandon", "idle")
  /\ obj' = [obj EXCEPT ![ptr[t]] = "freed"]
  /\ UNCHANGED <<tableVars, wlock, pinVars, self, hnd, ptr, stripeAt, acc, issued>>

-----------------------------------------------------------------------------
(* ccol_pintable_pin and ccol_pintable_unpin.                              *)

Want(h) == [gen |-> GenOf(h), live |-> TRUE]

\* A caller uses a handle it was once given, live or stale.
ResolveCall(t, h) ==
  /\ h \in issued
  /\ GoesTo(t, "idle", "resolve")
  /\ hnd' = [hnd EXCEPT ![t] = h]
  /\ UNCHANGED <<tableVars, wlock, pinVars, objVars, ptr, stripeAt, acc, issued>>

\* First load of the state; a slot without a chunk or on another word is refused.
PinLookup(t) ==
  LET s == Idx(hnd[t]) IN
  /\ ctl[t] = "resolve"
  /\ ctl' = [ctl EXCEPT ![t] = IF ~released /\ storage[s] /\ state[s] = Want(hnd[t])
                             THEN "add" ELSE "idle"]
  /\ UNCHANGED <<tableVars, wlock, pinVars, objVars, hnd, ptr, stripeAt, acc, issued>>

\* fetch_add of the caller's stripe.
PinAdd(t) ==
  /\ GoesTo(t, "add", "recheck")
  /\ count' = [count EXCEPT ![<<Idx(hnd[t]), StripeOf[t]>>] = @ + 1]
  /\ UNCHANGED <<tableVars, wlock, state, pinPtr, storage, objVars, hnd, ptr, stripeAt, acc, issued>>

\* Mutant: the second load of the state is left out.
PinRecheck_Dropped(t) ==
  /\ GoesTo(t, "recheck", "load")
  /\ UNCHANGED <<tableVars, wlock, pinVars, objVars, hnd, ptr, stripeAt, acc, issued>>

\* Mutant: the second load looks at the live bit and not at the generation.
PinRecheck_LiveBitOnly(t) ==
  /\ ctl[t] = "recheck"
  /\ ctl' = [ctl EXCEPT ![t] = IF state[Idx(hnd[t])].live THEN "load" ELSE "backout"]
  /\ UNCHANGED <<tableVars, wlock, pinVars, objVars, hnd, ptr, stripeAt, acc, issued>>

\* Second load of the state: only a slot still on the wanted word grants the pin.
PinRecheck(t) ==
  /\ ctl[t] = "recheck"
  /\ ctl' = [ctl EXCEPT ![t] = IF state[Idx(hnd[t])] = Want(hnd[t]) THEN "load" ELSE "backout"]
  /\ UNCHANGED <<tableVars, wlock, pinVars, objVars, hnd, ptr, stripeAt, acc, issued>>

\* The pinned pointer is loaded and returned.
PinLoad(t) ==
  /\ GoesTo(t, "load", "use")
  /\ ptr' = [ptr EXCEPT ![t] = pinPtr[Idx(hnd[t])]]
  /\ UNCHANGED <<tableVars, wlock, pinVars, objVars, hnd, stripeAt, acc, issued>>

\* Mutant: a refused pin keeps its count.
PinBackout_KeepsCount(t) ==
  /\ GoesTo(t, "backout", "idle")
  /\ UNCHANGED <<tableVars, wlock, pinVars, objVars, hnd, ptr, stripeAt, acc, issued>>

\* fetch_sub of the same stripe: the pin was refused, or the call is over.
PinBackout(t) ==
  /\ GoesTo(t, "backout", "idle")
  /\ count' = [count EXCEPT ![<<Idx(hnd[t]), StripeOf[t]>>] = @ - 1]
  /\ UNCHANGED <<tableVars, wlock, state, pinPtr, storage, objVars, hnd, ptr, stripeAt, acc, issued>>

\* _cthrpool_resolve_unpin reads the handle from the object it still pins.
Unpin(t) ==
  /\ GoesTo(t, "use", "idle")
  /\ count' = [count EXCEPT ![<<Idx(self[ptr[t]]), StripeOf[t]>>] = @ - 1]
  /\ UNCHANGED <<tableVars, wlock, state, pinPtr, storage, objVars, hnd, ptr, stripeAt, acc, issued>>

-----------------------------------------------------------------------------
(* __cthrpool_destroy.                                                     *)

\* First locked section: check the handle, clear in_use, retire the index.
\* A stale handle is a fatal error and ends the program: no step.
DestroyRetire(t, h) ==
  LET s == Idx(h) IN
  /\ h \in issued
  /\ ~released /\ wlock = NoObj
  /\ slotInUse[s] /\ slotGen[s] = GenOf(h)
  /\ GoesTo(t, "idle", "scan")
  /\ hnd' = [hnd EXCEPT ![t] = h]
  /\ ptr' = [ptr EXCEPT ![t] = slotPtr[s]]
  /\ stripeAt' = [stripeAt EXCEPT ![t] = 0]
  /\ acc' = [acc EXCEPT ![t] = 0]
  /\ slotInUse' = [slotInUse EXCEPT ![s] = FALSE]
  /\ state' = [state EXCEPT ![s] = [gen |-> @.gen, live |-> FALSE]]
  /\ UNCHANGED <<slotPtr, slotGen, nslots, freeIdx, lost, deferred, released,
                 wlock, pinPtr, storage, count, objVars, issued>>

\* ccol_pintable_pins reads one stripe.
ScanStripe(t) ==
  /\ ctl[t] = "scan" /\ stripeAt[t] < NStripes
  /\ acc' = [acc EXCEPT ![t] = @ + count[<<Idx(self[ptr[t]]), stripeAt[t]>>]]
  /\ stripeAt' = [stripeAt EXCEPT ![t] = @ + 1]
  /\ UNCHANGED <<tableVars, wlock, pinVars, objVars, ctl, hnd, ptr, issued>>

\* A sum above zero makes _cthrpool_wait_for_pins sleep and sum again.
ScanAgain(t) ==
  /\ ctl[t] = "scan" /\ stripeAt[t] = NStripes /\ acc[t] > 0
  /\ stripeAt' = [stripeAt EXCEPT ![t] = 0]
  /\ acc' = [acc EXCEPT ![t] = 0]
  /\ UNCHANGED <<tableVars, wlock, pinVars, objVars, ctl, hnd, ptr, issued>>

ScanDone(t) ==
  /\ stripeAt[t] = NStripes /\ acc[t] <= 0
  /\ GoesTo(t, "scan", "free")
  /\ UNCHANGED <<tableVars, wlock, pinVars, objVars, hnd, ptr, stripeAt, acc, issued>>

\* _cthrpool_teardown_raw ends in pool_free_self.
FreeObject(t) ==
  /\ GoesTo(t, "free", "release")
  /\ obj' = [obj EXCEPT ![ptr[t]] = "freed"]
  /\ UNCHANGED <<tableVars, wlock, pinVars, self, hnd, ptr, stripeAt, acc, issued>>

\* Whether an exit-time release may run now: always, unless the process
\* honours the duty stated at ccol_pintable_dispose.
MayDispose == QuietExit => \A t \in Callers : ctl[t] \notin InPinTable

\* Second locked section: clear the pointer, bump the generation, give the
\* index back, and dispose of the table if the exit destructor left that to us.
ReleaseSlot(t) ==
  LET s == Idx(hnd[t])
      lastOne == deferred /\ \A r \in Slot \ {s} : slotPtr[r] = NoObj
  IN
  /\ wlock = NoObj
  /\ GoesTo(t, "release", "idle")
  /\ lastOne => MayDispose
  /\ slotPtr' = [slotPtr EXCEPT ![s] = NoObj]
  /\ slotGen' = [slotGen EXCEPT ![s] = Bump(@)]
  /\ GiveBack(s, freeIdx)
  /\ released' = (released \/ lastOne)
  /\ deferred' = (deferred /\ ~lastOne)
  /\ UNCHANGED <<slotInUse, nslots, wlock, pinVars, objVars, hnd, ptr, stripeAt, acc, issued>>

\* _cleanup_cthrpool_slot_table: the destructor of the library, once.
ExitCleanup ==
  /\ ~released /\ ~deferred /\ wlock = NoObj
  /\ IF \E s \in Slot : slotPtr[s] # NoObj
     THEN deferred' = TRUE /\ UNCHANGED released
     ELSE MayDispose /\ released' = TRUE /\ UNCHANGED deferred
  /\ UNCHANGED <<slotPtr, slotGen, slotInUse, nslots, freeIdx, lost, wlock, pinVars,
                 objVars, threadVars, issued>>

-----------------------------------------------------------------------------

\* The steps a thread takes inside a call it has started.
Progress(t) ==
  \/ \E s \in Slot : AcquireSlot(t, s) \/ AcquireFails(t, s)
  \/ AcquireRefused(t) \/ PublishState(t) \/ Abandon(t)
  \/ PinLookup(t) \/ PinAdd(t) \/ PinRecheck(t) \/ PinLoad(t) \/ PinBackout(t) \/ Unpin(t)
  \/ ScanStripe(t) \/ ScanAgain(t) \/ ScanDone(t) \/ FreeObject(t) \/ ReleaseSlot(t)

HandleNext ==
  \/ \E t \in Callers :
       \/ \E o \in Objs : Create(t, o)
       \/ \E h \in issued : ResolveCall(t, h) \/ DestroyRetire(t, h)
       \/ Progress(t)
  \/ ExitCleanup

HandleSpec == HandleInit /\ [][HandleNext]_handleVars

\* Every call, once started, keeps running; calls are started at will.
HandleFairSpec == HandleSpec /\ \A t \in Callers : WF_handleVars(Progress(t))

-----------------------------------------------------------------------------
(* Properties.                                                             *)

HandleTypeOK ==
  /\ slotPtr \in [Slot -> Objs \cup {NoObj}]
  /\ slotGen \in [Slot -> Gen]
  /\ slotInUse \in [Slot -> BOOLEAN]
  /\ nslots \in 0 .. MaxSlots
  /\ freeIdx \in Seq(Slot)
  /\ lost \in Nat
  /\ deferred \in BOOLEAN /\ released \in BOOLEAN
  /\ wlock \in Callers \cup {NoObj}
  /\ state \in [Slot -> [gen : Gen, live : BOOLEAN]]
  /\ pinPtr \in [Slot -> Objs \cup {NoObj}]
  /\ storage \in [Slot -> BOOLEAN]
  /\ count \in [Slot \X Stripe -> Int]
  /\ obj \in [Objs -> {"unborn", "live", "freed"}]
  /\ self \in [Objs -> Handle \cup {NoObj}]
  /\ ctl \in [Callers -> Pc]
  /\ hnd \in [Callers -> Handle]
  /\ ptr \in [Callers -> Objs \cup {NoObj}]
  /\ stripeAt \in [Callers -> 0 .. NStripes]
  /\ acc \in [Callers -> Int]
  /\ issued \subseteq Handle

\* A call that got a pointer from ccol_pintable_pin uses an object that has not
\* been freed, until its own unpin: no destroy frees the object in between,
\* whatever stripes the scan has already passed.
PinnedObjectAlive ==
  \A t \in Callers : ctl[t] = "use" => ptr[t] \in Objs /\ obj[ptr[t]] = "live"

\* The object a resolve hands out is the one its handle was issued for, never
\* the next owner of a recycled index (as long as generations do not wrap).
ResolvesToOwnObject ==
  \A t \in Callers : ctl[t] = "use" => self[ptr[t]] = hnd[t]

\* Between locked sections every released index is on the free list exactly
\* once or counted in lost_indices, and no occupied index is: the fallback
\* that scans for a lost index never takes one that is in use.
IndexAccounting ==
  LET listed == {freeIdx[i] : i \in DOMAIN freeIdx} IN
  wlock = NoObj /\ ~released =>
    /\ Cardinality(listed) = Len(freeIdx)
    /\ listed \subseteq Reclaimable
    /\ lost = Cardinality(Reclaimable) - Len(freeIdx)

\* A handle stands for one object, because an index has one owner.
IndicesSound == ResolvesToOwnObject /\ IndexAccounting

\* Every cthrpool_destroy gets past its wait for pins and returns, although
\* callers keep using the handle.
DestroyReturns == \A t \in Callers : ctl[t] = "scan" ~> ctl[t] = "idle"

\* The exit-time release of the table frees the pin chunks only "when nothing
\* is left that could still resolve a handle".
DisposedTableUnused == released => \A t \in Callers : ctl[t] \notin InPinTable
=============================================================================
