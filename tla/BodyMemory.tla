----------------------------- MODULE BodyMemory -----------------------------
(***************************************************************************)
(* The limit on the memory of request bodies in src/src/chttpserver.c: a   *)
(* connection reserves what its body is about to hold, and one whose       *)
(* reservation does not fit waits in a list without a thread.  Whoever     *)
(* frees memory, joins the list or drops someone from it then calls        *)
(* _mem_admit, which admits from the head of the list.  When the head does *)
(* not fit and all who hold memory are in the list themselves, the head    *)
(* goes ahead past the limit: it is exempt until its body is freed.        *)
(*                                                                         *)
(* A section of wait_mutex is one step, except that the one of _mem_admit  *)
(* is a step per connection admitted: locked says that it is held.  The    *)
(* loops' limit of 64 connections per section is above what the instances  *)
(* have.                                                                   *)
(***************************************************************************)
EXTENDS Integers, Sequences, FiniteSets

CONSTANTS
  Conns,           \* the connections
  MemCap,          \* mem_cap, the limit
  MaxNeed,         \* the most a connection asks for at once
  Callers,         \* what calls _mem_admit
  Null

ASSUME BodyMemoryAssumption == MemCap \in Nat /\ MaxNeed \in Nat /\ IsFiniteSet(Conns) /\ Null \notin Callers

VARIABLES
  mem_in_use, mem_holders, mem_blocked,
  mem_list,                  \* mem_head to mem_tail
  mem_exempt_active, mem_admission_closed,
  mem_admitting,             \* the caller that runs the admission loop, or Null
  mem_admit_again,
  locked,                    \* the admission loop holds wait_mutex
  batch,                     \* what the loop has admitted and not yet dispatched
  mem_charged, mem_exempt, mem_need,     \* by connection
  calls                      \* callers that still have to call _mem_admit

memCounts == <<mem_in_use, mem_holders, mem_charged>>
memLoop == <<mem_admitting, mem_admit_again, locked, batch>>
memVars == <<memCounts, mem_blocked, mem_list, mem_exempt_active, mem_admission_closed, memLoop,
             mem_exempt, mem_need, calls>>

MemInit ==
  /\ mem_in_use = 0 /\ mem_holders = 0 /\ mem_blocked = 0
  /\ mem_list = <<>> /\ batch = <<>> /\ calls = {}
  /\ mem_exempt_active = FALSE /\ mem_admission_closed = FALSE
  /\ mem_admitting = Null /\ mem_admit_again = FALSE /\ locked = FALSE
  /\ mem_charged = [c \in Conns |-> 0]
  /\ mem_exempt = [c \in Conns |-> FALSE]
  /\ mem_need = [c \in Conns |-> 0]

Waiting(c) == \E i \in 1 .. Len(mem_list) : mem_list[i] = c
Holds(c) == mem_charged[c] > 0

\* _mem_fits_locked.
Fits(n) == mem_in_use <= MemCap /\ n <= MemCap - mem_in_use

\* _mem_grant_locked: a charge above the whole limit counts as the limit.
Grant(c, n) ==
  LET g == IF n > MemCap THEN MemCap ELSE n
  IN  /\ mem_charged' = [mem_charged EXCEPT ![c] = @ + g]
      /\ mem_in_use' = mem_in_use + g
      /\ mem_holders' = IF g > 0 /\ ~Holds(c) THEN mem_holders + 1 ELSE mem_holders

\* _mem_try_reserve.
MayReserve(c, n) == mem_exempt[c] \/ (mem_list = <<>> /\ Fits(n))

Reserve(c, n) ==
  /\ ~locked /\ MayReserve(c, n)
  /\ Grant(c, n)
  /\ UNCHANGED <<mem_blocked, mem_list, mem_exempt_active, mem_admission_closed, memLoop,
                 mem_exempt, mem_need, calls>>

ReserveFails(c, n) == ~locked /\ ~MayReserve(c, n) /\ UNCHANGED memVars

\* _mem_wait_enqueue; t goes on to call _mem_admit.
Enqueue(t, c, n) ==
  /\ ~locked
  /\ mem_list' = Append(mem_list, c)
  /\ mem_need' = [mem_need EXCEPT ![c] = n]
  /\ mem_blocked' = IF Holds(c) THEN mem_blocked + 1 ELSE mem_blocked
  /\ calls' = calls \cup {t}
  /\ UNCHANGED <<memCounts, mem_exempt_active, mem_admission_closed, memLoop, mem_exempt>>

\* The list without the connections in cs, in its order.
Unlinked(list, cs) ==
  LET kept[i \in 0 .. Len(list)] ==
        IF i = 0 THEN <<>>
        ELSE IF list[i] \in cs THEN kept[i - 1] ELSE Append(kept[i - 1], list[i])
  IN  kept[Len(list)]

\* Mutant: one who holds memory stays counted among the waiting.
Unlink_KeepsBlocked(cs) ==
  /\ mem_list' = Unlinked(mem_list, cs)
  /\ UNCHANGED mem_blocked

\* _mem_wait_unlink_locked, of every connection in cs.
Unlink(cs) ==
  /\ mem_list' = Unlinked(mem_list, cs)
  /\ mem_blocked' = mem_blocked - Cardinality({c \in cs : Holds(c)})

\* _mem_release: all that c holds, and its exemption.
Release(t, c) ==
  /\ ~locked
  /\ mem_in_use' = mem_in_use - mem_charged[c]
  /\ mem_holders' = IF Holds(c) THEN mem_holders - 1 ELSE mem_holders
  /\ mem_charged' = [mem_charged EXCEPT ![c] = 0]
  /\ mem_exempt' = [mem_exempt EXCEPT ![c] = FALSE]
  /\ mem_exempt_active' = (mem_exempt_active /\ ~mem_exempt[c])
  /\ calls' = IF mem_list # <<>> THEN calls \cup {t} ELSE calls
  /\ UNCHANGED <<mem_blocked, mem_list, mem_admission_closed, memLoop, mem_need>>

\* Mutant: whoever waits is not told.
Trim_Silent(t, c, keep) ==
  /\ ~locked /\ mem_charged[c] > keep
  /\ mem_in_use' = mem_in_use - (mem_charged[c] - keep)
  /\ mem_holders' = IF keep = 0 THEN mem_holders - 1 ELSE mem_holders
  /\ mem_charged' = [mem_charged EXCEPT ![c] = keep]
  /\ UNCHANGED <<mem_blocked, mem_list, mem_exempt_active, mem_admission_closed, memLoop,
                 mem_exempt, mem_need, calls>>

\* _mem_trim: what c holds above keep.
Trim(t, c, keep) ==
  /\ ~locked /\ mem_charged[c] > keep
  /\ mem_in_use' = mem_in_use - (mem_charged[c] - keep)
  /\ mem_holders' = IF keep = 0 THEN mem_holders - 1 ELSE mem_holders
  /\ mem_charged' = [mem_charged EXCEPT ![c] = keep]
  /\ calls' = IF mem_list # <<>> THEN calls \cup {t} ELSE calls
  /\ UNCHANGED <<mem_blocked, mem_list, mem_exempt_active, mem_admission_closed, memLoop,
                 mem_exempt, mem_need>>

\* _sweep_parked_waits: those who waited too long leave the list.
ExpireWaiters(t, cs) ==
  /\ ~locked /\ \A c \in cs : Waiting(c)
  /\ Unlink(cs)
  /\ calls' = IF cs # {} THEN calls \cup {t} ELSE calls
  /\ UNCHANGED <<memCounts, mem_exempt_active, mem_admission_closed, memLoop, mem_exempt, mem_need>>

\* _mem_wait_flush: all leave the list, once nobody is admitted any more.
FlushWaiters ==
  /\ ~locked /\ mem_list # <<>>
  /\ Unlink({c \in Conns : Waiting(c)})
  /\ UNCHANGED <<memCounts, mem_exempt_active, mem_admission_closed, memLoop, mem_exempt, mem_need, calls>>

\* _mem_admission_close.
CloseAdmission ==
  /\ ~locked /\ mem_admission_closed' = TRUE
  /\ UNCHANGED <<memCounts, mem_blocked, mem_list, mem_exempt_active, memLoop, mem_exempt, mem_need, calls>>

-----------------------------------------------------------------------------
(* _mem_admit.  Only one loop runs: a call that finds one asks it to look  *)
(* again.                                                                  *)
Admit(t) ==
  /\ t \in calls /\ ~locked
  /\ calls' = calls \ {t}
  /\ \/ /\ mem_admitting # Null
        /\ mem_admit_again' = TRUE
        /\ UNCHANGED <<mem_admitting, locked>>
     \/ /\ mem_admitting = Null
        /\ mem_admitting' = t /\ mem_admit_again' = FALSE /\ locked' = TRUE
  /\ UNCHANGED <<memCounts, mem_blocked, mem_list, mem_exempt_active, mem_admission_closed, batch,
                 mem_exempt, mem_need>>

\* The progress rule.
Ahead(c) == ~Fits(mem_need[c]) /\ ~mem_exempt_active /\ mem_holders = mem_blocked

Admissible == /\ ~mem_admission_closed /\ mem_list # <<>>
              /\ Fits(mem_need[Head(mem_list)]) \/ Ahead(Head(mem_list))

AdmitHead ==
  /\ locked /\ Admissible
  /\ LET c == Head(mem_list)
     IN  /\ mem_list' = Tail(mem_list)
         /\ mem_blocked' = IF Holds(c) THEN mem_blocked - 1 ELSE mem_blocked
         /\ Grant(c, mem_need[c])
         /\ mem_exempt' = [mem_exempt EXCEPT ![c] = @ \/ Ahead(c)]
         /\ mem_exempt_active' = (mem_exempt_active \/ Ahead(c))
         /\ batch' = Append(batch, c)
  /\ UNCHANGED <<mem_admission_closed, mem_admitting, mem_admit_again, locked, mem_need, calls>>

\* Nobody else to admit: dispatch those who were, or end.
AdmitLooked ==
  /\ locked /\ ~Admissible
  /\ locked' = FALSE
  /\ mem_admitting' = IF batch = <<>> /\ ~mem_admit_again THEN Null ELSE mem_admitting
  /\ UNCHANGED <<memCounts, mem_blocked, mem_list, mem_exempt_active, mem_admission_closed,
                 mem_admit_again, batch, mem_exempt, mem_need, calls>>

\* All are dispatched: look again.
AdmitAgain ==
  /\ mem_admitting # Null /\ ~locked /\ batch = <<>>
  /\ locked' = TRUE /\ mem_admit_again' = FALSE
  /\ UNCHANGED <<memCounts, mem_blocked, mem_list, mem_exempt_active, mem_admission_closed,
                 mem_admitting, batch, mem_exempt, mem_need, calls>>

\* The next of the batch is taken to be dispatched.
TakeBatch ==
  /\ mem_admitting # Null /\ ~locked /\ batch # <<>>
  /\ batch' = Tail(batch)
  /\ UNCHANGED <<memCounts, mem_blocked, mem_list, mem_exempt_active, mem_admission_closed,
                 mem_admitting, mem_admit_again, locked, mem_exempt, mem_need, calls>>

-----------------------------------------------------------------------------
(* What a user of this module keeps to: a connection that waits is left    *)
(* alone until it is admitted or unlinked.                                 *)
MemNext ==
  \/ \E c \in Conns, t \in Callers, n \in 0 .. MaxNeed :
       /\ ~Waiting(c)
       /\ Reserve(c, n) \/ (~mem_exempt[c] /\ Enqueue(t, c, n)) \/ Release(t, c) \/ Trim(t, c, n)
  \/ \E t \in Callers : Admit(t) \/ \E cs \in SUBSET Conns : ExpireWaiters(t, cs)
  \/ mem_admission_closed /\ FlushWaiters
  \/ CloseAdmission \/ AdmitHead \/ AdmitLooked \/ AdmitAgain \/ TakeBatch

MemSpec == MemInit /\ [][MemNext]_memVars

-----------------------------------------------------------------------------
\* The counters are those of the connections, one at most is exempt, and
\* whoever is exempt does not wait: the progress rule compares mem_holders with
\* mem_blocked, and one count too many would leave everyone waiting for ever.
MemoryAccounted ==
  /\ mem_holders = Cardinality({c \in Conns : Holds(c)})
  /\ mem_blocked = Cardinality({c \in Conns : Holds(c) /\ Waiting(c)})
  /\ mem_exempt_active <=> \E c \in Conns : mem_exempt[c]
  /\ \A c, d \in Conns : mem_exempt[c] /\ mem_exempt[d] => c = d
  /\ \A c \in Conns : mem_exempt[c] => ~Waiting(c)

\* What the connections in cs hold, unit by unit.
Held(cs) == UNION {{c} \X (1 .. mem_charged[c]) : c \in cs}

\* The books are right: what the connections hold is what is in use, and what is
\* held under the limit, the exempt connection's bytes aside, is at most the
\* limit.  The one that goes ahead is the only excess there ever is.
MemoryBounded ==
  /\ MemoryAccounted
  /\ mem_in_use = Cardinality(Held(Conns))
  /\ Cardinality(Held({c \in Conns : ~mem_exempt[c]})) <= MemCap

\* Once everyone who had to has called _mem_admit, the head of the list is one
\* who neither fits nor may go ahead: no release, however it interleaves with a
\* loop that is about to end, leaves a connection behind that could be admitted.
NoLostAdmission == (mem_admitting = Null /\ calls = {}) => ~Admissible
=============================================================================
