---------------------------- MODULE GrallocTable ----------------------------
(***************************************************************************)
(* The buffer geometry table of the gralloc wrapper                        *)
(* (gralloc_eink/src/eink_wrapper.c).  alloc() and free() call the vendor  *)
(* gralloc, which is external and hands out the address of a freed buffer  *)
(* again, and then or before that the table, under its own lock.  Threads  *)
(* allocate and free at the same time while the composer queries.          *)
(***************************************************************************)
EXTENDS Naturals, Sequences, FiniteSets

CONSTANTS
  Threads,
  Handles,      \* addresses the vendor gralloc may return
  Geometries,   \* width, height, stride and format of a buffer
  MaxBufs,      \* EINK_MAX_BUFS, 64 in the code
  Null          \* a null handle, and no geometry

ASSUME TableAssumption ==
  MaxBufs \in Nat \ {0} /\ IsFiniteSet(Handles) /\ Null \notin Handles \cup Geometries

VARIABLES
  bufs,         \* g_bufs
  buffer,       \* external: the geometry of every buffer that exists
  returned,     \* the buffers alloc() has returned and free() was not called for
  work          \* of each thread: <<steps still to do, handle>>

vars == <<bufs, buffer, returned, work>>

Slots == 1 .. MaxBufs
EmptySlot == [handle |-> Null, geometry |-> Null]
Idle == << << >>, Null>>

SlotsOf(h) == {i \in Slots : bufs[i].handle = h}

First(S) == CHOOSE i \in S : \A j \in S : i <= j

------------------------------------------------------------------------------
\* The slots a record may go to: the handle's own, else an empty one.
slot_for(h) == IF SlotsOf(h) # {} THEN SlotsOf(h) ELSE SlotsOf(Null)

eink_buf_record(h, g) ==
  bufs' = IF slot_for(h) = {} THEN bufs
          ELSE [bufs EXCEPT ![First(slot_for(h))] = [handle |-> h, geometry |-> g]]

\* Variant: the handle is cleared by the vendor's free, not by the table.
eink_buf_forget_none(h) == bufs' = bufs

eink_buf_forget(h) ==
  bufs' = IF SlotsOf(h) = {} THEN bufs
          ELSE [bufs EXCEPT ![First(SlotsOf(h))] = EmptySlot]

\* eink_gralloc_query: the geometry of a handle, Null if it is not known.
eink_gralloc_query(h) ==
  IF SlotsOf(h) = {} THEN Null ELSE bufs[First(SlotsOf(h))].geometry

------------------------------------------------------------------------------
(* eink_gpu_alloc: the vendor's alloc, then the record.                     *)
alloc_real(t, h, g) ==
  /\ work[t] = Idle
  /\ buffer[h] = Null
  /\ buffer' = [buffer EXCEPT ![h] = g]
  /\ work' = [work EXCEPT ![t] = << <<"record">>, h>>]
  /\ UNCHANGED <<bufs, returned>>

alloc_record(t) ==
  /\ work[t][1] = <<"record">>
  /\ LET h == work[t][2]
     IN /\ eink_buf_record(h, buffer[h])
        /\ returned' = returned \cup {h}
  /\ work' = [work EXCEPT ![t] = Idle]
  /\ UNCHANGED buffer

------------------------------------------------------------------------------
(* eink_gpu_free.                                                           *)

\* Variant: the vendor's free comes first.
free_steps_swapped == <<"free", "forget">>

free_steps == <<"forget", "free">>

eink_gpu_free(t, h) ==
  /\ work[t] = Idle /\ h \in returned
  /\ returned' = returned \ {h}
  /\ work' = [work EXCEPT ![t] = <<free_steps, h>>]
  /\ UNCHANGED <<bufs, buffer>>

step_done(t) ==
  work' = [work EXCEPT ![t] = IF Len(@[1]) = 1 THEN Idle ELSE <<Tail(@[1]), @[2]>>]

free_forget(t) ==
  /\ work[t] # Idle /\ Head(work[t][1]) = "forget"
  /\ eink_buf_forget(work[t][2])
  /\ step_done(t)
  /\ UNCHANGED <<buffer, returned>>

free_real(t) ==
  /\ work[t] # Idle /\ Head(work[t][1]) = "free"
  /\ buffer' = [buffer EXCEPT ![work[t][2]] = Null]
  /\ step_done(t)
  /\ UNCHANGED <<bufs, returned>>

Init ==
  /\ bufs = [i \in Slots |-> EmptySlot]
  /\ buffer = [h \in Handles |-> Null]
  /\ returned = {}
  /\ work = [t \in Threads |-> Idle]

Next ==
  \E t \in Threads :
    \/ \E h \in Handles, g \in Geometries : alloc_real(t, h, g)
    \/ alloc_record(t)
    \/ \E h \in Handles : eink_gpu_free(t, h)
    \/ free_forget(t)
    \/ free_real(t)

Spec == Init /\ [][Next]_vars

------------------------------------------------------------------------------
(* Properties.                                                              *)

(* The table's slots hold handles with a geometry or nothing, and the       *)
(* threads are where eink_gpu_alloc and eink_gpu_free can be.               *)
TypeOK ==
  /\ bufs \in [Slots -> [handle : Handles, geometry : Geometries] \cup {EmptySlot}]
  /\ buffer \in [Handles -> Geometries \cup {Null}]
  /\ returned \subseteq Handles
  /\ work \in [Threads -> {Idle} \cup
                 ({<<"record">>, <<"forget", "free">>, <<"free">>} \X Handles)]

(* A query never answers with the geometry of another buffer: whatever the  *)
(* threads do, a handle the table knows is a buffer that exists, with that  *)
(* geometry, although the vendor reuses addresses.                          *)
QueryTrue ==
  /\ TypeOK
  /\ \A h \in Handles : eink_gralloc_query(h) # Null => eink_gralloc_query(h) = buffer[h]

(* A step that loses no buffer callers have, and leaves a new one out only   *)
(* when there is no slot.                                                    *)
LosesNone ==
  /\ \A h \in returned \cap returned' : SlotsOf(h) # {} => SlotsOf(h)' # {}
  /\ \A h \in returned' \ returned :
       SlotsOf(h)' = {} => Cardinality({x \in Handles : buffer[x] # Null}) > MaxBufs

(* A buffer the table knows stays known until free() is called for it, and  *)
(* no slot leaks: a buffer is left out of the table only when more buffers  *)
(* exist than it has slots.                                                 *)
KnownUntilFreed == [][LosesNone]_vars
=============================================================================
