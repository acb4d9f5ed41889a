---------------------------- MODULE GrallocProofs ----------------------------
(***************************************************************************)
(* QueryTrue and KnownUntilFreed for any number of threads, addresses and  *)
(* slots.                                                                  *)
(*                                                                         *)
(* QueryTrue is not inductive: the vendor may hand out an address again    *)
(* that the table still has.  Listed adds that the table only has buffers  *)
(* alloc() has recorded and free() has not forgotten, Owned that a buffer  *)
(* between the two calls of alloc() or free() is in the hands of one       *)
(* thread, and Single that a buffer has one slot.                          *)
(***************************************************************************)
EXTENDS GrallocTable, FiniteSetTheorems, FunctionTheorems, WellFoundedInduction, TLAPS

Recording(h) == << <<"record">>, h>>
Forgetting(h) == << <<"forget", "free">>, h>>
Freeing(h) == << <<"free">>, h>>

Busy(t, h) == work[t] \in {Recording(h), Forgetting(h), Freeing(h)}

Owned ==
  \A t \in Threads, h \in Handles : Busy(t, h) =>
    buffer[h] # Null /\ h \notin returned /\ \A u \in Threads : Busy(u, h) => u = t

Existing == \A h \in returned : buffer[h] # Null

Listed ==
  \A i \in Slots, h \in Handles : bufs[i].handle = h =>
    /\ buffer[h] # Null /\ bufs[i].geometry = buffer[h]
    /\ \A t \in Threads : work[t] # Recording(h) /\ work[t] # Freeing(h)

Single ==
  \A i, j \in Slots : bufs[i].handle = bufs[j].handle /\ bufs[i].handle # Null => i = j

Works ==
  {Idle} \cup UNION {{Recording(h), Forgetting(h), Freeing(h)} : h \in Handles}

Slotted == [handle : Handles, geometry : Geometries] \cup {EmptySlot}

Types ==
  /\ bufs \in [Slots -> Slotted]
  /\ buffer \in [Handles -> Geometries \cup {Null}]
  /\ returned \subseteq Handles
  /\ work \in [Threads -> Works]

IInv == Types /\ Owned /\ Existing /\ Listed /\ Single

------------------------------------------------------------------------------
(* The table.                                                               *)

Less == {p \in Nat \X Nat : p[1] < p[2]}

\* The loops over the table stop at a slot that fits, if there is one.
LEMMA FirstIn ==
  ASSUME NEW S \in SUBSET Slots, S # {}
  PROVE  First(S) \in S
<1>1. S \subseteq Nat
  BY TableAssumption DEF Slots
<1>2. IsWellFoundedOn(Less, Nat)
  BY NatLessThanWellFounded DEF OpToRel, Less
<1>3. PICK i \in S : \A j \in S : ~ (<<j, i>> \in Less)
  BY <1>1, <1>2, WFMin, Zenon
<1>4. ASSUME NEW j \in S PROVE i <= j
  <2>1. i \in Nat /\ j \in Nat /\ <<j, i>> \in Nat \X Nat
    BY <1>1
  <2>2. <<j, i>>[1] = j /\ <<j, i>>[2] = i
    OBVIOUS
  <2>3. ~ (<<j, i>>[1] < <<j, i>>[2])
    BY <1>3, <2>1, Zenon DEF Less
  <2> QED
    BY <2>1, <2>2, <2>3
<1> QED
  BY <1>4 DEF First

\* What a thread can be doing, and that it does one thing at a time.
LEMMA Forms ==
  ASSUME NEW h \in Handles, NEW k \in Handles
  PROVE  /\ Recording(h) # Idle /\ Forgetting(h) # Idle /\ Freeing(h) # Idle
         /\ Recording(h) # Forgetting(k) /\ Recording(h) # Freeing(k)
         /\ Forgetting(h) # Freeing(k)
         /\ Recording(h) = Recording(k) => h = k
         /\ Forgetting(h) = Forgetting(k) => h = k
         /\ Freeing(h) = Freeing(k) => h = k
  BY TableAssumption DEF Recording, Forgetting, Freeing, Idle

\* TypeOK with the names used here.
LEMMA TypesMeanTypeOK == Types <=> TypeOK
<1>1. {Idle} \cup ({<<"record">>, <<"forget", "free">>, <<"free">>} \X Handles) = Works
  BY DEF Recording, Forgetting, Freeing, Works
<1> QED
  BY <1>1, Zenon DEF TypeOK, Types, Slotted

\* A slot holds a buffer or nothing.
LEMMA SlotHolds ==
  ASSUME Types, NEW i \in Slots
  PROVE  bufs[i].handle \in Handles \cup {Null}
  BY DEF Types, Slotted, EmptySlot

\* A buffer just allocated is not in the table, so its record goes to an empty
\* slot, if there is one.
LEMMA Recorded ==
  ASSUME Types, Listed, NEW t \in Threads, NEW h \in Handles, NEW g \in Geometries,
         work[t] = Recording(h), eink_buf_record(h, g)
  PROVE  /\ SlotsOf(h) = {}
         /\ \/ bufs' = bufs /\ \A i \in Slots : bufs[i].handle # Null
            \/ \E i \in Slots : /\ bufs[i].handle = Null
                                /\ bufs' = [bufs EXCEPT ![i] = [handle |-> h, geometry |-> g]]
<1>1. SlotsOf(h) = {}
  BY DEF Listed, SlotsOf
<1>2. slot_for(h) = SlotsOf(Null)
  BY <1>1 DEF slot_for
<1>3. CASE SlotsOf(Null) = {}
  BY <1>1, <1>2, <1>3 DEF eink_buf_record, SlotsOf
<1>4. CASE SlotsOf(Null) # {}
  <2>1. First(SlotsOf(Null)) \in SlotsOf(Null)
    BY <1>4, FirstIn DEF SlotsOf
  <2>2. bufs' = [bufs EXCEPT ![First(SlotsOf(Null))] = [handle |-> h, geometry |-> g]]
    BY <1>2, <1>4 DEF eink_buf_record
  <2> QED
    BY Zenon, <1>1, <2>1, <2>2 DEF SlotsOf
<1> QED
  BY <1>3, <1>4

\* Forgetting a buffer empties its slot.
LEMMA Forgot ==
  ASSUME NEW h \in Handles, eink_buf_forget(h)
  PROVE  \/ bufs' = bufs /\ \A i \in Slots : bufs[i].handle # h
         \/ \E i \in Slots : bufs[i].handle = h /\ bufs' = [bufs EXCEPT ![i] = EmptySlot]
<1>1. CASE SlotsOf(h) = {}
  BY <1>1 DEF eink_buf_forget, SlotsOf
<1>2. CASE SlotsOf(h) # {}
  <2>1. First(SlotsOf(h)) \in SlotsOf(h)
    BY <1>2, FirstIn DEF SlotsOf
  <2> QED
    BY Zenon, <1>2, <2>1 DEF eink_buf_forget, SlotsOf
<1> QED
  BY <1>1, <1>2

------------------------------------------------------------------------------
(* The steps of a thread, with the buffer it is about.                      *)

\* alloc_record is about a buffer just allocated.
LEMMA RecordStep ==
  ASSUME Types, NEW t \in Threads, alloc_record(t)
  PROVE  \E h \in Handles :
           /\ work[t] = Recording(h) /\ work' = [work EXCEPT ![t] = Idle]
           /\ eink_buf_record(h, buffer[h]) /\ returned' = returned \cup {h} /\ buffer' = buffer
<1>1. PICK h \in Handles : work[t] = Recording(h)
  BY TypesMeanTypeOK DEF TypeOK, alloc_record, Recording, Idle
<1> QED
  BY <1>1 DEF alloc_record, Recording

\* free_forget leaves the vendor's free to do.
LEMMA ForgetStep ==
  ASSUME Types, NEW t \in Threads, free_forget(t)
  PROVE  \E h \in Handles :
           /\ work[t] = Forgetting(h) /\ work' = [work EXCEPT ![t] = Freeing(h)]
           /\ eink_buf_forget(h) /\ UNCHANGED <<buffer, returned>>
<1>1. PICK h \in Handles : work[t] = Forgetting(h)
  BY TypesMeanTypeOK DEF TypeOK, free_forget, Forgetting, Idle
<1>2. Len(work[t][1]) = 2 /\ Tail(work[t][1]) = <<"free">> /\ work[t][2] = h
  BY <1>1 DEF Forgetting
<1>3. work' = [work EXCEPT ![t] = <<Tail(work[t][1]), work[t][2]>>]
  BY <1>2 DEF free_forget, step_done
<1>4. <<Tail(work[t][1]), work[t][2]>> = Freeing(h)
  BY <1>2 DEF Freeing
<1>5. eink_buf_forget(h) /\ UNCHANGED <<buffer, returned>>
  BY <1>2, Zenon DEF free_forget
<1> QED
  BY Zenon, <1>1, <1>3, <1>4, <1>5

\* free_real is the last step of eink_gpu_free.
LEMMA FreeStep ==
  ASSUME Types, NEW t \in Threads, free_real(t)
  PROVE  \E h \in Handles :
           /\ work[t] = Freeing(h) /\ work' = [work EXCEPT ![t] = Idle]
           /\ buffer' = [buffer EXCEPT ![h] = Null] /\ UNCHANGED <<bufs, returned>>
<1>1. PICK h \in Handles : work[t] = Freeing(h)
  BY TypesMeanTypeOK DEF TypeOK, free_real, Freeing, Idle
<1>2. Len(work[t][1]) = 1 /\ work[t][2] = h
  BY <1>1 DEF Freeing
<1> QED
  BY Zenon, <1>1, <1>2 DEF free_real, step_done

------------------------------------------------------------------------------
(* Every step preserves IInv.                                               *)

\* The vendor hands out an address that nobody has.
LEMMA AllocStep ==
  ASSUME IInv, NEW t \in Threads, NEW h \in Handles, NEW g \in Geometries, alloc_real(t, h, g)
  PROVE  IInv'
<1>1. work' = [work EXCEPT ![t] = Recording(h)] /\ Recording(h) \in Works
  BY DEF alloc_real, Recording, Works
<1>2. Types'
  BY <1>1 DEF IInv, Types, alloc_real
<1>3. buffer[h] = Null /\ buffer'[h] # Null /\ \A k \in Handles \ {h} : buffer'[k] = buffer[k]
  BY TableAssumption DEF IInv, Types, alloc_real
<1>4. \A u \in Threads, k \in Handles : Busy(u, k)' => Busy(u, k) \/ (u = t /\ k = h)
  BY <1>1, Forms DEF Busy, IInv, Types
<1>5. Owned'
  BY <1>1, <1>3, <1>4 DEF IInv, Owned, Existing, alloc_real
<1>6. Existing'
  BY <1>3 DEF IInv, Types, Existing, alloc_real
<1>7. Listed'
  BY <1>1, <1>3, Forms DEF IInv, Types, Listed, alloc_real
<1>8. Single'
  BY DEF IInv, Single, alloc_real
<1> QED
  BY <1>2, <1>5, <1>6, <1>7, <1>8 DEF IInv

\* The record names a buffer that this thread alone has, with its geometry.
LEMMA RecordKeeps ==
  ASSUME IInv, NEW t \in Threads, alloc_record(t)
  PROVE  IInv'
<1>1. PICK h \in Handles :
        /\ work[t] = Recording(h) /\ work' = [work EXCEPT ![t] = Idle]
        /\ eink_buf_record(h, buffer[h]) /\ returned' = returned \cup {h} /\ buffer' = buffer
  BY RecordStep DEF IInv
<1>2. Busy(t, h) /\ buffer[h] \in Geometries /\ h # Null
  BY <1>1, TableAssumption DEF Busy, IInv, Types, Owned
<1>3. /\ SlotsOf(h) = {}
      /\ \/ bufs' = bufs
         \/ \E i \in Slots : /\ bufs[i].handle = Null
                             /\ bufs' = [bufs EXCEPT ![i] = [handle |-> h, geometry |-> buffer[h]]]
  BY <1>1, <1>2, Recorded DEF IInv
<1>4. Types'
  BY <1>1, <1>2, <1>3 DEF IInv, Types, Works, Slotted
<1>5. \A u \in Threads, k \in Handles : Busy(u, k)' => Busy(u, k) /\ u # t
  BY <1>1, Forms DEF Busy, IInv, Types
<1>6. Owned'
  BY <1>1, <1>2, <1>5 DEF IInv, Owned
<1>7. Existing'
  BY <1>1, <1>2 DEF IInv, Owned, Existing
<1>8. \A u \in Threads : work'[u] # Recording(h) /\ work'[u] # Freeing(h)
  BY <1>1, <1>2, Forms DEF IInv, Types, Owned, Busy
<1>9. Listed'
  <2> SUFFICES ASSUME NEW i \in Slots, NEW k \in Handles, bufs'[i].handle = k
               PROVE  /\ buffer[k] # Null /\ bufs'[i].geometry = buffer[k]
                      /\ \A u \in Threads : work'[u] # Recording(k) /\ work'[u] # Freeing(k)
    BY <1>1 DEF Listed
  <2>1. bufs'[i] = bufs[i] \/ bufs'[i] = [handle |-> h, geometry |-> buffer[h]]
    BY <1>3 DEF IInv, Types
  <2>2. CASE bufs'[i] = bufs[i]
    BY <1>1, <2>2, Forms DEF IInv, Types, Listed
  <2>3. CASE bufs'[i] = [handle |-> h, geometry |-> buffer[h]]
    BY <1>2, <1>8, <2>3, TableAssumption
  <2> QED
    BY <2>1, <2>2, <2>3
<1>10. Single'
  BY <1>3 DEF IInv, Types, Single, SlotsOf
<1> QED
  BY <1>4, <1>6, <1>7, <1>9, <1>10 DEF IInv

\* free() takes the buffer out of the callers' hands.
LEMMA FreeCallKeeps ==
  ASSUME IInv, NEW t \in Threads, NEW h \in Handles, eink_gpu_free(t, h)
  PROVE  IInv'
<1>1. work' = [work EXCEPT ![t] = Forgetting(h)] /\ Forgetting(h) \in Works
  BY DEF eink_gpu_free, free_steps, Forgetting, Works
<1>2. Types'
  BY <1>1 DEF IInv, Types, eink_gpu_free
<1>3. \A u \in Threads, k \in Handles : Busy(u, k)' => Busy(u, k) \/ (u = t /\ k = h)
  BY <1>1, Forms DEF Busy, IInv, Types
<1>4. Owned'
  BY <1>3 DEF IInv, Owned, Existing, eink_gpu_free
<1>5. Existing' /\ Single'
  BY DEF IInv, Existing, Single, eink_gpu_free
<1>6. Listed'
  BY <1>1, Forms DEF IInv, Types, Listed, eink_gpu_free
<1> QED
  BY <1>2, <1>4, <1>5, <1>6 DEF IInv

\* A buffer that is being freed is in no slot before the vendor has it back.
LEMMA ForgetKeeps ==
  ASSUME IInv, NEW t \in Threads, free_forget(t)
  PROVE  IInv'
<1>1. PICK h \in Handles :
        /\ work[t] = Forgetting(h) /\ work' = [work EXCEPT ![t] = Freeing(h)]
        /\ eink_buf_forget(h) /\ UNCHANGED <<buffer, returned>>
  BY ForgetStep DEF IInv
<1>2. \/ bufs' = bufs /\ \A i \in Slots : bufs[i].handle # h
      \/ \E i \in Slots : bufs[i].handle = h /\ bufs' = [bufs EXCEPT ![i] = EmptySlot]
  BY <1>1, Forgot
<1>3. Types'
  BY <1>1, <1>2 DEF IInv, Types, Works, Slotted
<1>4. \A u \in Threads, k \in Handles : Busy(u, k)' => Busy(u, k)
  BY <1>1, Forms DEF Busy, IInv, Types
<1>5. Owned' /\ Existing'
  BY <1>1, <1>4 DEF IInv, Owned, Existing
<1>6. \A i \in Slots : bufs'[i].handle # Null => bufs'[i] = bufs[i] /\ bufs[i].handle # h
  BY <1>1, <1>2, TableAssumption DEF IInv, Types, Single, EmptySlot
<1>7. Listed'
  <2> SUFFICES ASSUME NEW i \in Slots, NEW k \in Handles, bufs'[i].handle = k
               PROVE  /\ buffer[k] # Null /\ bufs'[i].geometry = buffer[k]
                      /\ \A u \in Threads : work'[u] # Recording(k) /\ work'[u] # Freeing(k)
    BY <1>1 DEF Listed
  <2>1. bufs'[i] = bufs[i] /\ k # h
    BY <1>6, TableAssumption
  <2> QED
    BY <1>1, <2>1, Forms DEF IInv, Types, Listed
<1>8. Single'
  BY <1>6 DEF IInv, Single
<1> QED
  BY <1>3, <1>5, <1>7, <1>8 DEF IInv

\* The vendor gets back a buffer that nobody knows.
LEMMA FreeKeeps ==
  ASSUME IInv, NEW t \in Threads, free_real(t)
  PROVE  IInv'
<1>1. PICK h \in Handles :
        /\ work[t] = Freeing(h) /\ work' = [work EXCEPT ![t] = Idle]
        /\ buffer' = [buffer EXCEPT ![h] = Null] /\ UNCHANGED <<bufs, returned>>
  BY FreeStep DEF IInv
<1>2. Types'
  BY <1>1 DEF IInv, Types, Works
<1>3. Busy(t, h) /\ h \notin returned /\ \A k \in Handles \ {h} : buffer'[k] = buffer[k]
  BY <1>1 DEF Busy, IInv, Types, Owned
<1>4. \A u \in Threads, k \in Handles : Busy(u, k)' => Busy(u, k) /\ u # t
  BY <1>1, Forms DEF Busy, IInv, Types
<1>5. Owned' /\ Existing'
  BY <1>1, <1>3, <1>4 DEF IInv, Types, Owned, Existing
<1>6. \A i \in Slots : bufs[i].handle # h
  BY <1>1 DEF IInv, Listed
<1>7. Listed'
  BY <1>1, <1>3, <1>6, Forms DEF IInv, Types, Listed
<1>8. Single'
  BY <1>1 DEF IInv, Single
<1> QED
  BY <1>2, <1>5, <1>7, <1>8 DEF IInv

\* The table and the threads stay as IInv says, whatever eink_gpu_alloc and
\* eink_gpu_free do on how many threads.
THEOREM Invariance == Spec => []IInv
<1>1. Init => IInv
  <2> SUFFICES ASSUME Init PROVE IInv
    OBVIOUS
  <2>1. Types
    BY DEF Init, Types, Works, Slotted
  <2>2. \A t \in Threads, h \in Handles : ~Busy(t, h)
    BY Forms DEF Init, Busy
  <2>3. Owned /\ Existing
    BY <2>2 DEF Init, Owned, Existing
  <2>4. Listed /\ Single
    BY TableAssumption DEF Init, Listed, Single, EmptySlot
  <2> QED
    BY <2>1, <2>3, <2>4 DEF IInv
<1>2. IInv /\ [Next]_vars => IInv'
  <2> SUFFICES ASSUME IInv, [Next]_vars PROVE IInv'
    OBVIOUS
  <2>1. CASE UNCHANGED vars
    BY <2>1 DEF vars, IInv, Types, Owned, Existing, Listed, Single, Busy
  <2>2. CASE Next
    BY <2>2, AllocStep, RecordKeeps, FreeCallKeeps, ForgetKeeps, FreeKeeps DEF Next
  <2> QED
    BY <2>1, <2>2
<1> QED
  BY <1>1, <1>2, PTL DEF Spec

\* eink_gralloc_query never answers with the geometry of another buffer.
THEOREM QueryIsTrue == Spec => []QueryTrue
<1>1. IInv => QueryTrue
  <2> SUFFICES ASSUME IInv PROVE QueryTrue
    OBVIOUS
  <2>1. ASSUME NEW h \in Handles, eink_gralloc_query(h) # Null
        PROVE  eink_gralloc_query(h) = buffer[h]
    <3>1. SlotsOf(h) # {} /\ eink_gralloc_query(h) = bufs[First(SlotsOf(h))].geometry
      BY <2>1 DEF eink_gralloc_query
    <3>2. First(SlotsOf(h)) \in SlotsOf(h)
      BY <3>1, FirstIn DEF SlotsOf
    <3> QED
      BY <3>1, <3>2 DEF IInv, Listed, SlotsOf
  <2> QED
    BY <2>1, TypesMeanTypeOK DEF IInv, QueryTrue
<1> QED
  BY <1>1, Invariance, PTL

------------------------------------------------------------------------------
(* What a step does to the buffers callers have.                            *)

\* A table without an empty slot holds MaxBufs buffers; with one more there
\* are more buffers than slots.
LEMMA Crowded ==
  ASSUME IInv, NEW h \in Handles, buffer[h] # Null,
         \A i \in Slots : bufs[i].handle # Null /\ bufs[i].handle # h
  PROVE  Cardinality({x \in Handles : buffer[x] # Null}) > MaxBufs
<1> DEFINE E == {x \in Handles : buffer[x] # Null}
           f == [i \in Slots |-> bufs[i].handle]
<1>1. IsFiniteSet(E) /\ h \in E
  BY FS_Subset, TableAssumption
<1>2. IsFiniteSet(E \ {h}) /\ Cardinality(E \ {h}) = Cardinality(E) - 1
  BY <1>1, FS_RemoveElement
<1>3. \A i \in Slots : bufs[i].handle \in E \ {h}
  BY SlotHolds DEF IInv, Listed
<1>4. f \in Injection(Slots, E \ {h})
  <2>1. f \in [Slots -> E \ {h}]
    BY <1>3
  <2>2. \A i, j \in Slots : f[i] = f[j] => i = j
    BY DEF IInv, Single
  <2> QED
    BY <2>1, <2>2, Fun_IsInj
<1>5. Cardinality(Slots) = MaxBufs
  BY FS_Interval, TableAssumption DEF Slots
<1>6. Cardinality(Slots) <= Cardinality(E \ {h})
  BY <1>2, <1>4, FS_Injection
<1>7. Cardinality(E) \in Nat
  BY <1>1, FS_CardinalityType
<1> QED
  BY <1>2, <1>5, <1>6, <1>7, TableAssumption

\* A record fills an empty slot, and finds none only when the table is full.
LEMMA RecordLosesNone ==
  ASSUME IInv, NEW t \in Threads, alloc_record(t)
  PROVE  LosesNone
<1>1. PICK h \in Handles :
        /\ work[t] = Recording(h) /\ eink_buf_record(h, buffer[h])
        /\ returned' = returned \cup {h}
  BY RecordStep DEF IInv
<1>2. buffer[h] # Null /\ buffer[h] \in Geometries /\ h # Null
  BY <1>1, TableAssumption DEF Busy, IInv, Types, Owned
<1>3. SlotsOf(h) = {}
  BY <1>1, <1>2, Recorded DEF IInv
<1>4. CASE bufs' = bufs /\ \A i \in Slots : bufs[i].handle # Null
  <2>1. Cardinality({x \in Handles : buffer[x] # Null}) > MaxBufs
    BY <1>2, <1>3, <1>4, Crowded DEF SlotsOf
  <2> QED
    BY <1>4, <2>1 DEF LosesNone, SlotsOf
<1>5. CASE \E i \in Slots : /\ bufs[i].handle = Null
                           /\ bufs' = [bufs EXCEPT ![i] = [handle |-> h, geometry |-> buffer[h]]]
  <2>1. PICK i \in Slots : /\ bufs[i].handle = Null
                           /\ bufs' = [bufs EXCEPT ![i] = [handle |-> h, geometry |-> buffer[h]]]
    BY Zenon, <1>5
  <2>2. bufs'[i].handle = h /\ \A j \in Slots \ {i} : bufs'[j] = bufs[j]
    BY <2>1 DEF IInv, Types
  <2>3. \A k \in Handles : SlotsOf(k) # {} => SlotsOf(k)' # {}
    BY <2>1, <2>2, TableAssumption DEF SlotsOf
  <2>4. SlotsOf(h)' # {}
    BY <2>2 DEF SlotsOf
  <2> QED
    BY <1>1, <2>3, <2>4 DEF LosesNone, IInv, Types
<1> QED
  BY <1>1, <1>2, <1>4, <1>5, Recorded DEF IInv

\* A buffer that is forgotten is no caller's any more.
LEMMA ForgetLosesNone ==
  ASSUME IInv, NEW t \in Threads, free_forget(t)
  PROVE  LosesNone
<1>1. PICK h \in Handles :
        work[t] = Forgetting(h) /\ eink_buf_forget(h) /\ UNCHANGED <<buffer, returned>>
  BY ForgetStep DEF IInv
<1>2. h \notin returned
  BY <1>1 DEF IInv, Owned, Busy
<1>3. \A k \in returned, i \in Slots : bufs[i].handle = k => bufs'[i].handle = k
  BY <1>1, <1>2, Forgot DEF IInv, Types
<1> QED
  BY <1>1, <1>3 DEF LosesNone, SlotsOf

\* A buffer the table knows stays known until eink_gpu_free is called for it,
\* and eink_buf_record leaves one out only when more buffers exist than slots.
THEOREM KnownStaysKnown == Spec => KnownUntilFreed
<1>1. IInv /\ [Next]_vars => [LosesNone]_vars
  <2> SUFFICES ASSUME IInv, Next PROVE LosesNone
    OBVIOUS
  <2>1. PICK t \in Threads :
          \/ \E h \in Handles, g \in Geometries : alloc_real(t, h, g)
          \/ alloc_record(t)
          \/ \E h \in Handles : eink_gpu_free(t, h)
          \/ free_forget(t)
          \/ free_real(t)
    BY DEF Next
  <2>2. CASE \E h \in Handles, g \in Geometries : alloc_real(t, h, g)
    BY <2>2 DEF alloc_real, LosesNone, SlotsOf
  <2>3. CASE \E h \in Handles : eink_gpu_free(t, h)
    BY <2>3 DEF eink_gpu_free, LosesNone, SlotsOf
  <2>4. CASE free_real(t)
    BY <2>4 DEF free_real, LosesNone, SlotsOf
  <2> QED
    BY <2>1, <2>2, <2>3, <2>4, RecordLosesNone, ForgetLosesNone
<1> QED
  BY <1>1, Invariance, PTL DEF Spec, KnownUntilFreed
==============================================================================
