---------------------------- MODULE BinderAlloc ----------------------------
(***************************************************************************)
(* The buffer allocator of the binder driver (patches/kernel/binder.c):    *)
(* the mapping of one process, cut into buffers that each begin with a     *)
(* struct binder_buffer, and the pages behind it.                          *)
(*                                                                         *)
(* Addresses are relative to proc->buffer.  The list proc->buffers is in   *)
(* address order, so it is the domain of buf; the size of a buffer is the  *)
(* distance to the next.  The tree free_buffers is searched for the        *)
(* smallest buffer that is large enough; among equals the shape of the     *)
(* tree decides, which is a free choice here.  A free buffer's size does   *)
(* not change while it is in the tree (Tiled), so the set stands for       *)
(* the tree.  Everything runs under binder_main_lock.                      *)
(***************************************************************************)
EXTENDS Integers, Sequences, FiniteSets, FiniteSetsExt, SequencesExt

CONSTANTS
  PageSize,       \* PAGE_SIZE
  Pages,          \* pages of the mapping
  HeaderSize,     \* sizeof(struct binder_buffer)
  Word,           \* sizeof(void *)
  SizeMax,        \* 2 ^ 32: size_t wraps here
  DataSizes,      \* the data sizes that requests ask for
  OffsetsSizes    \* the offsets sizes

ASSUME PageAssumption == PageSize \in Nat /\ Pages \in Nat /\ Pages > 0
ASSUME HeaderAssumption == HeaderSize \in 1 .. PageSize
ASSUME WordAssumption == Word \in Nat /\ Word > 0
ASSUME SizesAssumption ==
  SizeMax \in Nat \ {0} /\ DataSizes \cup OffsetsSizes \subseteq 0 .. SizeMax - 1
\* size_t holds a whole number of words, and binder_mmap cuts a mapping to 4 MB.
ASSUME MappingAssumption == SizeMax % Word = 0 /\ Pages * PageSize < SizeMax

VARIABLES
  buf,                \* the buffers by address; none before mmap
  page,               \* the pages that are present in proc->pages
  vma,                \* proc->vma is set
  free_async_space,
  bug                 \* BUG_ON()s and frees of absent pages that happened

vars == <<buf, page, vma, free_async_space, bug>>

buffer_size == Pages * PageSize

FreeBuffer == [free |-> TRUE, data_size |-> 0, offsets_size |-> 0, async |-> FALSE]

free_buffers == {a \in DOMAIN buf : buf[a].free}
allocated_buffers == {a \in DOMAIN buf : ~buf[a].free}

------------------------------------------------------------------------------
(* Addresses.                                                               *)

data(a) == a + HeaderSize

\* The buffer after a, or the end of the mapping.
next_buffer(B, a) == Min({b \in DOMAIN B : b > a} \cup {buffer_size})

binder_buffer_size(B, a) == next_buffer(B, a) - data(a)

\* ALIGN(n, sizeof(void *)) in size_t.
ALIGN(n) == (((n + Word - 1) % SizeMax) \div Word) * Word

request_size(data_size, offsets_size) == (ALIGN(data_size) + ALIGN(offsets_size)) % SizeMax

\* The size of an allocated buffer, as binder_free_buf computes it again.
size_of(B, a) == request_size(B[a].data_size, B[a].offsets_size)

\* The pages that lie in start .. end - 1 from the first page boundary on.
whole_pages(start, end) ==
  (start + PageSize - 1) \div PageSize .. (end \div PageSize) - 1

buffer_start_page(a) == a \div PageSize
buffer_end_page(a) == (data(a) - 1) \div PageSize

------------------------------------------------------------------------------
(* Allocation.                                                              *)

\* Where the buffer of the given size ends, with the header of the free buffer
\* behind it if there is room for one.
alloc_end(a, size, room) ==
  IF size = room \/ size + HeaderSize + 4 >= room
  THEN data(a) + size ELSE data(a) + size + HeaderSize

\* The pages binder_alloc_buf adds: up to the one the next buffer is on.
alloc_pages(a, size, room) ==
  LET has_page == (data(a) + room) \div PageSize
      end_page == (alloc_end(a, size, room) + PageSize - 1) \div PageSize
  IN  (data(a) + PageSize - 1) \div PageSize .. Min({has_page, end_page}) - 1

\* Variant: a free buffer is chosen that only just does not fit.
best_fit_short(size) ==
  {a \in free_buffers : binder_buffer_size(buf, a) + HeaderSize >= size}

\* The free buffers binder_alloc_buf may choose.
best_fit(size) ==
  LET fits == {a \in free_buffers : binder_buffer_size(buf, a) >= size} IN
  {a \in fits : \A b \in fits : binder_buffer_size(buf, a) <= binder_buffer_size(buf, b)}

\* The list with a free buffer at b.
add_buffer(B, b) == [a \in DOMAIN B \cup {b} |-> IF a = b THEN FreeBuffer ELSE B[a]]

\* The early returns of binder_alloc_buf are not taken.
CanAlloc(data_size, offsets_size, is_async) ==
  LET size == request_size(data_size, offsets_size) IN
  /\ vma
  /\ size >= data_size /\ size >= offsets_size
  /\ is_async => free_async_space >= (size + HeaderSize) % SizeMax

binder_alloc_buf(data_size, offsets_size, is_async) ==
  LET size == request_size(data_size, offsets_size) IN
  /\ CanAlloc(data_size, offsets_size, is_async)
  /\ \E a \in best_fit(size) :
       LET room == binder_buffer_size(buf, a)
           new == alloc_pages(a, size, room)
           split == alloc_end(a, size, room) # data(a) + size
           taken == [buf EXCEPT ![a] = [free |-> FALSE, data_size |-> data_size,
                                        offsets_size |-> offsets_size, async |-> is_async]]
       IN  /\ page' = page \cup new
           /\ bug' = IF new \cap page = {} THEN bug ELSE bug \cup {"page present"}
           /\ buf' = IF split THEN add_buffer(taken, data(a) + size) ELSE taken
  /\ free_async_space' = IF is_async THEN free_async_space - (size + HeaderSize)
                         ELSE free_async_space
  /\ UNCHANGED vma

\* alloc_page or a mapping fails at page k of the range: the pages up to it
\* are given up and the buffer stays free.
update_page_range_fails(data_size, offsets_size, is_async) ==
  LET size == request_size(data_size, offsets_size) IN
  /\ CanAlloc(data_size, offsets_size, is_async)
  /\ \E a \in best_fit(size) :
       LET new == alloc_pages(a, size, binder_buffer_size(buf, a)) IN
       \E k \in new : page' = page \ {p \in new : p <= k}
  /\ UNCHANGED <<buf, vma, free_async_space, bug>>

------------------------------------------------------------------------------
(* Freeing.                                                                 *)

\* Variant: the page is given up although the next buffer begins on it.
deleted_pages_next(B, b) ==
  IF buffer_end_page(Max({a \in DOMAIN B : a < b})) = buffer_start_page(b) THEN {}
  ELSE buffer_start_page(b) .. buffer_end_page(b)

\* The header pages binder_delete_free_buffer gives up when the buffer b is
\* merged into the one before it.
deleted_pages(B, b) ==
  LET prev == Max({a \in DOMAIN B : a < b})
      next == next_buffer(B, b)
      with_prev == buffer_end_page(prev) = buffer_start_page(b)
      with_next == next # buffer_size /\ buffer_start_page(next) = buffer_end_page(b)
      free_page_start == /\ ~with_prev
                         /\ with_next => buffer_start_page(next) # buffer_start_page(b)
      free_page_end == /\ ~with_next
                       /\ with_prev => buffer_end_page(prev) # buffer_end_page(b)
      first == IF free_page_start THEN buffer_start_page(b) ELSE buffer_end_page(b)
      last == IF free_page_end THEN buffer_end_page(b) ELSE buffer_start_page(b)
  IN  IF free_page_start \/ free_page_end THEN first .. last ELSE {}

\* The list without b.
delete_buffer(B, b) == [a \in DOMAIN B \ {b} |-> B[a]]

\* A state of the allocator while pages are given up.
give_up(m, pages) ==
  [m EXCEPT !.page = @ \ pages,
            !.bug = IF pages \subseteq m.page THEN @ ELSE @ \cup {"page absent"}]

\* binder_delete_free_buffer.
binder_delete_free_buffer(m, b) ==
  [give_up(m, deleted_pages(m.buf, b)) EXCEPT !.buf = delete_buffer(m.buf, b)]

\* The buffer after a, if it is free, is merged into a.
merge_next(m, a) ==
  LET next == next_buffer(m.buf, a) IN
  IF next # buffer_size /\ m.buf[next].free THEN binder_delete_free_buffer(m, next) ELSE m

\* Variant: buffers are merged forwards only.
merge_prev_never(m, a) == m

\* The buffer a is merged into the one before it, if that one is free.
merge_prev(m, a) ==
  LET before == {b \in DOMAIN m.buf : b < a} IN
  IF before # {} /\ m.buf[Max(before)].free THEN binder_delete_free_buffer(m, a) ELSE m

\* Variant: the space of a one-way transaction is not given back.
free_buf_async(m, a) ==
  merge_prev(
    merge_next([give_up(m, whole_pages(data(a), data(a) + binder_buffer_size(m.buf, a)))
                  EXCEPT !.buf[a] = FreeBuffer], a), a)

\* binder_free_buf on an allocator state.
free_buf(m, a) ==
  LET room == binder_buffer_size(m.buf, a)
      back == IF m.buf[a].async THEN size_of(m.buf, a) + HeaderSize ELSE 0
      checked == IF size_of(m.buf, a) > room THEN [m EXCEPT !.bug = @ \cup {"size"}] ELSE m
  IN  merge_prev(
        merge_next([give_up(checked, whole_pages(data(a), data(a) + room))
                      EXCEPT !.buf[a] = FreeBuffer, !.free_async_space = @ + back], a), a)

become(m) ==
  /\ buf' = m.buf /\ page' = m.page /\ bug' = m.bug
  /\ free_async_space' = m.free_async_space

allocator == [buf |-> buf, page |-> page, bug |-> bug, free_async_space |-> free_async_space]

\* binder_free_buf of the buffer binder_buffer_lookup finds.
binder_free_buf(a) ==
  /\ a \in allocated_buffers
  /\ become(free_buf(allocator, a))
  /\ UNCHANGED vma

------------------------------------------------------------------------------
(* Mapping and unmapping.                                                   *)

binder_mmap ==
  /\ DOMAIN buf = {}
  /\ buf' = [a \in {0} |-> FreeBuffer]
  /\ page' = {0}
  /\ vma' = TRUE
  /\ free_async_space' = buffer_size \div 2
  /\ UNCHANGED bug

binder_vma_close ==
  /\ vma
  /\ vma' = FALSE
  /\ UNCHANGED <<buf, page, free_async_space, bug>>

\* The allocated buffers in address order.
free_all == FoldLeft(free_buf, allocator, SetToSortSeq(allocated_buffers, <))

\* The end of binder_deferred_release: the allocated buffers, then whatever
\* pages are left.
release_buffers ==
  /\ ~vma /\ DOMAIN buf # {}
  /\ bug' = free_all.bug
  /\ buf' = << >>
  /\ page' = {}
  /\ free_async_space' = 0
  /\ UNCHANGED vma

Init ==
  /\ buf = << >> /\ page = {} /\ vma = FALSE /\ free_async_space = 0 /\ bug = {}

Next ==
  \/ binder_mmap \/ binder_vma_close \/ release_buffers
  \/ \E d \in DataSizes, o \in OffsetsSizes, is_async \in BOOLEAN :
       binder_alloc_buf(d, o, is_async) \/ update_page_range_fails(d, o, is_async)
  \/ \E a \in allocated_buffers : binder_free_buf(a)

Spec == Init /\ [][Next]_vars

------------------------------------------------------------------------------
(* Properties.                                                              *)

TypeOK ==
  /\ DOMAIN buf \subseteq 0 .. buffer_size - HeaderSize
  /\ \A a \in DOMAIN buf : /\ buf[a].free \in BOOLEAN /\ buf[a].async \in BOOLEAN
                            /\ buf[a].data_size \in Nat /\ buf[a].offsets_size \in Nat
  /\ page \subseteq 0 .. Pages - 1
  /\ vma \in BOOLEAN /\ free_async_space \in Nat

\* The buffers tile the mapping: headers do not overlap, and an allocated
\* buffer has room for the data and offsets it was asked for, however it was
\* split off and whatever was merged around it.  No two free buffers are
\* neighbours: binder_free_buf merges in both directions, so the size of a
\* buffer in free_buffers, by which the tree is ordered, never changes.
Tiled ==
  /\ TypeOK
  /\ DOMAIN buf # {} => 0 \in DOMAIN buf
  /\ \A a \in DOMAIN buf : 
       binder_buffer_size(buf, a) >= buf[a].data_size + buf[a].offsets_size
  /\ \A a \in free_buffers : LET next == next_buffer(buf, a) IN
       next # buffer_size => ~buf[next].free

\* A page is present exactly if a header or the data of an allocated buffer is
\* on it: nothing that is used is unmapped, nothing that is unused stays, and
\* no BUG_ON fires because a page is added twice or given up twice.
PagesExact ==
  /\ page = UNION {IF buf[a].free THEN buffer_start_page(a) .. buffer_end_page(a)
                   ELSE buffer_start_page(a) .. (data(a) + size_of(buf, a) - 1) \div PageSize
                   : a \in DOMAIN buf}
  /\ bug = {}

\* One-way transactions never hold more than half of the mapping, and what
\* they hold is given back exactly.
AsyncExact ==
  DOMAIN buf # {} =>
    free_async_space + MapThenSumSet(LAMBDA a : IF buf[a].async
                                                THEN size_of(buf, a) + HeaderSize ELSE 0,
                                     DOMAIN buf)
      = buffer_size \div 2

\* The allocator is a pool of ranges that belong to one holder each.
Pool == INSTANCE BufferPool WITH
          PoolSize <- buffer_size,
          held <- {<<a, HeaderSize + size_of(buf, a)>> : a \in allocated_buffers}
IsPool == Pool!Spec

=============================================================================
