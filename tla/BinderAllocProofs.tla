-------------------------- MODULE BinderAllocProofs --------------------------
(***************************************************************************)
(* The buffer allocator implements BufferPool, for every size of the       *)
(* mapping, of pages and headers, and of requests.                         *)
(*                                                                         *)
(* The refinement needs one invariant: a buffer that is handed out ends    *)
(* before any other buffer begins, allocated or free, and inside the       *)
(* mapping (Disjoint).  The free ones count because a later request may be *)
(* placed there; the pages, the one-way quota and the order of merging do  *)
(* not matter to it.                                                       *)
(*                                                                         *)
(* Tiled needs more, as merging looks at the neighbours (Laid): there is a *)
(* buffer at the start, headers do not overlap, an allocated buffer has    *)
(* room for what it was asked for, and between two free ones there is an   *)
(* allocated one.                                                          *)
(***************************************************************************)
EXTENDS BinderAlloc, WellFoundedInduction, TLAPS

Out(B) == {a \in DOMAIN B : ~B[a].free}

Extent(B, a) == HeaderSize + size_of(B, a)

HeldBy(B) == {<<a, Extent(B, a)>> : a \in Out(B)}

Disjoint(B) ==
  /\ DOMAIN B \subseteq Nat
  /\ \A a \in Out(B) :
       /\ Extent(B, a) \in Nat \ {0} /\ a + Extent(B, a) <= buffer_size
       /\ \A b \in DOMAIN B : b > a => a + Extent(B, a) <= b

IInv == Disjoint(buf)

\* m is an allocator's state.
IsState(m) == DOMAIN m = {"buf", "page", "bug", "free_async_space"}

------------------------------------------------------------------------------
(* Sizes and addresses.                                                     *)

Less == {p \in Nat \X Nat : p[1] < p[2]}

\* A set of addresses has a first one.
LEMMA MinIn ==
  ASSUME NEW S \in SUBSET Nat, S # {}
  PROVE  Min(S) \in S /\ \A j \in S : Min(S) <= j
<1>1. IsWellFoundedOn(Less, Nat)
  BY NatLessThanWellFounded DEF OpToRel, Less
<1>2. PICK i \in S : \A j \in S : ~ (<<j, i>> \in Less)
  BY <1>1, WFMin, Zenon
<1>3. ASSUME NEW j \in S PROVE i <= j
  <2>1. i \in Nat /\ j \in Nat /\ <<j, i>> \in Nat \X Nat
    OBVIOUS
  <2>2. <<j, i>>[1] = j /\ <<j, i>>[2] = i
    OBVIOUS
  <2>3. ~ (<<j, i>>[1] < <<j, i>>[2])
    BY <1>2, <2>1, Zenon DEF Less
  <2> QED
    BY <2>1, <2>2, <2>3
<1> QED
  BY Zenon, <1>3 DEF Min

\* A set of addresses below another one has a last one.
LEMMA MaxIn ==
  ASSUME NEW S \in SUBSET Nat, S # {}, NEW a \in Nat, \A s \in S : s < a
  PROVE  Max(S) \in S /\ \A j \in S : j <= Max(S)
<1> DEFINE T == {a - s : s \in S}
<1>1. T \in SUBSET Nat /\ T # {}
  <2>1. \A s \in S : a - s \in Nat
    OBVIOUS
  <2>2. PICK s \in S : TRUE
    BY Zenon
  <2>3. a - s \in T
    BY <2>2, Zenon
  <2> QED
    BY <2>1, <2>3, Zenon
<1>2. Min(T) \in T /\ \A j \in T : Min(T) <= j
  BY Zenon, <1>1, MinIn
<1>3. PICK i \in S : Min(T) = a - i
  BY <1>2
<1>4. ASSUME NEW j \in S PROVE j <= i
  <2>1. a - j \in T
    OBVIOUS
  <2>2. a - i <= a - j
    BY <1>2, <1>3, <2>1, Zenon
  <2> QED
    BY <2>2
<1> QED
  BY Zenon, <1>4 DEF Max

LEMMA BufferSizeNat == buffer_size \in Nat
  BY PageAssumption DEF buffer_size

\* The next buffer begins after a, and no buffer lies in between.
LEMMA NextBuffer ==
  ASSUME NEW B, DOMAIN B \subseteq Nat, NEW a \in DOMAIN B
  PROVE  LET n == next_buffer(B, a) IN
         /\ n \in Nat /\ n <= buffer_size /\ \A b \in DOMAIN B : b > a => n <= b
         /\ n # buffer_size => n \in DOMAIN B /\ n > a
<1> DEFINE S == {b \in DOMAIN B : b > a} \cup {buffer_size}
<1>1. S \in SUBSET Nat /\ S # {}
  BY BufferSizeNat
<1>2. Min(S) \in S /\ \A j \in S : Min(S) <= j
  BY <1>1, MinIn
<1>3. next_buffer(B, a) = Min(S)
  BY DEF next_buffer
<1> QED
  BY <1>1, <1>2, <1>3

\* A request that wraps still has a size in size_t.
LEMMA RequestSizeNat ==
  ASSUME NEW d \in DataSizes, NEW o \in OffsetsSizes
  PROVE  request_size(d, o) \in Nat
<1>1. d \in Int /\ o \in Int /\ SizeMax \in Nat /\ SizeMax > 0
  BY SizesAssumption
<1>2. ASSUME NEW n \in Int PROVE ALIGN(n) \in Int
  <2>1. (n + Word - 1) % SizeMax \in Int
    BY <1>1, <1>2, WordAssumption
  <2> QED
    BY <2>1, WordAssumption DEF ALIGN
<1>3. ALIGN(d) + ALIGN(o) \in Int
  BY <1>1, <1>2
<1> HIDE DEF ALIGN
<1> QED
  BY <1>1, <1>3 DEF request_size

------------------------------------------------------------------------------
(* Freeing.                                                                 *)

\* Giving up pages leaves the buffers alone.
LEMMA GiveUp ==
  ASSUME NEW m, IsState(m), NEW pages
  PROVE  LET u == give_up(m, pages) IN
         /\ IsState(u) /\ u.buf = m.buf /\ u.free_async_space = m.free_async_space
         /\ u.page \subseteq m.page
<1> DEFINE p == m.page \ pages
           g == IF pages \subseteq m.page THEN m.bug ELSE m.bug \cup {"page absent"}
<1>1. give_up(m, pages) = [m EXCEPT !.page = p, !.bug = g]
  BY DEF give_up
<1>2. p \subseteq m.page
  OBVIOUS
<1> HIDE DEF p, g
<1>3. LET u == [m EXCEPT !.page = p, !.bug = g] IN
      IsState(u) /\ u.buf = m.buf /\ u.free_async_space = m.free_async_space /\ u.page = p
  BY DEF IsState
<1> QED
  BY <1>1, <1>2, <1>3

LEMMA Deleted ==
  ASSUME NEW m, IsState(m), NEW b
  PROVE  LET u == binder_delete_free_buffer(m, b) IN
         /\ IsState(u) /\ u.buf = delete_buffer(m.buf, b)
         /\ u.free_async_space = m.free_async_space /\ u.page \subseteq m.page
<1> DEFINE up == give_up(m, deleted_pages(m.buf, b))
           c == delete_buffer(m.buf, b)
<1>1. binder_delete_free_buffer(m, b) = [up EXCEPT !.buf = c]
  BY DEF binder_delete_free_buffer
<1>2. IsState(up) /\ up.free_async_space = m.free_async_space /\ up.page \subseteq m.page
  BY GiveUp, Zenon
<1> HIDE DEF up, c
<1>3. LET u == [up EXCEPT !.buf = c] IN
      IsState(u) /\ u.buf = c /\ u.free_async_space = up.free_async_space /\ u.page = up.page
  BY <1>2 DEF IsState
<1> QED
  BY <1>1, <1>2, <1>3, Zenon DEF c

\* The buffer after a is free; the one before it is.
GoneNext(B, a) == next_buffer(B, a) # buffer_size /\ B[next_buffer(B, a)].free

Before(B, a) == {b \in DOMAIN B : b < a}

GonePrev(B, a) == Before(B, a) # {} /\ B[Max(Before(B, a))].free

LEMMA MergeNext ==
  ASSUME NEW m, IsState(m), NEW a
  PROVE  LET u == merge_next(m, a) IN
         /\ IsState(u) /\ u.free_async_space = m.free_async_space /\ u.page \subseteq m.page
         /\ IF GoneNext(m.buf, a) THEN u.buf = delete_buffer(m.buf, next_buffer(m.buf, a))
            ELSE u.buf = m.buf
<1>1. CASE GoneNext(m.buf, a)
  <2>1. merge_next(m, a) = binder_delete_free_buffer(m, next_buffer(m.buf, a))
    BY <1>1, Zenon DEF merge_next, GoneNext
  <2> QED
    BY <1>1, <2>1, Deleted, Zenon
<1>2. CASE ~GoneNext(m.buf, a)
  <2>1. merge_next(m, a) = m
    BY <1>2, Zenon DEF merge_next, GoneNext
  <2> QED
    BY <1>2, <2>1, Zenon
<1> QED
  BY <1>1, <1>2

LEMMA MergePrev ==
  ASSUME NEW m, IsState(m), NEW a
  PROVE  LET u == merge_prev(m, a) IN
         /\ IsState(u) /\ u.free_async_space = m.free_async_space /\ u.page \subseteq m.page
         /\ IF GonePrev(m.buf, a) THEN u.buf = delete_buffer(m.buf, a) ELSE u.buf = m.buf
<1>1. CASE GonePrev(m.buf, a)
  <2>1. merge_prev(m, a) = binder_delete_free_buffer(m, a)
    BY <1>1, Zenon DEF merge_prev, GonePrev, Before
  <2> QED
    BY <1>1, <2>1, Deleted, Zenon
<1>2. CASE ~GonePrev(m.buf, a)
  <2>1. merge_prev(m, a) = m
    BY <1>2, Zenon DEF merge_prev, GonePrev, Before
  <2> QED
    BY <1>2, <2>1, Zenon
<1> QED
  BY <1>1, <1>2

\* C is B after a has been made free and merged with the free buffers beside it.
Merged(B, C, a) ==
  /\ DOMAIN C = {x \in DOMAIN B : /\ ~(x = next_buffer(B, a) /\ GoneNext(B, a))
                                  /\ ~(x = a /\ GonePrev(B, a))}
  /\ a \in DOMAIN C => C[a] = FreeBuffer
  /\ \A x \in DOMAIN C \ {a} : C[x] = B[x]

\* The tests of the two merges are about the buffers as they were before.
LEMMA MergedTwice ==
  ASSUME NEW B, DOMAIN B \subseteq Nat, NEW a \in DOMAIN B, NEW F, NEW N, NEW C,
         F = [B EXCEPT ![a] = FreeBuffer],
         IF GoneNext(F, a) THEN N = delete_buffer(F, next_buffer(F, a)) ELSE N = F,
         IF GonePrev(N, a) THEN C = delete_buffer(N, a) ELSE C = N
  PROVE  Merged(B, C, a)
<1> DEFINE n == next_buffer(B, a)
<1>1. /\ n \in Nat /\ \A b \in DOMAIN B : b > a => n <= b
      /\ n # buffer_size => n \in DOMAIN B /\ n > a
  BY NextBuffer
<1>2. /\ DOMAIN F = DOMAIN B /\ F[a] = FreeBuffer /\ a \in Nat
      /\ \A x \in DOMAIN B \ {a} : F[x] = B[x]
  OBVIOUS
<1>3. next_buffer(F, a) = n
  BY <1>2, Zenon DEF next_buffer
<1>4. GoneNext(F, a) <=> GoneNext(B, a)
  <2>1. n # buffer_size => F[n] = B[n]
    BY <1>1, <1>2
  <2> HIDE DEF n
  <2> QED
    BY <1>3, <2>1, Zenon DEF GoneNext, n
<1> HIDE DEF n
<1>5. /\ DOMAIN N = {x \in DOMAIN B : ~(x = n /\ GoneNext(B, a))}
      /\ \A x \in DOMAIN N : N[x] = F[x]
  <2>1. CASE GoneNext(B, a)
    <3>1. N = delete_buffer(F, n)
      BY <1>3, <1>4, <2>1, Zenon
    <3> QED
      BY <1>2, <2>1, <3>1 DEF delete_buffer
  <2>2. CASE ~GoneNext(B, a)
    <3>1. N = F
      BY <1>4, <2>2, Zenon
    <3> QED
      BY <1>2, <2>2, <3>1
  <2> QED
    BY <2>1, <2>2
<1>6. GoneNext(B, a) => n > a /\ n # a
  BY <1>1, <1>2 DEF GoneNext, n
<1>7. Before(N, a) = Before(B, a)
  <2>1. ASSUME NEW b \in DOMAIN B, b < a PROVE b \in DOMAIN N
    BY <1>1, <1>2, <1>5, <1>6, <2>1
  <2> QED
    BY <1>5, <2>1, Zenon DEF Before
<1>8. GonePrev(N, a) <=> GonePrev(B, a)
  <2>1. ASSUME Before(B, a) # {} PROVE N[Max(Before(B, a))] = B[Max(Before(B, a))]
    <3>1. Before(B, a) \in SUBSET Nat /\ \A s \in Before(B, a) : s < a
      BY DEF Before
    <3>2. Max(Before(B, a)) \in Before(B, a)
      BY <1>2, <2>1, <3>1, MaxIn, Zenon
    <3>3. Max(Before(B, a)) \in DOMAIN N /\ Max(Before(B, a)) \in DOMAIN B \ {a}
      BY <1>2, <1>7, <3>1, <3>2 DEF Before
    <3> QED
      BY <1>2, <1>5, <3>3, Zenon
  <2> QED
    BY <1>7, <2>1, Zenon DEF GonePrev
<1>9. CASE GonePrev(B, a)
  <2>1. C = delete_buffer(N, a)
    BY <1>8, <1>9, Zenon
  <2>2. DOMAIN C = DOMAIN N \ {a} /\ \A x \in DOMAIN C : C[x] = N[x]
    BY <2>1 DEF delete_buffer
  <2> QED
    BY <1>2, <1>5, <1>9, <2>2 DEF Merged, n
<1>10. CASE ~GonePrev(B, a)
  <2>1. C = N
    BY <1>8, <1>10, Zenon
  <2> QED
    BY <1>2, <1>5, <1>10, <2>1 DEF Merged, n
<1> QED
  BY <1>9, <1>10

\* What a one-way buffer gives back.
Back(B, a) == IF B[a].async THEN size_of(B, a) + HeaderSize ELSE 0

\* binder_free_buf makes a free and merges it.
LEMMA FreeBuf ==
  ASSUME NEW m, IsState(m), DOMAIN m.buf \subseteq Nat, NEW a \in DOMAIN m.buf
  PROVE  LET f == free_buf(m, a) IN
         /\ Merged(m.buf, f.buf, a) /\ f.page \subseteq m.page
         /\ f.free_async_space = m.free_async_space + Back(m.buf, a)
<1> DEFINE room == binder_buffer_size(m.buf, a)
           back == IF m.buf[a].async THEN size_of(m.buf, a) + HeaderSize ELSE 0
           checked == IF size_of(m.buf, a) > room THEN [m EXCEPT !.bug = @ \cup {"size"}] ELSE m
           up == give_up(checked, whole_pages(data(a), data(a) + room))
           space == up.free_async_space + back
           freed == [up EXCEPT !.buf[a] = FreeBuffer, !.free_async_space = space]
           next == merge_next(freed, a)
<1>1. free_buf(m, a) = merge_prev(next, a)
  BY DEF free_buf
<1>2. /\ IsState(checked) /\ checked.buf = m.buf /\ checked.page = m.page
      /\ checked.free_async_space = m.free_async_space
  BY DEF IsState
<1> HIDE DEF checked
<1>3. /\ IsState(up) /\ up.buf = m.buf /\ up.page \subseteq m.page
      /\ up.free_async_space = m.free_async_space
  BY <1>2, GiveUp, Zenon
<1>4. space = m.free_async_space + Back(m.buf, a)
  BY <1>3, Zenon DEF Back
<1> HIDE DEF up, back, space
<1>5. /\ IsState(freed) /\ freed.buf = [m.buf EXCEPT ![a] = FreeBuffer] /\ freed.page = up.page
      /\ freed.free_async_space = space
  BY <1>3 DEF IsState
<1> HIDE DEF freed
<1>6. /\ IsState(next) /\ next.free_async_space = space /\ next.page \subseteq m.page
      /\ IF GoneNext(freed.buf, a) THEN next.buf = delete_buffer(freed.buf, next_buffer(freed.buf, a))
         ELSE next.buf = freed.buf
  BY Zenon, <1>3, <1>5, MergeNext
<1> HIDE DEF next
<1> DEFINE f == merge_prev(next, a)
<1>7. /\ f.free_async_space = space /\ f.page \subseteq m.page
      /\ IF GonePrev(next.buf, a) THEN f.buf = delete_buffer(next.buf, a) ELSE f.buf = next.buf
  BY Zenon, <1>6, MergePrev
<1> HIDE DEF f
<1>8. Merged(m.buf, f.buf, a)
  BY Zenon, <1>5, <1>6, <1>7, MergedTwice
<1> QED
  BY <1>1, <1>4, <1>7, <1>8, Zenon DEF f

\* Fewer buffers, or buffers made free, are as far apart as before.
LEMMA ShrinkKeeps ==
  ASSUME NEW B, NEW C, NEW a, Disjoint(B), DOMAIN C \subseteq DOMAIN B,
         a \in DOMAIN C => C[a] = FreeBuffer,
         \A x \in DOMAIN C \ {a} : C[x] = B[x]
  PROVE  Disjoint(C)
<1>1. \A x \in Out(C) : x \in Out(B) /\ Extent(C, x) = Extent(B, x)
  BY DEF Out, Extent, size_of, FreeBuffer
<1> QED
  BY <1>1 DEF Disjoint, Out

\* binder_free_buf gives back one range.
LEMMA FreeStep ==
  ASSUME IInv, NEW a \in allocated_buffers, binder_free_buf(a)
  PROVE  /\ IInv'
         /\ <<a, Extent(buf, a)>> \in HeldBy(buf)
         /\ HeldBy(buf') = HeldBy(buf) \ {<<a, Extent(buf, a)>>}
<1>1. IsState(allocator) /\ allocator.buf = buf /\ a \in DOMAIN buf /\ a \in Out(buf)
  BY DEF IsState, allocator, allocated_buffers, Out
<1>2. buf' = free_buf(allocator, a).buf
  BY DEF binder_free_buf, become
<1>3. /\ DOMAIN buf' \subseteq DOMAIN buf
      /\ a \in DOMAIN buf' => buf'[a] = FreeBuffer
      /\ \A x \in DOMAIN buf' \ {a} : buf'[x] = buf[x]
      /\ \A x \in DOMAIN buf \ {a} : ~buf[x].free => x \in DOMAIN buf'
  <2>1. DOMAIN buf \subseteq Nat
    BY DEF IInv, Disjoint
  <2>2. Merged(buf, buf', a)
    BY <1>1, <1>2, <2>1, FreeBuf, Zenon
  <2> QED
    BY <2>2 DEF Merged, GoneNext
<1>4. IInv'
  BY <1>3, ShrinkKeeps DEF IInv
<1>5. Out(buf') = Out(buf) \ {a}
  BY <1>3 DEF Out, FreeBuffer
<1>6. \A x \in Out(buf') : Extent(buf', x) = Extent(buf, x)
  BY <1>3, <1>5 DEF Out, Extent, size_of
<1> QED
  BY <1>1, <1>4, <1>5, <1>6 DEF HeldBy

------------------------------------------------------------------------------
(* Allocating.                                                              *)

\* A buffer taken out of the free one at a, with or without a free rest behind
\* it, is apart from all others.
LEMMA PlaceKeeps ==
  ASSUME NEW B, NEW C, Disjoint(B), NEW a \in DOMAIN B, B[a].free,
         NEW size \in Nat, a + HeaderSize + size <= next_buffer(B, a),
         ~C[a].free, size_of(C, a) = size,
         \/ DOMAIN C = DOMAIN B
         \/ DOMAIN C = DOMAIN B \cup {a + HeaderSize + size}
            /\ a + HeaderSize + size < next_buffer(B, a) /\ C[a + HeaderSize + size] = FreeBuffer,
         \A x \in DOMAIN B \ {a} : C[x] = B[x]
  PROVE  /\ Disjoint(C)
         /\ Out(C) = Out(B) \cup {a} /\ a \notin Out(B)
         /\ \A x \in Out(B) : Extent(C, x) = Extent(B, x)
         /\ Extent(C, a) = HeaderSize + size
<1> DEFINE n == a + HeaderSize + size
<1>1. HeaderSize \in Nat /\ HeaderSize > 0 /\ buffer_size \in Nat
  BY HeaderAssumption, PageAssumption, BufferSizeNat
<1>2. /\ next_buffer(B, a) \in Nat /\ next_buffer(B, a) <= buffer_size
      /\ \A b \in DOMAIN B : b > a => next_buffer(B, a) <= b
  BY NextBuffer DEF Disjoint
<1>3. DOMAIN B \subseteq Nat /\ a \in Nat /\ n \in Nat /\ n > a
  BY <1>1 DEF Disjoint
<1>4. n \in DOMAIN C => n \notin DOMAIN B \/ DOMAIN C = DOMAIN B
  BY <1>2, <1>3
<1>5. a \notin Out(B)
  BY DEF Out
<1>6. Out(C) = Out(B) \cup {a}
  <2>1. CASE DOMAIN C = DOMAIN B
    BY <2>1 DEF Out
  <2>2. CASE /\ DOMAIN C = DOMAIN B \cup {n} /\ n < next_buffer(B, a) /\ C[n] = FreeBuffer
    <3>1. n \notin DOMAIN B
      BY <1>2, <1>3, <2>2
    <3>2. C[n].free
      BY <2>2 DEF FreeBuffer
    <3> QED
      BY <1>3, <2>2, <3>1, <3>2 DEF Out
  <2> QED
    BY <2>1, <2>2
<1>7. \A x \in Out(B) : Extent(C, x) = Extent(B, x)
  BY <1>5 DEF Out, Extent, size_of
<1>8. Extent(C, a) = HeaderSize + size
  BY DEF Extent
<1>9. \A b \in DOMAIN C : b \in DOMAIN B \/ b = n
  OBVIOUS
<1>10. DOMAIN C \subseteq Nat
  BY <1>3, <1>9
<1>11. ASSUME NEW x \in Out(B)
       PROVE  /\ Extent(C, x) \in Nat \ {0} /\ x + Extent(C, x) <= buffer_size
              /\ \A b \in DOMAIN C : b > x => x + Extent(C, x) <= b
  <2>1. /\ x \in Nat /\ x # a /\ Extent(B, x) \in Nat \ {0} /\ x + Extent(B, x) <= buffer_size
        /\ \A b \in DOMAIN B : b > x => x + Extent(B, x) <= b
    BY <1>3, <1>5 DEF Disjoint, Out
  <2>2. ASSUME n \in DOMAIN C, n \notin DOMAIN B, n > x PROVE x + Extent(B, x) <= n
    <3>1. CASE x < a
      BY <1>3, <2>1, <3>1
    <3>2. CASE x > a
      <4>1. x \in DOMAIN B /\ next_buffer(B, a) <= x
        BY <1>2, <3>2 DEF Out
      <4> QED
        BY <1>2, <1>3, <2>1, <2>2, <4>1
    <3> QED
      BY <1>3, <2>1, <3>1, <3>2
  <2> HIDE DEF n
  <2> QED
    BY <1>7, <1>9, <2>1, <2>2
<1>12. /\ Extent(C, a) \in Nat \ {0} /\ a + Extent(C, a) <= buffer_size
       /\ \A b \in DOMAIN C : b > a => a + Extent(C, a) <= b
  <2>1. a + Extent(C, a) = n /\ n <= next_buffer(B, a)
    BY <1>1, <1>3, <1>8
  <2> HIDE DEF n
  <2> QED
    BY <1>1, <1>2, <1>3, <1>8, <1>9, <2>1
<1> QED
  BY <1>5, <1>6, <1>7, <1>8, <1>10, <1>11, <1>12 DEF Disjoint

\* C is B with the free buffer at a cut to the given size and allocated.
Placed(B, C, a, size) ==
  LET n == a + HeaderSize + size IN
  /\ a \in DOMAIN B /\ B[a].free /\ n <= next_buffer(B, a)
  /\ \/ DOMAIN C = DOMAIN B
     \/ /\ DOMAIN C = DOMAIN B \cup {n} /\ C[n] = FreeBuffer
        /\ n + HeaderSize < next_buffer(B, a)
  /\ ~C[a].free /\ size_of(C, a) = size
  /\ \A x \in DOMAIN B \ {a} : C[x] = B[x]

\* The header of a buffer handed out.
Request(d, o, is_async) ==
  [free |-> FALSE, data_size |-> d, offsets_size |-> o, async |-> is_async]

\* binder_alloc_buf hands out one range that nobody has.
LEMMA AllocStep ==
  ASSUME IInv, NEW d \in DataSizes, NEW o \in OffsetsSizes, NEW is_async \in BOOLEAN,
         binder_alloc_buf(d, o, is_async)
  PROVE  \E a \in DOMAIN buf :
           /\ Disjoint(buf')
           /\ Out(buf') = Out(buf) \cup {a} /\ a \notin Out(buf)
           /\ \A x \in Out(buf) : Extent(buf', x) = Extent(buf, x)
           /\ Placed(buf, buf', a, request_size(d, o))
           /\ buf'[a] = Request(d, o, is_async)
           /\ page' = page \cup alloc_pages(a, request_size(d, o), binder_buffer_size(buf, a))
<1> DEFINE size == request_size(d, o)
           rec == Request(d, o, is_async)
<1>1. size \in Nat
  BY RequestSizeNat
<1>2. PICK a \in best_fit(size) :
        LET room == binder_buffer_size(buf, a)
            split == alloc_end(a, size, room) # data(a) + size
            taken == [buf EXCEPT ![a] = rec]
        IN  /\ buf' = IF split THEN add_buffer(taken, data(a) + size) ELSE taken
            /\ page' = page \cup alloc_pages(a, size, room)
  BY Zenon DEF binder_alloc_buf, Request
<1> DEFINE room == binder_buffer_size(buf, a)
           n == a + HeaderSize + size
           taken == [buf EXCEPT ![a] = rec]
<1>3. a \in DOMAIN buf /\ buf[a].free /\ room >= size
  BY DEF best_fit, free_buffers
<1>4. /\ HeaderSize \in Nat /\ HeaderSize > 0 /\ a \in Nat /\ next_buffer(buf, a) \in Nat
      /\ room = next_buffer(buf, a) - (a + HeaderSize)
      /\ \A b \in DOMAIN buf : b > a => next_buffer(buf, a) <= b
  BY <1>3, HeaderAssumption, PageAssumption, NextBuffer
     DEF IInv, Disjoint, binder_buffer_size, data
<1>5. n <= next_buffer(buf, a) /\ n > a
  BY <1>1, <1>3, <1>4
<1>6. /\ ~taken[a].free /\ taken[a].data_size = d /\ taken[a].offsets_size = o
      /\ taken[a] = rec /\ DOMAIN taken = DOMAIN buf
      /\ \A x \in DOMAIN buf \ {a} : taken[x] = buf[x]
  <2>1. ~rec.free /\ rec.data_size = d /\ rec.offsets_size = o
    BY DEF Request
  <2> HIDE DEF rec
  <2> QED
    BY <1>3, <2>1
<1>7. \/ buf' = taken
      \/ buf' = add_buffer(taken, n) /\ n + HeaderSize < next_buffer(buf, a)
  <2>1. data(a) + size = n
    BY DEF data
  <2>2. alloc_end(a, size, room) # data(a) + size => n + HeaderSize < next_buffer(buf, a)
    BY <1>1, <1>3, <1>4 DEF alloc_end, data
  <2> QED
    BY <1>2, <2>1, <2>2
<1> HIDE DEF size, taken, room, n
<1>8. /\ \/ DOMAIN buf' = DOMAIN buf
         \/ /\ DOMAIN buf' = DOMAIN buf \cup {n} /\ buf'[n] = FreeBuffer
            /\ n + HeaderSize < next_buffer(buf, a)
      /\ \A x \in DOMAIN buf : buf'[x] = taken[x]
  <2>1. CASE buf' = taken
    BY <1>6, <2>1
  <2>2. CASE buf' = add_buffer(taken, n) /\ n + HeaderSize < next_buffer(buf, a)
    <3>1. n \notin DOMAIN buf
      BY <1>1, <1>4, <1>5, <2>2 DEF n
    <3> QED
      BY <1>6, <2>2, <3>1 DEF add_buffer
  <2> QED
    BY <1>7, <2>1, <2>2
<1>9. /\ ~buf'[a].free /\ size_of(buf', a) = size /\ buf'[a] = rec
      /\ \A x \in DOMAIN buf \ {a} : buf'[x] = buf[x]
  BY <1>3, <1>6, <1>8 DEF size_of, size
<1>10. Disjoint(buf)
  BY DEF IInv
<1>11. n + HeaderSize < next_buffer(buf, a) => n < next_buffer(buf, a)
  BY <1>1, <1>4, <1>5 DEF n
<1>12. /\ Disjoint(buf')
       /\ Out(buf') = Out(buf) \cup {a} /\ a \notin Out(buf)
       /\ \A x \in Out(buf) : Extent(buf', x) = Extent(buf, x)
  BY ZenonT(30), <1>1, <1>3, <1>5, <1>8, <1>9, <1>10, <1>11, PlaceKeeps DEF n
<1>13. Placed(buf, buf', a, size)
  BY <1>3, <1>5, <1>8, <1>9, Zenon DEF Placed, n
<1>14. page' = page \cup alloc_pages(a, size, room)
  BY <1>2, Zenon DEF room
<1> QED
  BY <1>3, <1>9, <1>12, <1>13, <1>14, Zenon DEF size, room

------------------------------------------------------------------------------
(* The refinement.                                                          *)

\* No step of the allocator lets a buffer reach into the next one.
THEOREM Invariance == Spec => []IInv
<1>1. Init => IInv
  BY DEF Init, IInv, Disjoint, Out
<1>2. IInv /\ [Next]_vars => IInv'
  <2> SUFFICES ASSUME IInv, [Next]_vars PROVE IInv'
    OBVIOUS
  <2>1. CASE buf' = buf
    BY <2>1 DEF IInv
  <2>2. CASE binder_mmap
    BY <2>2 DEF binder_mmap, IInv, Disjoint, Out, FreeBuffer
  <2>3. CASE release_buffers
    BY <2>3 DEF release_buffers, IInv, Disjoint, Out
  <2>4. ASSUME NEW d \in DataSizes, NEW o \in OffsetsSizes, NEW is_async \in BOOLEAN,
               binder_alloc_buf(d, o, is_async)
        PROVE  IInv'
    BY <2>4, AllocStep DEF IInv
  <2>5. ASSUME NEW a \in allocated_buffers, binder_free_buf(a)
        PROVE  IInv'
    BY Zenon, <2>5, FreeStep
  <2> QED
    BY <2>1, <2>2, <2>3, <2>4, <2>5 DEF Next, vars, binder_vma_close, update_page_range_fails
<1> QED
  BY <1>1, <1>2, PTL DEF Spec

\* binder_alloc_buf and binder_free_buf implement a pool of ranges: one is
\* handed out only where nobody has another, and is neither moved nor resized
\* until it is given back.
THEOREM ImplementsPool == Spec => IsPool
<1> DEFINE held == {<<a, HeaderSize + size_of(buf, a)>> : a \in allocated_buffers}
<1>1. Init => Pool!Init
  BY DEF Init, Pool!Init, allocated_buffers
<1>2. IInv /\ [Next]_vars => [Pool!Next]_held
  <2> SUFFICES ASSUME IInv, [Next]_vars PROVE Pool!Next \/ held' = held
    OBVIOUS
  <2>1. held = HeldBy(buf) /\ held' = HeldBy(buf')
    BY DEF HeldBy, Out, Extent, allocated_buffers
  <2>2. CASE buf' = buf
    BY <2>1, <2>2
  <2>3. CASE binder_mmap
    <3>1. HeldBy(buf) = {} /\ HeldBy(buf') = {}
      BY <2>3 DEF binder_mmap, HeldBy, Out, FreeBuffer
    <3> QED
      BY <2>1, <3>1
  <2>4. CASE release_buffers
    <3>1. HeldBy(buf') = {}
      BY <2>4 DEF release_buffers, HeldBy, Out
    <3> QED
      BY <2>1, <3>1 DEF Pool!Next, Pool!GiveAll
  <2>5. ASSUME NEW d \in DataSizes, NEW o \in OffsetsSizes, NEW is_async \in BOOLEAN,
               binder_alloc_buf(d, o, is_async)
        PROVE  Pool!Next
    <3>1. PICK a \in DOMAIN buf :
            /\ Disjoint(buf')
            /\ Out(buf') = Out(buf) \cup {a} /\ a \notin Out(buf)
            /\ \A x \in Out(buf) : Extent(buf', x) = Extent(buf, x)
      BY <2>5, AllocStep
    <3> DEFINE r == <<a, Extent(buf', a)>>
    <3>2. r \in held' \ held /\ held' = held \cup {r}
      <4>1. r \in HeldBy(buf')
        BY <3>1 DEF HeldBy
      <4>2. r \notin HeldBy(buf)
        BY <3>1 DEF HeldBy
      <4>3. ASSUME NEW q PROVE q \in HeldBy(buf') <=> q \in HeldBy(buf) \/ q = r
        <5>1. q \in HeldBy(buf') <=> \E x \in Out(buf) \cup {a} : q = <<x, Extent(buf', x)>>
          BY <3>1 DEF HeldBy
        <5>2. q \in HeldBy(buf) <=> \E x \in Out(buf) : q = <<x, Extent(buf', x)>>
          BY <3>1 DEF HeldBy
        <5> QED
          BY <5>1, <5>2
      <4> HIDE DEF r, held
      <4> QED
        BY <2>1, <4>1, <4>2, <4>3
    <3>3. a \in Nat /\ Extent(buf', a) \in Nat \ {0} /\ a + Extent(buf', a) <= buffer_size
      BY <3>1 DEF Disjoint, Out
    <3>4. ASSUME NEW q \in held PROVE Pool!Apart(r, q)
      <4>1. PICK x \in Out(buf) : q = <<x, Extent(buf, x)>>
        BY <2>1 DEF HeldBy
      <4>2. x \in Nat /\ x # a /\ x \in Out(buf') /\ Extent(buf', x) \in Nat
        BY <3>1, <4>1 DEF Disjoint, Out
      <4>3. a + Extent(buf', a) <= x \/ x + Extent(buf', x) <= a
        BY <3>1, <3>3, <4>2 DEF Disjoint, Out
      <4> QED
        BY <3>1, <4>1, <4>3 DEF Pool!Apart
    <3>5. r[1] >= 0 /\ r[2] > 0 /\ r[1] + r[2] <= buffer_size
      BY <3>3
    <3> HIDE DEF r
    <3>6. \E q \in held' \ held :
            /\ q[1] >= 0 /\ q[2] > 0 /\ q[1] + q[2] <= buffer_size
            /\ \A p \in held : Pool!Apart(q, p)
            /\ held' = held \cup {q}
      BY <3>2, <3>4, <3>5, Zenon
    <3> QED
      BY <3>6 DEF Pool!Next, Pool!Take
  <2>6. ASSUME NEW a \in allocated_buffers, binder_free_buf(a)
        PROVE  Pool!Next
    <3>1. /\ <<a, Extent(buf, a)>> \in held
          /\ held' = held \ {<<a, Extent(buf, a)>>}
      BY Zenon, <2>1, <2>6, FreeStep
    <3> QED
      BY Zenon, <3>1 DEF Pool!Next, Pool!Give
  <2> QED
    BY <2>2, <2>3, <2>4, <2>5, <2>6 DEF Next, vars, binder_vma_close, update_page_range_fails
<1> QED
  BY <1>1, <1>2, Invariance, PTL DEF Spec, IsPool, Pool!Spec
------------------------------------------------------------------------------
(* Numbers.                                                                 *)

LEMMA Division ==
  ASSUME NEW x \in Nat, NEW p \in Nat, p > 0
  PROVE  x \div p \in Nat /\ (x \div p) * p <= x /\ x < (x \div p) * p + p
  OBVIOUS

LEMMA Remainder ==
  ASSUME NEW x \in Nat, NEW p \in Nat, p > 0
  PROVE  /\ x % p \in Nat /\ x % p < p /\ (x < p => x % p = x)
         /\ x >= p /\ x < p + p => x % p = x - p
  OBVIOUS

LEMMA DivisionBound ==
  ASSUME NEW x \in Nat, NEW p \in Nat, p > 0, NEW n \in Nat, x <= n * p
  PROVE  x \div p <= n
<1> DEFINE q == x \div p
<1>1. q \in Nat /\ q * p <= x
  BY Division
<1> HIDE DEF q
<1>2. q * p <= n * p
  BY <1>1
<1>3. ASSUME q > n PROVE FALSE
  <2>1. q >= n + 1
    BY <1>1, <1>3
  <2>2. q * p >= (n + 1) * p
    BY <1>1, <2>1
  <2> QED
    BY <1>1, <1>2, <2>2
<1> QED
  BY <1>1, <1>3 DEF q

\* Two different multiples are a word apart.
LEMMA Multiples ==
  ASSUME NEW q \in Nat, NEW k \in Nat, NEW w \in Nat, w > 0, q * w < k * w
  PROVE  q * w <= k * w - w
<1>1. q < k
  OBVIOUS
<1>2. q + 1 <= k
  BY <1>1
<1>3. (q + 1) * w <= k * w
  BY <1>2
<1>4. (q + 1) * w = q * w + w
  OBVIOUS
<1> QED
  BY <1>3, <1>4

\* ALIGN rounds up to a word, or wraps to 0.
LEMMA Aligned ==
  ASSUME NEW n \in Nat, n < SizeMax
  PROVE  /\ ALIGN(n) \in Nat /\ ALIGN(n) <= SizeMax - Word
         /\ \/ n <= ALIGN(n) /\ ALIGN(n) <= n + Word - 1
            \/ ALIGN(n) = 0 /\ n > SizeMax - Word
<1>1. Word \in Nat /\ Word > 0 /\ SizeMax \in Nat /\ SizeMax > 0
  BY WordAssumption, SizesAssumption
<1> DEFINE x == (n + Word - 1) % SizeMax
           q == x \div Word
<1>2. x \in Nat /\ x < SizeMax /\ q \in Nat /\ q * Word <= x /\ x < q * Word + Word
  BY <1>1, Remainder, Division
<1>3. ALIGN(n) = q * Word
  BY DEF ALIGN
<1>4. PICK k \in Nat : SizeMax = k * Word
  BY <1>1, MappingAssumption
<1>5. Word <= SizeMax
  BY <1>1, <1>4
<1>6. \/ n + Word - 1 < SizeMax /\ x = n + Word - 1
      \/ n + Word - 1 >= SizeMax /\ x = n + Word - 1 - SizeMax
  BY <1>1, <1>5, Remainder
<1> HIDE DEF x, q
<1>7. q * Word \in Nat /\ q * Word <= SizeMax - Word
  BY <1>1, <1>2, <1>4, Multiples
<1>8. CASE n + Word - 1 < SizeMax /\ x = n + Word - 1
  BY <1>1, <1>2, <1>3, <1>7, <1>8
<1>9. CASE n + Word - 1 >= SizeMax /\ x = n + Word - 1 - SizeMax
  <2>1. x < Word
    BY <1>1, <1>9
  <2>2. q = 0
    <3>1. ASSUME q # 0 PROVE FALSE
      <4>1. q >= 1
        BY <1>2, <3>1
      <4>2. q * Word >= Word
        BY <1>1, <1>2, <4>1
      <4> QED
        BY <1>1, <1>2, <2>1, <4>2
    <3> QED
      BY <3>1
  <2> QED
    BY <1>1, <1>3, <1>5, <1>9, <2>2
<1> QED
  BY <1>6, <1>8, <1>9

\* A request that binder_alloc_buf does not refuse has not wrapped.
LEMMA RequestHolds ==
  ASSUME NEW d \in Nat, NEW o \in Nat, d < SizeMax, o < SizeMax,
         request_size(d, o) >= d, request_size(d, o) >= o
  PROVE  request_size(d, o) >= d + o
<1>1. Word \in Nat /\ Word > 0 /\ SizeMax \in Nat /\ SizeMax > 0
  BY WordAssumption, SizesAssumption
<1> DEFINE x == ALIGN(d)
           y == ALIGN(o)
<1>2. /\ x \in Nat /\ x <= SizeMax - Word
      /\ \/ d <= x /\ x <= d + Word - 1
         \/ x = 0 /\ d > SizeMax - Word
  BY Aligned
<1>3. /\ y \in Nat /\ y <= SizeMax - Word
      /\ \/ o <= y /\ y <= o + Word - 1
         \/ y = 0 /\ o > SizeMax - Word
  BY Aligned
<1> DEFINE z == (x + y) % SizeMax
<1>4. request_size(d, o) = z
  BY DEF request_size
<1> HIDE DEF x, y
<1>5. (x + y < SizeMax => z = x + y) /\ (x + y >= SizeMax => z = x + y - SizeMax)
  BY <1>1, <1>2, <1>3, Remainder
<1> HIDE DEF z
<1> QED
  BY <1>1, <1>2, <1>3, <1>4, <1>5

------------------------------------------------------------------------------
(* The buffers tile the mapping.                                            *)

Buffers == [free : BOOLEAN, data_size : Nat, offsets_size : Nat, async : BOOLEAN]

\* Headers do not overlap, an allocated buffer has at least the size it was
\* asked for, and between two free buffers there is an allocated one.
Laid(B) ==
  /\ DOMAIN B # {} => 0 \in DOMAIN B
  /\ \A a \in DOMAIN B : B[a] \in Buffers /\ (B[a].free => B[a] = FreeBuffer)
  /\ \A a \in DOMAIN B : /\ a + HeaderSize <= buffer_size
                         /\ \A b \in DOMAIN B : b > a => a + HeaderSize <= b
  /\ \A a \in Out(B) : size_of(B, a) >= B[a].data_size + B[a].offsets_size
  /\ \A a, b \in DOMAIN B \ Out(B) : a < b => \E c \in Out(B) : a < c /\ c < b

TInv ==
  /\ IInv /\ Laid(buf)
  /\ page \subseteq 0 .. Pages - 1 /\ vma \in BOOLEAN /\ free_async_space \in Nat

\* Freeing and merging keep it: what is merged away is a free buffer beside
\* the one freed, or that one itself, and no free neighbour of it is left.
LEMMA MergedLaid ==
  ASSUME NEW B, NEW C, Disjoint(B), Laid(B), NEW a \in Out(B), Merged(B, C, a)
  PROVE  Laid(C)
<1> DEFINE n == next_buffer(B, a)
<1>1. /\ DOMAIN B \subseteq Nat /\ a \in DOMAIN B /\ a \in Nat /\ ~B[a].free
      /\ n \in Nat /\ \A b \in DOMAIN B : b > a => n <= b
      /\ n # buffer_size => n \in DOMAIN B /\ n > a
  BY NextBuffer DEF Disjoint, Out
<1>2. /\ \A x \in DOMAIN C : x \in DOMAIN B
      /\ \A x \in DOMAIN B : x \notin DOMAIN C => (x = n /\ GoneNext(B, a)) \/ (x = a /\ GonePrev(B, a))
      /\ (GoneNext(B, a) => n \notin DOMAIN C) /\ (GonePrev(B, a) => a \notin DOMAIN C)
      /\ a \in DOMAIN C => C[a] = FreeBuffer
      /\ \A x \in DOMAIN C : x # a => C[x] = B[x]
  BY Zenon DEF Merged
<1>3. GoneNext(B, a) => n \in DOMAIN B /\ n > a /\ B[n].free
  BY <1>1 DEF GoneNext
<1>4. ~GoneNext(B, a) => n = buffer_size \/ ~B[n].free
  BY DEF GoneNext
<1> HIDE DEF n
<1>5. FreeBuffer.free /\ FreeBuffer \in Buffers
  <2>1. \A t, f \in BOOLEAN :
          LET r == [free |-> t, data_size |-> 0, offsets_size |-> 0, async |-> f] IN
          r.free = t /\ r \in Buffers
    BY DEF Buffers
  <2> QED
    BY <2>1, Zenon DEF FreeBuffer
<1>6. \A x : x \in Out(C) <=> x \in Out(B) /\ x # a
  <2>1. ASSUME NEW x \in Out(C) PROVE x \in Out(B) /\ x # a
    BY <1>2, <1>5, Zenon DEF Out
  <2>2. ASSUME NEW x \in Out(B), x # a PROVE x \in Out(C)
    <3>1. x \in DOMAIN B /\ ~B[x].free
      BY DEF Out
    <3>2. x \in DOMAIN C
      BY <1>2, <1>3, <2>2, <3>1, Zenon
    <3> QED
      BY <1>2, <2>2, <3>1, <3>2, Zenon DEF Out
  <2> QED
    BY <2>1, <2>2
<1>7. DOMAIN C # {} => 0 \in DOMAIN C
  <2>1. 0 \in DOMAIN B
    BY <1>1 DEF Laid
  <2>2. GonePrev(B, a) => a # 0
    <3>1. ASSUME Before(B, a) # {} PROVE a # 0
      BY <1>1, <3>1 DEF Before
    <3> QED
      BY <3>1 DEF GonePrev
  <2>3. GoneNext(B, a) => n # 0
    BY <1>1, <1>3
  <2> QED
    BY <1>2, <2>1, <2>2, <2>3, Zenon
<1>8. \A x \in DOMAIN C : C[x] \in Buffers /\ (C[x].free => C[x] = FreeBuffer)
  BY <1>2, <1>5, Zenon DEF Laid
<1>9. \A x \in DOMAIN C : /\ x + HeaderSize <= buffer_size
                          /\ \A b \in DOMAIN C : b > x => x + HeaderSize <= b
  BY <1>2, Zenon DEF Laid
<1>10. \A x \in Out(C) : size_of(C, x) >= C[x].data_size + C[x].offsets_size
  <2>1. ASSUME NEW x \in Out(C)
        PROVE  C[x] = B[x] /\ size_of(C, x) = size_of(B, x) /\ x \in Out(B)
    <3>1. C[x] = B[x] /\ x \in Out(B)
      BY <1>2, <1>6, Zenon DEF Out
    <3> QED
      BY <3>1, Zenon DEF size_of
  <2> QED
    BY <2>1, Zenon DEF Laid
<1>11. \A x, y \in DOMAIN B \ Out(B) : x < y => \E c \in Out(B) : x < c /\ c < y
  BY Zenon DEF Laid
\* Above a a free buffer is not the next one.
<1>12. ASSUME NEW y \in DOMAIN C, y \notin Out(C), y > a
       PROVE  \E c \in Out(C) : a < c /\ c < y
  <2>1. y \in DOMAIN B /\ y \in Nat /\ y # a /\ y \notin Out(B) /\ n <= y
    BY <1>1, <1>2, <1>6, <1>12
  <2>2. y < buffer_size
    BY <1>1, <2>1, HeaderAssumption, PageAssumption, BufferSizeNat DEF Laid
  <2>3. n # buffer_size /\ n \in DOMAIN B /\ n > a
    BY <1>1, <2>1, <2>2
  <2>4. CASE GoneNext(B, a)
    <3>1. n \notin Out(B) /\ n # y
      BY <1>2, <1>3, <1>12, <2>4, Zenon DEF Out
    <3>2. n < y
      BY <1>1, <2>1, <3>1
    <3>3. PICK c \in Out(B) : n < c /\ c < y
      BY <1>11, <2>1, <2>3, <3>1, <3>2, Zenon
    <3>4. c \in Nat
      BY <1>1 DEF Out
    <3>5. a < c /\ c # a
      BY <1>1, <2>3, <3>3, <3>4
    <3> QED
      BY <1>6, <3>3, <3>5, Zenon
  <2>5. CASE ~GoneNext(B, a)
    <3>1. n \in Out(B)
      BY <1>4, <2>3, <2>5, Zenon DEF Out
    <3>2. n # y
      BY <2>1, <3>1
    <3>3. n < y /\ n # a
      BY <1>1, <2>1, <2>3, <3>2
    <3> QED
      BY <1>6, <2>3, <3>1, <3>3, Zenon
  <2> QED
    BY <2>4, <2>5
\* If a is left, the one before it is allocated.
<1>13. ASSUME NEW x \in DOMAIN C, x \notin Out(C), x < a, a \in DOMAIN C
       PROVE  \E c \in Out(C) : x < c /\ c < a
  <2>1. x \in DOMAIN B /\ x \in Nat /\ x # a /\ x \notin Out(B) /\ x \in Before(B, a)
    BY <1>1, <1>2, <1>6, <1>13 DEF Before
  <2>2. Before(B, a) \in SUBSET Nat /\ \A s \in Before(B, a) : s < a
    BY <1>1 DEF Before
  <2> DEFINE p == Max(Before(B, a))
  <2>3. p \in Before(B, a) /\ x <= p
    <3>1. Before(B, a) # {}
      BY <2>1
    <3> QED
      BY <1>1, <2>1, <2>2, <3>1, MaxIn, Zenon
  <2>4. ~B[p].free
    <3>1. ~GonePrev(B, a)
      BY <1>2, <1>13, Zenon
    <3> QED
      BY <2>1, <3>1, Zenon DEF GonePrev
  <2> HIDE DEF p
  <2>5. p \in DOMAIN B /\ p \in Nat /\ p < a /\ p \in Out(B)
    BY <2>2, <2>3, <2>4 DEF Before, Out
  <2>6. x # p
    BY <2>1, <2>5
  <2>7. x < p /\ p # a
    BY <1>1, <2>1, <2>3, <2>5, <2>6
  <2> QED
    BY <1>6, <2>5, <2>7, Zenon
<1>14. ASSUME NEW x \in DOMAIN C \ Out(C), NEW y \in DOMAIN C \ Out(C), x < y
       PROVE  \E c \in Out(C) : x < c /\ c < y
  <2>1. x \in Nat /\ y \in Nat
    BY <1>1, <1>2
  <2>2. CASE x = a
    BY <1>12, <1>14, <2>2, Zenon
  <2>3. CASE y = a
    BY <1>13, <1>14, <2>3, Zenon
  <2>4. CASE x # a /\ y # a
    <3>1. x \in DOMAIN B \ Out(B) /\ y \in DOMAIN B \ Out(B)
      BY <1>2, <1>6, <2>4, Zenon
    <3>2. PICK c \in Out(B) : x < c /\ c < y
      BY <1>11, <1>14, <3>1, Zenon
    <3>3. CASE c # a
      BY <1>6, <3>2, <3>3, Zenon
    <3>4. CASE c = a /\ a \in DOMAIN C
      <4>1. PICK e \in Out(C) : x < e /\ e < a
        BY <1>13, <3>2, <3>4, Zenon
      <4>2. e \in Nat /\ a < y
        BY <1>1, <1>6, <3>2, <3>4 DEF Out
      <4>3. e < y
        BY <1>1, <2>1, <4>1, <4>2
      <4> QED
        BY <4>1, <4>3, Zenon
    <3>5. CASE c = a /\ a \notin DOMAIN C
      <4>1. y > a /\ x < a
        BY <1>1, <2>1, <3>2, <3>5
      <4>2. PICK e \in Out(C) : a < e /\ e < y
        BY <1>12, <4>1, Zenon
      <4>3. e \in Nat
        BY <1>1, <1>6 DEF Out
      <4>4. x < e
        BY <1>1, <2>1, <4>1, <4>2, <4>3
      <4> QED
        BY <4>2, <4>4, Zenon
    <3> QED
      BY <3>3, <3>4, <3>5
  <2> QED
    BY <2>2, <2>3, <2>4
<1> QED
  BY <1>7, <1>8, <1>9, <1>10, <1>14, Zenon DEF Laid
\* So does cutting an allocated buffer off a free one: the rest lies between
\* it and what was next to the free one.
LEMMA PlacedLaid ==
  ASSUME NEW B, NEW C, NEW a, NEW size \in Nat, Disjoint(B), Laid(B), Placed(B, C, a, size),
         C[a] \in Buffers, size >= C[a].data_size + C[a].offsets_size
  PROVE  Laid(C)
<1> DEFINE n == a + HeaderSize + size
<1>1. /\ a \in DOMAIN B /\ B[a].free /\ n <= next_buffer(B, a)
      /\ \/ DOMAIN C = DOMAIN B
         \/ /\ DOMAIN C = DOMAIN B \cup {n} /\ C[n] = FreeBuffer
            /\ n + HeaderSize < next_buffer(B, a)
      /\ ~C[a].free /\ size_of(C, a) = size
      /\ \A x \in DOMAIN B \ {a} : C[x] = B[x]
  BY Zenon DEF Placed
<1>2. /\ HeaderSize \in Nat /\ HeaderSize > 0 /\ buffer_size \in Nat
      /\ DOMAIN B \subseteq Nat /\ a \in Nat /\ n \in Nat /\ n > a
  BY <1>1, HeaderAssumption, PageAssumption, BufferSizeNat DEF Disjoint
<1>3. /\ next_buffer(B, a) \in Nat /\ next_buffer(B, a) <= buffer_size
      /\ \A b \in DOMAIN B : b > a => next_buffer(B, a) <= b
  BY <1>1, <1>2, NextBuffer
<1> HIDE DEF n
<1> DEFINE new == DOMAIN C # DOMAIN B
<1>4. new => /\ DOMAIN C = DOMAIN B \cup {n} /\ C[n] = FreeBuffer
             /\ n + HeaderSize < next_buffer(B, a) /\ n \notin DOMAIN B
  BY <1>1, <1>2, <1>3
<1>5. \A x \in DOMAIN C : x \in DOMAIN B \/ (new /\ x = n)
  BY <1>4
<1>6. \A x \in DOMAIN B : x \in DOMAIN C
  BY <1>4
<1> HIDE DEF new
<1>7. FreeBuffer.free /\ FreeBuffer \in Buffers
  <2>1. \A t, f \in BOOLEAN :
          LET r == [free |-> t, data_size |-> 0, offsets_size |-> 0, async |-> f] IN
          r.free = t /\ r \in Buffers
    BY DEF Buffers
  <2> QED
    BY <2>1, Zenon DEF FreeBuffer
<1>8. \A x : x \in Out(C) <=> x \in Out(B) \/ x = a
  <2>1. ASSUME NEW x \in Out(C) PROVE x \in Out(B) \/ x = a
    <3>1. x \in DOMAIN C /\ ~C[x].free
      BY DEF Out
    <3>2. x \in DOMAIN B
      BY <1>4, <1>5, <1>7, <3>1, Zenon
    <3> QED
      BY <1>1, <3>1, <3>2, Zenon DEF Out
  <2>2. ASSUME NEW x \in Out(B) PROVE x \in Out(C)
    <3>1. x \in DOMAIN B /\ ~B[x].free
      BY DEF Out
    <3>2. x # a /\ C[x] = B[x]
      BY <1>1, <3>1, Zenon
    <3> QED
      BY <1>6, <3>1, <3>2, Zenon DEF Out
  <2>3. a \in Out(C)
    BY <1>1, <1>6, Zenon DEF Out
  <2> QED
    BY <2>1, <2>2, <2>3, Zenon
<1>9. DOMAIN C # {} => 0 \in DOMAIN C
  BY <1>1, <1>6, Zenon DEF Laid
<1>10. \A x \in DOMAIN C : C[x] \in Buffers /\ (C[x].free => C[x] = FreeBuffer)
  <2>1. ASSUME NEW x \in DOMAIN C PROVE C[x] \in Buffers /\ (C[x].free => C[x] = FreeBuffer)
    <3>1. CASE x = a
      BY <1>1, <3>1, Zenon
    <3>2. CASE x \in DOMAIN B /\ x # a
      BY <1>1, <3>2, Zenon DEF Laid
    <3>3. CASE new /\ x = n
      BY <1>4, <1>7, <3>3, Zenon
    <3> QED
      BY <1>5, <3>1, <3>2, <3>3, Zenon
  <2> QED
    BY <2>1
<1>11. ASSUME NEW x \in DOMAIN C
       PROVE  /\ x + HeaderSize <= buffer_size
              /\ \A b \in DOMAIN C : b > x => x + HeaderSize <= b
  <2>1. CASE x \in DOMAIN B
    <3>1. /\ x \in Nat /\ x + HeaderSize <= buffer_size
          /\ \A b \in DOMAIN B : b > x => x + HeaderSize <= b
      BY <1>2, <2>1 DEF Laid
    <3>2. ASSUME new, n > x PROVE x + HeaderSize <= n
      <4>1. CASE x <= a
        <5>1. x + HeaderSize <= a + HeaderSize /\ a + HeaderSize <= n
          BY <1>2, <3>1, <4>1 DEF n
        <5> QED
          BY <1>2, <3>1, <5>1
      <4>2. CASE x > a
        BY <1>2, <1>3, <1>4, <2>1, <3>1, <3>2, <4>2
      <4> QED
        BY <1>2, <3>1, <4>1, <4>2
    <3> QED
      BY <1>5, <3>1, <3>2, Zenon
  <2>2. CASE new /\ x = n
    <3>1. n + HeaderSize <= buffer_size
      BY <1>2, <1>3, <1>4, <2>2
    <3>2. ASSUME NEW b \in DOMAIN B, b > n PROVE n + HeaderSize <= b
      <4>1. b \in Nat /\ b > a
        BY <1>2, <3>2
      <4>2. next_buffer(B, a) <= b
        BY <1>3, <4>1
      <4> QED
        BY <1>2, <1>3, <1>4, <2>2, <4>1, <4>2
    <3>3. ~(n > n)
      BY <1>2
    <3> QED
      BY <1>5, <2>2, <3>1, <3>2, <3>3, Zenon
  <2> QED
    BY <1>5, <2>1, <2>2
<1>12. \A x \in Out(C) : size_of(C, x) >= C[x].data_size + C[x].offsets_size
  <2>1. ASSUME NEW x \in Out(C) PROVE size_of(C, x) >= C[x].data_size + C[x].offsets_size
    <3>1. CASE x = a
      BY <1>1, <3>1, Zenon
    <3>2. CASE x # a
      <4>1. x \in Out(B) /\ x \in DOMAIN B
        BY <1>8, <3>2, Zenon DEF Out
      <4>2. C[x] = B[x]
        BY <1>1, <3>2, <4>1, Zenon
      <4> QED
        BY <4>1, <4>2, Zenon DEF Laid, size_of
    <3> QED
      BY <3>1, <3>2
  <2> QED
    BY <2>1
<1>13. ASSUME NEW x \in DOMAIN C \ Out(C), NEW y \in DOMAIN C \ Out(C), x < y
       PROVE  \E c \in Out(C) : x < c /\ c < y
  <2>1. x \notin Out(B) /\ x # a /\ y \notin Out(B) /\ y # a
    BY <1>8, Zenon
  <2>2. a \in DOMAIN B /\ a \notin Out(B)
    BY <1>1, Zenon DEF Out
  <2>3. \A u, v \in DOMAIN B \ Out(B) : u < v => \E c \in Out(B) : u < c /\ c < v
    BY Zenon DEF Laid
  <2>4. CASE x \in DOMAIN B /\ y \in DOMAIN B
    BY <1>8, <1>13, <2>1, <2>3, <2>4, Zenon
  <2>5. CASE new /\ x = n /\ y \in DOMAIN B
    <3>1. y \in Nat /\ a < y
      BY <1>2, <1>13, <2>5
    <3>2. PICK c \in Out(B) : a < c /\ c < y
      BY <2>1, <2>2, <2>3, <2>5, <3>1, Zenon
    <3>3. c \in DOMAIN B /\ c \in Nat
      BY <1>2 DEF Out
    <3>4. n < c
      BY <1>2, <1>3, <1>4, <2>5, <3>2, <3>3
    <3> QED
      BY <1>8, <2>5, <3>2, <3>4, Zenon
  <2>6. CASE new /\ y = n /\ x \in DOMAIN B
    <3>1. x \in Nat /\ x < n
      BY <1>2, <1>13, <2>6
    <3>2. x < a
      <4>1. ASSUME x > a PROVE FALSE
        BY <1>2, <1>3, <1>4, <2>6, <3>1, <4>1
      <4> QED
        BY <1>2, <2>1, <3>1, <4>1
    <3>3. a \in Out(C) /\ a < n
      BY <1>2, <1>8
    <3> QED
      BY <2>6, <3>2, <3>3, Zenon
  <2>7. ~(n < n)
    BY <1>2
  <2> QED
    BY <1>5, <1>13, <2>4, <2>5, <2>6, <2>7, Zenon
<1> QED
  BY <1>9, <1>10, <1>11, <1>12, <1>13, Zenon DEF Laid

\* The pages that are added are pages of the mapping.
LEMMA PagesInside ==
  ASSUME NEW B, DOMAIN B \subseteq Nat, NEW a \in DOMAIN B, NEW size \in Nat,
         a + HeaderSize + size <= next_buffer(B, a)
  PROVE  alloc_pages(a, size, binder_buffer_size(B, a)) \subseteq 0 .. Pages - 1
<1> DEFINE room == binder_buffer_size(B, a)
           has_page == (data(a) + room) \div PageSize
           end_page == (alloc_end(a, size, room) + PageSize - 1) \div PageSize
           first == (data(a) + PageSize - 1) \div PageSize
<1>1. HeaderSize \in Nat /\ PageSize \in Nat /\ PageSize > 0 /\ Pages \in Nat /\ a \in Nat
  BY HeaderAssumption, PageAssumption
<1>2. next_buffer(B, a) \in Nat /\ next_buffer(B, a) <= Pages * PageSize
  BY NextBuffer DEF buffer_size
<1>3. room \in Nat /\ data(a) \in Nat /\ data(a) + room = next_buffer(B, a)
  BY <1>1, <1>2 DEF binder_buffer_size, data
<1>4. has_page \in Nat /\ has_page <= Pages
  BY <1>1, <1>2, <1>3, Division, DivisionBound
<1>5. alloc_end(a, size, room) + PageSize - 1 \in Nat
  <2> HIDE DEF room
  <2> QED
    BY <1>1, <1>3 DEF alloc_end
<1>6. end_page \in Nat
  BY <1>1, <1>5, Division
<1>7. first \in Nat
  <2>1. data(a) + PageSize - 1 \in Nat
    BY <1>1, <1>3
  <2> QED
    BY <1>1, <2>1, Division
<1>8. alloc_pages(a, size, room) = first .. Min({has_page, end_page}) - 1
  BY Zenon DEF alloc_pages
<1> HIDE DEF room, has_page, end_page, first
<1>9. Min({has_page, end_page}) \in {has_page, end_page} /\ Min({has_page, end_page}) <= has_page
  <2>1. {has_page, end_page} \in SUBSET Nat /\ {has_page, end_page} # {}
    BY <1>4, <1>6
  <2> QED
    BY <2>1, MinIn, Zenon
<1>10. Min({has_page, end_page}) \in Nat
  BY <1>4, <1>6, <1>9
<1> HIDE DEF room
<1>11. first .. Min({has_page, end_page}) - 1 \subseteq 0 .. Pages - 1
  BY <1>1, <1>4, <1>7, <1>9, <1>10
<1> QED
  BY <1>8, <1>11 DEF room
\* binder_alloc_buf keeps the tiling and never takes more of the one-way space
\* than there is.
LEMMA AllocTiles ==
  ASSUME TInv, NEW d \in DataSizes, NEW o \in OffsetsSizes, NEW is_async \in BOOLEAN,
         binder_alloc_buf(d, o, is_async)
  PROVE  Laid(buf') /\ page' \subseteq 0 .. Pages - 1 /\ vma' = vma /\ free_async_space' \in Nat
<1> DEFINE size == request_size(d, o)
<1>1. size \in Nat
  BY RequestSizeNat
<1>2. d \in Nat /\ o \in Nat /\ d < SizeMax /\ o < SizeMax /\ SizeMax \in Nat /\ SizeMax > 0
  BY SizesAssumption
<1>3. size >= d /\ size >= o /\ (is_async => free_async_space >= (size + HeaderSize) % SizeMax)
  BY Zenon DEF binder_alloc_buf, CanAlloc
<1>4. size >= d + o
  BY <1>2, <1>3, RequestHolds
<1>5. PICK a \in DOMAIN buf :
        /\ Placed(buf, buf', a, size)
        /\ buf'[a] = Request(d, o, is_async)
        /\ page' = page \cup alloc_pages(a, size, binder_buffer_size(buf, a))
  <2>1. IInv
    BY Zenon DEF TInv
  <2>2. PICK x \in DOMAIN buf :
          /\ Disjoint(buf')
          /\ Out(buf') = Out(buf) \cup {x} /\ x \notin Out(buf)
          /\ \A y \in Out(buf) : Extent(buf', y) = Extent(buf, y)
          /\ Placed(buf, buf', x, request_size(d, o))
          /\ buf'[x] = Request(d, o, is_async)
          /\ page' = page \cup alloc_pages(x, request_size(d, o), binder_buffer_size(buf, x))
    BY <2>1, AllocStep
  <2> QED
    BY <2>2, Zenon
<1>6. /\ vma' = vma
      /\ free_async_space' = IF is_async THEN free_async_space - (size + HeaderSize)
                             ELSE free_async_space
  BY Zenon DEF binder_alloc_buf
<1> HIDE DEF size
<1>7. buf'[a] \in Buffers /\ buf'[a].data_size = d /\ buf'[a].offsets_size = o
  <2>1. \A f \in BOOLEAN :
          LET r == [free |-> f, data_size |-> d, offsets_size |-> o, async |-> is_async] IN
          r \in Buffers /\ r.data_size = d /\ r.offsets_size = o
    BY <1>2 DEF Buffers
  <2> QED
    BY <1>5, <2>1, Zenon DEF Request
<1>8. Disjoint(buf) /\ Laid(buf) /\ DOMAIN buf \subseteq Nat
  BY DEF TInv, IInv, Disjoint
<1>9. Laid(buf')
  BY <1>1, <1>4, <1>5, <1>7, <1>8, PlacedLaid, Zenon
<1>10. a + HeaderSize + size <= next_buffer(buf, a)
  BY <1>5, Zenon DEF Placed
<1>11. page' \subseteq 0 .. Pages - 1
  <2>1. alloc_pages(a, size, binder_buffer_size(buf, a)) \subseteq 0 .. Pages - 1
    BY <1>1, <1>8, <1>10, PagesInside, Zenon
  <2> QED
    BY <1>5, <2>1, Zenon DEF TInv
<1>12. free_async_space' \in Nat
  <2>1. free_async_space \in Nat /\ HeaderSize \in Nat
    BY HeaderAssumption, PageAssumption DEF TInv
  <2>2. a \in Nat /\ next_buffer(buf, a) \in Nat /\ next_buffer(buf, a) <= buffer_size
        /\ buffer_size < SizeMax /\ buffer_size \in Nat
    BY <1>8, NextBuffer, BufferSizeNat, MappingAssumption DEF buffer_size
  <2>3. size + HeaderSize \in Nat /\ size + HeaderSize < SizeMax
    BY <1>1, <1>2, <1>10, <2>1, <2>2
  <2>4. (size + HeaderSize) % SizeMax = size + HeaderSize
    BY <1>2, <2>3, Remainder
  <2>5. CASE is_async
    <3>1. /\ free_async_space' = free_async_space - (size + HeaderSize)
          /\ free_async_space >= size + HeaderSize
      BY <1>3, <1>6, <2>4, <2>5, Zenon
    <3> QED
      BY <2>1, <2>3, <3>1
  <2>6. CASE ~is_async
    BY <1>6, <2>1, <2>6, Zenon
  <2> QED
    BY <2>5, <2>6
<1> QED
  BY <1>6, <1>9, <1>11, <1>12

\* binder_free_buf keeps the tiling.
LEMMA FreeTiles ==
  ASSUME TInv, NEW a \in allocated_buffers, binder_free_buf(a)
  PROVE  Laid(buf') /\ page' \subseteq 0 .. Pages - 1 /\ vma' = vma /\ free_async_space' \in Nat
<1> DEFINE f == free_buf(allocator, a)
<1>1. /\ IsState(allocator) /\ allocator.buf = buf /\ allocator.page = page
      /\ allocator.free_async_space = free_async_space /\ a \in DOMAIN buf /\ a \in Out(buf)
  BY DEF IsState, allocator, allocated_buffers, Out
<1>2. /\ buf' = f.buf /\ page' = f.page /\ free_async_space' = f.free_async_space /\ vma' = vma
  BY Zenon DEF binder_free_buf, become
<1>3. Disjoint(buf) /\ Laid(buf) /\ DOMAIN buf \subseteq Nat
  BY DEF TInv, IInv, Disjoint
<1>4. /\ Merged(buf, buf', a) /\ page' \subseteq page
      /\ free_async_space' = free_async_space + Back(buf, a)
  BY <1>1, <1>2, <1>3, FreeBuf, Zenon
<1>5. Laid(buf')
  BY <1>1, <1>3, <1>4, MergedLaid, Zenon
<1>6. Back(buf, a) \in Nat
  <2>1. Extent(buf, a) \in Nat /\ Extent(buf, a) = HeaderSize + size_of(buf, a)
    BY <1>1, <1>3 DEF Disjoint, Extent
  <2>2. size_of(buf, a) >= buf[a].data_size + buf[a].offsets_size
        /\ buf[a].data_size \in Nat /\ buf[a].offsets_size \in Nat
    BY <1>1, <1>3 DEF Laid, Buffers
  <2>3. size_of(buf, a) + HeaderSize \in Nat
    <3>1. size_of(buf, a) \in Int
      <4>1. buf[a].data_size \in Int /\ buf[a].offsets_size \in Int /\ SizeMax \in Nat /\ SizeMax > 0
        BY <2>2, SizesAssumption
      <4>2. \A n \in Int : ALIGN(n) \in Int
        <5>1. ASSUME NEW n \in Int PROVE ALIGN(n) \in Int
          <6>1. (n + Word - 1) % SizeMax \in Int
            BY <4>1, WordAssumption
          <6> QED
            BY <6>1, WordAssumption DEF ALIGN
        <5> QED
          BY <5>1
      <4>3. ALIGN(buf[a].data_size) + ALIGN(buf[a].offsets_size) \in Int
        BY <4>1, <4>2
      <4> HIDE DEF ALIGN
      <4> QED
        BY <4>1, <4>3 DEF size_of, request_size
    <3> QED
      BY <2>1, <3>1, HeaderAssumption, PageAssumption
  <2> QED
    BY <2>3 DEF Back
<1>7. free_async_space' \in Nat
  BY <1>4, <1>6 DEF TInv
<1> QED
  BY Zenon, <1>2, <1>4, <1>5, <1>7 DEF TInv

\* The buffers tile the mapping after every step.
THEOREM TilingInvariance == Spec => []TInv
<1> DEFINE J == Laid(buf) /\ page \subseteq 0 .. Pages - 1 /\ vma \in BOOLEAN /\ free_async_space \in Nat
<1>1. Laid(<< >>)
  BY DEF Laid, Out
<1>2. Init => J
  <2> SUFFICES ASSUME Init PROVE J
    OBVIOUS
  <2>1. Laid(buf) /\ vma \in BOOLEAN
    BY <1>1, Zenon DEF Init
  <2>2. page \subseteq 0 .. Pages - 1 /\ free_async_space \in Nat
    BY DEF Init
  <2> QED
    BY <2>1, <2>2
<1>3. IInv /\ J /\ [Next]_vars => J'
  <2> SUFFICES ASSUME IInv, J, [Next]_vars PROVE J'
    OBVIOUS
  <2>1. TInv
    BY DEF TInv
  <2>2. CASE UNCHANGED vars
    BY <2>2 DEF vars
  <2>3. CASE binder_vma_close
    BY Zenon, <2>3 DEF binder_vma_close
  <2>4. CASE binder_mmap
    <3>1. /\ buf' = [a \in {0} |-> FreeBuffer] /\ page' = {0} /\ vma' = TRUE
          /\ free_async_space' = buffer_size \div 2
      BY <2>4, Zenon DEF binder_mmap
    <3>2. HeaderSize \in Nat /\ HeaderSize <= buffer_size /\ buffer_size \in Nat
      <4>1. PageSize <= Pages * PageSize
        BY PageAssumption
      <4> QED
        BY <4>1, HeaderAssumption, PageAssumption, BufferSizeNat DEF buffer_size
    <3>3. Laid(buf')
      <4>1. FreeBuffer.free /\ FreeBuffer \in Buffers
        <5>1. \A t, f \in BOOLEAN :
                LET r == [free |-> t, data_size |-> 0, offsets_size |-> 0, async |-> f] IN
                r.free = t /\ r \in Buffers
          BY DEF Buffers
        <5> QED
          BY <5>1, Zenon DEF FreeBuffer
      <4>2. DOMAIN buf' = {0} /\ buf'[0] = FreeBuffer
        BY <3>1
      <4>3. Out(buf') = {}
        BY <4>1, <4>2 DEF Out
      <4>4. ~(0 > 0) /\ ~(0 < 0) /\ 0 + HeaderSize <= buffer_size
        BY <3>2
      <4> QED
        BY <4>1, <4>2, <4>3, <4>4, Zenon DEF Laid
    <3>4. free_async_space' \in Nat /\ page' \subseteq 0 .. Pages - 1
      BY <3>1, <3>2, PageAssumption
    <3> QED
      BY <3>1, <3>3, <3>4
  <2>5. CASE release_buffers
    <3>1. buf' = << >> /\ page' = {} /\ vma' = vma /\ free_async_space' = 0
      BY <2>5, Zenon DEF release_buffers
    <3> QED
      BY <1>1, <3>1
  <2>6. ASSUME NEW d \in DataSizes, NEW o \in OffsetsSizes, NEW is_async \in BOOLEAN,
               binder_alloc_buf(d, o, is_async)
        PROVE  J'
    BY <2>1, <2>6, AllocTiles, Zenon
  <2>7. ASSUME NEW d \in DataSizes, NEW o \in OffsetsSizes, NEW is_async \in BOOLEAN,
               update_page_range_fails(d, o, is_async)
        PROVE  J'
    <3>1. buf' = buf /\ vma' = vma /\ free_async_space' = free_async_space
      BY <2>7, Zenon DEF update_page_range_fails
    <3>2. page' \subseteq page
      BY <2>7, Zenon DEF update_page_range_fails
    <3> QED
      BY <3>1, <3>2, Zenon
  <2>8. ASSUME NEW a \in allocated_buffers, binder_free_buf(a)
        PROVE  J'
    BY <2>1, <2>8, FreeTiles, Zenon
  <2> HIDE DEF J
  <2> QED
    BY <2>2, <2>3, <2>4, <2>5, <2>6, <2>7, <2>8, Zenon DEF Next
<1>4. IInv /\ J => TInv
  BY DEF TInv
<1> HIDE DEF J
<1> QED
  BY <1>2, <1>3, <1>4, Invariance, PTL DEF Spec

\* The buffers of binder_alloc_buf and binder_free_buf tile the mapping, with
\* room for what was asked for and no two free ones side by side, for every
\* size of the mapping, of pages, headers and words, and for every request.
THEOREM BuffersTile == Spec => []Tiled
<1>1. TInv => Tiled
  <2> SUFFICES ASSUME TInv PROVE Tiled
    OBVIOUS
  <2>1. Disjoint(buf) /\ Laid(buf) /\ DOMAIN buf \subseteq Nat
    BY DEF TInv, IInv, Disjoint
  <2>2. HeaderSize \in Nat /\ HeaderSize > 0 /\ buffer_size \in Nat
    BY HeaderAssumption, PageAssumption, BufferSizeNat
  <2>3. ASSUME NEW a \in DOMAIN buf
        PROVE  /\ a \in 0 .. buffer_size - HeaderSize
               /\ buf[a].free \in BOOLEAN /\ buf[a].async \in BOOLEAN
               /\ buf[a].data_size \in Nat /\ buf[a].offsets_size \in Nat
    <3>1. a \in Nat /\ a + HeaderSize <= buffer_size /\ buf[a] \in Buffers
      BY <2>1 DEF Laid
    <3>2. a \in 0 .. buffer_size - HeaderSize
      BY <2>2, <3>1
    <3> QED
      BY <3>1, <3>2 DEF Buffers
  <2>4. TypeOK
    BY <2>3, Zenon DEF TypeOK, TInv
  <2>5. ASSUME NEW a \in DOMAIN buf
        PROVE  binder_buffer_size(buf, a) >= buf[a].data_size + buf[a].offsets_size
    <3>1. /\ a \in Nat /\ next_buffer(buf, a) \in Nat
          /\ next_buffer(buf, a) # buffer_size => next_buffer(buf, a) \in DOMAIN buf /\ next_buffer(buf, a) > a
      BY <2>1, NextBuffer
    <3>2. binder_buffer_size(buf, a) = next_buffer(buf, a) - (a + HeaderSize)
      BY DEF binder_buffer_size, data
    <3>3. CASE buf[a].free
      <4>1. buf[a].data_size = 0 /\ buf[a].offsets_size = 0
        BY <2>1, <3>3 DEF Laid, FreeBuffer
      <4>2. a + HeaderSize <= next_buffer(buf, a)
        BY <2>1, <3>1 DEF Laid
      <4> QED
        BY <2>2, <3>1, <3>2, <4>1, <4>2
    <3>4. CASE ~buf[a].free
      <4>1. /\ a \in Out(buf) /\ a + Extent(buf, a) <= next_buffer(buf, a) /\ Extent(buf, a) \in Nat
        BY <2>1, <3>1, <3>4 DEF Disjoint, Out
      <4>2. size_of(buf, a) >= buf[a].data_size + buf[a].offsets_size
        BY <2>1, <4>1 DEF Laid
      <4>3. Extent(buf, a) = HeaderSize + size_of(buf, a)
        BY DEF Extent
      <4>4. size_of(buf, a) \in Int
        <5>1. SizeMax \in Nat /\ SizeMax > 0 /\ Word \in Nat /\ Word > 0
          BY SizesAssumption, WordAssumption
        <5>2. \A n \in Nat : ALIGN(n) \in Int
          <6>1. ASSUME NEW n \in Nat PROVE ALIGN(n) \in Int
            <7>1. (n + Word - 1) % SizeMax \in Int
              BY <5>1
            <7> QED
              BY <5>1, <7>1 DEF ALIGN
          <6> QED
            BY <6>1
        <5>3. ALIGN(buf[a].data_size) + ALIGN(buf[a].offsets_size) \in Int
          BY <2>3, <5>2
        <5> HIDE DEF ALIGN
        <5> QED
          BY <5>1, <5>3 DEF size_of, request_size
      <4> QED
        BY <2>2, <2>3, <3>1, <3>2, <4>1, <4>2, <4>3, <4>4
    <3> QED
      BY <3>3, <3>4
  <2>6. ASSUME NEW a \in free_buffers, next_buffer(buf, a) # buffer_size
        PROVE  ~buf[next_buffer(buf, a)].free
    <3> DEFINE n == next_buffer(buf, a)
    <3>1. a \in DOMAIN buf /\ a \in DOMAIN buf \ Out(buf)
      BY DEF free_buffers, Out
    <3>2. /\ n \in DOMAIN buf /\ n > a /\ a \in Nat /\ n \in Nat
          /\ \A b \in DOMAIN buf : b > a => n <= b
      BY <2>1, <2>6, <3>1, NextBuffer
    <3> HIDE DEF n
    <3>3. ASSUME buf[n].free PROVE FALSE
      <4>1. n \in DOMAIN buf \ Out(buf) /\ a < n
        BY <3>2, <3>3 DEF Out
      <4>2. PICK c \in Out(buf) : a < c /\ c < n
        BY <2>1, <3>1, <4>1, Zenon DEF Laid
      <4>3. c \in DOMAIN buf /\ c \in Nat
        BY <2>1 DEF Out
      <4> QED
        BY <3>2, <4>2, <4>3
    <3> QED
      BY <3>3 DEF n
  <2> QED
    BY <2>1, <2>4, <2>5, <2>6, Zenon DEF Tiled, Laid
<1> QED
  BY <1>1, TilingInvariance, PTL
==============================================================================
