------------------------------ MODULE Umalloc -------------------------------
(***************************************************************************)
(* malloc and free of the user library (umalloc.c): a ring of free blocks  *)
(* in address order, starting at base, which is an empty block below the   *)
(* heap.  An address counts units of sizeof(Header); a block starts with   *)
(* its header.  The program may call sbrk itself between two mallocs.      *)
(***************************************************************************)
EXTENDS Integers, FiniteSets, FiniteSetsExt

CONSTANTS
  HeaderSize,        \* sizeof(Header)
  MinCore,           \* morecore asks for at least this many units
  HeapEnd,           \* bound: sbrk fails beyond
  Requests           \* bound: the nbytes of malloc

VARIABLES heap,      \* the headers: ptr and size; freep (-1 is null); brk
          live       \* per block in the program's hands, the nbytes it asked for

uvars == <<heap, live>>

base == 0
HeapStart == 2
Units == 0..HeapEnd-1

UmallocInit ==
  /\ heap = [ptr |-> [a \in Units |-> 0], size |-> [a \in Units |-> 0], freep |-> -1, brk |-> HeapStart]
  /\ live = [a \in {} |-> 0]

\* The blocks of the ring.
RECURSIVE RingFrom(_, _, _)
RingFrom(h, p, seen) == IF p \in seen THEN seen ELSE RingFrom(h, h.ptr[p], seen \cup {p})
Ring(h) == IF h.freep = -1 THEN {} ELSE RingFrom(h, h.freep, {})

\* What is not a header of one of these blocks is the program's data, kept as 0.
Headers(h, blocks) ==
  [h EXCEPT !.ptr = [a \in Units |-> IF a \in Ring(h) THEN h.ptr[a] ELSE 0],
            !.size = [a \in Units |-> IF a \in Ring(h) \cup blocks THEN h.size[a] ELSE 0]]

\* The free block after which free puts block bp.
RECURSIVE Spot(_, _, _)
Spot(h, p, bp) ==
  LET next == h.ptr[p] IN
  IF \/ bp > p /\ bp < next
     \/ p >= next /\ (bp > p \/ bp < next)
  THEN p ELSE Spot(h, next, bp)

\* free joins bp to the block above it, then to the block p below it; a version of the
\* second without the test that they touch.
JoinUpper(h, p, bp) ==
  LET next == h.ptr[p] IN
  IF bp + h.size[bp] = next
  THEN [h EXCEPT !.size[bp] = @ + h.size[next], !.ptr[bp] = h.ptr[next]]
  ELSE [h EXCEPT !.ptr[bp] = next]

JoinLower_always(h, p, bp) == [h EXCEPT !.size[p] = @ + h.size[bp], !.ptr[p] = h.ptr[bp]]
JoinLower(h, p, bp) ==
  IF p + h.size[p] = bp
  THEN [h EXCEPT !.size[p] = @ + h.size[bp], !.ptr[p] = h.ptr[bp]]
  ELSE [h EXCEPT !.ptr[p] = bp]

PutBack(h, bp) ==
  LET p == Spot(h, h.freep, bp) IN [JoinLower(JoinUpper(h, p, bp), p, bp) EXCEPT !.freep = p]

\* morecore when sbrk works: the new block is freed.
morecore(h, nu) ==
  LET n == Max({nu, MinCore})
  IN PutBack([h EXCEPT !.size[h.brk] = n, !.brk = @ + n], h.brk)

sbrkFails(h, nu) == h.brk + Max({nu, MinCore}) > HeapEnd

\* malloc's block: all of p, or the upper end of it.
Take(h, prevp, p, nunits) ==
  IF h.size[p] = nunits
  THEN [h |-> [h EXCEPT !.ptr[prevp] = h.ptr[p], !.freep = prevp], block |-> p]
  ELSE LET block == p + h.size[p] - nunits IN
       [h |-> [h EXCEPT !.size[p] = @ - nunits, !.size[block] = nunits, !.freep = prevp],
        block |-> block]

\* malloc's loop; block is -1 when malloc returns 0.
RECURSIVE Search(_, _, _, _)
Search(h, prevp, p, nunits) ==
  IF h.size[p] >= nunits THEN Take(h, prevp, p, nunits)
  ELSE IF p # h.freep THEN Search(h, p, h.ptr[p], nunits)
  ELSE IF sbrkFails(h, nunits) THEN [h |-> h, block |-> -1]
  ELSE LET m == morecore(h, nunits) IN Search(m, m.freep, m.ptr[m.freep], nunits)

nunits(nbytes) == (nbytes + HeaderSize - 1) \div HeaderSize + 1

malloc(nbytes) ==
  LET h == IF heap.freep = -1 THEN [heap EXCEPT !.ptr[base] = base, !.freep = base] ELSE heap
      r == Search(h, h.freep, h.ptr[h.freep], nunits(nbytes))
  IN /\ live' = IF r.block = -1 THEN live
                ELSE [a \in DOMAIN live \cup {r.block} |-> IF a = r.block THEN nbytes ELSE live[a]]
     /\ heap' = Headers(r.h, DOMAIN live')

ufree(a) ==
  /\ a \in DOMAIN live
  /\ live' = [b \in DOMAIN live \ {a} |-> live[b]]
  /\ heap' = Headers(PutBack(heap, a), DOMAIN live')

\* The program's own sbrk leaves a hole that is not malloc's.
OtherSbrk ==
  /\ heap.brk < HeapEnd
  /\ heap' = [heap EXCEPT !.brk = @ + 1]
  /\ UNCHANGED live

UmallocNext ==
  \/ \E n \in Requests : malloc(n)
  \/ \E a \in Units : ufree(a)
  \/ OtherSbrk

-----------------------------------------------------------------------------
\* No two blocks overlap, free or in the program's hands, all lie below brk, and a block
\* that malloc returned has room for the bytes asked for after its header.
BlocksApart ==
  LET all == (Ring(heap) \ {base}) \cup DOMAIN live IN
  /\ Ring(heap) \cap DOMAIN live = {}
  /\ \A a \in all : heap.size[a] > 0 /\ a >= HeapStart /\ a + heap.size[a] <= heap.brk
  /\ \A a, b \in all : a < b => a + heap.size[a] <= b
  /\ \A a \in DOMAIN live : (heap.size[a] - 1) * HeaderSize >= live[a]

\* The ring is in address order, goes back to base once, and holds no two blocks that
\* touch: free finds the place of a block wherever freep is, and joins all it can.
RingJoined ==
  heap.freep # -1 =>
    /\ base \in Ring(heap)
    /\ \A a \in Ring(heap) :
         IF \E b \in Ring(heap) : b > a
         THEN /\ heap.ptr[a] = Min({b \in Ring(heap) : b > a})
              /\ a + heap.size[a] # heap.ptr[a]
         ELSE heap.ptr[a] = base

\* malloc never hands out a byte twice, and free leaves nothing unjoined.
HeapSound == BlocksApart /\ RingJoined
=============================================================================
