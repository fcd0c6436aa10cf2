-------------------------------- MODULE Bio ---------------------------------
(***************************************************************************)
(* The buffer cache (bio.c) over the queue of the IDE driver (ide.c), with *)
(* the sleep lock of every buffer (sleeplock.c).                           *)
(*                                                                         *)
(* Each critical section of bcache.lock, of a sleep lock's spin lock and   *)
(* of idelock is one step.  Callers do what the comments of bio.c and      *)
(* log.c ask of them: bread, perhaps change the data, then bwrite or       *)
(* log_write, brelse; each uses one buffer at a time.                      *)
(***************************************************************************)
EXTENDS Naturals, FiniteSets, Sequences

CONSTANTS
  Caller, Block, Val,
  NBUF,
  MaxPinned,    \* bound: the buffers the log keeps dirty
  NoBlock

ASSUME BioAssumption ==
  /\ NBUF \in Nat \ {0} /\ MaxPinned \in Nat
  /\ NoBlock \notin Block /\ IsFiniteSet(Caller)

VARIABLES
  blockno, valid, dirty, refcnt, locked, data,  \* struct buf
  lru,          \* the list bcache.head, most recently used first
  idequeue, disk,
  pc, buf, want,   \* per caller: where it is, its buffer, the block it asked for
  content       \* history: what callers have last stored in each block

bufs == <<blockno, valid, dirty, refcnt, locked, data, lru>>
vars == <<bufs, idequeue, disk, pc, buf, want, content>>

Buf   == 1..NBUF
NoBuf == 0

TypeOK ==
  /\ blockno \in [Buf -> Block \cup {NoBlock}]
  /\ valid \in [Buf -> BOOLEAN] /\ dirty \in [Buf -> BOOLEAN]
  /\ refcnt \in [Buf -> Nat] /\ locked \in [Buf -> BOOLEAN]
  /\ data \in [Buf -> Val]
  /\ lru \in [1..NBUF -> Buf] /\ idequeue \in Seq(Buf)
  /\ disk \in [Block -> Val] /\ content \in [Block -> Val]
  /\ pc \in [Caller -> {"idle", "lock", "asleep", "locked", "io", "held",
                        "modified", "brelse", "panic"}]
  /\ buf \in [Caller -> Buf \cup {NoBuf}]
  /\ want \in [Caller -> Block \cup {NoBlock}]

\* binit
Init ==
  /\ blockno = [b \in Buf |-> NoBlock]
  /\ valid = [b \in Buf |-> FALSE] /\ dirty = [b \in Buf |-> FALSE]
  /\ refcnt = [b \in Buf |-> 0] /\ locked = [b \in Buf |-> FALSE]
  /\ \E v \in Val : data = [b \in Buf |-> v]
  /\ lru = [i \in 1..NBUF |-> NBUF + 1 - i]
  /\ idequeue = <<>>
  /\ disk \in [Block -> Val] /\ content = disk
  /\ pc = [p \in Caller |-> "idle"]
  /\ buf = [p \in Caller |-> NoBuf]
  /\ want = [p \in Caller |-> NoBlock]

-----------------------------------------------------------------------------

Cached(k) == {b \in Buf : blockno[b] = k}

\* A version of Recyclable without the second of its two tests.
Recyclable_dirty == {b \in Buf : refcnt[b] = 0}

Recyclable == {b \in Buf : refcnt[b] = 0 /\ ~dirty[b]}

\* b is the buffer of S that the scan from head.prev meets first.
LeastRecent(b, S) ==
  b \in S /\ \E i \in 1..NBUF :
    lru[i] = b /\ \A j \in i+1..NBUF : lru[j] \notin S

\* bget, up to acquiresleep.
bget(p) ==
  /\ pc[p] = "idle"
  /\ \E k \in Block :
       /\ want' = [want EXCEPT ![p] = k]
       /\ \/ \E b \in Cached(k) :
               /\ buf' = [buf EXCEPT ![p] = b]
               /\ refcnt' = [refcnt EXCEPT ![b] = @ + 1]
               /\ pc' = [pc EXCEPT ![p] = "lock"]
               /\ UNCHANGED <<blockno, valid, dirty>>
          \/ /\ Cached(k) = {}
             /\ \E b \in Buf :
                  /\ LeastRecent(b, Recyclable)
                  /\ buf' = [buf EXCEPT ![p] = b]
                  /\ blockno' = [blockno EXCEPT ![b] = k]
                  /\ valid' = [valid EXCEPT ![b] = FALSE]
                  /\ dirty' = [dirty EXCEPT ![b] = FALSE]
                  /\ refcnt' = [refcnt EXCEPT ![b] = 1]
             /\ pc' = [pc EXCEPT ![p] = "lock"]
          \/ /\ Cached(k) = {} /\ Recyclable = {}
             /\ pc' = [pc EXCEPT ![p] = "panic"]
             /\ UNCHANGED <<buf, blockno, valid, dirty, refcnt>>
  /\ UNCHANGED <<locked, data, lru, idequeue, disk, content>>

acquiresleep(p) ==
  /\ pc[p] = "lock"
  /\ pc' = [pc EXCEPT ![p] = IF locked[buf[p]] THEN "asleep" ELSE "locked"]
  /\ locked' = [locked EXCEPT ![buf[p]] = TRUE]
  /\ UNCHANGED <<blockno, valid, dirty, refcnt, data, lru, idequeue, disk, buf,
                 want, content>>

\* The request goes to the end of idequeue.
Enqueue(b) == Append(idequeue, b)

\* The rest of bread, with the call of iderw up to its sleep.
bread(p) ==
  /\ pc[p] = "locked"
  /\ \/ /\ valid[buf[p]]
        /\ pc' = [pc EXCEPT ![p] = "held"]
        /\ UNCHANGED idequeue
     \/ /\ ~valid[buf[p]]
        /\ idequeue' = Enqueue(buf[p])
        /\ pc' = [pc EXCEPT ![p] = "io"]
  /\ UNCHANGED <<bufs, disk, buf, want, content>>

\* The disk has finished the request at the head of the queue: the caller
\* wakes up in iderw and finds its flags as it wants them.
ideintr ==
  /\ idequeue # <<>>
  /\ LET b == Head(idequeue)
     IN /\ \/ /\ dirty[b]
              /\ disk' = [disk EXCEPT ![blockno[b]] = data[b]]
              /\ UNCHANGED data
           \/ /\ ~dirty[b]
              /\ data' = [data EXCEPT ![b] = disk[blockno[b]]]
              /\ UNCHANGED disk
        /\ valid' = [valid EXCEPT ![b] = TRUE]
        /\ dirty' = [dirty EXCEPT ![b] = FALSE]
        /\ pc' = [p \in Caller |-> IF pc[p] = "io" /\ buf[p] = b THEN "held"
                                   ELSE pc[p]]
  /\ idequeue' = Tail(idequeue)
  /\ UNCHANGED <<blockno, refcnt, locked, lru, buf, want, content>>

\* The caller changes the data of its buffer.
Modify(p) ==
  /\ pc[p] = "held"
  /\ \E v \in Val : /\ data' = [data EXCEPT ![buf[p]] = v]
                    /\ content' = [content EXCEPT ![blockno[buf[p]]] = v]
  /\ pc' = [pc EXCEPT ![p] = "modified"]
  /\ UNCHANGED <<blockno, valid, dirty, refcnt, locked, lru, idequeue, disk, buf,
                 want>>

Pinned == {b \in Buf : dirty[b]}

\* log_write: the buffer stays in the cache until the log has written it.
log_write(p) ==
  /\ pc[p] = "modified"
  /\ dirty[buf[p]] \/ Cardinality(Pinned) < MaxPinned
  /\ dirty' = [dirty EXCEPT ![buf[p]] = TRUE]
  /\ pc' = [pc EXCEPT ![p] = "held"]
  /\ UNCHANGED <<blockno, valid, refcnt, locked, data, lru, idequeue, disk, buf,
                 want, content>>

\* bwrite by a caller that changed the data, or by the log for a buffer that
\* log_write has pinned.
bwrite(p) ==
  /\ pc[p] = "modified" \/ (pc[p] = "held" /\ dirty[buf[p]])
  /\ dirty' = [dirty EXCEPT ![buf[p]] = TRUE]
  /\ idequeue' = Enqueue(buf[p])
  /\ pc' = [pc EXCEPT ![p] = "io"]
  /\ UNCHANGED <<blockno, valid, refcnt, locked, data, lru, disk, buf, want,
                 content>>

\* Where acquiresleep goes on after its sleep.
Awake == "lock"

\* brelse: releasesleep ...
releasesleep(p) ==
  /\ pc[p] = "held"
  /\ locked' = [locked EXCEPT ![buf[p]] = FALSE]
  /\ pc' = [q \in Caller |-> IF q = p THEN "brelse"
              ELSE IF pc[q] = "asleep" /\ buf[q] = buf[p] THEN Awake
              ELSE pc[q]]
  /\ UNCHANGED <<blockno, valid, dirty, refcnt, data, lru, idequeue, disk, buf,
                 want, content>>

Unref(n) == n - 1

\* The list with b taken out and put behind head.
MoveFront(b) ==
  LET i == CHOOSE i \in 1..NBUF : lru[i] = b
  IN [j \in 1..NBUF |-> IF j = 1 THEN b ELSE IF j <= i THEN lru[j-1] ELSE lru[j]]

\* ... and then the reference.  A buffer nobody uses moves to the front.
brelse(p) ==
  /\ pc[p] = "brelse"
  /\ LET b == buf[p]
     IN /\ refcnt' = [refcnt EXCEPT ![b] = Unref(@)]
        /\ lru' = IF Unref(refcnt[b]) = 0 THEN MoveFront(b) ELSE lru
  /\ pc' = [pc EXCEPT ![p] = "idle"]
  /\ buf' = [buf EXCEPT ![p] = NoBuf]
  /\ want' = [want EXCEPT ![p] = NoBlock]
  /\ UNCHANGED <<blockno, valid, dirty, locked, data, idequeue, disk, content>>

Next ==
  \/ ideintr
  \/ \E p \in Caller :
       \/ bget(p) \/ acquiresleep(p) \/ bread(p) \/ Modify(p) \/ log_write(p)
       \/ bwrite(p) \/ releasesleep(p) \/ brelse(p)

Spec == Init /\ [][Next]_vars

-----------------------------------------------------------------------------
(* Properties *)

\* No block is in the cache twice (bget looks before it recycles, both under
\* bcache.lock).
OneBuffer ==
  \A a, b \in Buf : blockno[a] # NoBlock /\ blockno[a] = blockno[b] => a = b

\* bread returns what was stored last: a valid buffer has it, and a block
\* without a valid buffer has it on the disk, however buffers were recycled.
Coherent ==
  \A k \in Block :
    IF \E b \in Buf : blockno[b] = k /\ valid[b]
    THEN \A b \in Buf : blockno[b] = k /\ valid[b] => data[b] = content[k]
    ELSE disk[k] = content[k]

Using(p) == pc[p] \in {"locked", "io", "held", "modified"}

\* "Only one process at a time can use a buffer" (bio.c).
Exclusive ==
  /\ \A p, q \in Caller : Using(p) /\ Using(q) /\ buf[p] = buf[q] => p = q
  /\ \A p \in Caller : Using(p) => locked[buf[p]]

\* From bget to brelse a caller's buffer is the buffer of its block, also
\* while the caller waits for the lock.
NotRecycled ==
  \A p \in Caller : buf[p] # NoBuf => blockno[buf[p]] = want[p]

\* Whoever waits in iderw has its request in the queue once, and nobody else
\* has; whoever sleeps for a buffer has somebody to wake it.
QueueServes ==
  /\ \A b \in Buf : Cardinality({i \in 1..Len(idequeue) : idequeue[i] = b}) =
       IF \E p \in Caller : pc[p] = "io" /\ buf[p] = b THEN 1 ELSE 0
  /\ \A p \in Caller : pc[p] = "asleep" =>
       \E q \in Caller : Using(q) /\ buf[q] = buf[p]

\* A buffer has as many references as callers that hold it or wait for it: a
\* reference nobody holds would take the buffer out of the cache for good,
\* and in the end bget would panic ("bget: no buffers").
NoLeak == \A b \in Buf : refcnt[b] = Cardinality({p \in Caller : buf[p] = b})

\* The buffer cache as its comment in bio.c promises it: one synchronised copy of each
\* block, held by one caller at a time, never recycled or leaked under its users.
BuffersExact ==
  TypeOK /\ OneBuffer /\ Coherent /\ Exclusive /\ NotRecycled /\ NoLeak /\ QueueServes
=============================================================================
