--------------------------------- MODULE Log --------------------------------
(***************************************************************************)
(* The redo log of log.c: concurrent system calls that begin_op, log_write *)
(* and end_op, the commit made by the last of them, crashes, and the       *)
(* recovery made by initlog.                                               *)
(*                                                                         *)
(* A critical section of log.lock is one step, and so is the write of a    *)
(* block to the disk.  log_write reads log.lh.n before it takes log.lock,  *)
(* so that its test and its append are two steps.  A caller that panics    *)
(* stops where it is; the other CPUs go on.                                *)
(***************************************************************************)
EXTENDS Naturals, FiniteSets, Sequences, Functions

CONSTANTS
  Caller,       \* the processes that make file system calls
  Block, Val,   \* blocks outside the log, and their contents
  Past,         \* the block that follows the log on the disk
  NoBlock,
  LOGSIZE, MAXOPBLOCKS,
  size,         \* log.size: the blocks of the log, its header included
  OpWrites      \* bound: the calls of log_write in one system call

ASSUME LogAssumption ==
  /\ IsFiniteSet(Caller)
  /\ Past \in Block /\ NoBlock \notin Block
  /\ LOGSIZE \in Nat /\ MAXOPBLOCKS \in 1..LOGSIZE /\ size \in Nat \ {0}
  /\ OpWrites \in 0..MAXOPBLOCKS

VARIABLES
  home, hdr, logd,  \* the disk: blocks, header of the log, blocks of the log
  cache,            \* what bread returns for a block outside the log
  lh,               \* log.lh
  outstanding, committing,
  pc, blk, left,    \* per caller: where it is, the buffer it holds locked,
                    \* the log_writes it may still make
  stage, tail,      \* where commit() or recover_from_log() is
  up                \* initlog has returned

disk == <<home, hdr, logd>>
call == <<pc, blk, left>>
vars == <<disk, cache, lh, outstanding, committing, call, stage, tail, up>>

TypeOK ==
  /\ home \in [Block -> Val] /\ cache \in [Block -> Val]
  /\ logd \in [1..LOGSIZE -> Val]
  /\ lh \in Seq(Block) /\ Len(lh) <= LOGSIZE
  /\ hdr \in Seq(Block) /\ Len(hdr) <= LOGSIZE
  /\ outstanding \in Nat /\ committing \in BOOLEAN /\ up \in BOOLEAN
  /\ pc \in [Caller -> {"idle", "asleep", "woken", "op", "write", "panic",
                        "commit"}]
  /\ blk \in [Caller -> Block \cup {NoBlock}]
  /\ left \in [Caller -> 0..OpWrites]
  /\ stage \in {"none", "read", "log", "head", "install", "finish"}
  /\ tail \in 0..LOGSIZE

\* A disk from mkfs, and initlog has found an empty log.
Init ==
  /\ \E v \in Val : home = [b \in Block |-> v] /\ logd = [i \in 1..LOGSIZE |-> v]
  /\ cache = home
  /\ hdr = <<>> /\ lh = <<>>
  /\ outstanding = 0 /\ committing = FALSE
  /\ pc = [p \in Caller |-> "idle"]
  /\ blk = [p \in Caller |-> NoBlock]
  /\ left = [p \in Caller |-> 0]
  /\ stage = "none" /\ tail = 0 /\ up = TRUE

\* A version of Wakeup that wakes nobody.
Wakeup_not(f) == f

\* wakeup(&log)
Wakeup(f) == [p \in Caller |-> IF f[p] = "asleep" THEN "woken" ELSE f[p]]

-----------------------------------------------------------------------------

MustWait == committing \/ Len(lh) + (outstanding + 1) * MAXOPBLOCKS > LOGSIZE

begin_op(p) ==
  /\ up /\ pc[p] \in {"idle", "woken"}
  /\ \/ /\ MustWait
        /\ pc' = [pc EXCEPT ![p] = "asleep"]
        /\ UNCHANGED <<outstanding, left>>
     \/ /\ ~MustWait
        /\ pc' = [pc EXCEPT ![p] = "op"]
        /\ outstanding' = outstanding + 1
        /\ left' = [left EXCEPT ![p] = OpWrites]
  /\ UNCHANGED <<disk, cache, lh, committing, blk, stage, tail, up>>

Full == Len(lh) >= LOGSIZE \/ Len(lh) >= size - 1

\* The caller has changed the buffer b, which it holds locked, and calls
\* log_write, which tests for room before it has log.lock.
LogTest(p) ==
  /\ pc[p] = "op" /\ left[p] > 0
  /\ \E b \in Block, v \in Val :
       /\ \A q \in Caller : blk[q] # b
       /\ cache' = [cache EXCEPT ![b] = v]
       /\ blk' = [blk EXCEPT ![p] = b]
  /\ pc' = [pc EXCEPT ![p] = IF Full \/ outstanding < 1 THEN "panic"
                             ELSE "write"]
  /\ left' = [left EXCEPT ![p] = @ - 1]
  /\ UNCHANGED <<disk, lh, outstanding, committing, stage, tail, up>>

log_write(p) ==
  /\ pc[p] = "write"
  /\ lh' = IF blk[p] \in Range(lh) THEN lh ELSE Append(lh, blk[p])
  /\ pc' = [pc EXCEPT ![p] = "op"]
  /\ blk' = [blk EXCEPT ![p] = NoBlock]
  /\ UNCHANGED <<disk, cache, outstanding, committing, left, stage, tail, up>>

end_op(p) ==
  /\ pc[p] = "op"
  /\ outstanding' = outstanding - 1
  /\ left' = [left EXCEPT ![p] = 0]
  /\ \/ /\ outstanding = 1
        /\ committing' = TRUE
        /\ pc' = [pc EXCEPT ![p] = "commit"]
        /\ stage' = (IF lh = <<>> THEN "finish" ELSE "log") /\ tail' = 0
     \/ /\ outstanding # 1
        /\ pc' = Wakeup([pc EXCEPT ![p] = "idle"])
        /\ UNCHANGED <<committing, stage, tail>>
  /\ UNCHANGED <<disk, cache, lh, blk, up>>

-----------------------------------------------------------------------------
(* commit() *)

\* One turn of the loop of write_log.  A block that does not fit in the log
\* lands on the block behind it, in the cache and on the disk.
write_log ==
  /\ stage = "log"
  /\ LET v == cache[lh[tail + 1]]
     IN IF tail + 1 <= size - 1
        THEN /\ logd' = [logd EXCEPT ![tail + 1] = v]
             /\ UNCHANGED <<home, cache>>
        ELSE /\ home' = [home EXCEPT ![Past] = v]
             /\ cache' = [cache EXCEPT ![Past] = v]
             /\ UNCHANGED logd
  /\ IF tail + 1 = Len(lh) THEN stage' = "head" /\ tail' = 0
                           ELSE tail' = tail + 1 /\ UNCHANGED stage
  /\ UNCHANGED <<hdr, lh, outstanding, committing, call, up>>

\* The real commit.
write_head ==
  /\ stage = "head"
  /\ hdr' = lh
  /\ stage' = "install"
  /\ UNCHANGED <<home, logd, cache, lh, outstanding, committing, call, tail, up>>

LogBlock(i) == IF i <= size - 1 THEN logd[i] ELSE cache[Past]

\* One turn of the loop of install_trans.
install_trans ==
  /\ stage = "install" /\ tail < Len(lh)
  /\ home' = [home EXCEPT ![lh[tail + 1]] = LogBlock(tail + 1)]
  /\ cache' = [cache EXCEPT ![lh[tail + 1]] = LogBlock(tail + 1)]
  /\ tail' = tail + 1
  /\ UNCHANGED <<hdr, logd, lh, outstanding, committing, call, stage, up>>

\* A version of Installed in which the loop stops one block early.
Installed_early == tail + 1 >= Len(lh)

Installed == tail = Len(lh)

\* log.lh.n = 0 and write_head, at the end of commit and of recovery.
Erase ==
  /\ stage = "install" /\ Installed
  /\ lh' = <<>> /\ hdr' = <<>>
  /\ stage' = IF up THEN "finish" ELSE "none"
  /\ up' = TRUE /\ tail' = 0
  /\ UNCHANGED <<home, logd, cache, outstanding, committing, call>>

\* end_op after commit().
Finish ==
  /\ stage = "finish"
  /\ committing' = FALSE
  /\ pc' = Wakeup([p \in Caller |-> IF pc[p] = "commit" THEN "idle" ELSE pc[p]])
  /\ stage' = "none"
  /\ UNCHANGED <<disk, cache, lh, outstanding, blk, left, tail, up>>

-----------------------------------------------------------------------------
(* The machine stops, and starts again with what is on the disk *)

Crash ==
  /\ cache' = home /\ lh' = <<>>
  /\ outstanding' = 0 /\ committing' = FALSE
  /\ pc' = [p \in Caller |-> "idle"]
  /\ blk' = [p \in Caller |-> NoBlock]
  /\ left' = [p \in Caller |-> 0]
  /\ stage' = "read" /\ tail' = 0 /\ up' = FALSE
  /\ UNCHANGED disk

\* A version of read_head that takes the log for empty.
read_head_empty ==
  /\ stage = "read"
  /\ stage' = "install"
  /\ UNCHANGED <<disk, cache, lh, outstanding, committing, call, tail, up>>

read_head ==
  /\ stage = "read"
  /\ lh' = hdr
  /\ stage' = "install"
  /\ UNCHANGED <<disk, cache, outstanding, committing, call, tail, up>>

-----------------------------------------------------------------------------

Op(p) == LogTest(p) \/ log_write(p) \/ end_op(p)

Step == write_log \/ write_head \/ install_trans \/ Erase \/ Finish \/ read_head

Next == Crash \/ Step \/ \E p \in Caller : begin_op(p) \/ Op(p)

Spec == Init /\ [][Next]_vars

\* The kernel goes on with the system calls it has started.
FairSpec == /\ Spec /\ WF_vars(Step)
            /\ \A p \in Caller : WF_vars(Op(p))
                 /\ WF_vars(pc[p] = "woken" /\ begin_op(p))

-----------------------------------------------------------------------------
(* Properties *)

\* What recovery makes of the disk as it is now.
Durable == [b \in Block |->
  IF b \in Range(hdr)
  THEN LogBlock(CHOOSE i \in 1..Len(hdr) : hdr[i] = b) ELSE home[b]]

\* The callers between begin_op and end_op.
Active == {p \in Caller : pc[p] \in {"op", "write", "panic"}}

\* System calls are atomic with respect to crashes, also to crashes during
\* commit and during recovery: commit makes durable only whole system calls,
\* and recovery brings back exactly what was committed last.
Atomic == INSTANCE LogAtomic WITH
  mem     <- IF up THEN cache ELSE Durable,
  durable <- Durable,
  active  <- Active

AtomicSpec == Atomic!Spec

\* A buffer that bget may evict has nothing the disk does not have: a block
\* differs from the disk only while it is listed in the header (B_DIRTY), or
\* locked by a caller that has not called log_write yet.
CleanCache ==
  \A b \in Block : cache[b] # home[b] =>
    b \in Range(lh) \/ \E p \in Caller : blk[p] = b

\* When end_op returns to the caller that committed, its writes and those of
\* all calls before it are on the disk, in place.
DurableReturn == stage = "finish" => home = cache /\ hdr = <<>>

\* Whoever sleeps in begin_op has a reason to, and somebody to wake it.
NoLostWakeup ==
  \A p \in Caller : pc[p] = "asleep" =>
    MustWait /\ (committing \/ outstanding > 0)

\* "this op might exhaust log space; wait for commit" (begin_op): the blocks
\* of a transaction fit in the log, behind its header.
LogFits == Len(lh) <= size - 1

\* The same comment: a call that begin_op has let in finds room for as many
\* blocks as MAXOPBLOCKS.
NoPanic == \A p \in Caller : pc[p] # "panic"

\* begin_op never hangs: while a process sleeps in it, some caller gets in,
\* or the machine goes down.
SomeoneBegins ==
  (\E p \in Caller : pc[p] = "asleep")
    ~> (~up \/ \E p \in Caller : pc[p] = "op")

\* The log at work: the transaction fits the disk's log and reaches its place before
\* end_op returns, nothing unlogged is evicted, nobody sleeps in begin_op for nothing.
LogSafe ==
  TypeOK /\ CleanCache /\ DurableReturn /\ NoLostWakeup /\ LogFits /\ NoPanic
=============================================================================
