-------------------------------- MODULE Pipe --------------------------------
(***************************************************************************)
(* A pipe (pipe.c) shared by processes that write to it and processes that *)
(* read from it, until the last descriptor of an end is closed.            *)
(*                                                                         *)
(* pipewrite and piperead keep p->lock except while they sleep, so that    *)
(* each runs in one step from taking the lock to the next sleep or to its  *)
(* return.  The counters nread and nwrite are uints: they wrap at CtrMod,  *)
(* which PIPESIZE divides.                                                 *)
(***************************************************************************)
EXTENDS Naturals, FiniteSets

CONSTANTS
  Writer, Reader,   \* the processes that have one of the two ends open
  Byte,
  PIPESIZE,
  CtrMod,           \* 2^32
  MaxN              \* bound: the largest n of a call

ASSUME PipeAssumption ==
  /\ Writer \cap Reader = {} /\ Writer # {} /\ Reader # {}
  /\ PIPESIZE \in Nat \ {0} /\ MaxN \in Nat
  /\ \E k \in 2..CtrMod : CtrMod = k * PIPESIZE

VARIABLES data, nread, nwrite, readopen, writeopen,
          freed,            \* kfree has been called
          pc, todo,         \* per process: where it is, n - i of its call
          killed

pipe == <<data, nread, nwrite, readopen, writeopen, freed>>
vars == <<pipe, pc, todo, killed>>

Process == Writer \cup Reader

TypeOK ==
  /\ data \in [0..PIPESIZE-1 -> Byte]
  /\ nread \in 0..CtrMod-1 /\ nwrite \in 0..CtrMod-1
  /\ readopen \in BOOLEAN /\ writeopen \in BOOLEAN /\ freed \in BOOLEAN
  /\ pc \in [Process -> {"user", "call", "asleep", "close", "closed"}]
  /\ todo \in [Process -> 0..MaxN]
  /\ killed \in [Process -> BOOLEAN]

\* pipealloc, and the forks after which Process have the descriptors.  The
\* page from kalloc holds anything.
Init ==
  /\ data \in [0..PIPESIZE-1 -> Byte]
  /\ nread = 0 /\ nwrite = 0
  /\ readopen = TRUE /\ writeopen = TRUE /\ freed = FALSE
  /\ pc = [p \in Process |-> "user"]
  /\ todo = [p \in Process |-> 0]
  /\ killed = [p \in Process |-> FALSE]

\* The number of bytes in the pipe, in the arithmetic of uint.
Count == (nwrite + CtrMod - nread) % CtrMod

\* The sum of two uints.
Plus(m, n) == (m + n) % CtrMod

\* nwrite == nread + PIPESIZE, nread == nwrite
IsFull  == nwrite = Plus(nread, PIPESIZE)
IsEmpty == nread = nwrite

\* wakeup(&p->nread) and wakeup(&p->nwrite): only readers sleep on the one,
\* only writers on the other.
Wakeup(f, S) == [p \in Process |-> IF p \in S /\ f[p] = "asleep" THEN "call"
                                   ELSE f[p]]

-----------------------------------------------------------------------------

\* read() and write() with n bytes.
Call(p) ==
  /\ pc[p] = "user" /\ ~killed[p]
  /\ pc' = [pc EXCEPT ![p] = "call"]
  /\ \E n \in 0..MaxN : todo' = [todo EXCEPT ![p] = n]
  /\ UNCHANGED <<pipe, killed>>

\* myproc()->killed, tested before every sleep.
Interrupted(p) == killed[p]

\* The slots of data that the next k bytes go to or come from.
Index(start, k) == {(start + j) % PIPESIZE : j \in 0..k-1}

Least(m, n) == IF m <= n THEN m ELSE n

\* A version of Room for which the pipe is full one byte later.
Room_more == PIPESIZE + 1 - Count

Room == PIPESIZE - Count

\* The wakeup(&p->nread) before the writer sleeps.
WriteSleepWakeup(f) == Wakeup(f, Reader)

\* The loop stores what fits; then the call is done, or fails, or sleeps.
pipewrite(w) ==
  /\ pc[w] = "call"
  /\ LET k == Least(todo[w], Room)
         at == Index(nwrite, k)
     IN /\ data' \in [0..PIPESIZE-1 -> Byte]
        /\ \A x \in (0..PIPESIZE-1) \ at : data'[x] = data[x]
        /\ nwrite' = Plus(nwrite, k)
        /\ \/ /\ k = todo[w]
              /\ pc' = Wakeup([pc EXCEPT ![w] = "user"], Reader)
              /\ todo' = [todo EXCEPT ![w] = 0]
           \/ /\ k < todo[w] /\ (~readopen \/ Interrupted(w))
              /\ pc' = [pc EXCEPT ![w] = "user"]
              /\ todo' = [todo EXCEPT ![w] = 0]
           \/ /\ k < todo[w] /\ readopen /\ ~Interrupted(w)
              /\ pc' = WriteSleepWakeup([pc EXCEPT ![w] = "asleep"])
              /\ todo' = [todo EXCEPT ![w] = @ - k]
  /\ UNCHANGED <<nread, readopen, writeopen, freed, killed>>

\* A version of ReadWakeup that wakes nobody.
ReadWakeup_not(f) == f

\* The wakeup(&p->nwrite) before piperead returns.
ReadWakeup(f) == Wakeup(f, Writer)

piperead(r) ==
  /\ pc[r] = "call"
  /\ \/ /\ IsEmpty /\ writeopen /\ ~Interrupted(r)
        /\ pc' = [pc EXCEPT ![r] = "asleep"]
        /\ UNCHANGED <<nread, todo>>
     \/ /\ IsEmpty /\ writeopen /\ Interrupted(r)
        /\ pc' = [pc EXCEPT ![r] = "user"]
        /\ todo' = [todo EXCEPT ![r] = 0]
        /\ UNCHANGED nread
     \/ /\ ~IsEmpty \/ ~writeopen
        /\ nread' = Plus(nread, Least(todo[r], Count))
        /\ pc' = ReadWakeup([pc EXCEPT ![r] = "user"])
        /\ todo' = [todo EXCEPT ![r] = 0]
  /\ UNCHANGED <<data, nwrite, readopen, writeopen, freed, killed>>

\* fileclose: only the last descriptor of an end goes on to pipeclose.
fileclose(p) ==
  /\ pc[p] = "user"
  /\ LET end  == IF p \in Writer THEN Writer ELSE Reader
         last == \A q \in end \ {p} : pc[q] \in {"close", "closed"}
     IN pc' = [pc EXCEPT ![p] = IF last THEN "close" ELSE "closed"]
  /\ UNCHANGED <<pipe, todo, killed>>

CloseWakeup(f, p) == Wakeup(f, IF p \in Writer THEN Reader ELSE Writer)

\* Neither end is open any more.
Unused == ~readopen' /\ ~writeopen'

pipeclose(p) ==
  /\ pc[p] = "close"
  /\ writeopen' = (writeopen /\ p \notin Writer)
  /\ readopen' = (readopen /\ p \notin Reader)
  /\ pc' = CloseWakeup([pc EXCEPT ![p] = "closed"], p)
  /\ freed' = (freed \/ Unused)
  /\ UNCHANGED <<data, nread, nwrite, todo, killed>>

\* kill() by another process: a sleeper is made RUNNABLE.
Kill(p) ==
  /\ ~killed[p]
  /\ killed' = [killed EXCEPT ![p] = TRUE]
  /\ pc' = Wakeup(pc, {p})
  /\ UNCHANGED <<pipe, todo>>

Serve(p) == \/ p \in Writer /\ pipewrite(p)
            \/ p \in Reader /\ piperead(p)
            \/ pipeclose(p)

Next == \E p \in Process : Call(p) \/ Serve(p) \/ fileclose(p) \/ Kill(p)

Spec == Init /\ [][Next]_vars

-----------------------------------------------------------------------------
(* Properties *)

\* The bytes between nread and nwrite, in order.
Content == [i \in 1..Count |-> data[(nread + i - 1) % PIPESIZE]]

\* The pipe is a bounded queue, also where the counters or the indices wrap:
\* no byte is lost, overwritten before it is read, or read twice, and an end
\* is closed once and for all.
Queue == INSTANCE Fifo WITH q <- Content, Capacity <- PIPESIZE

FifoSpec == Queue!Spec

\* A writer sleeps only while the pipe is full, its other end is open and
\* nobody has killed the writer: piperead, pipeclose and kill have woken it
\* in every other case.
WriterAsleep ==
  \A w \in Writer : pc[w] = "asleep" => IsFull /\ readopen /\ ~killed[w]

\* A reader sleeps only while its other end is open and nobody has killed
\* the reader, and while the pipe is empty, unless a writer has been killed:
\* pipewrite returns -1 without the wakeup, although the loop may have stored
\* bytes before.
ReaderAsleep ==
  \A r \in Reader : pc[r] = "asleep" =>
    /\ writeopen /\ ~killed[r]
    /\ IsEmpty \/ \E w \in Writer : killed[w]

\* kfree(p) comes after the last use of the pipe, and does come.
FreedLast == freed <=> \A p \in Process : pc[p] = "closed"

\* Nobody sleeps on a pipe without a reason, and kfree comes after the last use.
PipeSafe == TypeOK /\ WriterAsleep /\ ReaderAsleep /\ FreedLast
=============================================================================
