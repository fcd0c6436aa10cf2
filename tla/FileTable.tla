----------------------------- MODULE FileTable ------------------------------
(***************************************************************************)
(* Open files: the table of struct file (file.c), the descriptors of the   *)
(* processes and the calls that make, share and drop them: pipe, open, dup,*)
(* close, fork and exit.  Each section under ftable.lock is a step, and so *)
(* is what fileclose does after it has released the lock.  A process's     *)
(* descriptors are its own, so a change of them joins the next step.       *)
(***************************************************************************)
EXTENDS Integers, FiniteSets

CONSTANTS
  FProcs,                  \* processes; the least one is there from the start
  NFILE, NOFILE,
  FPipes, FInodes          \* pages for pipes, inodes

ASSUME FileAssumption == FProcs \subseteq Nat /\ IsFiniteSet(FProcs) /\ NFILE \in Nat /\ NOFILE \in Nat

VARIABLES
  ftable,                  \* ref, type, object, writable
  ofile,                   \* the descriptors of each process, 0 is none
  fhold,                   \* the files its call has in hand: rf and wf, or f; 0 is none
  fcall,                   \* the call, "gone" if there is no process, and fileclose's copy ff
  popen,                   \* the open ends of each pipe, as a subset of BOOLEAN (writable)
  fipref                   \* the references to each inode that are held by files

fvars == <<ftable, ofile, fhold, fcall, popen, fipref>>

File == 1..NFILE
FD == 0..NOFILE-1
Hand == 1..2
NoEntry == [ref |-> 0, type |-> "FD_NONE", obj |-> 0, writable |-> FALSE]
Returned == [op |-> "none", ff |-> NoEntry]
FileGone == [op |-> "gone", ff |-> NoEntry]

\* What a loop from the least index on finds first.
First(S) == {x \in S : \A y \in S : x <= y}

fileinit ==
  /\ ftable = [f \in File |-> NoEntry]
  /\ ofile = [p \in FProcs |-> [d \in FD |-> 0]]
  /\ fhold = [p \in FProcs |-> [i \in Hand |-> 0]]
  /\ fcall = [p \in FProcs |-> IF p \in First(FProcs) THEN Returned ELSE FileGone]
  /\ popen = [k \in FPipes |-> {}]
  /\ fipref = [i \in FInodes |-> 0]

FileIdle(p) == fcall[p] = Returned
FreeFDs(p) == {d \in FD : ofile[p][d] = 0}
fdalloc(p) == First(FreeFDs(p))
InHand(p) == {i \in Hand : fhold[p][i] # 0}

\* The call fails: it closes the files it has in hand.
FileBad(p) == fcall' = [fcall EXCEPT ![p].op = "close"]

FileStart(p) ==
  /\ FileIdle(p)
  /\ \E op \in {"pipe", "open"} : fcall' = [fcall EXCEPT ![p].op = op]
  /\ UNCHANGED <<ftable, ofile, fhold, popen, fipref>>

filealloc(p) ==
  /\ \/ fcall[p].op = "pipe" /\ InHand(p) # Hand
     \/ fcall[p].op = "open" /\ InHand(p) = {}
  /\ LET unused == {f \in File : ftable[f].ref = 0} IN
       \/ unused = {} /\ FileBad(p) /\ UNCHANGED <<ftable, fhold>>
       \/ \E f \in First(unused), i \in First(Hand \ InHand(p)) :
            /\ ftable' = [ftable EXCEPT ![f].ref = 1]
            /\ fhold' = [fhold EXCEPT ![p][i] = f]
            /\ UNCHANGED fcall
  /\ UNCHANGED <<ofile, popen, fipref>>

PipeFile(k, w) == [ref |-> 1, type |-> "FD_PIPE", obj |-> k, writable |-> w]

\* pipealloc with both files in hand, and the rest of sys_pipe.
sys_pipe(p) ==
  /\ fcall[p].op = "pipe" /\ InHand(p) = Hand
  /\ \/ /\ FileBad(p)                                     \* no page
        /\ UNCHANGED <<ftable, ofile, fhold, popen>>
     \/ \E k \in FPipes :
          /\ popen[k] = {}
          /\ popen' = [popen EXCEPT ![k] = BOOLEAN]
          /\ ftable' = [ftable EXCEPT ![fhold[p][1]] = PipeFile(k, FALSE), ![fhold[p][2]] = PipeFile(k, TRUE)]
          /\ \/ /\ Cardinality(FreeFDs(p)) < 2
                /\ FileBad(p) /\ UNCHANGED <<ofile, fhold>>
             \/ \E d \in fdalloc(p) : \E e \in First(FreeFDs(p) \ {d}) :
                  /\ ofile' = [ofile EXCEPT ![p][d] = fhold[p][1], ![p][e] = fhold[p][2]]
                  /\ fhold' = [fhold EXCEPT ![p][1] = 0, ![p][2] = 0]
                  /\ fcall' = [fcall EXCEPT ![p] = Returned]
  /\ UNCHANGED fipref

\* sys_open with its file in hand: without a descriptor it closes the file, still FD_NONE.
FileOpen(p) ==
  /\ fcall[p].op = "open" /\ InHand(p) # {}
  /\ \/ FreeFDs(p) = {} /\ FileBad(p) /\ UNCHANGED <<ftable, ofile, fhold, fipref>>
     \/ \E d \in fdalloc(p), i \in FInodes :
          /\ ofile' = [ofile EXCEPT ![p][d] = fhold[p][1]]
          /\ fipref' = [fipref EXCEPT ![i] = @ + 1]
          /\ ftable' = [ftable EXCEPT ![fhold[p][1]].type = "FD_INODE", ![fhold[p][1]].obj = i]
          /\ fhold' = [fhold EXCEPT ![p][1] = 0]
          /\ fcall' = [fcall EXCEPT ![p] = Returned]
  /\ UNCHANGED popen

\* The table after filedup of file f n times.
filedup(f, n) == [ftable EXCEPT ![f].ref = @ + n]

sys_dup(p, d) ==
  /\ FileIdle(p) /\ ofile[p][d] # 0
  /\ \E e \in fdalloc(p) : ofile' = [ofile EXCEPT ![p][e] = ofile[p][d]]
  /\ ftable' = filedup(ofile[p][d], 1)
  /\ UNCHANGED <<fhold, fcall, popen, fipref>>

\* A descriptor's file comes into the hand of the call that closes it.
TakeFD(p, d) ==
  /\ ofile' = [ofile EXCEPT ![p][d] = 0]
  /\ fhold' = [fhold EXCEPT ![p][1] = ofile[p][d]]

sys_close(p, d) ==
  /\ FileIdle(p) /\ ofile[p][d] # 0
  /\ TakeFD(p, d)
  /\ fcall' = [fcall EXCEPT ![p].op = "close"]
  /\ UNCHANGED <<ftable, popen, fipref>>

\* fork: filedup of every descriptor.
FileFork(p, c) ==
  /\ FileIdle(p) /\ fcall[c] = FileGone
  /\ ofile' = [ofile EXCEPT ![c] = ofile[p]]
  /\ fcall' = [fcall EXCEPT ![c] = Returned]
  /\ ftable' = [f \in File |-> [ftable[f] EXCEPT !.ref = @ + Cardinality({d \in FD : ofile[p][d] = f})]]
  /\ UNCHANGED <<fhold, popen, fipref>>

\* exit, never by init, and a round of its loop over the descriptors.
FileExit(p) ==
  /\ FileIdle(p) /\ p \notin First(FProcs)
  /\ fcall' = [fcall EXCEPT ![p].op = "exit"]
  /\ UNCHANGED <<ftable, ofile, fhold, popen, fipref>>

ExitClose(p) ==
  /\ fcall[p] = [op |-> "exit", ff |-> NoEntry] /\ InHand(p) = {}
  /\ \E d \in First(FD \ FreeFDs(p)) : TakeFD(p, d)
  /\ UNCHANGED <<ftable, fcall, popen, fipref>>

-----------------------------------------------------------------------------
\* The copy that fileclose takes of a file, and a version that resets the file first.
Copy_late(f) == NoEntry
Copy(f) == ftable[f]

\* fileclose under the lock, of the files in hand from the first on.
FileClose(p) ==
  /\ fcall[p].op \in {"close", "exit"} /\ fcall[p].ff = NoEntry
  /\ \E i \in First(InHand(p)) : LET f == fhold[p][i] IN
       /\ fhold' = [fhold EXCEPT ![p][i] = 0]
       /\ \/ /\ ftable[f].ref > 1
             /\ ftable' = [ftable EXCEPT ![f].ref = @ - 1]
             /\ UNCHANGED fcall
          \/ /\ ftable[f].ref <= 1
             /\ ftable' = [ftable EXCEPT ![f] = NoEntry]
             /\ fcall' = [fcall EXCEPT ![p].ff = Copy(f)]
  /\ UNCHANGED <<ofile, popen, fipref>>

\* fileclose after the lock: pipeclose, iput, or nothing for a file without type.
FileDrop(p) ==
  /\ fcall[p].ff # NoEntry
  /\ LET ff == fcall[p].ff IN
       /\ popen' = IF ff.type = "FD_PIPE" THEN [popen EXCEPT ![ff.obj] = @ \ {ff.writable}] ELSE popen
       /\ fipref' = IF ff.type = "FD_INODE" THEN [fipref EXCEPT ![ff.obj] = @ - 1] ELSE fipref
  /\ fcall' = [fcall EXCEPT ![p].ff = NoEntry]
  /\ UNCHANGED <<ftable, ofile, fhold>>

\* A call that has closed its files returns, or its process is gone.
FileReturn(p) ==
  /\ fcall[p].ff = NoEntry /\ InHand(p) = {}
  /\ \/ fcall[p].op = "close" /\ fcall' = [fcall EXCEPT ![p] = Returned]
     \/ fcall[p].op = "exit" /\ FreeFDs(p) = FD /\ fcall' = [fcall EXCEPT ![p] = FileGone]
  /\ UNCHANGED <<ftable, ofile, fhold, popen, fipref>>

FileNext ==
  \E p \in FProcs :
    \/ FileStart(p) \/ filealloc(p) \/ sys_pipe(p) \/ FileOpen(p)
    \/ \E d \in FD : sys_dup(p, d) \/ sys_close(p, d)
    \/ \E c \in FProcs : FileFork(p, c)
    \/ FileExit(p) \/ ExitClose(p) \/ FileClose(p) \/ FileDrop(p) \/ FileReturn(p)

FileSpec == fileinit /\ [][FileNext]_fvars

-----------------------------------------------------------------------------
\* The places of an array of each process that hold file f.
Places(a, I, f) == {x \in FProcs \X I : a[x[1]][x[2]] = f}

\* A file's ref counts the descriptors that name it and the calls that hold it: fileclose
\* and filedup never meet a free file (their panics), and no open file is reused.
FileRefs ==
  \A f \in File :
    ftable[f].ref = Cardinality(Places(ofile, FD, f)) + Cardinality(Places(fhold, Hand, f))

\* The files in the table and the copies that fileclose has still to drop.
Entries == ({"file"} \X File) \cup ({"copy"} \X FProcs)
Entry(x) == IF x[1] = "file" THEN ftable[x[2]] ELSE fcall[x[2]].ff
Holders(t, obj) == {x \in Entries : Entry(x).type = t /\ Entry(x).obj = obj}

\* Each open end of a pipe belongs to one file, and each inode reference too, even while
\* the file is reused by another process between fileclose's unlock and its pipeclose or
\* iput: nothing is closed twice, and nothing stays open once its last file is closed.
ObjectsHeld ==
  /\ \A k \in FPipes : /\ popen[k] = {Entry(x).writable : x \in Holders("FD_PIPE", k)}
                       /\ \A x, y \in Holders("FD_PIPE", k) :
                            Entry(x).writable = Entry(y).writable => x = y
  /\ \A i \in FInodes : fipref[i] = Cardinality(Holders("FD_INODE", i))

\* The counts of ftable are the descriptors that name a file, and what a file refers to is
\* held once, also while fileclose() works on its copy.
FilesExact == FileRefs /\ ObjectsHeld
=============================================================================
