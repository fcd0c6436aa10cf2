------------------------------ MODULE Content ------------------------------
(***************************************************************************)
(* The contents of files: the block allocator, the direct and indirect     *)
(* blocks of an inode, readi and writei (fs.c), and fileread and filewrite *)
(* (file.c) on open files that several processes share.                    *)
(*                                                                         *)
(* readi and writei run under ip->lock, so each is one step; filewrite     *)
(* cuts a long write into transactions, and other processes run between    *)
(* them.  logged holds the blocks the last transaction passed to           *)
(* log_write.                                                              *)
(***************************************************************************)
EXTENDS Integers, Sequences, FiniteSets, SequencesExt

CONSTANTS
  Inodes, Files,        \* inodes and open files (struct file)
  Writers,              \* the processes that write, each its own byte
  Sizes,                \* bound: the n of a call
  BSIZE, NBLOCKS, NDIRECT, NINDIRECT, MAXOPBLOCKS,
  MaxOps                \* bound: the calls made

VARIABLES
  fs,         \* bitmap, blocks with their data, inodes with size and addresses
  fd,         \* the open files: inode or 0, offset
  job,        \* per process: the write under way: file, bytes left
  readback,   \* what the last read returned
  logged,     \* the blocks the last transaction wrote
  full,       \* balloc: out of blocks
  ops

cvars == <<fs, fd, job, readback, logged, full, ops>>

FsBlock == 1..NBLOCKS
BBLOCK == -1          \* the block of the bitmap, and of the inodes
IBLOCK == -2
MAXFILE == NDIRECT + NINDIRECT
Zero == [k \in 0..BSIZE-1 |-> 0]
NoFile == [ip |-> 0, off |-> 0]
NoJob == [f |-> 0, left |-> 0]
EmptyInode == [size |-> 0, addrs |-> [k \in 0..NDIRECT |-> 0]]

ContentInit ==
  /\ fs = [bitmap |-> {}, blk |-> [b \in FsBlock |-> Zero], ind |-> [b \in FsBlock |-> <<>>],
           inode |-> [i \in Inodes |-> EmptyInode], log |-> {}, full |-> FALSE]
  /\ fd = [f \in Files |-> NoFile]
  /\ job = [p \in Writers |-> NoJob]
  /\ readback = <<>> /\ logged = {} /\ full = FALSE /\ ops = 0

-----------------------------------------------------------------------------
(* Functions of the file system s; blk holds the data of a block, ind the  *)
(* addresses in it when it is an indirect block.                           *)

FreeBlock(s) == CHOOSE b \in FsBlock \ s.bitmap : \A c \in FsBlock \ s.bitmap : b <= c

NoAddrs == [k \in 0..NINDIRECT-1 |-> 0]

\* balloc with bzero.
balloc(s) ==
  IF s.bitmap = FsBlock THEN [s EXCEPT !.full = TRUE]
  ELSE [s EXCEPT !.bitmap = @ \cup {FreeBlock(s)},
                 !.blk[FreeBlock(s)] = Zero, !.ind[FreeBlock(s)] = NoAddrs,
                 !.log = @ \cup {BBLOCK, FreeBlock(s)}]

Allocated(s) == IF s.bitmap = FsBlock THEN 0 ELSE FreeBlock(s)

\* The address of block bn, and the file system after bmap has allocated what is missing.
Addr(s, i, bn) == IF bn < NDIRECT THEN s.inode[i].addrs[bn]
                  ELSE s.ind[s.inode[i].addrs[NDIRECT]][bn - NDIRECT]

Direct(s, i, k) ==
  IF s.inode[i].addrs[k] # 0 THEN s
  ELSE [balloc(s) EXCEPT !.inode[i].addrs[k] = Allocated(s)]

Indirect(s, i, k) ==
  LET a == s.inode[i].addrs[NDIRECT] IN
  IF s.full \/ s.ind[a][k] # 0 THEN s
  ELSE [balloc(s) EXCEPT !.ind[a][k] = Allocated(s), !.log = @ \cup {a}]

bmap(s, i, bn) ==
  IF bn < NDIRECT THEN Direct(s, i, bn)
  ELSE Indirect(Direct(s, i, NDIRECT), i, bn - NDIRECT)

PutByte(s, i, k, v) ==
  LET t == bmap(s, i, k \div BSIZE) IN
  IF t.full THEN t
  ELSE LET b == Addr(t, i, k \div BSIZE)
       IN [t EXCEPT !.blk[b][k % BSIZE] = v, !.log = @ \cup {b}]

\* The bounds of writei; without them bmap panics.
Fits(off, n, size) == off <= size /\ off + n <= MAXFILE * BSIZE

writei(s, i, off, n, v) ==
  LET t == FoldLeft(LAMBDA u, k : PutByte(u, i, off + k - 1, v), s, [k \in 1..n |-> k])
  IN IF off + n <= s.inode[i].size THEN t
     ELSE [t EXCEPT !.inode[i].size = off + n, !.log = @ \cup {IBLOCK}]

\* What readi copies out: the bytes below the size.
readi(s, i, off, n) ==
  LET m == IF off + n > s.inode[i].size THEN s.inode[i].size - off ELSE n
  IN [k \in 1..m |-> s.blk[Addr(s, i, (off + k - 1) \div BSIZE)][(off + k - 1) % BSIZE]]

\* The blocks of an inode: data blocks and the indirect block, as itrunc finds them.
DataBlocks(s, i) ==
  {s.inode[i].addrs[k] : k \in 0..NDIRECT-1} \cup
  (IF s.inode[i].addrs[NDIRECT] = 0 THEN {}
   ELSE {s.ind[s.inode[i].addrs[NDIRECT]][k] : k \in 0..NINDIRECT-1})
AllBlocks(s, i) == (DataBlocks(s, i) \cup {s.inode[i].addrs[NDIRECT]}) \ {0}

\* itrunc frees the blocks and the indirect block itself.
itrunc(s, i) ==
  [s EXCEPT !.bitmap = @ \ AllBlocks(s, i), !.inode[i] = EmptyInode,
            !.log = {BBLOCK, IBLOCK}]

-----------------------------------------------------------------------------
\* A transaction ends.
Commit(s) ==
  /\ fs' = [s EXCEPT !.log = {}]
  /\ logged' = s.log

Op == ~full /\ ops < MaxOps /\ ops' = ops + 1

\* sys_open and the last fileclose.
OpenFile(f, i) ==
  /\ Op /\ (fd[f].ip = 0) # (i = 0)
  /\ \A p \in Writers : job[p].f # f
  /\ fd' = [fd EXCEPT ![f] = [ip |-> i, off |-> 0]]
  /\ UNCHANGED <<fs, job, readback, logged, full>>

\* iput of the last reference to an inode without links.
Free(i) ==
  /\ Op /\ fs.inode[i].size > 0 /\ \A f \in Files : fd[f].ip # i
  /\ Commit(itrunc(fs, i))
  /\ UNCHANGED <<fd, job, readback, full>>

\* How far fileread moves the offset, and a version that ignores the end of the file.
Advance_n(r, n) == n
Advance(r, n) == Len(r)

fileread(f, n) ==
  /\ Op /\ fd[f].ip # 0
  /\ LET r == readi(fs, fd[f].ip, fd[f].off, n) IN
     /\ readback' = IF r = <<>> THEN readback ELSE r
     /\ fd' = [fd EXCEPT ![f].off = @ + Advance(r, n)]
  /\ UNCHANGED <<fs, job, logged, full>>

filewrite(p, f, n) ==
  /\ Op /\ fd[f].ip # 0 /\ job[p] = NoJob
  /\ job' = [job EXCEPT ![p] = [f |-> f, left |-> n]]
  /\ UNCHANGED <<fs, fd, readback, logged, full>>

\* The most bytes of one transaction, and a version without a limit.
Chunk_all(n) == n
Chunk(n) == LET max == ((MAXOPBLOCKS - 1 - 1 - 2) \div 2) * BSIZE
            IN IF n > max THEN max ELSE n

\* One round of filewrite's loop; it gives up when writei fails.
WriteChunk(p) ==
  /\ ~full /\ job[p] # NoJob
  /\ LET f == job[p].f
         i == fd[f].ip
         n == Chunk(job[p].left)
         s == writei(fs, i, fd[f].off, n, p)
     IN \/ /\ Fits(fd[f].off, n, fs.inode[i].size) /\ ~s.full
           /\ Commit(s)
           /\ fd' = [fd EXCEPT ![f].off = @ + n]
           /\ job' = [job EXCEPT ![p] = IF n = @.left THEN NoJob ELSE [@ EXCEPT !.left = @ - n]]
           /\ UNCHANGED full
        \/ /\ Fits(fd[f].off, n, fs.inode[i].size) /\ s.full
           /\ full' = TRUE
           /\ UNCHANGED <<fs, fd, job, logged>>
        \/ /\ ~Fits(fd[f].off, n, fs.inode[i].size)
           /\ job' = [job EXCEPT ![p] = NoJob]
           /\ UNCHANGED <<fs, fd, logged, full>>
  /\ UNCHANGED <<readback, ops>>

ContentNext ==
  \/ \E f \in Files : \E i \in Inodes \cup {0} : OpenFile(f, i)
  \/ \E i \in Inodes : Free(i)
  \/ \E f \in Files, n \in Sizes :
       fileread(f, n) \/ \E p \in Writers : filewrite(p, f, n)
  \/ \E p \in Writers : WriteChunk(p)

-----------------------------------------------------------------------------
\* Every block below the size of a file is allocated, no block belongs to two places, and the
\* bitmap has exactly the blocks in use: writei, bmap and itrunc neither share nor leak one.
BlocksExact ==
  /\ \A i \in Inodes : \A k \in 0..fs.inode[i].size-1 : Addr(fs, i, k \div BSIZE) \in FsBlock
  /\ \A i, j \in Inodes : i # j => AllBlocks(fs, i) \cap AllBlocks(fs, j) = {}
  /\ fs.bitmap = UNION {AllBlocks(fs, i) : i \in Inodes}

\* No transaction of filewrite, of any length and alignment, writes more blocks than
\* begin_op reserves for it.
TransactionFits == Cardinality(logged) <= MAXOPBLOCKS

\* Files as the calls see them.
FileBytes(i) == readi(fs, i, 0, fs.inode[i].size)

Abstract == INSTANCE Bytes WITH
  Value <- Writers, MaxBytes <- MAXFILE * BSIZE, open <- fd, got <- readback,
  content <- [i \in Inodes |-> FileBytes(i)]

\* readi and writei through blocks, with offsets shared by the processes, implement plain
\* sequences of bytes.
BytesSpec == Abstract!Spec

\* The blocks of a file system after any calls: each in one place and marked in the bitmap,
\* and no chunk of filewrite outgrows the transaction it runs in.
DiskExact == BlocksExact /\ TransactionFits
=============================================================================
