-------------------------------- MODULE Mkfs --------------------------------
(***************************************************************************)
(* mkfs (mkfs.c): the file system image that the kernel mounts.  A block   *)
(* holds BSIZE cells; a cell is a byte of a file, a directory entry or an  *)
(* address.  Each pass of main()'s loop is a step.                         *)
(***************************************************************************)
EXTENDS Naturals, Sequences, FiniteSets, SequencesExt

CONSTANTS
  BSIZE, NDIRECT,
  IPB, BPB,        \* inodes and bitmap bits per block
  LOGSIZE,
  Geometries,      \* pairs <<FSSIZE, NINODES>>
  FileSizes        \* sequences: the sizes of the files on the command line

VARIABLES geo, files, next, mstage,
          image    \* [blk: the blocks written, din: the inodes, freeblock, bitmap, ok]

mkvars == <<geo, files, next, mstage, image>>

FSSIZE == geo[1]
NINODES == geo[2]
MAXFILE == NDIRECT + BSIZE
ROOTINO == 1
Zeroes == [c \in 0..BSIZE-1 |-> 0]

\* The number of inode blocks.
ninodeblocks == NINODES \div IPB + 1
nbitmap == FSSIZE \div BPB + 1
inodestart == 2 + LOGSIZE
bmapstart == 2 + LOGSIZE + ninodeblocks
nmeta == 2 + LOGSIZE + ninodeblocks + nbitmap

\* Where the kernel looks for an inode and for a bit of the bitmap.
IBLOCK(i) == i \div IPB + inodestart
BBLOCK(b) == b \div BPB + bmapstart

Blank(n) == [blk |-> [b \in {} |-> Zeroes], din |-> <<>>, freeblock |-> n, bitmap |-> {}, ok |-> TRUE]

MkfsInit == geo = <<0, 0>> /\ files = <<>> /\ next = 1 /\ mstage = "idle" /\ image = Blank(0)

\* main() up to the superblock.
MkfsMain ==
  /\ mstage = "idle"
  /\ geo' \in Geometries /\ files' \in FileSizes
  /\ image' = Blank(nmeta')
  /\ mstage' = "root"
  /\ UNCHANGED next

rsect(im, b) == IF b \in DOMAIN im.blk THEN im.blk[b] ELSE Zeroes
wsect(im, b, v) == [im EXCEPT !.blk = [x \in DOMAIN @ \cup {b} |-> IF x = b THEN v ELSE @[x]]]

ialloc(im) == [im EXCEPT !.din = Append(@, [size |-> 0, addrs |-> [i \in 0..NDIRECT |-> 0]])]

\* The image with an address for block fbn of the inode.
Direct(im, i, fbn) ==
  IF im.din[i].addrs[fbn] # 0 THEN im
  ELSE [im EXCEPT !.din[i].addrs[fbn] = im.freeblock, !.freeblock = @ + 1]
Indirect(im, i, n) ==
  LET a == Direct(im, i, NDIRECT)
      ind == a.din[i].addrs[NDIRECT]
      v == rsect(a, ind)
  IN IF v[n] # 0 THEN a
     ELSE [wsect(a, ind, [v EXCEPT ![n] = a.freeblock]) EXCEPT !.freeblock = @ + 1]
Mapped(im, i, fbn) == IF fbn < NDIRECT THEN Direct(im, i, fbn) ELSE Indirect(im, i, fbn - NDIRECT)
AddrOf(im, i, fbn) ==
  IF fbn < NDIRECT THEN im.din[i].addrs[fbn] ELSE rsect(im, im.din[i].addrs[NDIRECT])[fbn - NDIRECT]

\* One cell more; a version that leaves a block out each time.
AppendCell_skip(im, i, cell) ==
  LET fbn == im.din[i].size \div BSIZE
      a == [Mapped(im, i, fbn) EXCEPT !.freeblock = @ + 1]
      x == AddrOf(a, i, fbn)
  IN IF ~im.ok \/ fbn >= MAXFILE THEN [im EXCEPT !.ok = FALSE]
     ELSE [wsect(a, x, [rsect(a, x) EXCEPT ![im.din[i].size % BSIZE] = cell]) EXCEPT !.din[i].size = @ + 1]
AppendCell(im, i, cell) ==
  LET fbn == im.din[i].size \div BSIZE
      a == Mapped(im, i, fbn)
      x == AddrOf(a, i, fbn)
  IN IF ~im.ok \/ fbn >= MAXFILE THEN [im EXCEPT !.ok = FALSE]
     ELSE [wsect(a, x, [rsect(a, x) EXCEPT ![im.din[i].size % BSIZE] = cell]) EXCEPT !.din[i].size = @ + 1]

iappend(im, i, cells) == FoldLeft(LAMBDA a, c : AppendCell(a, i, c), im, cells)

MakeRoot ==
  /\ mstage = "root"
  /\ image' = iappend(ialloc(image), ROOTINO, <<ROOTINO, ROOTINO>>)
  /\ mstage' = "files"
  /\ UNCHANGED <<geo, files, next>>

Bytes(n) == [k \in 1..files[n] |-> <<n, k>>]
AddFile ==
  /\ mstage = "files" /\ next <= Len(files) /\ image.ok
  /\ LET inum == Len(image.din) + 1 IN
     image' = iappend(iappend(ialloc(image), ROOTINO, <<inum>>), inum, Bytes(next))
  /\ next' = next + 1
  /\ UNCHANGED <<geo, files, mstage>>

\* The directory's size is rounded up.
RootSize(off) == (off \div BSIZE + 1) * BSIZE

\* balloc() asserts that one block of the bitmap holds the used blocks.
Finish ==
  /\ mstage = "files" /\ next > Len(files) /\ image.ok
  /\ image' = IF image.freeblock < BPB
              THEN [image EXCEPT !.din[ROOTINO].size = RootSize(@), !.bitmap = 0..image.freeblock-1]
              ELSE [image EXCEPT !.ok = FALSE]
  /\ mstage' = "done"
  /\ UNCHANGED <<geo, files, next>>

MkfsNext == MkfsMain \/ MakeRoot \/ AddFile \/ Finish

-----------------------------------------------------------------------------
Made == mstage = "done" /\ image.ok
BlocksOf(i) ==
  ({AddrOf(image, i, n) : n \in 0..MAXFILE-1} \cup {image.din[i].addrs[NDIRECT]}) \ {0}
Stored(i) == [k \in 1..image.din[i].size |->
  rsect(image, AddrOf(image, i, (k - 1) \div BSIZE))[(k - 1) % BSIZE]]

\* The regions that the kernel computes with IBLOCK and BBLOCK from the superblock hold
\* every inode and every bit, and do not reach into each other or into the data.
RegionsApart ==
  Made => /\ \A i \in 0..NINODES-1 : IBLOCK(i) \in inodestart..bmapstart-1
          /\ \A b \in 0..FSSIZE-1 : BBLOCK(b) \in bmapstart..nmeta-1

\* In a finished image the bitmap marks exactly the blocks before the data, and the blocks
\* of the files; no two inodes share one, and none is marked without an owner.
BitmapExact ==
  Made =>
    /\ \A i, j \in DOMAIN image.din : i # j => BlocksOf(i) \cap BlocksOf(j) = {}
    /\ image.bitmap = 0..nmeta-1 \cup UNION {BlocksOf(i) : i \in DOMAIN image.din}

\* Every file reads back as it was, and the directory as its entries and then free ones up
\* to a size that is a whole number of blocks.  The last of these has no block yet when
\* the entries filled the one before: the kernel allocates it when it is first read.
ReadsBack ==
  Made =>
    LET entries == <<ROOTINO, ROOTINO>> \o [n \in DOMAIN files |-> n + 1]
        root == image.din[ROOTINO]
    IN /\ \A n \in DOMAIN files : Stored(n + 1) = Bytes(n)
       /\ root.size % BSIZE = 0 /\ root.size > Len(entries)
       /\ \A k \in 1..root.size : k <= Len(entries) => Stored(ROOTINO)[k] = entries[k]
       /\ \A n \in 0..(root.size \div BSIZE)-1 : AddrOf(image, ROOTINO, n) = 0 <=>
            Len(entries) = n * BSIZE
       /\ Len(entries) % BSIZE # 0 =>
            \A k \in Len(entries)+1..root.size : Stored(ROOTINO)[k] = 0

\* The image mkfs leaves is a file system: its regions do not overlap, its bitmap marks
\* what is used, and its inodes give back the files that went in.
ImageSound == RegionsApart /\ BitmapExact /\ ReadsBack
=============================================================================
