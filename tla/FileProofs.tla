----------------------------- MODULE FileProofs -----------------------------
(***************************************************************************)
(* The references of struct file and what an open file refers to are exact *)
(* for all numbers of processes, files and descriptors, in every           *)
(* interleaving of pipe, open, dup, close, fork and exit.  The invariant   *)
(* adds to FilesExact what pipe and open know of the files filealloc gave  *)
(* them, and which files a call may have in hand.                          *)
(***************************************************************************)
EXTENDS FileTable, FiniteSetTheorems, TLAPS

\* The types of a struct file, its entry in the table, and where a call can be.
Types == {"FD_NONE", "FD_PIPE", "FD_INODE"}
FileEntry == [ref : Nat, type : Types, obj : FPipes \cup FInodes \cup {0}, writable : BOOLEAN]
Ops == {"none", "gone", "pipe", "open", "close", "exit"}
\* The types of the table, of the descriptors and of the calls.
FileOK ==
  /\ ftable \in [File -> FileEntry]
  /\ ofile \in [FProcs -> [FD -> 0..NFILE]]
  /\ fhold \in [FProcs -> [Hand -> 0..NFILE]]
  /\ fcall \in [FProcs -> [op : Ops, ff : FileEntry]]
  /\ popen \in [FPipes -> SUBSET BOOLEAN]
  /\ fipref \in [FInodes -> Nat]

\* An entry names an object of its kind; a free one nothing.
EntryInv ==
  \A x \in Entries : /\ Entry(x).type = "FD_PIPE" => Entry(x).obj \in FPipes
                     /\ Entry(x).type = "FD_INODE" => Entry(x).obj \in FInodes
                     /\ Entry(x).ref = 0 => Entry(x) = NoEntry

\* The file pipe and open have allocated is theirs alone, and names nothing.
FreshInv ==
  \A p \in FProcs, i \in Hand :
    fcall[p].op \in {"pipe", "open"} /\ fhold[p][i] # 0 =>
      /\ ftable[fhold[p][i]].type = "FD_NONE"
      /\ Places(ofile, FD, fhold[p][i]) = {} /\ Places(fhold, Hand, fhold[p][i]) = {<<p, i>>}

\* A process holds files only inside a call, fileclose's copy only while it closes, a
\* second file only in pipe and in the clean-up after it; one that is gone has none.
CallInv ==
  \A p \in FProcs :
    /\ fcall[p].op \in {"none", "gone"} => InHand(p) = {}
    /\ fcall[p].op \notin {"close", "exit"} => fcall[p].ff = NoEntry
    /\ fcall[p].op # "pipe" /\ fcall[p].op # "close" => fhold[p][2] = 0
    /\ fcall[p].op = "gone" => FreeFDs(p) = FD

\* The inductive invariant: FilesExact with what it takes to keep it.
FileInv == FileOK /\ EntryInv /\ FreshInv /\ CallInv /\ FilesExact

\* The conjuncts of the invariant.
LEMMA HasFileOK == FileInv => FileOK
  BY Zenon DEF FileInv
\* An entry names an object of its kind, in every state of the invariant.
LEMMA HasEntryInv == FileInv => EntryInv
  BY Zenon DEF FileInv
\* The files in the hands of pipe and open are theirs, in every state of the invariant.
LEMMA HasFreshInv == FileInv => FreshInv
  BY Zenon DEF FileInv
\* A process holds files only in a call, in every state of the invariant.
LEMMA HasCallInv == FileInv => CallInv
  BY Zenon DEF FileInv
\* The references and the objects are exact, in every state of the invariant.
LEMMA HasExact == FileInv => FileRefs /\ ObjectsHeld
  BY Zenon DEF FileInv, FilesExact
\* The conjuncts after a step make up the invariant after it.
LEMMA WholeInv ==
  ASSUME FileOK', EntryInv', FreshInv', CallInv', FileRefs', ObjectsHeld'
  PROVE  FileInv'
  BY Zenon DEF FileInv, FilesExact

-----------------------------------------------------------------------------
(* Counting the places of a file. *)

Count(a, I, f) == Cardinality(Places(a, I, f))

\* The places are finitely many.
LEMMA PlacesFinite ==
  ASSUME NEW I, IsFiniteSet(I), NEW a, NEW f
  PROVE  /\ IsFiniteSet(Places(a, I, f)) /\ Count(a, I, f) \in Nat
         /\ Count(a, I, f) = 0 <=> Places(a, I, f) = {}
<1>1. IsFiniteSet(FProcs \X I)
  BY Zenon, FileAssumption, FS_Product
<1>2. Places(a, I, f) \in SUBSET (FProcs \X I)
  BY Zenon DEF Places
<1>3. IsFiniteSet(Places(a, I, f))
  BY Zenon, <1>1, <1>2, FS_Subset
<1>4. QED BY Zenon, <1>3, FS_CardinalityType, FS_EmptySet DEF Count

\* The descriptors and the hands are finite.
LEMMA IndexFinite == IsFiniteSet(FD) /\ IsFiniteSet(Hand)
<1>1. 0 \in Int /\ NOFILE-1 \in Int /\ 1 \in Int /\ 2 \in Int
  BY FileAssumption
<1>2. QED BY <1>1, FS_Interval, Zenon DEF FD, Hand

\* Array b is a with file g stored in one place.
Stored(a, b, I, p, i, g) ==
  b[p][i] = g /\ \A q \in FProcs, j \in I : q # p \/ j # i => b[q][j] = a[q][j]

\* Storing file g in one place.
LEMMA SetOne ==
  ASSUME NEW I, IsFiniteSet(I), NEW a \in [FProcs -> [I -> 0..NFILE]],
         NEW p \in FProcs, NEW i \in I, NEW g \in 0..NFILE, NEW b, b = [a EXCEPT ![p][i] = g]
  PROVE  /\ b \in [FProcs -> [I -> 0..NFILE]]
         /\ Stored(a, b, I, p, i, g)
<1>1. [a[p] EXCEPT ![i] = g] \in [I -> 0..NFILE]
  OBVIOUS
<1>2. b \in [FProcs -> [I -> 0..NFILE]] /\ b[p] = [a[p] EXCEPT ![i] = g]
  BY Zenon, <1>1
<1>3. \A q \in FProcs : q # p => b[q] = a[q]
  OBVIOUS
<1>4. QED BY Zenon, <1>2, <1>3 DEF Stored

\* The places of a file after a store: the new one is added, the overwritten one lost.
LEMMA SetOnePlaces ==
  ASSUME NEW I, IsFiniteSet(I), NEW a, NEW b, NEW p \in FProcs, NEW i \in I, NEW g,
         Stored(a, b, I, p, i, g), NEW f
  PROVE  Places(b, I, f) = (Places(a, I, f) \ {<<p, i>>}) \cup (IF g = f THEN {<<p, i>>} ELSE {})
<1>1. /\ b[p][i] = g
      /\ \A q \in FProcs, j \in I : q # p \/ j # i => b[q][j] = a[q][j]
  BY Zenon DEF Stored
<1> DEFINE R == (Places(a, I, f) \ {<<p, i>>}) \cup (IF g = f THEN {<<p, i>>} ELSE {})
<1>2. ASSUME NEW x \in FProcs \X I PROVE x \in Places(b, I, f) <=> x \in R
  <2>1. x[1] \in FProcs /\ x[2] \in I /\ x = <<x[1], x[2]>>
    OBVIOUS
  <2>2. x = <<p, i>> <=> x[1] = p /\ x[2] = i
    BY <2>1
  <2>3. CASE x = <<p, i>>
    BY Zenon, <2>2, <2>3, <1>1 DEF Places
  <2>4. CASE x # <<p, i>>
    BY Zenon, <2>1, <2>2, <2>4, <1>1 DEF Places
  <2>5. QED BY Zenon, <2>3, <2>4
<1>3. Places(b, I, f) \subseteq FProcs \X I /\ Places(a, I, f) \subseteq FProcs \X I
  BY Zenon DEF Places
<1>4. R \subseteq FProcs \X I
  BY <1>3
<1>5. QED BY <1>2, <1>3, <1>4, Zenon

\* The number of places of a file after a store, as filedup and fileclose count them.
LEMMA SetOneCount ==
  ASSUME NEW I, IsFiniteSet(I), NEW a, NEW b, NEW p \in FProcs, NEW i \in I, NEW g,
         Stored(a, b, I, p, i, g), NEW f
  PROVE  /\ Count(a, I, f) \in Nat /\ Count(b, I, f) \in Nat
         /\ Count(b, I, f) + (IF a[p][i] = f THEN 1 ELSE 0) = Count(a, I, f) + (IF g = f THEN 1 ELSE 0)
<1>0. Places(b, I, f) = (Places(a, I, f) \ {<<p, i>>}) \cup (IF g = f THEN {<<p, i>>} ELSE {})
  BY SetOnePlaces
<1> DEFINE A == Places(a, I, f)
           B == Places(b, I, f)
           R == A \ {<<p, i>>}
<1>1. IsFiniteSet(A) /\ Cardinality(A) \in Nat /\ Cardinality(B) \in Nat
  BY Zenon, PlacesFinite DEF Count
<1>2. B = R \cup (IF g = f THEN {<<p, i>>} ELSE {})
  BY Zenon, <1>0
<1>3. <<p, i>> \in A <=> a[p][i] = f
  BY Zenon DEF Places
<1> HIDE DEF A, B
<1>4. /\ IsFiniteSet(R) /\ <<p, i>> \notin R
      /\ Cardinality(R) = IF a[p][i] = f THEN Cardinality(A) - 1 ELSE Cardinality(A)
  BY <1>1, <1>3, FS_RemoveElement, Zenon
<1> HIDE DEF R
<1>5. Cardinality(B) = IF g = f THEN Cardinality(R) + 1 ELSE Cardinality(R)
  <2>1. CASE g = f
    BY <2>1, <1>2, <1>4, FS_AddElement, Zenon
  <2>2. CASE g # f
    BY Zenon, <2>2, <1>2
  <2>3. QED BY Zenon, <2>1, <2>2
<1>6. Cardinality(R) \in Nat
  BY Zenon, <1>4, FS_CardinalityType
<1>7. QED BY <1>1, <1>4, <1>5, <1>6 DEF A, B, Count

\* A file that is neither stored nor overwritten keeps its places.
LEMMA StoredOther ==
  ASSUME NEW I, IsFiniteSet(I), NEW a, NEW b, NEW p \in FProcs, NEW i \in I, NEW g,
         Stored(a, b, I, p, i, g), NEW f, a[p][i] # f, g # f
  PROVE  Places(b, I, f) = Places(a, I, f)
<1>1. Places(b, I, f) = (Places(a, I, f) \ {<<p, i>>}) \cup (IF g = f THEN {<<p, i>>} ELSE {})
  BY SetOnePlaces
<1>2. <<p, i>> \notin Places(a, I, f)
  BY Zenon DEF Places
<1>3. QED BY Zenon, <1>1, <1>2

\* The counts the invariant speaks of.
LEMMA RefsCount ==
  FileRefs <=> \A f \in File : ftable[f].ref = Count(ofile, FD, f) + Count(fhold, Hand, f)
BY Zenon DEF FileRefs, Count

-----------------------------------------------------------------------------
(* Steps that change neither the table nor who holds what. *)

\* The types of one process's descriptors, hands and call.
LEMMA FileTypes ==
  ASSUME FileInv, NEW p \in FProcs
  PROVE  /\ ofile[p] \in [FD -> 0..NFILE] /\ fhold[p] \in [Hand -> 0..NFILE]
         /\ fcall[p] \in [op : Ops, ff : FileEntry] /\ fcall[p].op \in Ops /\ fcall[p].ff \in FileEntry
         /\ 1 \in Hand /\ 2 \in Hand /\ 0 \in 0..NFILE
         /\ \A d \in FD : ofile[p][d] \in 0..NFILE /\ (ofile[p][d] # 0 => ofile[p][d] \in File)
         /\ \A i \in Hand : fhold[p][i] \in 0..NFILE /\ (fhold[p][i] # 0 => fhold[p][i] \in File)
<1>1. /\ ofile[p] \in [FD -> 0..NFILE] /\ fhold[p] \in [Hand -> 0..NFILE]
      /\ fcall[p] \in [op : Ops, ff : FileEntry] 
  BY Zenon, HasFileOK DEF FileOK
<1>2. 1 \in Hand /\ 2 \in Hand /\ 0 \in 0..NFILE
  BY FileAssumption DEF Hand
<1>3. \A f \in 0..NFILE : f # 0 => f \in File
  BY FileAssumption DEF File
<1>4. QED BY Zenon, <1>1, <1>2, <1>3

\* The objects, when no entry changes what it names.
LEMMA ObjSame ==
  ASSUME ObjectsHeld, popen' = popen, fipref' = fipref,
         \A x \in Entries : /\ Entry(x)'.type = Entry(x).type /\ Entry(x)'.obj = Entry(x).obj
                            /\ Entry(x)'.writable = Entry(x).writable
  PROVE  ObjectsHeld'
<1>1. \A t, o : Holders(t, o)' = Holders(t, o)
  BY Zenon DEF Holders
<1>2. \A t, o : \A x \in Holders(t, o) : x \in Entries
  BY Zenon DEF Holders
<1>3. \A k \in FPipes : /\ popen'[k] = {Entry(x)'.writable : x \in Holders("FD_PIPE", k)'}
                        /\ \A x, y \in Holders("FD_PIPE", k)' :
                             Entry(x)'.writable = Entry(y)'.writable => x = y
  <2> SUFFICES ASSUME NEW k \in FPipes
               PROVE  /\ popen'[k] = {Entry(x)'.writable : x \in Holders("FD_PIPE", k)'}
                      /\ \A x, y \in Holders("FD_PIPE", k)' :
                           Entry(x)'.writable = Entry(y)'.writable => x = y
    OBVIOUS
  <2>1. \A x \in Holders("FD_PIPE", k) : Entry(x)'.writable = Entry(x).writable
    BY Zenon, <1>2
  <2>2. popen[k] = {Entry(x).writable : x \in Holders("FD_PIPE", k)}
    BY Zenon DEF ObjectsHeld
  <2>3. {Entry(x)'.writable : x \in Holders("FD_PIPE", k)} = {Entry(x).writable : x \in Holders("FD_PIPE", k)}
    BY <2>1, Zenon
  <2>4. \A x, y \in Holders("FD_PIPE", k) : Entry(x).writable = Entry(y).writable => x = y
    BY Zenon DEF ObjectsHeld
  <2>5. QED BY <1>1, <2>1, <2>2, <2>3, <2>4
<1>4. \A i \in FInodes : fipref'[i] = Cardinality(Holders("FD_INODE", i)')
  BY Zenon, <1>1 DEF ObjectsHeld
<1>5. QED BY Zenon, <1>3, <1>4 DEF ObjectsHeld

\* A step of a call that holds what it held.
LEMMA Quiet ==
  ASSUME FileInv, NEW p \in FProcs, NEW r \in [op : Ops, ff : FileEntry], r.ff = fcall[p].ff,
         fcall' = [fcall EXCEPT ![p] = r],
         UNCHANGED <<ftable, ofile, fhold, popen, fipref>>,
         r.op \in {"none", "gone", "pipe", "open"} => InHand(p) = {},
         r.op \notin {"close", "exit"} => r.ff = NoEntry,
         r.op \notin {"pipe", "close"} => fhold[p][2] = 0,
         r.op = "gone" => FreeFDs(p) = FD
  PROVE  FileInv'
<1>1. /\ fcall' \in [FProcs -> [op : Ops, ff : FileEntry]] /\ fcall'[p] = r
      /\ \A q \in FProcs : q # p => fcall'[q] = fcall[q]
  BY Zenon, HasFileOK DEF FileOK
<1>2. FileOK'
  BY Zenon, <1>1, HasFileOK DEF FileOK
<1>3. \A x \in Entries : Entry(x)' = Entry(x)
  BY Zenon, <1>1 DEF Entries, Entry
<1>4. EntryInv'
  BY Zenon, <1>3, HasEntryInv DEF EntryInv
<1>5. FileRefs' /\ ObjectsHeld'
  <2>1. FileRefs'
    BY Zenon, HasExact DEF FileRefs
  <2>2. ObjectsHeld'
    BY Zenon, <1>3, ObjSame, HasExact
  <2>3. QED BY Zenon, <2>1, <2>2
<1>6. CallInv'
  BY <1>1, HasCallInv DEF CallInv, InHand, FreeFDs
<1>7. FreshInv'
  BY <1>1, HasFreshInv DEF FreshInv, InHand
<1>8. QED BY Zenon, <1>2, <1>4, <1>5, <1>6, <1>7, WholeInv

\* sys_pipe and sys_open start with empty hands.
LEMMA StartInv ==
  ASSUME FileInv, NEW p \in FProcs, FileStart(p)
  PROVE  FileInv'
<1>1. PICK op \in {"pipe", "open"} : fcall' = [fcall EXCEPT ![p].op = op]
  BY Zenon DEF FileStart
<1> DEFINE r == [fcall[p] EXCEPT !.op = op]
<1>2. r \in [op : Ops, ff : FileEntry] /\ r.ff = fcall[p].ff /\ r.op = op /\ r.ff = NoEntry
  BY FileTypes DEF FileStart, FileIdle, Returned, Ops
<1>3. fcall' = [fcall EXCEPT ![p] = r]
  BY Zenon, <1>1, HasFileOK DEF FileOK
<1>4. InHand(p) = {} /\ fhold[p][2] = 0
  BY HasCallInv DEF FileStart, FileIdle, Returned, CallInv
<1> HIDE DEF r
<1>5. QED BY <1>2, <1>3, <1>4, Quiet, Zenon DEF FileStart

\* A call that fails with files in hand closes them.
LEMMA BadInv ==
  ASSUME FileInv, NEW p \in FProcs, FileBad(p),
         UNCHANGED <<ftable, ofile, fhold, popen, fipref>>
  PROVE  FileInv'
<1> DEFINE r == [fcall[p] EXCEPT !.op = "close"]
<1>1. fcall' = [fcall EXCEPT ![p] = r]
  BY Zenon, HasFileOK DEF FileBad, FileOK
<1>2. r \in [op : Ops, ff : FileEntry] /\ r.ff = fcall[p].ff /\ r.op = "close"
  BY Zenon, FileTypes DEF Ops
<1> HIDE DEF r
<1>3. QED BY <1>1, <1>2, Quiet, Zenon

\* exit starts on its descriptors with empty hands.
LEMMA ExitInv ==
  ASSUME FileInv, NEW p \in FProcs, FileExit(p)
  PROVE  FileInv'
<1> DEFINE r == [fcall[p] EXCEPT !.op = "exit"]
<1>1. fcall' = [fcall EXCEPT ![p] = r]
  BY Zenon, HasFileOK DEF FileExit, FileOK
<1>2. r \in [op : Ops, ff : FileEntry] /\ r.ff = fcall[p].ff /\ r.op = "exit"
  BY Zenon, FileTypes DEF Ops
<1>3. fhold[p][2] = 0
  BY HasCallInv DEF FileExit, FileIdle, Returned, CallInv
<1> HIDE DEF r
<1>4. QED BY <1>1, <1>2, <1>3, Quiet, Zenon DEF FileExit

\* fileclose has dropped its copy when a call returns, or when the process is gone.
LEMMA ReturnInv ==
  ASSUME FileInv, NEW p \in FProcs, FileReturn(p)
  PROVE  FileInv'
<1>1. NoEntry \in FileEntry
  BY Zenon DEF NoEntry, FileEntry, Types
<1>2. /\ Returned \in [op : Ops, ff : FileEntry] /\ Returned.ff = NoEntry /\ Returned.op = "none"
      /\ FileGone \in [op : Ops, ff : FileEntry] /\ FileGone.ff = NoEntry /\ FileGone.op = "gone"
  BY Zenon, <1>1 DEF Returned, FileGone, Ops
<1>3. fcall[p].ff = NoEntry /\ InHand(p) = {} /\ UNCHANGED <<ftable, ofile, fhold, popen, fipref>>
  BY Zenon DEF FileReturn
<1>4. fhold[p][2] = 0
  BY Zenon, <1>3, FileTypes DEF InHand
<1>5. CASE fcall' = [fcall EXCEPT ![p] = Returned]
  BY <1>2, <1>3, <1>4, <1>5, Quiet, Zenon
<1>6. CASE FreeFDs(p) = FD /\ fcall' = [fcall EXCEPT ![p] = FileGone]
  BY <1>2, <1>3, <1>4, <1>6, Quiet, Zenon
<1>7. QED BY Zenon, <1>5, <1>6 DEF FileReturn

-----------------------------------------------------------------------------
(* The steps that store files. *)

\* A file nobody refers to.
LEMMA Unused ==
  ASSUME FileInv, NEW f \in File, ftable[f].ref = 0
  PROVE  /\ Places(ofile, FD, f) = {} /\ Places(fhold, Hand, f) = {} /\ ftable[f] = NoEntry
         /\ Count(ofile, FD, f) = 0 /\ Count(fhold, Hand, f) = 0
<1>1. ftable[f].ref = Count(ofile, FD, f) + Count(fhold, Hand, f)
  BY Zenon, RefsCount, HasExact
<1>2. Count(ofile, FD, f) \in Nat /\ Count(fhold, Hand, f) \in Nat
  BY Zenon, PlacesFinite, IndexFinite
<1>3. Count(ofile, FD, f) = 0 /\ Count(fhold, Hand, f) = 0
  BY <1>1, <1>2
<1>4. <<"file", f>> \in Entries /\ Entry(<<"file", f>>) = ftable[f]
  BY Zenon DEF Entries, Entry
<1>5. ftable[f] = NoEntry
  BY Zenon, <1>4, HasEntryInv DEF EntryInv
<1>6. QED BY Zenon, <1>3, <1>5, PlacesFinite, IndexFinite

\* File h is at place j of the hand of q and nowhere else, and names nothing.
Alone(q, j, h) ==
  /\ h \in File /\ ftable[h].type = "FD_NONE"
  /\ Places(ofile, FD, h) = {} /\ Places(fhold, Hand, h) = {<<q, j>>}
  /\ \A p \in FProcs, d \in FD : ofile[p][d] # h
  /\ \A p \in FProcs, i \in Hand : fhold[p][i] = h => p = q /\ i = j

\* The files that filealloc has given to pipe and open.
LEMMA FreshSame ==
  ASSUME FileInv, NEW q \in FProcs, NEW j \in Hand, fcall[q].op \in {"pipe", "open"}, fhold[q][j] # 0
  PROVE  Alone(q, j, fhold[q][j])
<1> DEFINE h == fhold[q][j]
<1>1. /\ h \in File /\ ftable[h].type = "FD_NONE"
      /\ Places(ofile, FD, h) = {} /\ Places(fhold, Hand, h) = {<<q, j>>}
  BY Zenon, FileTypes, HasFreshInv DEF FreshInv
<1>2. ASSUME NEW p \in FProcs, NEW d \in FD PROVE ofile[p][d] # h
  <2>1. <<p, d>> \notin Places(ofile, FD, h)
    BY Zenon, <1>1
  <2>2. QED BY Zenon, <2>1 DEF Places
<1>3. ASSUME NEW p \in FProcs, NEW i \in Hand, fhold[p][i] = h PROVE p = q /\ i = j
  <2>1. <<p, i>> \in Places(fhold, Hand, h)
    BY Zenon, <1>3 DEF Places
  <2>2. QED BY Zenon, <2>1, <1>1
<1>4. QED BY Zenon, <1>1, <1>2, <1>3 DEF Alone

\* filealloc's file f, free before, is in one hand and has ref 1.
LEMMA AllocInv ==
  ASSUME FileInv, NEW p \in FProcs, NEW f \in File, ftable[f].ref = 0,
         NEW i \in Hand, fhold[p][i] = 0,
         fcall[p].op \in {"pipe", "open"}, fcall[p].op = "open" => i = 1,
         ftable' = [ftable EXCEPT ![f].ref = 1], fhold' = [fhold EXCEPT ![p][i] = f],
         UNCHANGED <<fcall, ofile, popen, fipref>>
  PROVE  FileInv'
<1>1. /\ Places(ofile, FD, f) = {} /\ Places(fhold, Hand, f) = {} /\ ftable[f] = NoEntry
      /\ Count(ofile, FD, f) = 0 /\ Count(fhold, Hand, f) = 0
  BY Zenon, Unused
<1>2. fhold \in [FProcs -> [Hand -> 0..NFILE]] /\ f \in 0..NFILE /\ f # 0
  BY FileAssumption, HasFileOK DEF FileOK, File
<1>3. fhold' \in [FProcs -> [Hand -> 0..NFILE]] /\ Stored(fhold, fhold', Hand, p, i, f)
  BY <1>2, IndexFinite, SetOne, Zenon
<1>4. /\ ftable' \in [File -> FileEntry] /\ ftable'[f] = [NoEntry EXCEPT !.ref = 1]
      /\ \A g \in File : g # f => ftable'[g] = ftable[g]
  <2>1. [NoEntry EXCEPT !.ref = 1] \in FileEntry
    BY Zenon DEF NoEntry, FileEntry, Types
  <2>2. ftable \in [File -> FileEntry]
    BY Zenon, HasFileOK DEF FileOK
  <2>3. QED BY Zenon, <2>1, <2>2, <1>1
<1>5. FileOK'
  BY Zenon, <1>3, <1>4, HasFileOK DEF FileOK
<1>6. \A x \in Entries : Entry(x)' = Entry(x) \/ (Entry(x) = NoEntry /\ Entry(x)' = [NoEntry EXCEPT !.ref = 1])
  BY Zenon, <1>1, <1>4 DEF Entries, Entry
<1>7. EntryInv'
  BY Zenon, <1>6, HasEntryInv DEF EntryInv, NoEntry
<1>8. ObjectsHeld'
  <2>1. \A x \in Entries : /\ Entry(x)'.type = Entry(x).type /\ Entry(x)'.obj = Entry(x).obj
                           /\ Entry(x)'.writable = Entry(x).writable
    BY <1>6, ZenonT(30) DEF NoEntry
  <2>2. QED BY Zenon, <2>1, ObjSame, HasExact
<1>9. FileRefs'
  <2>1. ASSUME NEW g \in File PROVE ftable'[g].ref = Count(ofile, FD, g) + Count(fhold', Hand, g)
    <3>1. /\ Count(fhold, Hand, g) \in Nat /\ Count(fhold', Hand, g) \in Nat
          /\ Count(fhold', Hand, g) + (IF fhold[p][i] = g THEN 1 ELSE 0)
               = Count(fhold, Hand, g) + (IF f = g THEN 1 ELSE 0)
      BY <1>3, SetOneCount, IndexFinite
    <3>2. g # 0
      BY FileAssumption DEF File
    <3>3. CASE g = f
      BY <3>1, <3>2, <3>3, <1>1, <1>4 DEF NoEntry
    <3>4. CASE g # f
      <4>1. ftable[g].ref = Count(ofile, FD, g) + Count(fhold, Hand, g)
        BY Zenon, RefsCount, HasExact
      <4>2. QED BY <4>1, <3>1, <3>2, <3>4, <1>4
    <3>5. QED BY Zenon, <3>3, <3>4
  <2>2. QED BY <2>1, Zenon DEF FileRefs, Count
<1>10. CallInv'
  BY <1>3, HasCallInv DEF CallInv, InHand, FreeFDs, Stored, Hand
<1>11. FreshInv'
  <2> SUFFICES ASSUME NEW q \in FProcs, NEW j \in Hand, fcall[q].op \in {"pipe", "open"}, fhold'[q][j] # 0
               PROVE  /\ ftable'[fhold'[q][j]].type = "FD_NONE"
                      /\ Places(ofile, FD, fhold'[q][j]) = {}
                      /\ Places(fhold', Hand, fhold'[q][j]) = {<<q, j>>}
    BY DEF FreshInv, Places
  <2>1. CASE q = p /\ j = i
    <3>1. fhold'[q][j] = f
      BY Zenon, <2>1, <1>3 DEF Stored
    <3>2. Places(fhold', Hand, f) = (Places(fhold, Hand, f) \ {<<p, i>>}) \cup (IF f = f THEN {<<p, i>>} ELSE {})
      BY <1>3, SetOnePlaces, IndexFinite
    <3>3. Places(fhold', Hand, f) = {<<p, i>>}
      BY <3>2, <1>1, Zenon
    <3>4. QED BY <2>1, <3>1, <3>3, <1>1, <1>4, Zenon DEF NoEntry
  <2>2. CASE q # p \/ j # i
    <3>1. fhold'[q][j] = fhold[q][j]
      BY Zenon, <2>2, <1>3 DEF Stored
    <3> DEFINE h == fhold[q][j]
    <3>2. /\ h \in File /\ ftable[h].type = "FD_NONE"
          /\ Places(ofile, FD, h) = {} /\ Places(fhold, Hand, h) = {<<q, j>>}
      BY <3>1, FreshSame DEF Alone
    <3>3. h # f
      BY <3>2, <1>1, Zenon
    <3>4. Places(fhold', Hand, h) = Places(fhold, Hand, h)
      BY <3>1, <3>3, <1>3, StoredOther, IndexFinite
    <3>5. QED BY <3>1, <3>2, <3>3, <3>4, <1>4, Zenon
  <2>3. QED BY <2>1, <2>2, Zenon
<1>12. QED BY Zenon, <1>5, <1>7, <1>8, <1>9, <1>10, <1>11, WholeInv

\* filealloc: the first free file, or the clean-up when there is none.
LEMMA filealloc_Inv ==
  ASSUME FileInv, NEW p \in FProcs, filealloc(p)
  PROVE  FileInv'
<1> DEFINE unused == {f \in File : ftable[f].ref = 0}
<1>1. CASE FileBad(p) /\ UNCHANGED <<ftable, fhold>>
  BY Zenon, <1>1, BadInv DEF filealloc
<1>2. CASE \E f \in First(unused), i \in First(Hand \ InHand(p)) :
            /\ ftable' = [ftable EXCEPT ![f].ref = 1]
            /\ fhold' = [fhold EXCEPT ![p][i] = f]
            /\ UNCHANGED fcall
  <2>1. PICK f \in First(unused), i \in First(Hand \ InHand(p)) :
            /\ ftable' = [ftable EXCEPT ![f].ref = 1]
            /\ fhold' = [fhold EXCEPT ![p][i] = f]
            /\ UNCHANGED fcall
    BY <1>2, Zenon
  <2>2. f \in File /\ ftable[f].ref = 0 /\ i \in Hand /\ fhold[p][i] = 0
    BY Zenon DEF First, InHand
  <2>3. fcall[p].op \in {"pipe", "open"} /\ UNCHANGED <<fcall, ofile, popen, fipref>>
    BY Zenon, <2>1 DEF filealloc
  <2>4. fcall[p].op = "open" => i = 1
    <3> SUFFICES ASSUME fcall[p].op = "open" PROVE i = 1
      OBVIOUS
    <3>1. InHand(p) = {}
      BY Zenon DEF filealloc
    <3>2. 1 \in Hand \ InHand(p) /\ i \in 1..2
      BY <3>1, <2>2 DEF Hand
    <3>3. i <= 1
      BY Zenon, <3>2 DEF First
    <3>4. QED BY <3>2, <3>3
  <2>5. QED BY <2>1, <2>2, <2>3, <2>4, AllocInv, Zenon
<1>3. QED BY <1>1, <1>2, Zenon DEF filealloc

\* Descriptor e becomes another name of d's file.
DupStep(p, d, e) ==
  /\ ofile' = [ofile EXCEPT ![p][e] = ofile[p][d]] /\ ftable' = filedup(ofile[p][d], 1)
  /\ UNCHANGED <<fhold, fcall, popen, fipref>>

\* sys_dup: one more descriptor names the file.
LEMMA DupInv ==
  ASSUME FileInv, NEW p \in FProcs, NEW d \in FD, NEW e \in FD, ofile[p][d] # 0, ofile[p][e] = 0,
         FileIdle(p), DupStep(p, d, e)
  PROVE  FileInv'
<1> DEFINE f == ofile[p][d]
<1>0. fhold' = fhold /\ fcall' = fcall /\ popen' = popen /\ fipref' = fipref
  BY Zenon DEF DupStep
<1>1. f \in File /\ f \in 0..NFILE /\ f # 0
  BY Zenon, FileTypes
<1> HIDE DEF f
<1>2. ofile \in [FProcs -> [FD -> 0..NFILE]] /\ ofile' = [ofile EXCEPT ![p][e] = f] /\ ftable' = filedup(f, 1)
  BY Zenon, HasFileOK DEF FileOK, DupStep, f
<1>3. ofile' \in [FProcs -> [FD -> 0..NFILE]] /\ Stored(ofile, ofile', FD, p, e, f)
  BY <1>1, <1>2, IndexFinite, SetOne, Zenon
<1>4. /\ ftable' \in [File -> FileEntry] /\ ftable'[f] = [ftable[f] EXCEPT !.ref = @ + 1]
      /\ \A g \in File : g # f => ftable'[g] = ftable[g]
  <2>1. ftable \in [File -> FileEntry] /\ ftable[f].ref \in Nat
    BY Zenon, <1>1, HasFileOK DEF FileOK, FileEntry
  <2>2. [ftable[f] EXCEPT !.ref = @ + 1] \in FileEntry
    BY <2>1, <1>1 DEF FileEntry
  <2>3. QED BY <2>1, <2>2, <1>1, <1>2 DEF filedup
<1>5. FileOK'
  BY Zenon, <1>0, <1>3, <1>4, HasFileOK DEF FileOK
<1>6. ftable[f] \in FileEntry /\ ftable[f].ref \in Nat
  BY <1>1, HasFileOK DEF FileOK, FileEntry
<1>7. /\ ftable'[f].type = ftable[f].type /\ ftable'[f].obj = ftable[f].obj
      /\ ftable'[f].writable = ftable[f].writable /\ ftable'[f].ref # 0
  BY <1>4, <1>6 DEF FileEntry
<1>8. \A x \in Entries : /\ Entry(x)'.type = Entry(x).type /\ Entry(x)'.obj = Entry(x).obj
                         /\ Entry(x)'.writable = Entry(x).writable
                         /\ Entry(x)'.ref = 0 => Entry(x)' = Entry(x)
  BY Zenon, <1>0, <1>4, <1>7 DEF Entries, Entry
<1>9. EntryInv'
  BY Zenon, <1>8, HasEntryInv DEF EntryInv
<1>10. ObjectsHeld'
  BY Zenon, <1>0, <1>8, ObjSame, HasExact
<1>11. FileRefs'
  <2>1. ASSUME NEW g \in File PROVE ftable'[g].ref = Count(ofile', FD, g) + Count(fhold, Hand, g)
    <3>1. /\ Count(ofile, FD, g) \in Nat /\ Count(ofile', FD, g) \in Nat
          /\ Count(ofile', FD, g) + (IF ofile[p][e] = g THEN 1 ELSE 0)
               = Count(ofile, FD, g) + (IF f = g THEN 1 ELSE 0)
      BY <1>3, SetOneCount, IndexFinite
    <3>2. g # 0 /\ Count(fhold, Hand, g) \in Nat
      BY FileAssumption, PlacesFinite, IndexFinite DEF File
    <3>3. ftable[g].ref = Count(ofile, FD, g) + Count(fhold, Hand, g)
      BY Zenon, RefsCount, HasExact
    <3>4. ftable'[g].ref = IF g = f THEN ftable[g].ref + 1 ELSE ftable[g].ref
      BY <1>4, <1>1, HasFileOK DEF FileOK, FileEntry
    <3>5. QED BY <3>1, <3>2, <3>3, <3>4
  <2>2. QED BY <2>1, <1>0, Zenon DEF FileRefs, Count
<1>12. CallInv'
  <2>1. fcall[p].op = "none"
    BY DEF FileIdle, Returned
  <2>2. \A q \in FProcs, j \in FD : q # p => ofile'[q][j] = ofile[q][j]
    BY Zenon, <1>3 DEF Stored
  <2>3. QED BY <2>1, <2>2, <1>0, HasCallInv DEF CallInv, InHand, FreeFDs
<1>13. FreshInv'
  <2> SUFFICES ASSUME NEW q \in FProcs, NEW j \in Hand, fcall[q].op \in {"pipe", "open"}, fhold[q][j] # 0
               PROVE  /\ ftable'[fhold[q][j]].type = "FD_NONE"
                      /\ Places(ofile', FD, fhold[q][j]) = {}
                      /\ Places(fhold, Hand, fhold[q][j]) = {<<q, j>>}
    BY <1>0 DEF FreshInv, Places
  <2> DEFINE h == fhold[q][j]
  <2>1. /\ h \in File /\ ftable[h].type = "FD_NONE"
        /\ Places(ofile, FD, h) = {} /\ Places(fhold, Hand, h) = {<<q, j>>} /\ ofile[p][d] # h
    BY FreshSame DEF Alone
  <2>2. h # f
    BY Zenon, <2>1 DEF f
  <2>3. ofile[p][e] # h
    BY Zenon, <2>1, FileAssumption DEF File
  <2>4. Places(ofile', FD, h) = Places(ofile, FD, h)
    BY <2>2, <2>3, <1>3, StoredOther, IndexFinite
  <2>5. QED BY <2>1, <2>2, <2>4, <1>4, Zenon
<1>14. QED BY Zenon, <1>5, <1>9, <1>10, <1>11, <1>12, <1>13, WholeInv

\* A descriptor's file comes into the hand of close or exit.
LEMMA TakeInv ==
  ASSUME FileInv, NEW p \in FProcs, NEW d \in FD, ofile[p][d] # 0, InHand(p) = {}, TakeFD(p, d),
         NEW r \in [op : Ops, ff : FileEntry], r.op \in {"close", "exit"}, r.ff = fcall[p].ff,
         fcall' = [fcall EXCEPT ![p] = r], UNCHANGED <<ftable, popen, fipref>>
  PROVE  FileInv'
<1> DEFINE f == ofile[p][d]
<1>1. f \in File /\ f \in 0..NFILE /\ f # 0 /\ 0 \in 0..NFILE /\ 1 \in Hand
  BY Zenon, FileTypes
<1> HIDE DEF f
<1>2. /\ ofile \in [FProcs -> [FD -> 0..NFILE]] /\ ofile' = [ofile EXCEPT ![p][d] = 0]
      /\ fhold \in [FProcs -> [Hand -> 0..NFILE]] /\ fhold' = [fhold EXCEPT ![p][1] = f]
      /\ fhold[p][1] = 0 /\ fhold[p][2] = 0 /\ ofile[p][d] = f
  BY Zenon, FileTypes, HasFileOK DEF FileOK, f, TakeFD, InHand
<1>3. ofile' \in [FProcs -> [FD -> 0..NFILE]] /\ Stored(ofile, ofile', FD, p, d, 0)
  BY <1>1, <1>2, IndexFinite, SetOne, Zenon
<1>4. fhold' \in [FProcs -> [Hand -> 0..NFILE]] /\ Stored(fhold, fhold', Hand, p, 1, f)
  BY <1>1, <1>2, IndexFinite, SetOne, Zenon
<1>5. /\ fcall' \in [FProcs -> [op : Ops, ff : FileEntry]] /\ fcall'[p] = r
      /\ \A q \in FProcs : q # p => fcall'[q] = fcall[q]
  BY Zenon, HasFileOK DEF FileOK
<1>6. FileOK'
  BY Zenon, <1>3, <1>4, <1>5, HasFileOK DEF FileOK
<1>7. \A x \in Entries : Entry(x)' = Entry(x)
  BY Zenon, <1>5 DEF Entries, Entry
<1>8. EntryInv' /\ ObjectsHeld'
  BY Zenon, <1>7, ObjSame, HasEntryInv, HasExact DEF EntryInv
<1>9. FileRefs'
  <2>1. ASSUME NEW g \in File PROVE ftable[g].ref = Count(ofile', FD, g) + Count(fhold', Hand, g)
    <3>1. /\ Count(ofile, FD, g) \in Nat /\ Count(ofile', FD, g) \in Nat
          /\ Count(ofile', FD, g) + (IF ofile[p][d] = g THEN 1 ELSE 0)
               = Count(ofile, FD, g) + (IF 0 = g THEN 1 ELSE 0)
      BY <1>3, SetOneCount, IndexFinite
    <3>2. /\ Count(fhold, Hand, g) \in Nat /\ Count(fhold', Hand, g) \in Nat
          /\ Count(fhold', Hand, g) + (IF fhold[p][1] = g THEN 1 ELSE 0)
               = Count(fhold, Hand, g) + (IF f = g THEN 1 ELSE 0)
      BY <1>1, <1>4, SetOneCount, IndexFinite
    <3>3. g # 0
      BY FileAssumption DEF File
    <3>4. ftable[g].ref = Count(ofile, FD, g) + Count(fhold, Hand, g)
      BY Zenon, RefsCount, HasExact
    <3>5. QED BY <3>1, <3>2, <3>3, <3>4, <1>2
  <2>2. QED BY Zenon, <2>1 DEF FileRefs, Count
<1>10. CallInv'
  <2>1. fhold'[p][2] = 0
    BY <1>2, <1>4, FileTypes DEF Stored
  <2>2. \A q \in FProcs : q # p => /\ \A j \in FD : ofile'[q][j] = ofile[q][j]
                                   /\ \A j \in Hand : fhold'[q][j] = fhold[q][j]
    BY <1>3, <1>4 DEF Stored
  <2>3. QED BY <2>1, <2>2, <1>5, FileTypes, HasCallInv DEF CallInv, InHand, FreeFDs
<1>11. FreshInv'
  <2> SUFFICES ASSUME NEW q \in FProcs, NEW j \in Hand, fcall'[q].op \in {"pipe", "open"}, fhold'[q][j] # 0
               PROVE  /\ ftable[fhold'[q][j]].type = "FD_NONE"
                      /\ Places(ofile', FD, fhold'[q][j]) = {}
                      /\ Places(fhold', Hand, fhold'[q][j]) = {<<q, j>>}
    BY DEF FreshInv, Places
  <2>1. q # p /\ fcall[q].op \in {"pipe", "open"}
    BY Zenon, <1>5
  <2>2. fhold'[q][j] = fhold[q][j]
    BY Zenon, <2>1, <1>4 DEF Stored
  <2> DEFINE h == fhold[q][j]
  <2>3. /\ h \in File /\ ftable[h].type = "FD_NONE"
        /\ Places(ofile, FD, h) = {} /\ Places(fhold, Hand, h) = {<<q, j>>} /\ ofile[p][d] # h
    BY <2>1, <2>2, FreshSame DEF Alone
  <2>4. h # 0 /\ h # f /\ fhold[p][1] # h
    BY Zenon, <2>2, <2>3, <1>2
  <2>5. Places(ofile', FD, h) = Places(ofile, FD, h)
    BY <2>3, <2>4, <1>3, StoredOther, IndexFinite
  <2>6. Places(fhold', Hand, h) = Places(fhold, Hand, h)
    BY <2>4, <1>1, <1>4, StoredOther, IndexFinite
  <2>7. QED BY Zenon, <2>2, <2>3, <2>5, <2>6
<1>12. QED BY Zenon, <1>6, <1>8, <1>9, <1>10, <1>11, WholeInv

\* sys_close clears the descriptor before it calls fileclose.
LEMMA sys_close_Inv ==
  ASSUME FileInv, NEW p \in FProcs, NEW d \in FD, sys_close(p, d)
  PROVE  FileInv'
<1> DEFINE r == [fcall[p] EXCEPT !.op = "close"]
<1>1. r \in [op : Ops, ff : FileEntry] /\ r.ff = fcall[p].ff /\ r.op = "close"
  BY Zenon, FileTypes DEF Ops
<1>2. fcall' = [fcall EXCEPT ![p] = r] /\ ofile[p][d] # 0 /\ TakeFD(p, d) /\ UNCHANGED <<ftable, popen, fipref>>
  BY Zenon, HasFileOK DEF sys_close, FileOK
<1>3. InHand(p) = {}
  BY HasCallInv DEF sys_close, FileIdle, Returned, CallInv
<1> HIDE DEF r
<1>4. QED BY <1>1, <1>2, <1>3, TakeInv, Zenon

\* A round of the loop of exit over the descriptors.
LEMMA ExitCloseInv ==
  ASSUME FileInv, NEW p \in FProcs, ExitClose(p)
  PROVE  FileInv'
<1>1. PICK d \in First(FD \ FreeFDs(p)) : TakeFD(p, d)
  BY Zenon DEF ExitClose
<1>2. d \in FD /\ ofile[p][d] # 0
  BY Zenon DEF First, FreeFDs
<1>3. fcall' = [fcall EXCEPT ![p] = fcall[p]] /\ fcall[p] \in [op : Ops, ff : FileEntry]
  BY Zenon, HasFileOK DEF ExitClose, FileOK
<1>4. fcall[p].op = "exit" /\ InHand(p) = {} /\ UNCHANGED <<ftable, popen, fipref>>
  BY DEF ExitClose
<1>5. QED BY <1>1, <1>2, <1>3, <1>4, TakeInv, Zenon

-----------------------------------------------------------------------------
(* The steps that change what an entry names. *)

\* The two entries name the same object with the same end.
SameName(e1, e2) == e1.type = e2.type /\ e1.obj = e2.obj /\ e1.writable = e2.writable

\* The entries that name something are finitely many.
LEMMA HoldersFinite ==
  ASSUME NEW t, NEW o
  PROVE  IsFiniteSet(Holders(t, o)) /\ Cardinality(Holders(t, o)) \in Nat
<1>1. IsFiniteSet(File)
  <2>1. 1 \in Int /\ NFILE \in Int
    BY FileAssumption
  <2>2. QED BY Zenon, <2>1, FS_Interval DEF File
<1>2. IsFiniteSet({"file"} \X File) /\ IsFiniteSet({"copy"} \X FProcs)
  BY <1>1, FileAssumption, FS_Product, FS_Singleton, Zenon
<1>3. IsFiniteSet(Entries)
  BY <1>2, FS_Union, Zenon DEF Entries
<1>4. Holders(t, o) \in SUBSET Entries
  BY Zenon DEF Holders
<1>5. QED BY Zenon, <1>3, <1>4, FS_Subset, FS_CardinalityType

\* The holders of an object when one entry changes.
LEMMA HoldersSet ==
  ASSUME NEW x \in Entries, \A y \in Entries : y # x => SameName(Entry(y)', Entry(y)), NEW t, NEW o
  PROVE  Holders(t, o)' = (Holders(t, o) \ {x})
                            \cup (IF Entry(x)'.type = t /\ Entry(x)'.obj = o THEN {x} ELSE {})
BY Zenon DEF Holders, SameName

\* fileclose's copy takes the place of the file.
LEMMA Moved ==
  ASSUME ObjectsHeld, NEW x \in Entries, NEW y \in Entries, x # y,
         \A z \in Entries : z # x /\ z # y => SameName(Entry(z)', Entry(z)),
         Entry(y).type = "FD_NONE", Entry(x)'.type = "FD_NONE", SameName(Entry(y)', Entry(x)),
         popen' = popen, fipref' = fipref
  PROVE  ObjectsHeld'
<1>1. ASSUME NEW t \in {"FD_PIPE", "FD_INODE"}, NEW o
      PROVE  Holders(t, o)' = IF x \in Holders(t, o) THEN (Holders(t, o) \ {x}) \cup {y} ELSE Holders(t, o)
  BY Zenon, <1>1 DEF Holders, SameName
<1>2. ASSUME NEW t \in {"FD_PIPE", "FD_INODE"}, NEW o
      PROVE  Cardinality(Holders(t, o)') = Cardinality(Holders(t, o))
  <2> DEFINE H == Holders(t, o)
  <2>1. IsFiniteSet(H) /\ Cardinality(H) \in Nat
    BY Zenon, HoldersFinite
  <2>2. y \notin H
    BY Zenon, <1>2 DEF Holders
  <2>3. Holders(t, o)' = IF x \in H THEN (H \ {x}) \cup {y} ELSE H
    BY Zenon, <1>1, <1>2
  <2> HIDE DEF H
  <2>4. CASE x \in H
    <3>1. IsFiniteSet(H \ {x}) /\ Cardinality(H \ {x}) = Cardinality(H) - 1
      BY Zenon, <2>1, <2>4, FS_RemoveElement
    <3>2. Cardinality((H \ {x}) \cup {y}) = Cardinality(H \ {x}) + 1
      BY Zenon, <3>1, <2>2, FS_AddElement
    <3>3. Holders(t, o)' = (H \ {x}) \cup {y}
      BY Zenon, <2>4, <2>3
    <3>4. QED BY <3>1, <3>2, <3>3, <2>1 DEF H
  <2>5. CASE x \notin H
    BY Zenon, <2>5, <2>3 DEF H
  <2>6. QED BY Zenon, <2>4, <2>5
<1>3. ASSUME NEW k \in FPipes
      PROVE  /\ popen[k] = {Entry(z)'.writable : z \in Holders("FD_PIPE", k)'}
             /\ \A z, w \in Holders("FD_PIPE", k)' : Entry(z)'.writable = Entry(w)'.writable => z = w
  <2> DEFINE H == Holders("FD_PIPE", k)
             G == Holders("FD_PIPE", k)'
  <2>1. G = IF x \in H THEN (H \ {x}) \cup {y} ELSE H
    BY Zenon, <1>1
  <2>2. /\ popen[k] = {Entry(z).writable : z \in H}
        /\ \A z, w \in H : Entry(z).writable = Entry(w).writable => z = w
    BY Zenon DEF ObjectsHeld
  <2>3. y \notin H /\ H \subseteq Entries
    BY Zenon DEF Holders
  <2>4. \A z \in H \ {x} : Entry(z)'.writable = Entry(z).writable
    BY Zenon, <2>3 DEF SameName
  <2>5. Entry(y)'.writable = Entry(x).writable
    BY Zenon DEF SameName
  <2> HIDE DEF H, G
  <2>6. CASE x \in H
    <3>1. {Entry(z)'.writable : z \in G} = {Entry(z).writable : z \in H}
      BY Zenon, <2>1, <2>4, <2>5, <2>6
    <3>2. \A z, w \in G : Entry(z)'.writable = Entry(w)'.writable => z = w
      BY <2>1, <2>2, <2>4, <2>5, <2>6
    <3>3. QED BY Zenon, <3>1, <3>2, <2>2 DEF G
  <2>7. CASE x \notin H
    <3>1. {Entry(z)'.writable : z \in G} = {Entry(z).writable : z \in H}
      BY Zenon, <2>1, <2>4, <2>7
    <3>2. \A z, w \in G : Entry(z)'.writable = Entry(w)'.writable => z = w
      BY <2>1, <2>2, <2>4, <2>7
    <3>3. QED BY Zenon, <3>1, <3>2, <2>2 DEF G
  <2>8. QED BY Zenon, <2>6, <2>7
<1>4. QED BY Zenon, <1>2, <1>3 DEF ObjectsHeld

\* The refs count one place of f too many, once it is out of the hand.
OneLess(f) ==
  \A g \in File : /\ Count(ofile, FD, g) \in Nat /\ Count(fhold', Hand, g) \in Nat
                  /\ ftable[g].ref = Count(ofile, FD, g) + Count(fhold', Hand, g) + (IF g = f THEN 1 ELSE 0)

\* The files that pipe and open hold for themselves are not f, and stay where they are.
FreshStay(p, f) ==
  \A q \in FProcs, j \in Hand : fcall[q].op \in {"pipe", "open"} /\ fhold'[q][j] # 0
    => /\ q # p /\ fhold'[q][j] # f /\ fhold'[q][j] \in File
       /\ ftable[fhold'[q][j]].type = "FD_NONE"
       /\ Places(ofile, FD, fhold'[q][j]) = {} /\ Places(fhold', Hand, fhold'[q][j]) = {<<q, j>>}

\* What fileclose does to the hand of its process.
LEMMA CloseHand ==
  ASSUME FileInv, NEW p \in FProcs, NEW i \in Hand, NEW f, f = fhold[p][i], f # 0,
         fhold' \in [FProcs -> [Hand -> 0..NFILE]], Stored(fhold, fhold', Hand, p, i, 0),
         fcall[p].op \in {"close", "exit"}
  PROVE  OneLess(f) /\ FreshStay(p, f)
<1>1. ASSUME NEW g \in File
      PROVE  /\ Count(ofile, FD, g) \in Nat /\ Count(fhold', Hand, g) \in Nat
             /\ ftable[g].ref = Count(ofile, FD, g) + Count(fhold', Hand, g) + (IF g = f THEN 1 ELSE 0)
  <2>1. /\ Count(fhold, Hand, g) \in Nat /\ Count(fhold', Hand, g) \in Nat
        /\ Count(fhold', Hand, g) + (IF fhold[p][i] = g THEN 1 ELSE 0)
             = Count(fhold, Hand, g) + (IF 0 = g THEN 1 ELSE 0)
    BY SetOneCount, IndexFinite
  <2>2. g # 0 /\ Count(ofile, FD, g) \in Nat
    BY FileAssumption, PlacesFinite, IndexFinite DEF File
  <2>3. ftable[g].ref = Count(ofile, FD, g) + Count(fhold, Hand, g)
    BY Zenon, RefsCount, HasExact
  <2>4. QED BY <2>1, <2>2, <2>3
<1>2. ASSUME NEW q \in FProcs, NEW j \in Hand, fcall[q].op \in {"pipe", "open"}, fhold'[q][j] # 0
      PROVE  /\ q # p /\ fhold'[q][j] # f /\ fhold'[q][j] \in File
             /\ ftable[fhold'[q][j]].type = "FD_NONE"
             /\ Places(ofile, FD, fhold'[q][j]) = {} /\ Places(fhold', Hand, fhold'[q][j]) = {<<q, j>>}
  <2>1. q # p
    BY Zenon, <1>2
  <2>2. fhold'[q][j] = fhold[q][j]
    BY Zenon, <2>1 DEF Stored
  <2> DEFINE h == fhold[q][j]
  <2>3. /\ h \in File /\ ftable[h].type = "FD_NONE"
        /\ Places(ofile, FD, h) = {} /\ Places(fhold, Hand, h) = {<<q, j>>}
        /\ \A m \in FProcs, n \in Hand : fhold[m][n] = h => m = q /\ n = j
    BY <1>2, <2>2, FreshSame, ZenonT(30) DEF Alone
  <2>4. fhold[p][i] # h
    BY Zenon, <2>1, <2>3
  <2>5. Places(fhold', Hand, h) = Places(fhold, Hand, h)
    BY <1>2, <2>2, <2>4, StoredOther, IndexFinite
  <2>6. QED BY Zenon, <2>1, <2>2, <2>3, <2>5, <2>4
<1>3. QED BY <1>1, <1>2, ZenonT(30) DEF OneLess, FreshStay, Count, Places

\* The two cases of fileclose, for the file at place i of the hand.
CloseOne(p, i) ==
  fhold' = [fhold EXCEPT ![p][i] = 0] /\ UNCHANGED <<ofile, popen, fipref>>
DropRef(f) == ftable' = [ftable EXCEPT ![f].ref = @ - 1] /\ UNCHANGED fcall
DropFile(p, f) == ftable' = [ftable EXCEPT ![f] = NoEntry] /\ fcall' = [fcall EXCEPT ![p].ff = ftable[f]]

\* fileclose of a file that others refer to.
LEMMA CloseShared ==
  ASSUME FileInv, NEW p \in FProcs, NEW i \in Hand, NEW f, f = fhold[p][i], f # 0,
         fcall[p].op \in {"close", "exit"}, ftable[f].ref > 1, CloseOne(p, i), DropRef(f)
  PROVE  FileInv'
<1>0. ofile' = ofile /\ popen' = popen /\ fipref' = fipref /\ fcall' = fcall
  BY Zenon DEF CloseOne, DropRef
<1>1. /\ f \in File
      /\ fhold' \in [FProcs -> [Hand -> 0..NFILE]] /\ Stored(fhold, fhold', Hand, p, i, 0)
  <2>1. f \in File /\ 0 \in 0..NFILE /\ fhold \in [FProcs -> [Hand -> 0..NFILE]]
    BY Zenon, FileTypes, HasFileOK DEF FileOK
  <2>2. QED BY <2>1, IndexFinite, SetOne, Zenon DEF CloseOne
<1>2. OneLess(f) /\ FreshStay(p, f)
  BY Zenon, <1>1, CloseHand
<1>3. /\ ftable' \in [File -> FileEntry] /\ ftable'[f] = [ftable[f] EXCEPT !.ref = @ - 1]
      /\ \A g \in File : g # f => ftable'[g] = ftable[g]
  <2>1. ftable \in [File -> FileEntry] /\ ftable[f].ref \in Nat /\ ftable[f].ref - 1 \in Nat
    BY <1>1, HasFileOK DEF FileOK, FileEntry
  <2>2. [ftable[f] EXCEPT !.ref = @ - 1] \in FileEntry
    BY Zenon, <2>1, <1>1 DEF FileEntry
  <2>3. QED BY Zenon, <2>1, <2>2, <1>1 DEF DropRef
<1>4. ftable[f] \in FileEntry /\ ftable[f].ref \in Nat
  BY Zenon, <1>1, HasFileOK DEF FileOK, FileEntry
<1>5. FileOK'
  BY Zenon, <1>0, <1>1, <1>3, HasFileOK DEF FileOK
<1>6. \A x \in Entries : /\ Entry(x)'.type = Entry(x).type /\ Entry(x)'.obj = Entry(x).obj
                         /\ Entry(x)'.writable = Entry(x).writable
                         /\ Entry(x)'.ref = 0 => Entry(x)' = Entry(x)
  <2>1. /\ ftable'[f].type = ftable[f].type /\ ftable'[f].obj = ftable[f].obj
        /\ ftable'[f].writable = ftable[f].writable /\ ftable'[f].ref # 0
    BY <1>3, <1>4 DEF FileEntry
  <2>2. QED BY <2>1, <1>0, <1>3, Zenon DEF Entries, Entry
<1>7. EntryInv'
  BY Zenon, <1>6, HasEntryInv DEF EntryInv
<1>8. ObjectsHeld'
  BY Zenon, <1>0, <1>6, ObjSame, HasExact
<1>9. FileRefs'
  <2>1. ASSUME NEW g \in File PROVE ftable'[g].ref = Count(ofile, FD, g) + Count(fhold', Hand, g)
    <3>1. ftable'[g].ref = IF g = f THEN ftable[g].ref - 1 ELSE ftable[g].ref
      BY <1>3, <1>4 DEF FileEntry
    <3>2. QED BY <3>1, <1>2 DEF OneLess
  <2>2. QED BY Zenon, <2>1, <1>0 DEF FileRefs, Count
<1>10. CallInv'
  <2>1. \A q \in FProcs, j \in Hand : fhold'[q][j] = fhold[q][j] \/ fhold'[q][j] = 0
    BY Zenon, <1>1 DEF Stored
  <2>2. QED BY <2>1, <1>0, FileTypes, HasCallInv DEF CallInv, InHand, FreeFDs
<1>11. FreshInv'
  <2>1. \A q \in FProcs, j \in Hand : fcall[q].op \in {"pipe", "open"} /\ fhold'[q][j] # 0
           => /\ ftable'[fhold'[q][j]].type = "FD_NONE"
              /\ Places(ofile, FD, fhold'[q][j]) = {} /\ Places(fhold', Hand, fhold'[q][j]) = {<<q, j>>}
    BY <1>2, <1>3 DEF FreshStay
  <2>2. QED BY <2>1, <1>0 DEF FreshInv, Places
<1>12. QED BY Zenon, <1>5, <1>7, <1>8, <1>9, <1>10, <1>11, WholeInv

\* fileclose of the last reference: the table forgets the file, the copy remembers it.
LEMMA CloseLast ==
  ASSUME FileInv, NEW p \in FProcs, NEW i \in Hand, NEW f, f = fhold[p][i], f # 0,
         fcall[p].op \in {"close", "exit"}, ftable[f].ref <= 1, fcall[p].ff = NoEntry,
         CloseOne(p, i), DropFile(p, f)
  PROVE  FileInv'
<1>0. ofile' = ofile /\ popen' = popen /\ fipref' = fipref
  BY Zenon DEF CloseOne, DropRef
<1>1. /\ f \in File
      /\ fhold' \in [FProcs -> [Hand -> 0..NFILE]] /\ Stored(fhold, fhold', Hand, p, i, 0)
  <2>1. f \in File /\ 0 \in 0..NFILE /\ fhold \in [FProcs -> [Hand -> 0..NFILE]]
    BY Zenon, FileTypes, HasFileOK DEF FileOK
  <2>2. QED BY <2>1, IndexFinite, SetOne, Zenon DEF CloseOne
<1>2. OneLess(f) /\ FreshStay(p, f)
  BY Zenon, <1>1, CloseHand
<1>3. NoEntry \in FileEntry /\ NoEntry.ref = 0 /\ NoEntry.type = "FD_NONE"
  BY Zenon DEF NoEntry, FileEntry, Types
<1>4. /\ ftable' \in [File -> FileEntry] /\ ftable'[f] = NoEntry
      /\ \A g \in File : g # f => ftable'[g] = ftable[g]
  BY Zenon, <1>1, <1>3, HasFileOK DEF FileOK, DropFile
<1>5. ftable[f] \in FileEntry /\ ftable[f].ref = 1
  <2>1. ftable[f] \in FileEntry
    BY Zenon, <1>1, HasFileOK DEF FileOK
  <2>2. ftable[f].ref \in Nat
    BY Zenon, <2>1 DEF FileEntry
  <2>3. /\ Count(ofile, FD, f) \in Nat /\ Count(fhold', Hand, f) \in Nat
        /\ ftable[f].ref = Count(ofile, FD, f) + Count(fhold', Hand, f) + 1
    BY Zenon, <1>1, <1>2 DEF OneLess
  <2>4. QED BY <2>1, <2>2, <2>3
<1>6. /\ fcall' \in [FProcs -> [op : Ops, ff : FileEntry]]
      /\ fcall'[p].op = fcall[p].op /\ fcall'[p].ff = ftable[f]
      /\ \A q \in FProcs : q # p => fcall'[q] = fcall[q]
  BY Zenon, <1>5, HasFileOK DEF FileOK, DropFile
<1>7. FileOK'
  BY Zenon, <1>0, <1>1, <1>4, <1>6, HasFileOK DEF FileOK
<1> DEFINE x == <<"file", f>>
           y == <<"copy", p>>
<1>8. /\ x \in Entries /\ y \in Entries /\ x # y /\ Entry(x) = ftable[f] /\ Entry(y) = NoEntry
      /\ Entry(x)' = NoEntry /\ Entry(y)' = ftable[f]
  BY Zenon, <1>1, <1>4, <1>6 DEF Entries, Entry
<1>9. \A z \in Entries : z # x /\ z # y => Entry(z)' = Entry(z)
  BY <1>4, <1>6 DEF Entries, Entry
<1> HIDE DEF x, y
<1>10. EntryInv'
  BY <1>3, <1>5, <1>8, <1>9, HasEntryInv DEF EntryInv
<1>11. ObjectsHeld'
  <2>1. \A z \in Entries : z # x /\ z # y => SameName(Entry(z)', Entry(z))
    BY Zenon, <1>9 DEF SameName
  <2>2. SameName(Entry(y)', Entry(x)) /\ Entry(y).type = "FD_NONE" /\ Entry(x)'.type = "FD_NONE"
    BY Zenon, <1>3, <1>8 DEF SameName
  <2>3. ObjectsHeld
    BY Zenon, HasExact
  <2>4. QED BY Zenon, <2>1, <2>2, <2>3, <1>0, <1>8, Moved
<1>12. FileRefs'
  <2>1. ASSUME NEW g \in File PROVE ftable'[g].ref = Count(ofile, FD, g) + Count(fhold', Hand, g)
    <3>1. CASE g = f
      BY <3>1, <1>2, <1>3, <1>4, <1>5 DEF OneLess
    <3>2. CASE g # f
      BY <3>2, <1>2, <1>4 DEF OneLess
    <3>3. QED BY Zenon, <3>1, <3>2
  <2>2. QED BY Zenon, <2>1, <1>0 DEF FileRefs, Count
<1>13. CallInv'
  <2>1. \A q \in FProcs, j \in Hand : fhold'[q][j] = fhold[q][j] \/ fhold'[q][j] = 0
    BY Zenon, <1>1 DEF Stored
  <2>2. ASSUME NEW q \in FProcs
        PROVE  /\ fcall'[q].op \in {"none", "gone"} => InHand(q)' = {}
               /\ fcall'[q].op \notin {"close", "exit"} => fcall'[q].ff = NoEntry
               /\ fcall'[q].op # "pipe" /\ fcall'[q].op # "close" => fhold'[q][2] = 0
               /\ fcall'[q].op = "gone" => FreeFDs(q)' = FD
    <3>1. /\ fcall'[q].op = fcall[q].op
          /\ fcall[q].op \in {"close", "exit"} \/ fcall'[q].ff = fcall[q].ff
      BY Zenon, <1>6
    <3>2. InHand(q)' \subseteq InHand(q)
      BY Zenon, <2>1 DEF InHand
    <3>3. fhold[q][2] = 0 => fhold'[q][2] = 0
      BY Zenon, <2>1, FileTypes
    <3>4. FreeFDs(q)' = FreeFDs(q)
      BY Zenon, <1>0 DEF FreeFDs
    <3>5. /\ fcall[q].op \in {"none", "gone"} => InHand(q) = {}
          /\ fcall[q].op \notin {"close", "exit"} => fcall[q].ff = NoEntry
          /\ fcall[q].op # "pipe" /\ fcall[q].op # "close" => fhold[q][2] = 0
          /\ fcall[q].op = "gone" => FreeFDs(q) = FD
      BY Zenon, HasCallInv DEF CallInv
    <3>6. QED BY Zenon, <3>1, <3>2, <3>3, <3>4, <3>5
  <2>3. QED BY Zenon, <2>2 DEF CallInv
<1>14. FreshInv'
  <2>1. \A q \in FProcs, j \in Hand : fcall'[q].op \in {"pipe", "open"} /\ fhold'[q][j] # 0
           => /\ ftable'[fhold'[q][j]].type = "FD_NONE"
              /\ Places(ofile, FD, fhold'[q][j]) = {} /\ Places(fhold', Hand, fhold'[q][j]) = {<<q, j>>}
    <3>1. \A q \in FProcs : fcall'[q].op = fcall[q].op
      BY Zenon, <1>6
    <3>2. QED BY <3>1, <1>2, <1>4 DEF FreshStay
  <2>2. QED BY <2>1, <1>0 DEF FreshInv, Places
<1>15. QED BY Zenon, <1>7, <1>10, <1>11, <1>12, <1>13, <1>14, WholeInv

\* fileclose under ftable.lock: it drops a reference, or the file.
LEMMA CloseInv ==
  ASSUME FileInv, NEW p \in FProcs, FileClose(p)
  PROVE  FileInv'
<1>1. PICK i \in First(InHand(p)) :
         /\ fhold' = [fhold EXCEPT ![p][i] = 0]
         /\ \/ /\ ftable[fhold[p][i]].ref > 1
               /\ ftable' = [ftable EXCEPT ![fhold[p][i]].ref = @ - 1]
               /\ UNCHANGED fcall
            \/ /\ ftable[fhold[p][i]].ref <= 1
               /\ ftable' = [ftable EXCEPT ![fhold[p][i]] = NoEntry]
               /\ fcall' = [fcall EXCEPT ![p].ff = Copy(fhold[p][i])]
  BY Zenon DEF FileClose
<1>2. i \in Hand /\ fhold[p][i] # 0
  BY Zenon DEF First, InHand
<1>3. fcall[p].op \in {"close", "exit"} /\ fcall[p].ff = NoEntry /\ UNCHANGED <<ofile, popen, fipref>>
  BY Zenon DEF FileClose
<1>4. CASE ftable[fhold[p][i]].ref > 1 /\ ftable' = [ftable EXCEPT ![fhold[p][i]].ref = @ - 1] /\ UNCHANGED fcall
  BY <1>1, <1>2, <1>3, <1>4, CloseShared, Zenon DEF CloseOne, DropRef
<1>5. CASE /\ ftable[fhold[p][i]].ref <= 1
           /\ ftable' = [ftable EXCEPT ![fhold[p][i]] = NoEntry]
           /\ fcall' = [fcall EXCEPT ![p].ff = Copy(fhold[p][i])]
  BY <1>1, <1>2, <1>3, <1>5, CloseLast, Zenon DEF CloseOne, DropFile, Copy
<1>6. QED BY Zenon, <1>1, <1>4, <1>5

\* The objects after pipeclose or iput of fileclose's copy.
LEMMA DropObjects ==
  ASSUME ObjectsHeld, NEW x \in Entries, \A y \in Entries : y # x => SameName(Entry(y)', Entry(y)),
         NEW ff, ff = Entry(x), Entry(x)'.type = "FD_NONE",
         ff.type = "FD_PIPE" => ff.obj \in FPipes, ff.type = "FD_INODE" => ff.obj \in FInodes,
         popen \in [FPipes -> SUBSET BOOLEAN], fipref \in [FInodes -> Nat],
         popen' = IF ff.type = "FD_PIPE" THEN [popen EXCEPT ![ff.obj] = @ \ {ff.writable}] ELSE popen,
         fipref' = IF ff.type = "FD_INODE" THEN [fipref EXCEPT ![ff.obj] = @ - 1] ELSE fipref
  PROVE  ObjectsHeld' /\ popen' \in [FPipes -> SUBSET BOOLEAN] /\ fipref' \in [FInodes -> Nat]
<1>1. ASSUME NEW t \in {"FD_PIPE", "FD_INODE"}, NEW o
      PROVE  /\ Holders(t, o)' = Holders(t, o) \ {x}
             /\ x \in Holders(t, o) <=> ff.type = t /\ ff.obj = o
  <2>1. Holders(t, o)' = (Holders(t, o) \ {x})
                           \cup (IF Entry(x)'.type = t /\ Entry(x)'.obj = o THEN {x} ELSE {})
    BY Zenon, HoldersSet
  <2>2. Holders(t, o)' = Holders(t, o) \ {x}
    BY Zenon, <1>1, <2>1
  <2>3. QED BY Zenon, <2>2 DEF Holders
<1>2. \A k \in FPipes : popen'[k] = IF ff.type = "FD_PIPE" /\ ff.obj = k THEN popen[k] \ {ff.writable} ELSE popen[k]
  BY Zenon
<1>3. \A i \in FInodes : fipref'[i] = IF ff.type = "FD_INODE" /\ ff.obj = i THEN fipref[i] - 1 ELSE fipref[i]
  OBVIOUS
<1>4. ASSUME NEW k \in FPipes
      PROVE  /\ popen'[k] = {Entry(z)'.writable : z \in Holders("FD_PIPE", k)'}
             /\ \A z, w \in Holders("FD_PIPE", k)' : Entry(z)'.writable = Entry(w)'.writable => z = w
  <2> DEFINE H == Holders("FD_PIPE", k)
             G == Holders("FD_PIPE", k)'
  <2>1. G = H \ {x} /\ (x \in H <=> ff.type = "FD_PIPE" /\ ff.obj = k)
    BY Zenon, <1>1
  <2>2. /\ popen[k] = {Entry(z).writable : z \in H}
        /\ \A z, w \in H : Entry(z).writable = Entry(w).writable => z = w
    BY Zenon DEF ObjectsHeld
  <2>3. \A z \in G : z \in H /\ z # x /\ Entry(z)'.writable = Entry(z).writable
    BY Zenon, <2>1 DEF Holders, SameName
  <2> HIDE DEF H, G
  <2>4. \A z, w \in G : Entry(z)'.writable = Entry(w)'.writable => z = w
    BY Zenon, <2>2, <2>3
  <2>5. {Entry(z)'.writable : z \in G} = IF x \in H THEN popen[k] \ {Entry(x).writable} ELSE popen[k]
    BY <2>1, <2>2, <2>3
  <2>6. QED BY Zenon, <2>1, <2>4, <2>5, <1>2 DEF G
<1>5. ASSUME NEW i \in FInodes
      PROVE  fipref'[i] = Cardinality(Holders("FD_INODE", i)') /\ fipref'[i] \in Nat
  <2> DEFINE H == Holders("FD_INODE", i)
  <2>1. /\ Holders("FD_INODE", i)' = H \ {x} /\ (x \in H <=> ff.type = "FD_INODE" /\ ff.obj = i)
        /\ fipref[i] = Cardinality(H)
    BY Zenon, <1>1 DEF ObjectsHeld
  <2>2. IsFiniteSet(H)
    BY Zenon, HoldersFinite
  <2> HIDE DEF H
  <2>3. /\ Cardinality(H \ {x}) = (IF x \in H THEN Cardinality(H) - 1 ELSE Cardinality(H))
        /\ Cardinality(H \ {x}) \in Nat
    BY Zenon, <2>2, FS_RemoveElement, FS_CardinalityType
  <2>4. fipref'[i] = Cardinality(H \ {x})
    BY Zenon, <2>1, <2>3, <1>3
  <2>5. QED BY <2>1, <2>3, <2>4, Zenon
<1>6. ObjectsHeld'
  BY Zenon, <1>4, <1>5 DEF ObjectsHeld
<1>7. popen' \in [FPipes -> SUBSET BOOLEAN]
  OBVIOUS
<1>8. fipref' \in [FInodes -> Nat]
  <2>1. fipref' = [i \in FInodes |-> IF ff.type = "FD_INODE" /\ ff.obj = i THEN fipref[i] - 1 ELSE fipref[i]]
    BY Zenon
  <2>2. QED BY Zenon, <2>1, <1>3, <1>5
<1>9. QED BY Zenon, <1>6, <1>7, <1>8

\* fileclose after ftable.lock: pipeclose or iput on what its copy names.
LEMMA DropInv ==
  ASSUME FileInv, NEW p \in FProcs, FileDrop(p)
  PROVE  FileInv'
<1> DEFINE ff == fcall[p].ff
           x == <<"copy", p>>
<1>1. /\ ff # NoEntry /\ ftable' = ftable /\ ofile' = ofile /\ fhold' = fhold
      /\ popen' = IF ff.type = "FD_PIPE" THEN [popen EXCEPT ![ff.obj] = @ \ {ff.writable}] ELSE popen
      /\ fipref' = IF ff.type = "FD_INODE" THEN [fipref EXCEPT ![ff.obj] = @ - 1] ELSE fipref
  BY Zenon DEF FileDrop
<1>2. NoEntry \in FileEntry /\ NoEntry.type = "FD_NONE"
  BY Zenon DEF NoEntry, FileEntry, Types
<1>3. /\ fcall' \in [FProcs -> [op : Ops, ff : FileEntry]]
      /\ fcall'[p].op = fcall[p].op /\ fcall'[p].ff = NoEntry
      /\ \A q \in FProcs : q # p => fcall'[q] = fcall[q]
  BY Zenon, <1>2, HasFileOK DEF FileDrop, FileOK
<1>4. x \in Entries /\ Entry(x) = ff /\ Entry(x)' = NoEntry
  BY Zenon, <1>3 DEF Entries, Entry
<1>5. \A z \in Entries : z # x => Entry(z)' = Entry(z)
  BY <1>1, <1>3 DEF Entries, Entry
<1>6. (ff.type = "FD_PIPE" => ff.obj \in FPipes) /\ (ff.type = "FD_INODE" => ff.obj \in FInodes)
  BY Zenon, <1>4, HasEntryInv DEF EntryInv
<1> HIDE DEF ff, x
<1>7. ObjectsHeld' /\ popen' \in [FPipes -> SUBSET BOOLEAN] /\ fipref' \in [FInodes -> Nat]
  <2>1. \A z \in Entries : z # x => SameName(Entry(z)', Entry(z))
    BY Zenon, <1>5 DEF SameName
  <2>2. ObjectsHeld /\ popen \in [FPipes -> SUBSET BOOLEAN] /\ fipref \in [FInodes -> Nat]
    BY Zenon, HasFileOK, HasExact DEF FileOK
  <2>3. Entry(x)'.type = "FD_NONE" /\ ff = Entry(x)
    BY Zenon, <1>2, <1>4
  <2>4. QED BY <2>1, <2>2, <2>3, <1>1, <1>4, <1>6, DropObjects, Zenon
<1>8. FileOK'
  BY Zenon, <1>1, <1>3, <1>7, HasFileOK DEF FileOK
<1>9. EntryInv'
  BY <1>2, <1>4, <1>5, HasEntryInv DEF EntryInv
<1>10. FileRefs'
  BY Zenon, <1>1, HasExact DEF FileRefs
<1>11. CallInv'
  BY <1>1, <1>3, HasCallInv DEF CallInv, InHand, FreeFDs
<1>12. FreshInv'
  <2>1. \A q \in FProcs : fcall'[q].op = fcall[q].op
    BY Zenon, <1>3
  <2>2. QED BY Zenon, <2>1, <1>1, HasFreshInv DEF FreshInv
<1>13. QED BY <1>7, <1>8, <1>9, <1>10, <1>11, <1>12, WholeInv

-----------------------------------------------------------------------------
(* open, pipe and fork. *)

\* File f moves from hand i to descriptor d: the arrays a and c become b and k.
Delivered(a, b, c, k, p, d, i, f) ==
  Stored(a, b, FD, p, d, f) /\ a[p][d] = 0 /\ Stored(c, k, Hand, p, i, 0) /\ c[p][i] = f

\* A file that moves from the hand to a descriptor is counted once.
LEMMA MoveCount ==
  ASSUME NEW a, NEW b, NEW c, NEW k, NEW p \in FProcs, NEW d \in FD, NEW i \in Hand, NEW f,
         Delivered(a, b, c, k, p, d, i, f), NEW g \in File
  PROVE  /\ Count(b, FD, g) \in Nat /\ Count(k, Hand, g) \in Nat
         /\ Count(a, FD, g) \in Nat /\ Count(c, Hand, g) \in Nat
         /\ Count(b, FD, g) + Count(k, Hand, g) = Count(a, FD, g) + Count(c, Hand, g)
<1>0. Stored(a, b, FD, p, d, f) /\ a[p][d] = 0 /\ Stored(c, k, Hand, p, i, 0) /\ c[p][i] = f
  BY Zenon DEF Delivered
<1>1. /\ Count(a, FD, g) \in Nat /\ Count(b, FD, g) \in Nat
      /\ Count(b, FD, g) + (IF a[p][d] = g THEN 1 ELSE 0) = Count(a, FD, g) + (IF f = g THEN 1 ELSE 0)
  BY <1>0, SetOneCount, IndexFinite
<1>2. /\ Count(c, Hand, g) \in Nat /\ Count(k, Hand, g) \in Nat
      /\ Count(k, Hand, g) + (IF c[p][i] = g THEN 1 ELSE 0) = Count(c, Hand, g) + (IF 0 = g THEN 1 ELSE 0)
  BY <1>0, SetOneCount, IndexFinite
<1>3. g # 0
  BY FileAssumption DEF File
<1>4. QED BY <1>0, <1>1, <1>2, <1>3

\* The objects after open has named an inode in its file.
LEMMA OpenObjects ==
  ASSUME ObjectsHeld, NEW x \in Entries, \A y \in Entries : y # x => SameName(Entry(y)', Entry(y)),
         NEW i \in FInodes, Entry(x).type = "FD_NONE", Entry(x)'.type = "FD_INODE", Entry(x)'.obj = i,
         fipref \in [FInodes -> Nat], popen' = popen, fipref' = [fipref EXCEPT ![i] = @ + 1]
  PROVE  ObjectsHeld' /\ fipref' \in [FInodes -> Nat]
<1>1. ASSUME NEW k \in FPipes
      PROVE  /\ popen[k] = {Entry(z)'.writable : z \in Holders("FD_PIPE", k)'}
             /\ \A z, w \in Holders("FD_PIPE", k)' : Entry(z)'.writable = Entry(w)'.writable => z = w
  <2> DEFINE H == Holders("FD_PIPE", k)
             G == Holders("FD_PIPE", k)'
  <2>1. G = H
    BY Zenon DEF Holders, SameName
  <2>2. /\ popen[k] = {Entry(z).writable : z \in H}
        /\ \A z, w \in H : Entry(z).writable = Entry(w).writable => z = w
    BY Zenon DEF ObjectsHeld
  <2>3. \A z \in H : Entry(z)'.writable = Entry(z).writable
    BY Zenon DEF Holders, SameName
  <2> HIDE DEF H, G
  <2>4. {Entry(z)'.writable : z \in H} = {Entry(z).writable : z \in H}
    BY Zenon, <2>3
  <2>5. QED BY Zenon, <2>1, <2>2, <2>3, <2>4 DEF G
<1>2. ASSUME NEW m \in FInodes PROVE fipref'[m] = Cardinality(Holders("FD_INODE", m)')
  <2> DEFINE H == Holders("FD_INODE", m)
  <2>1. Holders("FD_INODE", m)' = IF m = i THEN H \cup {x} ELSE H
    BY Zenon DEF Holders, SameName
  <2>2. IsFiniteSet(H) /\ x \notin H /\ fipref[m] = Cardinality(H)
    <3>1. x \notin H
      BY Zenon DEF Holders
    <3>2. fipref[m] = Cardinality(H)
      BY Zenon DEF ObjectsHeld
    <3>3. QED BY Zenon, <3>1, <3>2, HoldersFinite
  <2> HIDE DEF H
  <2>3. Cardinality(H \cup {x}) = Cardinality(H) + 1
    BY <2>2, FS_AddElement, Zenon
  <2>4. QED BY Zenon, <2>1, <2>2, <2>3
<1>3. ObjectsHeld'
  BY Zenon, <1>1, <1>2 DEF ObjectsHeld
<1>4. QED BY <1>3

\* What open does with a descriptor and an inode.
OpenStep(p, d, i) ==
  /\ ofile' = [ofile EXCEPT ![p][d] = fhold[p][1]]
  /\ fipref' = [fipref EXCEPT ![i] = @ + 1]
  /\ ftable' = [ftable EXCEPT ![fhold[p][1]].type = "FD_INODE", ![fhold[p][1]].obj = i]
  /\ fhold' = [fhold EXCEPT ![p][1] = 0]
  /\ fcall' = [fcall EXCEPT ![p] = Returned]
  /\ popen' = popen

\* sys_open puts its file in a descriptor and names an inode in it.
LEMMA OpenStepInv ==
  ASSUME FileInv, NEW p \in FProcs, NEW d \in FD, ofile[p][d] = 0, NEW i \in FInodes,
         fcall[p].op = "open", InHand(p) # {}, OpenStep(p, d, i)
  PROVE  FileInv'
<1>0. popen' = popen
  BY Zenon DEF OpenStep
<1>1. fhold[p][2] = 0 /\ fhold[p][1] # 0 /\ 1 \in Hand
  BY FileTypes, HasCallInv DEF InHand, Hand, CallInv
<1>2. PICK f : f = fhold[p][1]
  OBVIOUS
<1>3. Alone(p, 1, f) /\ f \in File /\ f \in 0..NFILE /\ 0 \in 0..NFILE
  BY Zenon, <1>2, <1>1, FreshSame, FileTypes
<1>4. ofile' \in [FProcs -> [FD -> 0..NFILE]] /\ Stored(ofile, ofile', FD, p, d, f)
  BY <1>2, <1>3, IndexFinite, SetOne, Zenon, HasFileOK DEF OpenStep, FileOK
<1>5. fhold' \in [FProcs -> [Hand -> 0..NFILE]] /\ Stored(fhold, fhold', Hand, p, 1, 0)
  BY <1>1, <1>3, IndexFinite, SetOne, Zenon, HasFileOK DEF OpenStep, FileOK
<1>6. /\ fcall' \in [FProcs -> [op : Ops, ff : FileEntry]] /\ fcall'[p] = Returned
      /\ \A q \in FProcs : q # p => fcall'[q] = fcall[q]
  <2>1. Returned \in [op : Ops, ff : FileEntry]
    BY Zenon DEF Returned, NoEntry, FileEntry, Types, Ops
  <2>2. QED BY Zenon, <2>1, HasFileOK DEF OpenStep, FileOK
<1>7. fcall[p].ff = NoEntry /\ Returned.ff = NoEntry /\ Returned.op = "none"
  BY Zenon, HasCallInv DEF CallInv, Returned
<1>8. ftable[f] \in FileEntry /\ ftable \in [File -> FileEntry]
  BY Zenon, <1>3, HasFileOK DEF FileOK
<1>9. /\ ftable' \in [File -> FileEntry] /\ ftable'[f] = [ftable[f] EXCEPT !.type = "FD_INODE", !.obj = i]
      /\ \A g \in File : g # f => ftable'[g] = ftable[g]
  <2>1. [ftable[f] EXCEPT !.type = "FD_INODE", !.obj = i] \in FileEntry
    BY <1>8, Zenon DEF FileEntry, Types
  <2>2. ftable' = [ftable EXCEPT ![f] = [ftable[f] EXCEPT !.type = "FD_INODE", !.obj = i]]
    BY <1>2, <1>3, <1>8, Zenon DEF OpenStep
  <2>3. QED BY Zenon, <2>1, <2>2, <1>3, <1>8
<1>10. /\ ftable'[f].type = "FD_INODE" /\ ftable'[f].obj = i /\ ftable'[f].ref = ftable[f].ref
       /\ ftable[f].type = "FD_NONE"
  BY Zenon, <1>3, <1>8, <1>9 DEF FileEntry, Alone
<1>11. FileRefs'
  <2>1. ASSUME NEW g \in File PROVE ftable'[g].ref = Count(ofile', FD, g) + Count(fhold', Hand, g)
    <3>0. Delivered(ofile, ofile', fhold, fhold', p, d, 1, f)
      BY Zenon, <1>4, <1>5, <1>2 DEF Delivered
    <3>1. Count(ofile', FD, g) + Count(fhold', Hand, g) = Count(ofile, FD, g) + Count(fhold, Hand, g)
      BY <1>1, <3>0, MoveCount
    <3>2. ftable[g].ref = Count(ofile, FD, g) + Count(fhold, Hand, g)
      BY Zenon, RefsCount, HasExact
    <3>3. ftable'[g].ref = ftable[g].ref
      BY <1>9, <1>10, Zenon
    <3>4. QED BY Zenon, <3>1, <3>2, <3>3
  <2>2. QED BY Zenon, <2>1 DEF FileRefs, Count
<1> DEFINE x == <<"file", f>>
<1>12. x \in Entries /\ Entry(x) = ftable[f] /\ Entry(x)' = ftable'[f]
  BY Zenon, <1>3 DEF Entries, Entry
<1>13. \A z \in Entries : z # x => Entry(z)' = Entry(z)
  BY <1>6, <1>7, <1>9 DEF Entries, Entry
<1> HIDE DEF x
<1>14. ObjectsHeld' /\ fipref' \in [FInodes -> Nat]
  <2>1. \A z \in Entries : z # x => SameName(Entry(z)', Entry(z))
    BY Zenon, <1>13 DEF SameName
  <2>2. ObjectsHeld /\ fipref \in [FInodes -> Nat] /\ fipref' = [fipref EXCEPT ![i] = @ + 1]
    BY Zenon, HasFileOK, HasExact DEF FileOK, OpenStep
  <2>3. QED BY <2>1, <2>2, <1>0, <1>10, <1>12, OpenObjects, Zenon
<1>15. EntryInv'
  <2>1. ftable[f].ref = 0 => ftable[f] = NoEntry
    BY Zenon, <1>12, HasEntryInv DEF EntryInv
  <2>2. ftable[f].ref # 0
    BY <1>1, <1>3, <1>2, Unused, Zenon DEF Alone
  <2>3. QED BY Zenon, <2>2, <1>10, <1>12, <1>13, HasEntryInv DEF EntryInv
<1>16. FileOK'
  BY Zenon, <1>0, <1>4, <1>5, <1>6, <1>9, <1>14, HasFileOK DEF FileOK
<1>17. CallInv'
  <2>1. fhold'[p][1] = 0 /\ fhold'[p][2] = 0
    BY Zenon, <1>1, <1>5, FileTypes DEF Stored
  <2>2. \A q \in FProcs : q # p => /\ \A j \in FD : ofile'[q][j] = ofile[q][j]
                                   /\ \A j \in Hand : fhold'[q][j] = fhold[q][j]
    BY Zenon, <1>4, <1>5 DEF Stored
  <2>3. QED BY <2>1, <2>2, <1>6, <1>7, HasCallInv DEF CallInv, InHand, FreeFDs, Hand
<1>18. FreshInv'
  <2> SUFFICES ASSUME NEW q \in FProcs, NEW j \in Hand, fcall'[q].op \in {"pipe", "open"}, fhold'[q][j] # 0
               PROVE  /\ ftable'[fhold'[q][j]].type = "FD_NONE"
                      /\ Places(ofile', FD, fhold'[q][j]) = {}
                      /\ Places(fhold', Hand, fhold'[q][j]) = {<<q, j>>}
    BY DEF FreshInv, Places
  <2>1. q # p /\ fcall[q].op \in {"pipe", "open"}
    BY Zenon, <1>6, <1>7
  <2>2. fhold'[q][j] = fhold[q][j]
    BY Zenon, <2>1, <1>5 DEF Stored
  <2> DEFINE h == fhold[q][j]
  <2>3. Alone(q, j, h)
    BY Zenon, <2>1, <2>2, FreshSame
  <2>4. h # 0 /\ h # f
    BY Zenon, <2>1, <2>2, <2>3, <1>1, <1>2 DEF Alone
  <2>5. Places(ofile', FD, h) = Places(ofile, FD, h)
    BY <2>4, <1>4, StoredOther, IndexFinite
  <2>6. Places(fhold', Hand, h) = Places(fhold, Hand, h)
    BY <2>4, <1>1, <1>5, <1>2, StoredOther, IndexFinite
  <2>7. QED BY <2>2, <2>3, <2>4, <2>5, <2>6, <1>9 DEF Alone
<1>19. QED BY Zenon, <1>11, <1>14, <1>15, <1>16, <1>17, <1>18, WholeInv

\* sys_open with its file in hand: it succeeds, or closes the file.
LEMMA OpenInv ==
  ASSUME FileInv, NEW p \in FProcs, FileOpen(p)
  PROVE  FileInv'
<1>1. CASE FileBad(p) /\ UNCHANGED <<ftable, ofile, fhold, fipref>>
  BY Zenon, <1>1, BadInv DEF FileOpen
<1>2. CASE \E d \in fdalloc(p), i \in FInodes : OpenStep(p, d, i)
  <2>1. PICK d \in fdalloc(p), i \in FInodes : OpenStep(p, d, i)
    BY Zenon, <1>2
  <2>2. d \in FD /\ ofile[p][d] = 0
    BY Zenon DEF fdalloc, First, FreeFDs
  <2>3. QED BY Zenon, <2>1, <2>2, OpenStepInv DEF FileOpen
<1>3. QED BY <1>1, <1>2, Zenon DEF FileOpen, OpenStep

\* pipealloc on two files it has in hand.
MakePipe(rf, wf, k) ==
  /\ popen[k] = {} /\ UNCHANGED fipref
  /\ popen' = [popen EXCEPT ![k] = BOOLEAN]
  /\ ftable' = [ftable EXCEPT ![rf] = PipeFile(k, FALSE), ![wf] = PipeFile(k, TRUE)]

\* A file that filealloc has just given out has one reference.
LEMMA FreshRef ==
  ASSUME FileInv, NEW q \in FProcs, NEW j \in Hand, NEW h, Alone(q, j, h)
  PROVE  ftable[h].ref = 1
<1>1. h \in File /\ Places(ofile, FD, h) = {} /\ Places(fhold, Hand, h) = {<<q, j>>}
  BY Zenon DEF Alone
<1>2. Count(ofile, FD, h) = 0 /\ Count(fhold, Hand, h) = 1
  BY <1>1, FS_EmptySet, FS_Singleton, Zenon DEF Count
<1>3. ftable[h].ref = Count(ofile, FD, h) + Count(fhold, Hand, h)
  BY Zenon, <1>1, RefsCount, HasExact
<1>4. QED BY <1>2, <1>3

\* The objects after pipealloc: both ends are open and each has its file.
LEMMA PipeObjects ==
  ASSUME ObjectsHeld, NEW x \in Entries, NEW y \in Entries, x # y, NEW k \in FPipes, popen[k] = {},
         \A z \in Entries : z # x /\ z # y => SameName(Entry(z)', Entry(z)),
         Entry(x).type = "FD_NONE", Entry(y).type = "FD_NONE",
         Entry(x)' = PipeFile(k, FALSE), Entry(y)' = PipeFile(k, TRUE),
         popen \in [FPipes -> SUBSET BOOLEAN], popen' = [popen EXCEPT ![k] = BOOLEAN], fipref' = fipref
  PROVE  ObjectsHeld' /\ popen' \in [FPipes -> SUBSET BOOLEAN]
<1>0. /\ Entry(x)'.type = "FD_PIPE" /\ Entry(x)'.obj = k /\ Entry(x)'.writable = FALSE
      /\ Entry(y)'.type = "FD_PIPE" /\ Entry(y)'.obj = k /\ Entry(y)'.writable = TRUE
  BY DEF PipeFile
<1>1. ASSUME NEW i \in FInodes PROVE fipref'[i] = Cardinality(Holders("FD_INODE", i)')
  <2>1. Holders("FD_INODE", i)' = Holders("FD_INODE", i)
    BY <1>0, Zenon DEF Holders, SameName
  <2>2. fipref[i] = Cardinality(Holders("FD_INODE", i))
    BY Zenon DEF ObjectsHeld
  <2>3. QED BY Zenon, <2>1, <2>2
<1>2. ASSUME NEW m \in FPipes
      PROVE  /\ popen'[m] = {Entry(z)'.writable : z \in Holders("FD_PIPE", m)'}
             /\ \A z, w \in Holders("FD_PIPE", m)' : Entry(z)'.writable = Entry(w)'.writable => z = w
  <2> DEFINE H == Holders("FD_PIPE", m)
             G == Holders("FD_PIPE", m)'
  <2>1. /\ popen[m] = {Entry(z).writable : z \in H}
        /\ \A z, w \in H : Entry(z).writable = Entry(w).writable => z = w
    BY Zenon DEF ObjectsHeld
  <2>2. CASE m # k
    <3>1. G = H
      BY <1>0, <2>2, Zenon DEF Holders, SameName
    <3>2. \A z \in H : Entry(z)'.writable = Entry(z).writable
      BY Zenon DEF Holders, SameName
    <3>3. popen'[m] = popen[m]
      BY Zenon, <2>2
    <3> HIDE DEF H, G
    <3>4. {Entry(z)'.writable : z \in H} = {Entry(z).writable : z \in H}
      BY Zenon, <3>2
    <3>5. QED BY <2>1, <3>1, <3>2, <3>3, <3>4 DEF G
  <2>3. CASE m = k
    <3>1. H = {}
      BY <2>1, <2>3
    <3>2. G = {x, y}
      BY <1>0, <2>3, <3>1, ZenonT(30) DEF Holders, SameName
    <3>3. popen'[m] = {FALSE, TRUE}
      BY <2>3, Zenon
    <3> HIDE DEF H, G
    <3>4. {Entry(z)'.writable : z \in {x, y}} = {FALSE, TRUE}
      BY <1>0, Zenon
    <3>5. \A z, w \in {x, y} : Entry(z)'.writable = Entry(w)'.writable => z = w
      BY <1>0, Zenon
    <3>6. QED BY <3>2, <3>3, <3>4, <3>5, Zenon DEF G
  <2>4. QED BY Zenon, <2>2, <2>3
<1>3. ObjectsHeld'
  BY Zenon, <1>1, <1>2 DEF ObjectsHeld
<1>4. QED BY Zenon, <1>3

\* sys_pipe has its files rf and wf in hand.
BothInHand(p, rf, wf) == fcall[p].op = "pipe" /\ rf = fhold[p][1] /\ wf = fhold[p][2] /\ rf # 0 /\ wf # 0

\* They stay in hand or move to descriptors of process p.
Kept(p, rf, wf) ==
  /\ ofile' \in [FProcs -> [FD -> 0..NFILE]] /\ fhold' \in [FProcs -> [Hand -> 0..NFILE]]
  /\ \A q \in FProcs : q # p => ofile'[q] = ofile[q] /\ fhold'[q] = fhold[q]
  /\ \A g \in File : Count(ofile', FD, g) + Count(fhold', Hand, g) = Count(ofile, FD, g) + Count(fhold, Hand, g)
  /\ \A g \in File : g # rf /\ g # wf => /\ Places(ofile', FD, g) = Places(ofile, FD, g)
                                         /\ Places(fhold', Hand, g) = Places(fhold, Hand, g)

\* The call goes on as r: it returns with empty hands, or closes its files.
CallNow(p, r) ==
  /\ r \in [op : Ops, ff : FileEntry] /\ r.ff = NoEntry /\ fcall' = [fcall EXCEPT ![p] = r]
  /\ r.op = "close" \/ (r.op = "none" /\ InHand(p)' = {})

\* sys_pipe once pipealloc has succeeded, with descriptors for its files or without.
LEMMA PipeInv ==
  ASSUME FileInv, NEW p \in FProcs, NEW rf, NEW wf, BothInHand(p, rf, wf),
         NEW k \in FPipes, MakePipe(rf, wf, k), Kept(p, rf, wf), NEW r, CallNow(p, r)
  PROVE  FileInv'
<1>1. Alone(p, 1, rf) /\ Alone(p, 2, wf) /\ 1 \in Hand /\ 2 \in Hand
  BY Zenon, FreshSame, FileTypes DEF BothInHand
<1>2. /\ rf \in File /\ wf \in File /\ rf # wf
      /\ ftable[rf].type = "FD_NONE" /\ ftable[wf].type = "FD_NONE"
  BY <1>1 DEF Alone, BothInHand
<1>3. ftable[rf].ref = 1 /\ ftable[wf].ref = 1
  BY Zenon, <1>1, FreshRef
<1>4. /\ fcall' \in [FProcs -> [op : Ops, ff : FileEntry]] /\ fcall'[p] = r
      /\ \A q \in FProcs : q # p => fcall'[q] = fcall[q]
      /\ r.ff = NoEntry /\ r.op \in {"close", "none"}
  BY Zenon, HasFileOK DEF FileOK, CallNow
<1>5. fcall[p].ff = NoEntry
  BY Zenon, HasCallInv DEF CallInv, BothInHand
<1>6. PipeFile(k, FALSE) \in FileEntry /\ PipeFile(k, TRUE) \in FileEntry
  BY Zenon DEF PipeFile, FileEntry, Types
<1>7. /\ ftable' \in [File -> FileEntry]
      /\ ftable'[rf] = PipeFile(k, FALSE) /\ ftable'[wf] = PipeFile(k, TRUE)
      /\ \A g \in File : g # rf /\ g # wf => ftable'[g] = ftable[g]
  BY <1>2, <1>6, Zenon, HasFileOK DEF MakePipe, FileOK
<1>8. \A g \in File : ftable'[g].ref = ftable[g].ref
  BY <1>3, <1>7 DEF PipeFile
<1>9. FileRefs'
  <2>1. ASSUME NEW g \in File PROVE ftable'[g].ref = Count(ofile', FD, g) + Count(fhold', Hand, g)
    <3>1. ftable[g].ref = Count(ofile, FD, g) + Count(fhold, Hand, g)
      BY Zenon, RefsCount, HasExact
    <3>2. QED BY Zenon, <3>1, <1>8 DEF Kept
  <2>2. QED BY Zenon, <2>1 DEF FileRefs, Count
<1> DEFINE x == <<"file", rf>>
           y == <<"file", wf>>
<1>10. /\ x \in Entries /\ Entry(x) = ftable[rf] /\ Entry(x)' = PipeFile(k, FALSE)
       /\ y \in Entries /\ Entry(y) = ftable[wf] /\ Entry(y)' = PipeFile(k, TRUE) /\ x # y
  BY Zenon, <1>2, <1>7 DEF Entries, Entry
<1>11. \A z \in Entries : z # x /\ z # y => Entry(z)' = Entry(z)
  BY <1>4, <1>5, <1>7 DEF Entries, Entry
<1> HIDE DEF x, y
<1>12. ObjectsHeld' /\ popen' \in [FPipes -> SUBSET BOOLEAN]
  <2>1. \A z \in Entries : z # x /\ z # y => SameName(Entry(z)', Entry(z))
    BY Zenon, <1>11 DEF SameName
  <2>2. ObjectsHeld /\ popen \in [FPipes -> SUBSET BOOLEAN] /\ popen' = [popen EXCEPT ![k] = BOOLEAN] /\ popen[k] = {}
    BY Zenon, HasFileOK, HasExact DEF FileOK, MakePipe
  <2>3. /\ Entry(x).type = "FD_NONE" /\ Entry(y).type = "FD_NONE" /\ x # y /\ x \in Entries /\ y \in Entries
        /\ Entry(x)' = PipeFile(k, FALSE) /\ Entry(y)' = PipeFile(k, TRUE) /\ fipref' = fipref
    BY Zenon, <1>2, <1>10 DEF MakePipe
  <2>4. QED BY <2>1, <2>2, <2>3, PipeObjects, Zenon
<1>13. EntryInv'
  <2>1. PipeFile(k, FALSE).type = "FD_PIPE" /\ PipeFile(k, FALSE).obj \in FPipes /\ PipeFile(k, FALSE).ref # 0
    BY DEF PipeFile
  <2>2. PipeFile(k, TRUE).type = "FD_PIPE" /\ PipeFile(k, TRUE).obj \in FPipes /\ PipeFile(k, TRUE).ref # 0
    BY DEF PipeFile
  <2>3. QED BY <2>1, <2>2, <1>10, <1>11, Zenon, HasEntryInv DEF EntryInv
<1>14. FileOK'
  BY <1>4, <1>7, <1>12, Zenon, HasFileOK DEF FileOK, MakePipe, Kept
<1>15. CallInv'
  <2>1. \A q \in FProcs : q # p => ofile'[q] = ofile[q] /\ fhold'[q] = fhold[q]
    BY Zenon DEF Kept
  <2>2. r.op = "none" => InHand(p)' = {} /\ fhold'[p][2] = 0
    BY Zenon, <1>1 DEF InHand, CallNow
  <2>3. QED BY <2>1, <2>2, <1>4, HasCallInv DEF CallInv, InHand, FreeFDs
<1>16. FreshInv'
  <2> SUFFICES ASSUME NEW q \in FProcs, NEW j \in Hand, fcall'[q].op \in {"pipe", "open"}, fhold'[q][j] # 0
               PROVE  /\ ftable'[fhold'[q][j]].type = "FD_NONE"
                      /\ Places(ofile', FD, fhold'[q][j]) = {}
                      /\ Places(fhold', Hand, fhold'[q][j]) = {<<q, j>>}
    BY Zenon DEF FreshInv, Places
  <2>1. q # p /\ fcall[q].op \in {"pipe", "open"}
    BY <1>4, Zenon
  <2>2. fhold'[q][j] = fhold[q][j]
    BY Zenon, <2>1 DEF Kept
  <2> DEFINE h == fhold[q][j]
  <2>3. Alone(q, j, h)
    BY Zenon, <2>1, <2>2, FreshSame
  <2>4. h # rf /\ h # wf
    BY Zenon, <2>1, <2>3, <1>1 DEF Alone
  <2>5. /\ h \in File /\ ftable[h].type = "FD_NONE"
        /\ Places(ofile, FD, h) = {} /\ Places(fhold, Hand, h) = {<<q, j>>}
    BY Zenon, <2>3 DEF Alone
  <2>6. /\ Places(ofile', FD, h) = Places(ofile, FD, h)
        /\ Places(fhold', Hand, h) = Places(fhold, Hand, h)
    BY Zenon, <2>4, <2>5 DEF Kept
  <2>7. ftable'[h] = ftable[h]
    BY Zenon, <2>4, <2>5, <1>7
  <2>8. QED BY Zenon, <2>2, <2>5, <2>6, <2>7
<1>17. QED BY <1>9, <1>12, <1>13, <1>14, <1>15, <1>16, WholeInv

\* The descriptors take the two files.
TakeBoth(p, d, e) ==
  /\ ofile' = [ofile EXCEPT ![p][d] = fhold[p][1], ![p][e] = fhold[p][2]]
  /\ fhold' = [fhold EXCEPT ![p][1] = 0, ![p][2] = 0]

\* Both files of sys_pipe move to two free descriptors, each counted once.
LEMMA TakeBothKept ==
  ASSUME FileInv, NEW p \in FProcs, NEW rf, NEW wf, BothInHand(p, rf, wf),
         NEW d \in FreeFDs(p), NEW e \in FreeFDs(p), d # e, TakeBoth(p, d, e)
  PROVE  Kept(p, rf, wf) /\ InHand(p)' = {}
<1>0. /\ d \in FD /\ e \in FD /\ ofile[p][d] = 0 /\ ofile[p][e] = 0
      /\ fhold[p][1] = rf /\ fhold[p][2] = wf /\ rf # 0 /\ wf # 0
  BY Zenon DEF FreeFDs, BothInHand
<1>1. Alone(p, 1, rf) /\ Alone(p, 2, wf) /\ 1 \in Hand /\ 2 \in Hand
  BY <1>0, FreshSame, FileTypes DEF BothInHand
<1>2. rf \in File /\ wf \in File /\ rf \in 0..NFILE /\ wf \in 0..NFILE /\ 0 \in 0..NFILE /\ 1 # 2
  BY <1>0, <1>1, FileTypes DEF Alone
<1>3. ofile \in [FProcs -> [FD -> 0..NFILE]] /\ fhold \in [FProcs -> [Hand -> 0..NFILE]]
  BY Zenon, HasFileOK DEF FileOK
<1>4. PICK b : b = [ofile EXCEPT ![p][d] = rf]
  BY Zenon
<1>5. PICK c : c = [fhold EXCEPT ![p][1] = 0]
  BY Zenon
<1>6. ofile' = [b EXCEPT ![p][e] = wf] /\ fhold' = [c EXCEPT ![p][2] = 0]
  BY Zenon, <1>0, <1>4, <1>5 DEF TakeBoth
<1>7. b \in [FProcs -> [FD -> 0..NFILE]] /\ Stored(ofile, b, FD, p, d, rf)
  BY <1>0, <1>2, <1>3, <1>4, IndexFinite, SetOne, Zenon
<1>8. c \in [FProcs -> [Hand -> 0..NFILE]] /\ Stored(fhold, c, Hand, p, 1, 0)
  BY <1>1, <1>2, <1>3, <1>5, IndexFinite, SetOne, Zenon
<1>9. ofile' \in [FProcs -> [FD -> 0..NFILE]] /\ Stored(b, ofile', FD, p, e, wf)
  BY <1>0, <1>2, <1>6, <1>7, IndexFinite, SetOne, Zenon
<1>10. fhold' \in [FProcs -> [Hand -> 0..NFILE]] /\ Stored(c, fhold', Hand, p, 2, 0)
  BY <1>1, <1>2, <1>6, <1>8, IndexFinite, SetOne, ZenonT(30)
<1>11. b[p][e] = 0 /\ c[p][2] = wf
  BY <1>0, <1>1, <1>7, <1>8 DEF Stored
<1>12. ASSUME NEW g \in File
       PROVE  Count(ofile', FD, g) + Count(fhold', Hand, g) = Count(ofile, FD, g) + Count(fhold, Hand, g)
  <2>1. Count(b, FD, g) + Count(c, Hand, g) = Count(ofile, FD, g) + Count(fhold, Hand, g)
    <3>1. Delivered(ofile, b, fhold, c, p, d, 1, rf) /\ d \in FD
      BY Zenon, <1>0, <1>7, <1>8 DEF Delivered
    <3>2. QED BY <3>1, <1>1, MoveCount
  <2>2. Count(ofile', FD, g) + Count(fhold', Hand, g) = Count(b, FD, g) + Count(c, Hand, g)
    <3>1. Delivered(b, ofile', c, fhold', p, e, 2, wf) /\ e \in FD
      BY Zenon, <1>0, <1>9, <1>10, <1>11 DEF Delivered
    <3>2. QED BY <3>1, <1>1, MoveCount
  <2>3. QED BY Zenon, <2>1, <2>2
<1>13. ASSUME NEW g \in File, g # rf, g # wf
       PROVE  Places(ofile', FD, g) = Places(ofile, FD, g) /\ Places(fhold', Hand, g) = Places(fhold, Hand, g)
  <2>1. g # 0
    BY FileAssumption DEF File
  <2>2. Places(b, FD, g) = Places(ofile, FD, g)
    BY <2>1, <1>0, <1>7, <1>13, StoredOther, IndexFinite
  <2>3. Places(ofile', FD, g) = Places(b, FD, g)
    BY <2>1, <1>0, <1>9, <1>11, <1>13, StoredOther, IndexFinite
  <2>4. Places(c, Hand, g) = Places(fhold, Hand, g)
    BY <2>1, <1>0, <1>1, <1>8, <1>13, StoredOther, IndexFinite
  <2>5. Places(fhold', Hand, g) = Places(c, Hand, g)
    BY <2>1, <1>1, <1>10, <1>11, <1>13, StoredOther, IndexFinite
  <2>6. QED BY Zenon, <2>2, <2>3, <2>4, <2>5
<1>14. InHand(p)' = {}
  BY <1>1, <1>2, <1>8, <1>10 DEF InHand, Stored, Hand
<1>15. \A q \in FProcs : q # p => ofile'[q] = ofile[q] /\ fhold'[q] = fhold[q]
  BY Zenon, HasFileOK DEF TakeBoth, FileOK
<1>16. QED BY <1>9, <1>10, <1>12, <1>13, <1>14, <1>15 DEF Kept

\* sys_pipe with both files in hand, in each of its three outcomes.
LEMMA sys_pipe_Inv ==
  ASSUME FileInv, NEW p \in FProcs, sys_pipe(p)
  PROVE  FileInv'
<1>1. CASE FileBad(p) /\ UNCHANGED <<ftable, ofile, fhold, popen>>
  BY Zenon, <1>1, BadInv DEF sys_pipe
<1>2. CASE ~ (FileBad(p) /\ UNCHANGED <<ftable, ofile, fhold, popen>>)
  <2>1. PICK k \in FPipes :
          /\ MakePipe(fhold[p][1], fhold[p][2], k)
          /\ \/ FileBad(p) /\ UNCHANGED <<ofile, fhold>>
             \/ \E d \in fdalloc(p) : \E e \in First(FreeFDs(p) \ {d}) :
                  TakeBoth(p, d, e) /\ fcall' = [fcall EXCEPT ![p] = Returned]
    BY <1>2, Zenon DEF sys_pipe, MakePipe, TakeBoth
  <2>2. PICK rf, wf : rf = fhold[p][1] /\ wf = fhold[p][2]
    OBVIOUS
  <2>3. BothInHand(p, rf, wf)
    <3>1. fcall[p].op = "pipe" /\ InHand(p) = Hand
      BY Zenon DEF sys_pipe
    <3>2. fhold[p][1] # 0 /\ fhold[p][2] # 0
      BY Zenon, <3>1, FileTypes DEF InHand
    <3>3. QED BY Zenon, <2>2, <3>1, <3>2 DEF BothInHand
  <2>4. MakePipe(rf, wf, k)
    BY Zenon, <2>1, <2>2
  <2>5. CASE FileBad(p) /\ UNCHANGED <<ofile, fhold>>
    <3>1. PICK r : r = [fcall[p] EXCEPT !.op = "close"]
      BY Zenon
    <3>2. fcall' = [fcall EXCEPT ![p] = r]
      BY Zenon, <2>5, <3>1, HasFileOK DEF FileBad, FileOK
    <3>3. r \in [op : Ops, ff : FileEntry] /\ r.ff = NoEntry /\ r.op = "close"
      BY Zenon, <2>3, <3>1, FileTypes, HasCallInv DEF Ops, CallInv, BothInHand
    <3>4. Kept(p, rf, wf)
      BY Zenon, <2>5, HasFileOK DEF Kept, FileOK
    <3>5. CallNow(p, r)
      BY <3>2, <3>3, Zenon DEF CallNow
    <3>6. QED BY Zenon, <2>3, <2>4, <3>4, <3>5, PipeInv
  <2>6. CASE \E d \in fdalloc(p) : \E e \in First(FreeFDs(p) \ {d}) :
               TakeBoth(p, d, e) /\ fcall' = [fcall EXCEPT ![p] = Returned]
    <3>1. PICK d \in fdalloc(p) : \E e \in First(FreeFDs(p) \ {d}) :
               TakeBoth(p, d, e) /\ fcall' = [fcall EXCEPT ![p] = Returned]
      BY <2>6, Zenon
    <3>2. PICK e \in First(FreeFDs(p) \ {d}) : TakeBoth(p, d, e) /\ fcall' = [fcall EXCEPT ![p] = Returned]
      BY Zenon, <3>1
    <3>3. d \in FreeFDs(p) /\ e \in FreeFDs(p) /\ d # e
      BY Zenon DEF fdalloc, First
    <3>4. Kept(p, rf, wf) /\ InHand(p)' = {}
      BY Zenon, <2>3, <3>2, <3>3, TakeBothKept
    <3>5. Returned \in [op : Ops, ff : FileEntry] /\ Returned.ff = NoEntry /\ Returned.op = "none"
      BY Zenon DEF Returned, NoEntry, FileEntry, Types, Ops
    <3>6. CallNow(p, Returned)
      BY <3>2, <3>4, <3>5, Zenon DEF CallNow
    <3>7. QED BY Zenon, <2>3, <2>4, <3>4, <3>6, PipeInv
  <2>7. QED BY Zenon, <2>1, <2>5, <2>6
<1>3. QED BY Zenon, <1>1, <1>2

\* The descriptors of process p that name file g.
Own(a, p, g) == {d \in FD : a[p][d] = g}

\* Array b is a with the descriptors of p copied to its child c, which has none for file g.
Forked(a, b, p, c, g) ==
  b[c] = a[p] /\ (\A q \in FProcs : q # c => b[q] = a[q]) /\ \A d \in FD : a[c][d] # g

\* fork adds the parent's descriptors to the places of a file.
LEMMA ForkPlaces ==
  ASSUME NEW a, NEW b, NEW p \in FProcs, NEW c \in FProcs, NEW g, Forked(a, b, p, c, g)
  PROVE  /\ Count(a, FD, g) \in Nat /\ Cardinality(Own(a, p, g)) \in Nat
         /\ Count(b, FD, g) = Count(a, FD, g) + Cardinality(Own(a, p, g))
<1> DEFINE D == Own(a, p, g)
           A == Places(a, FD, g)
           E == {c} \X D
<1>0. /\ D = {d \in FD : a[p][d] = g} /\ \A d \in FD : a[c][d] # g
      /\ b[c] = a[p] /\ \A q \in FProcs : q # c => b[q] = a[q]
  BY Zenon DEF Own, Forked
<1>1. Places(b, FD, g) = A \cup E
  <2>1. ASSUME NEW x \in FProcs \X FD PROVE x \in Places(b, FD, g) <=> x \in A \cup E
    <3>1. x[1] \in FProcs /\ x[2] \in FD /\ x = <<x[1], x[2]>>
      OBVIOUS
    <3>2. x \in E <=> x[1] = c /\ a[p][x[2]] = g
      BY Zenon, <3>1, <1>0
    <3>3. x \in A <=> a[x[1]][x[2]] = g
      BY Zenon DEF Places
    <3>4. x \in Places(b, FD, g) <=> b[x[1]][x[2]] = g
      BY Zenon DEF Places
    <3>5. QED BY <3>1, <3>2, <3>3, <3>4, <1>0
  <2>2. Places(b, FD, g) \subseteq FProcs \X FD /\ A \subseteq FProcs \X FD
    BY Zenon DEF Places
  <2>3. E \subseteq FProcs \X FD
    BY Zenon, <1>0
  <2>4. QED BY <2>1, <2>2, <2>3, Zenon
<1>2. A \cap E = {}
  BY Zenon, <1>0 DEF Places
<1>3. IsFiniteSet(A) /\ Cardinality(A) \in Nat
  BY Zenon, PlacesFinite, IndexFinite DEF Count
<1>4. IsFiniteSet(D) /\ Cardinality(D) \in Nat
  <2>1. D \in SUBSET FD
    BY <1>0, Zenon
  <2>2. QED BY Zenon, <2>1, IndexFinite, FS_Subset, FS_CardinalityType
<1>5. IsFiniteSet({c}) /\ Cardinality({c}) = 1
  BY FS_Singleton, Zenon
<1> HIDE DEF A, D
<1>6. IsFiniteSet(E) /\ Cardinality(E) = Cardinality(D)
  <2>1. IsFiniteSet(E) /\ Cardinality(E) = Cardinality({c}) * Cardinality(D)
    BY <1>4, <1>5, FS_Product, Zenon
  <2>2. QED BY <2>1, <1>4, <1>5
<1> HIDE DEF E
<1>7. Cardinality(A \cup E) = Cardinality(A) + Cardinality(E) - Cardinality(A \cap E)
  BY Zenon, <1>3, <1>6, FS_Union
<1>8. Cardinality(A \cap E) = 0
  BY Zenon, <1>2, FS_EmptySet
<1>9. Cardinality(A \cup E) = Cardinality(A) + Cardinality(D)
  BY <1>3, <1>4, <1>6, <1>7, <1>8
<1>10. QED BY Zenon, <1>1, <1>3, <1>4, <1>9 DEF A, D, E, Count

\* fork: one filedup for each descriptor is what the copy of ofile needs.
LEMMA ForkInv ==
  ASSUME FileInv, NEW p \in FProcs, NEW c \in FProcs, FileFork(p, c)
  PROVE  FileInv'
<1>1. fcall[p] = Returned /\ fcall[c] = FileGone /\ p # c
  BY DEF FileFork, FileIdle, Returned, FileGone
<1>2. /\ UNCHANGED <<fhold, popen, fipref>> /\ ofile' = [ofile EXCEPT ![c] = ofile[p]]
      /\ fcall' = [fcall EXCEPT ![c] = Returned]
      /\ ftable' = [f \in File |-> [ftable[f] EXCEPT !.ref = @ + Cardinality({d \in FD : ofile[p][d] = f})]]
  BY Zenon DEF FileFork
<1>3. FreeFDs(c) = FD /\ InHand(c) = {} /\ fcall[c].op = "gone" /\ fcall[c].ff = NoEntry
  BY <1>1, HasCallInv DEF CallInv, FileGone
<1>4. /\ ofile' \in [FProcs -> [FD -> 0..NFILE]] /\ ofile'[c] = ofile[p]
      /\ \A q \in FProcs : q # c => ofile'[q] = ofile[q]
  BY Zenon, <1>2, HasFileOK DEF FileOK
<1>5. /\ fcall' \in [FProcs -> [op : Ops, ff : FileEntry]] /\ fcall'[c] = Returned
      /\ \A q \in FProcs : q # c => fcall'[q] = fcall[q]
  <2>1. Returned \in [op : Ops, ff : FileEntry]
    BY Zenon DEF Returned, NoEntry, FileEntry, Types, Ops
  <2>2. QED BY Zenon, <2>1, <1>2, HasFileOK DEF FileOK
<1>6. Returned.op = "none" /\ Returned.ff = NoEntry
  BY Zenon DEF Returned
<1>7. ASSUME NEW g \in File
      PROVE  /\ Cardinality(Own(ofile, p, g)) \in Nat /\ Count(ofile, FD, g) \in Nat
             /\ Count(ofile', FD, g) = Count(ofile, FD, g) + Cardinality(Own(ofile, p, g))
  <2>1. \A d \in FD : ofile[c][d] # g
    BY <1>3, FileAssumption DEF FreeFDs, File
  <2>2. Forked(ofile, ofile', p, c, g)
    BY Zenon, <2>1, <1>4 DEF Forked
  <2>3. QED BY <2>2, ForkPlaces
<1>8. ASSUME NEW g \in File
      PROVE  /\ ftable'[g] \in FileEntry /\ SameName(ftable'[g], ftable[g])
             /\ ftable'[g].ref = ftable[g].ref + Cardinality(Own(ofile, p, g))
  <2>1. ftable'[g] = [ftable[g] EXCEPT !.ref = @ + Cardinality(Own(ofile, p, g))]
    BY Zenon, <1>2 DEF Own
  <2>2. ftable[g] \in FileEntry
    BY Zenon, HasFileOK DEF FileOK
  <2>3. PICK n \in Nat : n = Cardinality(Own(ofile, p, g))
    BY Zenon, <1>7
  <2>4. ftable'[g] = [ftable[g] EXCEPT !.ref = @ + n]
    BY Zenon, <2>1, <2>3
  <2>5. ftable'[g] \in FileEntry /\ SameName(ftable'[g], ftable[g]) /\ ftable'[g].ref = ftable[g].ref + n
    BY <2>2, <2>4 DEF FileEntry, SameName
  <2>6. QED BY Zenon, <2>3, <2>5
<1>9. ftable' \in [File -> FileEntry]
  <2>1. \A g \in File : ftable'[g] \in FileEntry
    BY Zenon, <1>8
  <2>2. ftable' = [g \in File |-> ftable'[g]]
    BY Zenon, <1>2
  <2>3. QED BY Zenon, <2>1, <2>2
<1>10. FileOK'
  BY <1>2, <1>4, <1>5, <1>9, Zenon, HasFileOK DEF FileOK
<1>11. FileRefs'
  <2>1. ASSUME NEW g \in File PROVE ftable'[g].ref = Count(ofile', FD, g) + Count(fhold', Hand, g)
    <3>1. ftable[g].ref = Count(ofile, FD, g) + Count(fhold, Hand, g)
      BY Zenon, RefsCount, HasExact
    <3>2. fhold' = fhold /\ Count(fhold, Hand, g) \in Nat
      BY Zenon, <1>2, PlacesFinite, IndexFinite
    <3>3. QED BY <3>1, <3>2, <1>7, <1>8
  <2>2. QED BY Zenon, <2>1 DEF FileRefs, Count
<1>12. ASSUME NEW x \in Entries
       PROVE  SameName(Entry(x)', Entry(x)) /\ (Entry(x)'.ref = 0 => Entry(x)' = Entry(x) /\ Entry(x).ref = 0)
  <2>1. CASE x \in {"copy"} \X FProcs
    <3>1. Entry(x)' = Entry(x)
      BY Zenon, <2>1, <1>3, <1>5, <1>6 DEF Entry
    <3>2. QED BY Zenon, <3>1 DEF SameName
  <2>2. CASE x \in {"file"} \X File
    <3>1. PICK g \in File : x = <<"file", g>>
      BY <2>2
    <3>2. Entry(x)' = ftable'[g] /\ Entry(x) = ftable[g]
      BY Zenon, <3>1 DEF Entry
    <3>3. ASSUME ftable'[g].ref = 0 PROVE ftable'[g] = ftable[g] /\ ftable[g].ref = 0
      <4>1. ftable[g] \in FileEntry /\ ftable[g].ref \in Nat
        BY Zenon, HasFileOK DEF FileOK, FileEntry
      <4>2. ftable[g].ref = 0
        BY <3>3, <4>1, <1>7, <1>8
      <4>3. ftable'[g] \in FileEntry /\ SameName(ftable'[g], ftable[g])
        BY Zenon, <1>8
      <4>4. QED BY <3>3, <4>1, <4>2, <4>3 DEF FileEntry, SameName
    <3>4. QED BY Zenon, <3>2, <3>3, <1>8
  <2>3. QED BY Zenon, <2>1, <2>2 DEF Entries
<1>13. EntryInv'
  BY Zenon, <1>12, HasEntryInv DEF EntryInv, SameName
<1>14. ObjectsHeld'
  BY Zenon, <1>2, <1>12, ObjSame, HasExact DEF SameName
<1>15. CallInv'
  <2>1. InHand(c)' = {} /\ fhold'[c][2] = 0
    BY Zenon, <1>2, <1>3, FileTypes DEF InHand
  <2>2. QED BY <2>1, <1>2, <1>4, <1>5, <1>6, HasCallInv DEF CallInv, InHand, FreeFDs
<1>16. FreshInv'
  <2> SUFFICES ASSUME NEW q \in FProcs, NEW j \in Hand, fcall'[q].op \in {"pipe", "open"}, fhold'[q][j] # 0
               PROVE  /\ ftable'[fhold'[q][j]].type = "FD_NONE"
                      /\ Places(ofile', FD, fhold'[q][j]) = {}
                      /\ Places(fhold', Hand, fhold'[q][j]) = {<<q, j>>}
    BY DEF FreshInv, Places
  <2>1. fcall[q].op \in {"pipe", "open"} /\ fhold' = fhold /\ fhold[q][j] # 0
    BY Zenon, <1>2, <1>5, <1>6
  <2> DEFINE h == fhold[q][j]
  <2>2. Alone(q, j, h) /\ h \in File
    BY <2>1, FreshSame DEF Alone
  <2>3. \A v \in FProcs, d \in FD : ofile'[v][d] # h
    BY <2>2, <1>4 DEF Alone
  <2>4. Places(ofile', FD, h) = {}
    BY Zenon, <2>3 DEF Places
  <2>5. ftable'[h].type = "FD_NONE"
    BY Zenon, <2>2, <1>8 DEF Alone, SameName
  <2>6. QED BY Zenon, <2>1, <2>2, <2>4, <2>5 DEF Alone
<1>17. QED BY <1>10, <1>11, <1>13, <1>14, <1>15, <1>16, WholeInv

\* sys_dup: a second descriptor and a second reference.
LEMMA sys_dup_Inv ==
  ASSUME FileInv, NEW p \in FProcs, NEW d \in FD, sys_dup(p, d)
  PROVE  FileInv'
<1>1. PICK e \in fdalloc(p) : ofile' = [ofile EXCEPT ![p][e] = ofile[p][d]]
  BY Zenon DEF sys_dup
<1>2. e \in FD /\ ofile[p][e] = 0
  BY Zenon DEF fdalloc, First, FreeFDs
<1>3. QED BY <1>1, <1>2, DupInv, Zenon DEF sys_dup, DupStep

-----------------------------------------------------------------------------
(* The theorems. *)

\* fileinit: no file is open.
LEMMA FileInitInv == fileinit => FileInv
<1> SUFFICES ASSUME fileinit PROVE FileInv
  OBVIOUS
<1>1. NoEntry \in FileEntry /\ NoEntry.type = "FD_NONE" /\ NoEntry.ref = 0
  BY Zenon DEF NoEntry, FileEntry, Types
<1>2. /\ Returned \in [op : Ops, ff : FileEntry] /\ FileGone \in [op : Ops, ff : FileEntry]
      /\ Returned.op = "none" /\ FileGone.op = "gone" /\ Returned.ff = NoEntry /\ FileGone.ff = NoEntry
  BY Zenon, <1>1 DEF Returned, FileGone, Ops
<1>3. \A p \in FProcs : fcall[p] = Returned \/ fcall[p] = FileGone
  BY Zenon DEF fileinit
<1>4. FileOK
  <2>1. fcall \in [FProcs -> [op : Ops, ff : FileEntry]]
    BY Zenon, <1>2 DEF fileinit
  <2>2. 0 \in 0..NFILE
    BY FileAssumption
  <2>3. QED BY Zenon, <1>1, <2>1, <2>2 DEF FileOK, fileinit
<1>5. \A x \in Entries : Entry(x) = NoEntry
  BY Zenon, <1>2, <1>3 DEF Entries, Entry, fileinit
<1>6. EntryInv
  BY Zenon, <1>1, <1>5 DEF EntryInv
<1>7. \A p \in FProcs : InHand(p) = {} /\ FreeFDs(p) = FD /\ fhold[p][2] = 0
  BY DEF InHand, FreeFDs, fileinit, Hand
<1>8. CallInv
  BY Zenon, <1>2, <1>3, <1>7 DEF CallInv
<1>9. FreshInv
  BY Zenon, <1>2, <1>3 DEF FreshInv
<1>10. FileRefs
  <2>1. ASSUME NEW g \in File PROVE ftable[g].ref = Count(ofile, FD, g) + Count(fhold, Hand, g)
    <3>1. g # 0
      BY FileAssumption DEF File
    <3>2. Places(ofile, FD, g) = {} /\ Places(fhold, Hand, g) = {}
      BY Zenon, <3>1 DEF Places, fileinit
    <3>3. ftable[g].ref = 0
      BY Zenon, <1>1 DEF fileinit
    <3>4. QED BY <3>2, <3>3, FS_EmptySet DEF Count
  <2>2. QED BY Zenon, <2>1, RefsCount
<1>11. ObjectsHeld
  <2>1. \A t, o : t # "FD_NONE" => Holders(t, o) = {}
    BY Zenon, <1>1, <1>5 DEF Holders
  <2>2. \A i \in FInodes : fipref[i] = Cardinality(Holders("FD_INODE", i))
    BY <2>1, FS_EmptySet, Zenon DEF fileinit
  <2>3. ASSUME NEW k \in FPipes PROVE Holders("FD_PIPE", k) = {} /\ popen[k] = {}
    BY Zenon, <2>1 DEF fileinit
  <2>4. QED BY Zenon, <2>2, <2>3 DEF ObjectsHeld
<1>12. QED BY Zenon, <1>4, <1>6, <1>8, <1>9, <1>10, <1>11 DEF FileInv, FilesExact

\* A step that changes none of the variables.
LEMMA FileStutter ==
  ASSUME FileInv, UNCHANGED fvars
  PROVE  FileInv'
<1>1. /\ ftable' = ftable /\ ofile' = ofile /\ fhold' = fhold /\ fcall' = fcall
      /\ popen' = popen /\ fipref' = fipref
  BY Zenon DEF fvars
<1>2. FileOK' /\ CallInv'
  BY Zenon, <1>1, HasFileOK, HasCallInv DEF FileOK, CallInv, InHand, FreeFDs
<1>3. \A x \in Entries : Entry(x)' = Entry(x)
  BY Zenon, <1>1 DEF Entry
<1>4. EntryInv'
  BY Zenon, <1>3, HasEntryInv DEF EntryInv
<1>5. FreshInv' /\ FileRefs'
  BY Zenon, <1>1, HasFreshInv, HasExact DEF FreshInv, FileRefs
<1>6. ObjectsHeld'
  BY Zenon, <1>1, <1>3, ObjSame, HasExact
<1>7. QED BY Zenon, <1>2, <1>4, <1>5, <1>6, WholeInv

\* Every step of the calls keeps the invariant.
THEOREM FileInvHolds == FileSpec => []FileInv
<1>1. ASSUME FileInv, [FileNext]_fvars PROVE FileInv'
  <2>1. CASE UNCHANGED fvars
    BY Zenon, <1>1, <2>1, FileStutter
  <2>2. ASSUME NEW p \in FProcs, FileStart(p) PROVE FileInv'
    BY Zenon, <1>1, <2>2, StartInv
  <2>3. ASSUME NEW p \in FProcs, filealloc(p) PROVE FileInv'
    BY <1>1, <2>3, filealloc_Inv
  <2>4. ASSUME NEW p \in FProcs, sys_pipe(p) PROVE FileInv'
    BY Zenon, <1>1, <2>4, sys_pipe_Inv
  <2>5. ASSUME NEW p \in FProcs, FileOpen(p) PROVE FileInv'
    BY Zenon, <1>1, <2>5, OpenInv
  <2>6. ASSUME NEW p \in FProcs, NEW d \in FD, sys_dup(p, d) PROVE FileInv'
    BY Zenon, <1>1, <2>6, sys_dup_Inv
  <2>7. ASSUME NEW p \in FProcs, NEW d \in FD, sys_close(p, d) PROVE FileInv'
    BY Zenon, <1>1, <2>7, sys_close_Inv
  <2>8. ASSUME NEW p \in FProcs, NEW c \in FProcs, FileFork(p, c) PROVE FileInv'
    BY Zenon, <1>1, <2>8, ForkInv
  <2>9. ASSUME NEW p \in FProcs, FileExit(p) PROVE FileInv'
    BY Zenon, <1>1, <2>9, ExitInv
  <2>10. ASSUME NEW p \in FProcs, ExitClose(p) PROVE FileInv'
    BY Zenon, <1>1, <2>10, ExitCloseInv
  <2>11. ASSUME NEW p \in FProcs, FileClose(p) PROVE FileInv'
    BY Zenon, <1>1, <2>11, CloseInv
  <2>12. ASSUME NEW p \in FProcs, FileDrop(p) PROVE FileInv'
    BY Zenon, <1>1, <2>12, DropInv
  <2>13. ASSUME NEW p \in FProcs, FileReturn(p) PROVE FileInv'
    BY Zenon, <1>1, <2>13, ReturnInv
  <2>14. QED
    BY <1>1, <2>1, <2>2, <2>3, <2>4, <2>5, <2>6, <2>7, <2>8, <2>9, <2>10, <2>11, <2>12, <2>13, ZenonT(30)
    DEF FileNext
<1>2. QED BY <1>1, FileInitInv, PTL DEF FileSpec

\* The counts of the open files, for every number of processes, files and descriptors.
THEOREM FilesCorrect == FileSpec => []FilesExact
<1>1. FileInv => FilesExact
  BY Zenon DEF FileInv
<1>2. QED BY <1>1, FileInvHolds, PTL
=============================================================================
