----------------------------- MODULE LogProofs ------------------------------
(***************************************************************************)
(* The log keeps its promises for every number of callers, blocks and      *)
(* contents, and every size of the log in which the blocks of the calls    *)
(* that begin_op lets in have room.                                        *)
(***************************************************************************)
EXTENDS Log, FiniteSetTheorems, TLAPS

\* A call that may write MAXOPBLOCKS blocks needs a log of LOGSIZE blocks behind its
\* header.  In the log that mkfs makes there is one block less, which is enough for calls
\* that write at most MAXOPBLOCKS - 1 blocks.
LogRoom == LOGSIZE + OpWrites <= (size - 1) + MAXOPBLOCKS

\* The blocks that may be listed in the header.
Room == IF LOGSIZE <= size - 1 THEN LOGSIZE ELSE size - 1

\* The entries of the header that a caller may still need.
Due(p) == left[p] + (IF pc[p] = "write" THEN 1 ELSE 0)

Reserved == {r \in Caller \X (1..OpWrites) : r[2] <= Due(r[1])}

Injective(s) == \A i, j \in 1..Len(s) : s[i] = s[j] => i = j

\* The callers that begin_op has let in are counted, and the header has room for what
\* they may still write.
AdmitInv ==
  /\ outstanding = Cardinality(Active)
  /\ Len(lh) + Cardinality(Reserved) <= Room
  /\ Len(hdr) <= Room
  /\ \A p \in Caller : /\ p \notin Active => left[p] = 0
                       /\ pc[p] = "write" => left[p] < OpWrites
                       /\ blk[p] # NoBlock => pc[p] = "write"
                       /\ pc[p] = "write" => blk[p] # NoBlock

\* Where commit and recovery are: commit runs while nobody is inside a call, recovery
\* before anybody is.
StageInv ==
  /\ committing => up /\ stage \in {"log", "head", "install", "finish"} /\ Active = {}
  /\ ~committing => \A p \in Caller : pc[p] # "commit"
  /\ up /\ ~committing => stage = "none"
  /\ ~up => /\ stage \in {"read", "install"} /\ ~committing /\ cache = home
            /\ \A p \in Caller : pc[p] = "idle"
  /\ stage \in {"read", "finish"} => lh = <<>>
  /\ up /\ ~committing /\ Active = {} => lh = <<>>
  /\ stage \in {"read", "head"} => tail = 0
  /\ stage \in {"log", "head"} => lh # <<>>
  /\ stage = "log" => tail < Len(lh)
  /\ tail <= Len(lh) \/ stage \in {"none", "finish"}

\* What is in the log: the header on the disk lists blocks only from its commit to the end
\* of the installation, and then the blocks of the log are the ones of the transaction.
DiskInv ==
  /\ Injective(lh) /\ Injective(hdr)
  /\ stage \in {"none", "log", "head", "finish"} => hdr = <<>>
  /\ stage = "install" => hdr = lh
  /\ stage = "log" => \A i \in 1..tail : logd[i] = cache[lh[i]]
  /\ stage = "head" \/ (stage = "install" /\ up) => \A i \in 1..Len(lh) : logd[i] = cache[lh[i]]
  /\ stage = "install" => \A i \in 1..tail : home[lh[i]] = logd[i]

LogInv == LogSafe /\ AdmitInv /\ StageInv /\ DiskInv

-----------------------------------------------------------------------------
(* Counting *)

\* Sets of callers and of reserved entries are finite.
LEMMA Finite ==
  /\ \A S \in SUBSET Caller : IsFiniteSet(S) /\ Cardinality(S) \in Nat
  /\ \A S \in SUBSET (Caller \X (1..OpWrites)) : IsFiniteSet(S) /\ Cardinality(S) \in Nat
<1>1. IsFiniteSet(Caller) /\ IsFiniteSet(1..OpWrites)
  BY LogAssumption, FS_Interval
<1>2. IsFiniteSet(Caller \X (1..OpWrites))
  BY Zenon, <1>1, FS_Product
<1>3. QED BY Zenon, <1>1, <1>2, FS_Subset, FS_CardinalityType

\* Room is a natural number, at most LOGSIZE and at most size - 1.
LEMMA RoomType == Room \in Nat /\ Room <= LOGSIZE /\ Room <= size - 1
  BY LogAssumption DEF Room

\* What begin_op lets in has room: n calls that were admitted with m blocks in the header.
LEMMA AdmitRoom ==
  ASSUME LogRoom, NEW m \in Nat, NEW n \in Nat \ {0}, m + n * MAXOPBLOCKS <= LOGSIZE
  PROVE  m + n * OpWrites <= Room
<1>1. MAXOPBLOCKS \in Nat /\ OpWrites \in Nat /\ size \in Nat /\ LOGSIZE \in Nat /\ OpWrites <= MAXOPBLOCKS
  BY LogAssumption
<1> DEFINE d == MAXOPBLOCKS - OpWrites
<1>2. d \in Nat /\ LOGSIZE - d <= size - 1
  BY <1>1 DEF LogRoom
<1>3. n * MAXOPBLOCKS = n * OpWrites + n * d
  BY <1>1
<1>4. n * d >= d
  BY <1>2
<1>5. n * OpWrites \in Nat /\ n * d \in Nat
  BY <1>1, <1>2
<1> HIDE DEF d
<1>6. QED BY <1>1, <1>2, <1>3, <1>4, <1>5 DEF Room

\* outstanding is zero exactly when nobody is inside a call.
LEMMA Counted ==
  ASSUME AdmitInv
  PROVE  outstanding \in Nat /\ (outstanding = 0 <=> Active = {})
<1>1. Active \in SUBSET Caller
  BY Zenon DEF Active
<1>2. QED BY Zenon, <1>1, Finite, FS_EmptySet DEF AdmitInv

\* What an entry added to the header changes.
LEMMA Appended ==
  ASSUME NEW s \in Seq(Block), NEW b \in Block
  PROVE  /\ Append(s, b) \in Seq(Block) /\ Len(Append(s, b)) = Len(s) + 1
         /\ \A i \in 1..Len(s) : Append(s, b)[i] = s[i]
         /\ Append(s, b)[Len(s) + 1] = b
         /\ Range(Append(s, b)) = Range(s) \cup {b}
         /\ b \notin Range(s) /\ Injective(s) => Injective(Append(s, b))
<1>1. /\ Append(s, b) \in Seq(Block) /\ Len(Append(s, b)) = Len(s) + 1
      /\ \A i \in 1..Len(s) : Append(s, b)[i] = s[i]
      /\ Append(s, b)[Len(s) + 1] = b
  OBVIOUS
<1>2. DOMAIN s = 1..Len(s) /\ DOMAIN Append(s, b) = 1..(Len(s) + 1) /\ Len(s) \in Nat
  OBVIOUS
<1>3. Range(Append(s, b)) = Range(s) \cup {b}
  BY <1>1, <1>2 DEF Range
<1>4. b \notin Range(s) /\ Injective(s) => Injective(Append(s, b))
  BY <1>1, <1>2 DEF Range, Injective
<1>5. QED BY Zenon, <1>1, <1>3, <1>4

-----------------------------------------------------------------------------
(* The steps of the callers *)

\* begin_op either sleeps, with a reason, or reserves room.
LEMMA BeginInv ==
  ASSUME LogRoom, LogInv, NEW p \in Caller, begin_op(p)
  PROVE  LogInv'
<1> USE LogAssumption DEF LogInv, LogSafe
<1>0. /\ pc \in [Caller -> {"idle", "asleep", "woken", "op", "write", "panic", "commit"}]
      /\ left \in [Caller -> 0..OpWrites] /\ lh \in Seq(Block) /\ Len(lh) \in Nat
      /\ up /\ pc[p] \in {"idle", "woken"}
      /\ UNCHANGED <<home, hdr, logd, cache, lh, committing, blk, stage, tail, up>>
  BY DEF begin_op, TypeOK, disk
<1>1. outstanding \in Nat /\ (outstanding = 0 <=> Active = {})
  BY Zenon, Counted
<1>2. CASE MustWait /\ pc' = [pc EXCEPT ![p] = "asleep"] /\ UNCHANGED <<outstanding, left>>
  <2>1. Active' = Active /\ Reserved' = Reserved
    BY Zenon, <1>0, <1>2 DEF Active, Reserved, Due
  <2>2. TypeOK'
    BY Zenon, <1>0, <1>2 DEF TypeOK
  <2>3. AdmitInv'
    BY Zenon, <1>0, <1>2, <2>1 DEF AdmitInv
  <2>4. StageInv'
    BY Zenon, <1>0, <1>2, <2>1 DEF StageInv
  <2>5. committing \/ outstanding > 0
    BY <1>0, <1>1, <1>2 DEF StageInv, MustWait
  <2>6. NoLostWakeup'
    BY Zenon, <1>0, <1>2, <2>5 DEF NoLostWakeup, MustWait
  <2>7. NoPanic'
    BY Zenon, <1>0, <1>2 DEF NoPanic
  <2>8. QED BY Zenon, <1>0, <1>2, <2>2, <2>3, <2>4, <2>6, <2>7
       DEF DiskInv, CleanCache, DurableReturn, LogFits
<1>3. CASE /\ ~MustWait /\ pc' = [pc EXCEPT ![p] = "op"] /\ outstanding' = outstanding + 1
           /\ left' = [left EXCEPT ![p] = OpWrites]
  <2>1. Active' = Active \cup {p} /\ p \notin Active
    BY Zenon, <1>0, <1>3 DEF Active
  <2>2. outstanding' = Cardinality(Active')
    <3>1. Active \in SUBSET Caller
      BY Zenon DEF Active
    <3>2. QED BY Zenon, <1>3, <2>1, <3>1, Finite, FS_AddElement DEF AdmitInv
  <2>3. Cardinality(Reserved') <= outstanding' * OpWrites
    <3>1. Reserved' \subseteq Active' \X (1..OpWrites)
      BY <1>0, <1>3, <2>1 DEF Reserved, Due, AdmitInv, Active
    <3>2. IsFiniteSet(Active') /\ IsFiniteSet(1..OpWrites) /\ Cardinality(1..OpWrites) = OpWrites
      <4>1. Active' \in SUBSET Caller
        BY Zenon DEF Active
      <4>2. IsFiniteSet(Active')
        BY Zenon, <4>1, Finite
      <4>3. IsFiniteSet(1..OpWrites) /\ Cardinality(1..OpWrites) = OpWrites
        BY FS_Interval
      <4>4. QED BY Zenon, <4>2, <4>3
    <3>3. /\ IsFiniteSet(Active' \X (1..OpWrites))
          /\ Cardinality(Active' \X (1..OpWrites)) = Cardinality(Active') * OpWrites
      BY Zenon, <3>2, FS_Product
    <3>4. QED BY Zenon, <3>1, <3>3, <2>2, FS_Subset
  <2>4. Len(lh') + Cardinality(Reserved') <= Room
    <3>1. Len(lh) + outstanding' * OpWrites <= Room
      <4>1. outstanding' \in Nat \ {0} /\ MAXOPBLOCKS \in Nat /\ LOGSIZE \in Nat
        BY <1>1, <1>3
      <4>2. \A m, n \in Nat : m * n \in Nat
        OBVIOUS
      <4>3. Len(lh) + outstanding' * MAXOPBLOCKS <= LOGSIZE
        BY <1>0, <1>3, <4>1, <4>2 DEF MustWait
      <4>4. QED BY Zenon, <1>0, <4>1, <4>3, AdmitRoom
    <3>2. Cardinality(Reserved') \in Nat /\ outstanding' * OpWrites \in Nat
      BY <1>1, <1>3, Finite DEF Reserved
    <3>3. QED BY <1>0, <2>3, <3>1, <3>2, RoomType
  <2>5. TypeOK'
    BY <1>0, <1>3 DEF TypeOK
  <2>6. AdmitInv'
    BY Zenon, <1>0, <1>3, <2>1, <2>2, <2>4 DEF AdmitInv
  <2>7. StageInv'
    BY Zenon, <1>0, <1>3, <2>1 DEF StageInv, MustWait
  <2>8. NoLostWakeup'
    BY Zenon, <1>0, <1>1, <1>3 DEF NoLostWakeup, MustWait
  <2>9. NoPanic'
    BY Zenon, <1>0, <1>3 DEF NoPanic
  <2>10. QED BY Zenon, <1>0, <1>3, <2>5, <2>6, <2>7, <2>8, <2>9
       DEF DiskInv, CleanCache, DurableReturn, LogFits
<1>4. QED BY Zenon, <1>2, <1>3 DEF begin_op

\* log_write's test passes: the caller has an entry of the header reserved.
LEMMA LogTestInv ==
  ASSUME LogRoom, LogInv, NEW p \in Caller, LogTest(p)
  PROVE  LogInv'
<1> USE LogAssumption DEF LogInv, LogSafe
<1>0. /\ pc \in [Caller -> {"idle", "asleep", "woken", "op", "write", "panic", "commit"}]
      /\ left \in [Caller -> 0..OpWrites] /\ lh \in Seq(Block) /\ Len(lh) \in Nat
      /\ blk \in [Caller -> Block \cup {NoBlock}] /\ cache \in [Block -> Val]
      /\ pc[p] = "op" /\ left[p] > 0
      /\ UNCHANGED <<home, hdr, logd, lh, outstanding, committing, stage, tail, up>>
  BY DEF LogTest, TypeOK, disk
<1>1. PICK b \in Block, v \in Val :
        /\ cache' = [cache EXCEPT ![b] = v] /\ blk' = [blk EXCEPT ![p] = b]
  BY Zenon DEF LogTest
<1>2. p \in Active /\ outstanding \in Nat /\ outstanding > 0
  <2>1. p \in Active
    BY Zenon, <1>0 DEF Active
  <2>2. QED BY <2>1, Counted
<1>3. ~Full
  <2>1. <<p, left[p]>> \in Reserved /\ Reserved \in SUBSET (Caller \X (1..OpWrites))
    BY <1>0 DEF Reserved, Due
  <2>2. Cardinality(Reserved) \in Nat /\ Cardinality(Reserved) # 0
    BY Zenon, <2>1, Finite, FS_EmptySet
  <2>3. Len(lh) < Room
    BY <1>0, <2>2, RoomType DEF AdmitInv
  <2>4. QED BY <1>0, <2>3, RoomType DEF Full
<1>4. pc' = [pc EXCEPT ![p] = "write"] /\ left' = [left EXCEPT ![p] = @ - 1]
  <2>1. /\ pc' = [pc EXCEPT ![p] = IF Full \/ outstanding < 1 THEN "panic" ELSE "write"]
        /\ left' = [left EXCEPT ![p] = @ - 1]
    BY Zenon DEF LogTest
  <2>2. ~(outstanding < 1)
    BY <1>2
  <2>3. QED BY Zenon, <1>3, <2>1, <2>2
<1>5. Active' = Active /\ Reserved' = Reserved
  <2>1. \A q \in Caller : Due(q)' = Due(q)
    BY <1>0, <1>4 DEF Due
  <2>2. QED BY Zenon, <1>0, <1>4, <2>1 DEF Active, Reserved
<1>6. up /\ ~committing /\ stage = "none"
  BY Zenon, <1>2 DEF StageInv, Active
<1>7. TypeOK'
  BY <1>0, <1>1, <1>4 DEF TypeOK
<1>8. AdmitInv'
  BY <1>0, <1>1, <1>2, <1>4, <1>5 DEF AdmitInv
<1>9. StageInv'
  BY Zenon, <1>0, <1>2, <1>4, <1>5, <1>6 DEF StageInv
<1>10. DiskInv'
  BY Zenon, <1>0, <1>6 DEF DiskInv
<1>11. CleanCache'
  BY <1>0, <1>1, <1>8 DEF CleanCache, AdmitInv
<1>12. NoLostWakeup' /\ NoPanic' /\ DurableReturn' /\ LogFits'
  BY Zenon, <1>0, <1>4, <1>6 DEF NoLostWakeup, MustWait, NoPanic, DurableReturn, LogFits
<1>13. QED BY Zenon, <1>7, <1>8, <1>9, <1>10, <1>11, <1>12

\* log_write lists the block once, in the entry that the caller had reserved.
LEMMA LogWriteInv ==
  ASSUME LogInv, NEW p \in Caller, log_write(p)
  PROVE  LogInv'
<1> USE LogAssumption DEF LogInv, LogSafe
<1>0. /\ pc \in [Caller -> {"idle", "asleep", "woken", "op", "write", "panic", "commit"}]
      /\ left \in [Caller -> 0..OpWrites] /\ lh \in Seq(Block) /\ Len(lh) \in Nat
      /\ blk \in [Caller -> Block \cup {NoBlock}]
      /\ pc[p] = "write" /\ blk[p] \in Block
      /\ pc' = [pc EXCEPT ![p] = "op"] /\ blk' = [blk EXCEPT ![p] = NoBlock]
      /\ UNCHANGED <<home, hdr, logd, cache, outstanding, committing, left, stage, tail, up>>
  BY DEF log_write, TypeOK, AdmitInv, disk
<1>1. \/ lh' = lh /\ blk[p] \in Range(lh)
      \/ lh' = Append(lh, blk[p]) /\ blk[p] \notin Range(lh)
  BY Zenon DEF log_write
<1>2. /\ lh' \in Seq(Block) /\ Len(lh') \in Nat /\ Len(lh) <= Len(lh') /\ Len(lh') <= Len(lh) + 1
      /\ Range(lh') = Range(lh) \cup {blk[p]} /\ (Injective(lh) => Injective(lh'))
  <2>1. CASE lh' = lh /\ blk[p] \in Range(lh)
    BY <1>0, <2>1
  <2>2. CASE lh' = Append(lh, blk[p]) /\ blk[p] \notin Range(lh)
    BY <1>0, <2>2, Appended
  <2>3. QED BY Zenon, <1>1, <2>1, <2>2
<1>3. Active' = Active /\ p \in Active
  BY Zenon, <1>0 DEF Active
<1>4. up /\ ~committing /\ stage = "none"
  BY Zenon, <1>3 DEF StageInv, Active
<1>5. Len(lh') + Cardinality(Reserved') <= Room
  <2>1. Reserved' = Reserved \ {<<p, left[p] + 1>>}
    BY <1>0 DEF Reserved, Due
  <2>2. <<p, left[p] + 1>> \in Reserved
    BY <1>0 DEF Reserved, Due, AdmitInv
  <2>3. Reserved \in SUBSET (Caller \X (1..OpWrites))
    BY Zenon DEF Reserved
  <2>4. Cardinality(Reserved') = Cardinality(Reserved) - 1 /\ Cardinality(Reserved) \in Nat
    BY <2>1, <2>2, <2>3, Finite, FS_RemoveElement
  <2>5. QED BY <1>0, <1>2, <2>4, RoomType DEF AdmitInv
<1>6. Len(lh') <= Room
  <2>1. Cardinality(Reserved') \in Nat
    BY Zenon, Finite DEF Reserved
  <2>2. QED BY <1>2, <1>5, <2>1, RoomType
<1>7. TypeOK'
  BY <1>0, <1>2, <1>6, RoomType DEF TypeOK
<1>8. AdmitInv'
  BY Zenon, <1>0, <1>3, <1>5 DEF AdmitInv
<1>9. StageInv'
  BY Zenon, <1>0, <1>3, <1>4 DEF StageInv
<1>10. DiskInv'
  BY Zenon, <1>0, <1>2, <1>4 DEF DiskInv
<1>11. CleanCache'
  BY Zenon, <1>0, <1>2 DEF CleanCache
<1>12. NoLostWakeup'
  BY <1>0, <1>2, <1>4, Counted DEF NoLostWakeup, MustWait
<1>13. NoPanic' /\ DurableReturn' /\ LogFits'
  BY <1>0, <1>2, <1>4, <1>6, RoomType DEF NoPanic, DurableReturn, LogFits
<1>14. QED BY Zenon, <1>7, <1>8, <1>9, <1>10, <1>11, <1>12, <1>13

\* end_op: the last call starts the commit, the others wake those who wait for room.
LEMMA EndInv ==
  ASSUME LogInv, NEW p \in Caller, end_op(p)
  PROVE  LogInv'
<1> USE LogAssumption DEF LogInv, LogSafe
<1>0. /\ pc \in [Caller -> {"idle", "asleep", "woken", "op", "write", "panic", "commit"}]
      /\ left \in [Caller -> 0..OpWrites] /\ lh \in Seq(Block) /\ Len(lh) \in Nat
      /\ home \in [Block -> Val] /\ cache \in [Block -> Val]
      /\ pc[p] = "op" /\ outstanding' = outstanding - 1 /\ left' = [left EXCEPT ![p] = 0]
      /\ UNCHANGED <<home, hdr, logd, cache, lh, blk, up>>
  BY DEF end_op, TypeOK, disk
<1>1. p \in Active /\ Active \in SUBSET Caller
  BY Zenon, <1>0 DEF Active
<1>2. outstanding \in Nat /\ outstanding > 0
  BY <1>1, Counted
<1>3. up /\ ~committing /\ stage = "none" /\ hdr = <<>>
  BY Zenon, <1>1 DEF StageInv, DiskInv, Active
<1>4. \A q \in Caller : pc'[q] = "op" <=> pc[q] = "op" /\ q # p
  BY Zenon, <1>0 DEF end_op, Wakeup
<1>5. \A q \in Caller : /\ pc'[q] = "write" <=> pc[q] = "write"
                        /\ pc'[q] = "panic" <=> pc[q] = "panic"
  BY Zenon, <1>0 DEF end_op, Wakeup
<1>6. Active' = Active \ {p}
  BY Zenon, <1>0, <1>4, <1>5 DEF Active
<1>7. outstanding' = Cardinality(Active')
  BY Zenon, <1>0, <1>1, <1>6, Finite, FS_RemoveElement DEF AdmitInv
<1>8. Len(lh') + Cardinality(Reserved') <= Room
  <2>1. Reserved' \subseteq Reserved
    BY <1>0, <1>5 DEF Reserved, Due
  <2>2. Reserved \in SUBSET (Caller \X (1..OpWrites))
    BY Zenon DEF Reserved
  <2>3. Cardinality(Reserved') <= Cardinality(Reserved)
    BY Zenon, <2>1, <2>2, Finite, FS_Subset
  <2>4. Cardinality(Reserved) \in Nat /\ Cardinality(Reserved') \in Nat
    BY Zenon, <2>1, <2>2, Finite
  <2>5. QED BY <1>0, <2>3, <2>4, RoomType DEF AdmitInv
<1>9. AdmitInv'
  BY Zenon, <1>0, <1>4, <1>5, <1>6, <1>7, <1>8 DEF AdmitInv
<1>10. CleanCache' /\ LogFits' /\ NoPanic'
  BY Zenon, <1>0, <1>5 DEF CleanCache, LogFits, NoPanic
<1>11. CASE /\ outstanding = 1 /\ committing' = TRUE /\ pc' = [pc EXCEPT ![p] = "commit"]
            /\ stage' = (IF lh = <<>> THEN "finish" ELSE "log") /\ tail' = 0
  <2>1. Active' = {}
    <3>1. Active' \in SUBSET Caller /\ Cardinality(Active') = 0
      BY <1>0, <1>1, <1>6, <1>7, <1>11
    <3>2. QED BY Zenon, <3>1, Finite, FS_EmptySet
  <2>2. TypeOK'
    BY <1>0, <1>2, <1>11 DEF TypeOK
  <2>3. StageInv'
    BY <1>0, <1>3, <1>11, <2>1 DEF StageInv
  <2>4. DiskInv'
    BY <1>0, <1>3, <1>11 DEF DiskInv
  <2>5. DurableReturn'
    <3>1. SUFFICES ASSUME lh = <<>> PROVE home = cache
      BY Zenon, <1>0, <1>3, <1>11 DEF DurableReturn
    <3>2. \A q \in Caller : blk[q] \notin Block
      BY Zenon, <1>0, <1>5, <2>1 DEF AdmitInv, Active, TypeOK
    <3>3. Range(lh) = {}
      BY <3>1 DEF Range
    <3>4. \A b \in Block : cache[b] = home[b]
      BY Zenon, <3>2, <3>3 DEF CleanCache
    <3>5. QED BY <1>0, <3>4
  <2>6. NoLostWakeup'
    BY Zenon, <1>0, <1>11 DEF NoLostWakeup, MustWait
  <2>7. QED BY Zenon, <1>9, <1>10, <2>2, <2>3, <2>4, <2>5, <2>6
<1>12. CASE /\ outstanding # 1 /\ pc' = Wakeup([pc EXCEPT ![p] = "idle"])
            /\ UNCHANGED <<committing, stage, tail>>
  <2>1. Active' # {}
    <3>1. Cardinality(Active') # 0
      BY <1>0, <1>2, <1>7, <1>12
    <3>2. QED BY Zenon, <3>1, FS_EmptySet
  <2>2. \A q \in Caller : /\ pc'[q] \in {"idle", "woken", "op", "write", "panic", "commit"}
                          /\ pc'[q] = "commit" => pc[q] = "commit"
    BY Zenon, <1>0, <1>12 DEF Wakeup
  <2>3. pc' \in [Caller -> {"idle", "asleep", "woken", "op", "write", "panic", "commit"}]
    BY Zenon, <1>12, <2>2 DEF Wakeup
  <2>4. TypeOK'
    <3>1. outstanding' \in Nat /\ left' \in [Caller -> 0..OpWrites]
      BY <1>0, <1>2
    <3>2. QED BY Zenon, <1>0, <1>12, <2>3, <3>1 DEF TypeOK
  <2>5. StageInv'
    BY Zenon, <1>0, <1>3, <1>12, <2>1, <2>2 DEF StageInv
  <2>6. DiskInv' /\ DurableReturn' /\ NoLostWakeup'
    BY Zenon, <1>0, <1>3, <1>12, <2>2 DEF DiskInv, DurableReturn, NoLostWakeup
  <2>7. QED BY Zenon, <1>9, <1>10, <2>4, <2>5, <2>6
<1>13. QED BY Zenon, <1>11, <1>12 DEF end_op

-----------------------------------------------------------------------------
(* The steps of commit and of recovery *)

\* Outside calls nothing is reserved.
LEMMA NothingReserved ==
  ASSUME \A p \in Caller : left[p] = 0 /\ pc[p] # "write"
  PROVE  Reserved = {} /\ Cardinality(Reserved) = 0
<1>1. Reserved = {}
  BY LogAssumption DEF Reserved, Due
<1>2. QED BY Zenon, <1>1, FS_EmptySet

\* commit runs while nobody holds a block that is not listed yet.
LEMMA QuietCache ==
  ASSUME LogInv, Active = {}
  PROVE  \A b \in Block : b \notin Range(lh) => cache[b] = home[b]
<1>1. \A p \in Caller : blk[p] = NoBlock
  BY Zenon DEF LogInv, AdmitInv, Active
<1>2. QED BY Zenon, <1>1, LogAssumption DEF LogInv, LogSafe, CleanCache

\* write_log copies one block of the transaction into the log, behind the header.
LEMMA WriteLogInv ==
  ASSUME LogInv, write_log
  PROVE  LogInv' /\ UNCHANGED <<home, cache>>
<1> USE LogAssumption DEF LogInv, LogSafe
<1>0. /\ lh \in Seq(Block) /\ Len(lh) \in Nat /\ Len(lh) <= LOGSIZE
      /\ cache \in [Block -> Val] /\ logd \in [1..LOGSIZE -> Val] /\ tail \in Nat
      /\ stage = "log" /\ tail + 1 <= Len(lh) /\ tail + 1 <= size - 1
      /\ UNCHANGED <<hdr, lh, outstanding, committing, pc, blk, left, up>>
  BY RoomType DEF write_log, TypeOK, StageInv, LogFits, call
<1>1. /\ logd' = [logd EXCEPT ![tail + 1] = cache[lh[tail + 1]]] /\ UNCHANGED <<home, cache>>
      /\ \/ tail + 1 = Len(lh) /\ stage' = "head" /\ tail' = 0
         \/ tail + 1 # Len(lh) /\ stage' = stage /\ tail' = tail + 1
  BY Zenon, <1>0 DEF write_log
<1>2. Active' = Active /\ Reserved' = Reserved
  BY Zenon, <1>0 DEF Active, Reserved, Due
<1>3. committing /\ up
  BY Zenon, <1>0 DEF StageInv
<1>4. TypeOK'
  BY <1>0, <1>1 DEF TypeOK
<1>5. AdmitInv'
  BY Zenon, <1>0, <1>2 DEF AdmitInv
<1>6. StageInv'
  BY <1>0, <1>1, <1>2, <1>3 DEF StageInv
<1>7. DiskInv'
  BY <1>0, <1>1, <1>3 DEF DiskInv
<1>8. CleanCache' /\ DurableReturn' /\ NoLostWakeup' /\ LogFits' /\ NoPanic'
  BY Zenon, <1>0, <1>1, <1>3 DEF CleanCache, DurableReturn, NoLostWakeup, MustWait, LogFits, NoPanic
<1>9. QED BY Zenon, <1>1, <1>4, <1>5, <1>6, <1>7, <1>8

\* write_head lists on the disk what the log holds.
LEMMA WriteHeadInv ==
  ASSUME LogInv, write_head
  PROVE  LogInv'
<1> USE LogAssumption DEF LogInv, LogSafe
<1>0. /\ stage = "head" /\ hdr' = lh /\ stage' = "install" /\ tail = 0
      /\ lh \in Seq(Block) /\ Len(lh) \in Nat
      /\ UNCHANGED <<home, logd, cache, lh, outstanding, committing, pc, blk, left, tail, up>>
  BY DEF write_head, StageInv, TypeOK, call
<1>1. Active' = Active /\ Reserved' = Reserved
  BY Zenon, <1>0 DEF Active, Reserved, Due
<1>2. committing /\ up
  BY Zenon, <1>0 DEF StageInv
<1>3. TypeOK'
  BY Zenon, <1>0 DEF TypeOK
<1>4. AdmitInv'
  <2>1. Cardinality(Reserved) \in Nat
    BY Zenon, Finite DEF Reserved
  <2>2. Len(lh) <= Room
    BY <1>0, <2>1, RoomType DEF AdmitInv
  <2>3. QED BY Zenon, <1>0, <1>1, <2>2 DEF AdmitInv
<1>5. StageInv'
  BY Zenon, <1>0, <1>1, <1>2 DEF StageInv
<1>6. DiskInv'
  BY <1>0, <1>2 DEF DiskInv
<1>7. CleanCache' /\ DurableReturn' /\ NoLostWakeup' /\ LogFits' /\ NoPanic'
  BY Zenon, <1>0, <1>2 DEF CleanCache, DurableReturn, NoLostWakeup, MustWait, LogFits, NoPanic
<1>8. QED BY Zenon, <1>3, <1>4, <1>5, <1>6, <1>7

\* install_trans copies a block of the log to its place; in commit the cache has it already.
LEMMA InstallInv ==
  ASSUME LogInv, install_trans
  PROVE  /\ LogInv'
         /\ home' = [home EXCEPT ![lh[tail + 1]] = logd[tail + 1]]
         /\ up => cache' = cache
<1> USE LogAssumption DEF LogInv, LogSafe
<1>0. /\ lh \in Seq(Block) /\ Len(lh) \in Nat /\ Len(lh) <= LOGSIZE /\ lh[tail + 1] \in Block
      /\ home \in [Block -> Val] /\ cache \in [Block -> Val]
      /\ logd \in [1..LOGSIZE -> Val] /\ tail \in Nat
      /\ stage = "install" /\ tail + 1 <= Len(lh) /\ tail + 1 <= size - 1 /\ tail' = tail + 1
      /\ UNCHANGED <<hdr, logd, lh, outstanding, committing, pc, blk, left, stage, up>>
  BY DEF install_trans, TypeOK, LogFits, call
<1>1. LogBlock(tail + 1) = logd[tail + 1] /\ logd[tail + 1] \in Val
  BY <1>0 DEF LogBlock
<1>2. /\ home' = [home EXCEPT ![lh[tail + 1]] = logd[tail + 1]]
      /\ cache' = [cache EXCEPT ![lh[tail + 1]] = logd[tail + 1]]
  BY Zenon, <1>1 DEF install_trans
<1>3. up => cache' = cache
  BY <1>0, <1>2 DEF DiskInv
<1>4. Active' = Active /\ Reserved' = Reserved
  BY Zenon, <1>0 DEF Active, Reserved, Due
<1>5. TypeOK'
  BY <1>0, <1>1, <1>2 DEF TypeOK
<1>6. AdmitInv'
  BY Zenon, <1>0, <1>4 DEF AdmitInv
<1>7. StageInv'
  BY Zenon, <1>0, <1>2, <1>4 DEF StageInv
<1>8. DiskInv'
  <2>1. \A i \in 1..tail' : home'[lh[i]] = logd[i]
    BY <1>0, <1>2 DEF DiskInv, Injective
  <2>2. QED BY Zenon, <1>0, <1>3, <2>1 DEF DiskInv
<1>9. CleanCache'
  BY Zenon, <1>0, <1>2 DEF CleanCache
<1>10. DurableReturn' /\ NoLostWakeup' /\ LogFits' /\ NoPanic'
  BY Zenon, <1>0 DEF DurableReturn, NoLostWakeup, MustWait, LogFits, NoPanic
<1>11. QED BY Zenon, <1>2, <1>3, <1>5, <1>6, <1>7, <1>8, <1>9, <1>10

\* Before the header is erased every block of the transaction is in its place.
LEMMA AllInstalled ==
  ASSUME LogInv, stage = "install", tail = Len(lh)
  PROVE  /\ Active = {} /\ home = cache
         /\ \A i \in 1..Len(hdr) : home[hdr[i]] = logd[i]
<1>1. Active = {}
  BY Zenon DEF LogInv, StageInv, Active
<1>2. /\ lh \in Seq(Block) /\ hdr = lh /\ home \in [Block -> Val] /\ cache \in [Block -> Val]
      /\ \A i \in 1..Len(lh) : home[lh[i]] = logd[i]
  BY Zenon DEF LogInv, LogSafe, TypeOK, DiskInv
<1>3. CASE ~up
  BY Zenon, <1>1, <1>2, <1>3 DEF LogInv, StageInv
<1>4. CASE up
  <2>1. \A i \in 1..Len(lh) : home[lh[i]] = cache[lh[i]]
    BY <1>2, <1>4 DEF LogInv, DiskInv
  <2>2. \A b \in Block : home[b] = cache[b]
    BY <1>1, <1>2, <2>1, QuietCache DEF Range
  <2>3. QED BY <1>1, <1>2, <2>2
<1>5. QED BY Zenon, <1>3, <1>4

\* Erasing the header ends commit or recovery.
LEMMA EraseInv ==
  ASSUME LogInv, Erase
  PROVE  LogInv'
<1> USE LogAssumption DEF LogInv, LogSafe
<1>0. /\ stage = "install" /\ tail = Len(lh)
      /\ lh' = <<>> /\ hdr' = <<>> /\ up' = TRUE /\ tail' = 0
      /\ stage' = IF up THEN "finish" ELSE "none"
      /\ UNCHANGED <<home, logd, cache, outstanding, committing, pc, blk, left>>
  BY Zenon DEF Erase, Installed, call
<1>1. Active = {} /\ home = cache
  BY Zenon, <1>0, AllInstalled
<1>2. Active' = Active /\ Reserved' = Reserved
  BY Zenon, <1>0 DEF Active, Reserved, Due
<1>3. /\ committing <=> up
      /\ ~up => \A p \in Caller : pc[p] = "idle"
  BY Zenon, <1>0 DEF StageInv
<1>4. TypeOK'
  BY <1>0 DEF TypeOK
<1>5. AdmitInv'
  <2>1. Cardinality(Reserved) \in Nat /\ Len(lh) \in Nat
    BY Finite DEF Reserved, TypeOK
  <2>2. Cardinality(Reserved) <= Room /\ 0 <= Room
    BY <2>1, RoomType DEF AdmitInv
  <2>3. QED BY <1>0, <1>2, <2>1, <2>2 DEF AdmitInv
<1>6. StageInv'
  BY Zenon, <1>0, <1>1, <1>2, <1>3 DEF StageInv
<1>7. DiskInv'
  BY <1>0 DEF DiskInv, Injective
<1>8. CleanCache' /\ DurableReturn' /\ NoLostWakeup' /\ LogFits' /\ NoPanic'
  BY <1>0, <1>1, <1>3 DEF CleanCache, DurableReturn, NoLostWakeup, MustWait, LogFits, NoPanic
<1>9. QED BY Zenon, <1>4, <1>5, <1>6, <1>7, <1>8

\* end_op after commit wakes everybody who waits for it.
LEMMA FinishInv ==
  ASSUME LogInv, Finish
  PROVE  LogInv'
<1> USE LogAssumption DEF LogInv, LogSafe
<1>0. /\ stage = "finish" /\ committing' = FALSE /\ stage' = "none"
      /\ pc \in [Caller -> {"idle", "asleep", "woken", "op", "write", "panic", "commit"}]
      /\ UNCHANGED <<home, hdr, logd, cache, lh, outstanding, blk, left, tail, up>>
  BY Zenon DEF Finish, TypeOK, disk
<1>1. pc' = Wakeup([p \in Caller |-> IF pc[p] = "commit" THEN "idle" ELSE pc[p]])
  BY Zenon DEF Finish
<1>2. \A p \in Caller : /\ pc'[p] \in {"idle", "woken", "op", "write", "panic"}
                        /\ pc'[p] \in {"op", "write", "panic"} => pc'[p] = pc[p]
                        /\ pc[p] \in {"op", "write", "panic"} => pc'[p] = pc[p]
  BY Zenon, <1>0, <1>1 DEF Wakeup
<1>3. pc' \in [Caller -> {"idle", "asleep", "woken", "op", "write", "panic", "commit"}]
  BY Zenon, <1>1, <1>2 DEF Wakeup
<1>4. Active' = Active /\ Reserved' = Reserved
  <2>1. \A p \in Caller : Due(p)' = Due(p)
    BY Zenon, <1>0, <1>2 DEF Due
  <2>2. QED BY Zenon, <1>2, <2>1 DEF Active, Reserved
<1>5. up /\ committing /\ lh = <<>> /\ hdr = <<>> /\ Active = {}
  BY Zenon, <1>0 DEF StageInv, DiskInv
<1>6. TypeOK'
  BY Zenon, <1>0, <1>3 DEF TypeOK
<1>7. AdmitInv'
  BY Zenon, <1>0, <1>2, <1>4 DEF AdmitInv
<1>8. StageInv'
  BY Zenon, <1>0, <1>2, <1>4, <1>5 DEF StageInv
<1>9. DiskInv' /\ CleanCache' /\ DurableReturn'
  BY Zenon, <1>0, <1>5 DEF DiskInv, CleanCache, DurableReturn
<1>10. NoLostWakeup' /\ LogFits' /\ NoPanic'
  BY Zenon, <1>0, <1>2 DEF NoLostWakeup, LogFits, NoPanic
<1>11. QED BY Zenon, <1>6, <1>7, <1>8, <1>9, <1>10

\* A crash, at any point of a call, of commit or of recovery.
LEMMA CrashInv ==
  ASSUME LogInv, Crash
  PROVE  LogInv'
<1> USE LogAssumption DEF LogInv, LogSafe
<1>0. /\ cache' = home /\ lh' = <<>> /\ outstanding' = 0 /\ committing' = FALSE
      /\ pc' = [p \in Caller |-> "idle"] /\ blk' = [p \in Caller |-> NoBlock]
      /\ left' = [p \in Caller |-> 0] /\ stage' = "read" /\ tail' = 0 /\ up' = FALSE
      /\ UNCHANGED <<home, hdr, logd>>
  BY Zenon DEF Crash, disk
<1>1. Active' = {} /\ Cardinality(Active') = 0
  BY Zenon, <1>0, FS_EmptySet DEF Active
<1>2. Cardinality(Reserved') = 0
  <2>1. Reserved' = {}
    BY <1>0 DEF Reserved, Due
  <2>2. QED BY Zenon, <2>1, FS_EmptySet
<1>3. TypeOK'
  <2>1. /\ pc' \in [Caller -> {"idle", "asleep", "woken", "op", "write", "panic", "commit"}]
        /\ blk' \in [Caller -> Block \cup {NoBlock}]
        /\ left' \in [Caller -> 0..OpWrites]
    BY <1>0
  <2>2. lh' \in Seq(Block) /\ Len(lh') <= LOGSIZE /\ tail' \in 0..LOGSIZE
    BY <1>0
  <2>3. QED BY Zenon, <1>0, <2>1, <2>2 DEF TypeOK
<1>4. AdmitInv'
  BY <1>0, <1>1, <1>2, RoomType DEF AdmitInv
<1>5. StageInv' /\ DiskInv'
  BY <1>0, <1>1 DEF StageInv, DiskInv, Injective
<1>6. CleanCache' /\ DurableReturn' /\ NoLostWakeup' /\ LogFits' /\ NoPanic'
  BY <1>0 DEF CleanCache, DurableReturn, NoLostWakeup, LogFits, NoPanic
<1>7. QED BY Zenon, <1>3, <1>4, <1>5, <1>6

\* Recovery reads the header it will install.
LEMMA ReadHeadInv ==
  ASSUME LogInv, read_head
  PROVE  LogInv'
<1> USE LogAssumption DEF LogInv, LogSafe
<1>0. /\ stage = "read" /\ lh' = hdr /\ stage' = "install"
      /\ hdr \in Seq(Block) /\ Len(hdr) \in Nat
      /\ UNCHANGED <<home, hdr, logd, cache, outstanding, committing, pc, blk, left, tail, up>>
  BY DEF read_head, TypeOK, disk, call
<1>1. /\ ~up /\ ~committing /\ cache = home /\ tail = 0
      /\ \A p \in Caller : pc[p] = "idle" /\ left[p] = 0
  BY Zenon, <1>0 DEF StageInv, AdmitInv, Active
<1>2. Active' = Active /\ Reserved' = Reserved /\ Cardinality(Reserved) = 0
  BY Zenon, <1>0, <1>1, NothingReserved DEF Active, Reserved, Due
<1>3. TypeOK'
  BY Zenon, <1>0 DEF TypeOK
<1>4. AdmitInv'
  BY <1>0, <1>2, RoomType DEF AdmitInv
<1>5. StageInv' /\ DiskInv'
  BY <1>0, <1>1, <1>2 DEF StageInv, DiskInv
<1>6. CleanCache' /\ DurableReturn' /\ NoLostWakeup' /\ LogFits' /\ NoPanic'
  BY <1>0, <1>1, <1>4, RoomType
    DEF CleanCache, DurableReturn, NoLostWakeup, LogFits, NoPanic, AdmitInv
<1>7. QED BY Zenon, <1>3, <1>4, <1>5, <1>6

\* A log that initlog has found empty.
LEMMA InitInv == Init => LogInv
<1> SUFFICES ASSUME Init PROVE LogInv
  OBVIOUS
<1> USE LogAssumption DEF Init
<1>1. Active = {} /\ Cardinality(Active) = 0
  BY Zenon, FS_EmptySet DEF Active
<1>2. Cardinality(Reserved) = 0
  BY Zenon, NothingReserved
<1>3. TypeOK
  <2>1. home \in [Block -> Val] /\ cache \in [Block -> Val] /\ logd \in [1..LOGSIZE -> Val]
    OBVIOUS
  <2>2. lh \in Seq(Block) /\ Len(lh) <= LOGSIZE /\ hdr \in Seq(Block) /\ Len(hdr) <= LOGSIZE
    OBVIOUS
  <2>3. left \in [Caller -> 0..OpWrites] /\ tail \in 0..LOGSIZE
    OBVIOUS
  <2>4. QED BY Zenon, <2>1, <2>2, <2>3 DEF TypeOK
<1>4. AdmitInv
  BY <1>1, <1>2, RoomType DEF AdmitInv
<1>5. StageInv /\ DiskInv
  BY <1>1 DEF StageInv, DiskInv, Injective
<1>6. CleanCache /\ DurableReturn /\ NoLostWakeup /\ LogFits /\ NoPanic
  BY DEF CleanCache, DurableReturn, NoLostWakeup, LogFits, NoPanic
<1>7. QED BY Zenon, <1>3, <1>5, <1>6, <1>4 DEF LogInv, LogSafe

\* Every step of begin_op, log_write, end_op, commit and recovery, and a crash between any
\* two of them, keeps the invariant.
THEOREM LogInvHolds == ASSUME LogRoom PROVE Spec => []LogInv
<1>1. LogInv /\ [Next]_vars => LogInv'
  <2> SUFFICES ASSUME LogInv, [Next]_vars PROVE LogInv'
    BY Zenon
  <2>1. CASE UNCHANGED vars
    BY <2>1 DEF vars, disk, call, LogInv, LogSafe, TypeOK, CleanCache, DurableReturn,
      NoLostWakeup, MustWait, LogFits, NoPanic, AdmitInv, Active, Reserved, Due, StageInv, DiskInv
  <2>2. CASE Step
    BY Zenon, <2>2, WriteLogInv, WriteHeadInv, InstallInv, EraseInv, FinishInv, ReadHeadInv DEF Step
  <2>3. CASE \E p \in Caller : begin_op(p) \/ Op(p)
    BY Zenon, <2>3, BeginInv, LogTestInv, LogWriteInv, EndInv DEF Op
  <2>4. QED BY Zenon, <2>1, <2>2, <2>3, CrashInv DEF Next
<1>2. QED BY InitInv, <1>1, PTL DEF Spec

\* The log keeps its promises: the buffer cache lets go of clean blocks only, end_op of the
\* last call returns with everything on the disk, begin_op sleeps for a reason, and
\* log_write finds room.
THEOREM LogCorrect == ASSUME LogRoom PROVE Spec => []LogSafe
<1>1. LogInv => LogSafe
  BY Zenon DEF LogInv
<1>2. QED BY <1>1, LogInvHolds, PTL

-----------------------------------------------------------------------------
(* The log implements LogAtomic *)

\* What recovery would restore: the blocks of the log for what the header lists, the disk
\* for the rest.
DurableShape ==
  /\ Durable = [b \in Block |-> Durable[b]]
  /\ \A b \in Block : b \notin Range(hdr) => Durable[b] = home[b]
  /\ \A i \in 1..Len(hdr) : Durable[hdr[i]] = logd[i]
  /\ Range(hdr) = {hdr[i] : i \in 1..Len(hdr)} /\ Range(hdr) \subseteq Block

\* The header lists no block twice and no block that does not fit.
LEMMA DurableIs == LogInv => DurableShape
<1> SUFFICES ASSUME LogInv PROVE DurableShape
  OBVIOUS
<1>1. hdr \in Seq(Block) /\ Len(hdr) \in Nat /\ Injective(hdr) /\ Len(hdr) <= size - 1
  BY RoomType, LogAssumption DEF LogInv, LogSafe, TypeOK, AdmitInv, DiskInv
<1>2. Range(hdr) = {hdr[i] : i \in 1..Len(hdr)} /\ Range(hdr) \subseteq Block
  BY <1>1 DEF Range
<1>3. Durable = [b \in Block |-> Durable[b]]
  BY DEF Durable
<1>4. \A b \in Block : b \notin Range(hdr) => Durable[b] = home[b]
  BY Zenon DEF Durable
<1>5. ASSUME NEW i \in 1..Len(hdr) PROVE Durable[hdr[i]] = logd[i]
  <2>1. hdr[i] \in Block /\ hdr[i] \in Range(hdr)
    BY Zenon, <1>1, <1>2
  <2>2. (CHOOSE j \in 1..Len(hdr) : hdr[j] = hdr[i]) = i
    BY Zenon, <1>1 DEF Injective
  <2>3. Durable[hdr[i]] = LogBlock(i)
    BY Zenon, <2>1, <2>2 DEF Durable
  <2>4. QED BY <1>1, <2>3, LogAssumption DEF LogBlock
<1>6. QED BY Zenon, <1>2, <1>3, <1>4, <1>5 DEF DurableShape

\* The same of the next state.
LEMMA DurableNext == LogInv' => DurableShape'
  BY DurableIs, PTL

\* What is durable depends on the disk alone.
LEMMA SameDurable ==
  ASSUME LogInv, LogInv', UNCHANGED disk
  PROVE  Durable' = Durable
<1>1. DurableShape /\ DurableShape'
  BY Zenon, DurableIs, DurableNext
<1>2. UNCHANGED <<hdr, logd, home>>
  BY Zenon DEF disk
<1>3. ASSUME NEW b \in Block PROVE Durable'[b] = Durable[b]
  <2>1. CASE b \in Range(hdr)
    BY <1>1, <1>2, <2>1 DEF DurableShape
  <2>2. CASE b \notin Range(hdr)
    BY Zenon, <1>1, <1>2, <2>2 DEF DurableShape
  <2>3. QED BY Zenon, <2>1, <2>2
<1>4. QED BY Zenon, <1>1, <1>3 DEF DurableShape

\* With no block listed, the disk is what is durable.
LEMMA DurableHome ==
  ASSUME LogInv, hdr = <<>>
  PROVE  Durable = home
<1>1. DurableShape /\ home \in [Block -> Val] /\ Range(hdr) = {}
  BY DurableIs DEF LogInv, LogSafe, TypeOK, Range
<1>2. QED BY <1>1 DEF DurableShape

\* A step that changes neither the disk, nor the cache, nor who is inside a call.
LEMMA Stutter ==
  ASSUME LogInv, LogInv', UNCHANGED <<disk, cache, up, Active>>
  PROVE  UNCHANGED Atomic!vars
  BY Zenon, SameDurable DEF Atomic!vars

\* begin_op, log_write and end_op are the steps that LogAtomic names.
LEMMA CallerSteps ==
  ASSUME LogInv, LogInv', NEW p \in Caller, begin_op(p) \/ Op(p)
  PROVE  [Atomic!Next]_Atomic!vars
<1>0. /\ pc \in [Caller -> {"idle", "asleep", "woken", "op", "write", "panic", "commit"}]
      /\ UNCHANGED <<disk, up>>
  BY Zenon DEF LogInv, LogSafe, TypeOK, begin_op, Op, LogTest, log_write, end_op
<1>1. Durable' = Durable
  BY Zenon, <1>0, SameDurable
<1>2. CASE begin_op(p)
  <2>1. UNCHANGED cache /\ p \notin Active /\ (Active' = Active \/ Active' = Active \cup {p})
    BY Zenon, <1>0, <1>2 DEF begin_op, Active
  <2>2. QED BY Zenon, <1>0, <1>1, <2>1 DEF Atomic!Next, Atomic!Begin, Atomic!vars
<1>3. CASE LogTest(p)
  <2>1. up /\ p \in Active /\ Active' = Active
    BY Zenon, <1>0, <1>3 DEF LogTest, Active, LogInv, StageInv
  <2>2. \E b \in Block, v \in Val : cache' = [cache EXCEPT ![b] = v]
    BY Zenon, <1>3 DEF LogTest
  <2>3. Atomic!Write(p)
    BY Zenon, <1>0, <1>1, <2>1, <2>2 DEF Atomic!Write
  <2>4. QED BY Zenon, <2>3 DEF Atomic!Next
<1>4. CASE log_write(p)
  <2>1. UNCHANGED <<cache, Active>>
    BY Zenon, <1>0, <1>4 DEF log_write, Active
  <2>2. QED BY Zenon, <1>0, <2>1, Stutter
<1>5. CASE end_op(p)
  <2>1. UNCHANGED cache /\ p \in Active /\ Active' = Active \ {p}
    BY Zenon, <1>0, <1>5 DEF end_op, Active, Wakeup
  <2>2. Atomic!End(p)
    BY Zenon, <1>0, <1>1, <2>1 DEF Atomic!End
  <2>3. QED BY Zenon, <2>2 DEF Atomic!Next
<1>6. QED BY Zenon, <1>2, <1>3, <1>4, <1>5 DEF Op

\* While the blocks are copied into the log nothing is durable yet.
LEMMA WriteLogStep ==
  ASSUME LogInv, LogInv', write_log
  PROVE  UNCHANGED Atomic!vars
<1>1. UNCHANGED <<home, cache, hdr, up, Active>> /\ hdr = <<>> /\ up
  BY Zenon, WriteLogInv DEF write_log, call, Active, LogInv, DiskInv, StageInv
<1>2. Durable = home /\ Durable' = home'
  <2>1. DurableShape' /\ home' \in [Block -> Val] /\ Range(hdr') = {}
    BY <1>1, DurableNext DEF LogInv, LogSafe, TypeOK, Range
  <2>2. QED BY <1>1, <2>1, DurableHome DEF DurableShape
<1>3. QED BY Zenon, <1>1, <1>2 DEF Atomic!vars

\* write_head is the commit: from here on recovery restores what the cache holds.
LEMMA WriteHeadStep ==
  ASSUME LogInv, LogInv', write_head
  PROVE  Atomic!Commit
<1>1. /\ up /\ stage = "head" /\ Active = {} /\ hdr' = lh
      /\ UNCHANGED <<home, logd, cache, lh, up, Active>>
  BY Zenon DEF write_head, LogInv, StageInv, call, Active
<1>2. /\ DurableShape' /\ lh \in Seq(Block) /\ cache \in [Block -> Val]
      /\ \A i \in 1..Len(lh) : logd[i] = cache[lh[i]]
  BY Zenon, <1>1, DurableNext DEF LogInv, LogSafe, TypeOK, DiskInv
<1>3. ASSUME NEW b \in Block PROVE Durable'[b] = cache[b]
  <2>1. CASE b \in Range(lh)
    BY <1>1, <1>2, <2>1 DEF DurableShape
  <2>2. CASE b \notin Range(lh)
    BY Zenon, <1>1, <1>2, <2>2, QuietCache DEF DurableShape
  <2>3. QED BY Zenon, <2>1, <2>2
<1>4. Durable' = cache
  BY Zenon, <1>2, <1>3 DEF DurableShape
<1>5. QED BY Zenon, <1>1, <1>4 DEF Atomic!Commit

\* A block that is installed is one the header lists: recovery restores it all the same.
LEMMA InstallStep ==
  ASSUME LogInv, LogInv', install_trans
  PROVE  UNCHANGED Atomic!vars
<1>1. /\ UNCHANGED <<hdr, logd, up, Active>> /\ (up => cache' = cache)
      /\ home' = [home EXCEPT ![lh[tail + 1]] = logd[tail + 1]]
      /\ stage = "install" /\ tail < Len(lh)
  BY ZenonT(30), InstallInv DEF install_trans, call, Active
<1>2. /\ DurableShape /\ DurableShape' /\ home \in [Block -> Val] /\ hdr = lh
      /\ lh \in Seq(Block) /\ tail \in Nat
  BY <1>1, DurableIs, DurableNext, LogAssumption DEF LogInv, LogSafe, TypeOK, DiskInv
<1>3. lh[tail + 1] \in Range(hdr)
  BY <1>1, <1>2 DEF DurableShape
<1>4. ASSUME NEW b \in Block PROVE Durable'[b] = Durable[b]
  <2>1. CASE b \in Range(hdr)
    BY <1>1, <1>2, <2>1 DEF DurableShape
  <2>2. CASE b \notin Range(hdr)
    BY Zenon, <1>1, <1>2, <1>3, <2>2 DEF DurableShape
  <2>3. QED BY Zenon, <2>1, <2>2
<1>5. Durable' = Durable
  BY Zenon, <1>2, <1>4 DEF DurableShape
<1>6. QED BY Zenon, <1>1, <1>5 DEF Atomic!vars

\* When the header is erased the disk has what recovery would have restored.
LEMMA EraseStep ==
  ASSUME LogInv, LogInv', Erase
  PROVE  UNCHANGED Atomic!vars
<1>1. /\ stage = "install" /\ tail = Len(lh) /\ hdr' = <<>> /\ up'
      /\ UNCHANGED <<home, logd, cache, Active>>
  BY Zenon DEF Erase, Installed, call, Active
<1>2. home = cache /\ \A i \in 1..Len(hdr) : home[hdr[i]] = logd[i]
  BY Zenon, <1>1, AllInstalled
<1>3. /\ DurableShape /\ DurableShape' /\ home \in [Block -> Val] /\ hdr \in Seq(Block)
      /\ Range(hdr') = {}
  BY <1>1, DurableIs, DurableNext DEF LogInv, LogSafe, TypeOK, Range
<1>4. ASSUME NEW b \in Block PROVE Durable[b] = home[b]
  <2>1. CASE b \in Range(hdr)
    BY <1>2, <1>3, <2>1 DEF DurableShape
  <2>2. CASE b \notin Range(hdr)
    BY Zenon, <1>3, <2>2 DEF DurableShape
  <2>3. QED BY Zenon, <2>1, <2>2
<1>5. Durable = home /\ Durable' = home'
  BY <1>1, <1>3, <1>4 DEF DurableShape
<1>6. QED BY Zenon, <1>1, <1>2, <1>5 DEF Atomic!vars

\* Whenever the machine stops, it comes back with what was durable.
LEMMA CrashStep ==
  ASSUME LogInv, LogInv', Crash
  PROVE  Atomic!Crash
<1>1. UNCHANGED disk /\ ~up' /\ Active' = {}
  BY Zenon DEF Crash, Active
<1>2. QED BY Zenon, <1>1, SameDurable DEF Atomic!Crash

\* The calls between begin_op and end_op are atomic with respect to crashes: recovery finds
\* all of what the calls of a commit wrote or nothing of it.
THEOREM LogRefines == ASSUME LogRoom PROVE Spec => AtomicSpec
<1>1. Init => Atomic!Init
  <2> SUFFICES ASSUME Init PROVE Atomic!Init
    OBVIOUS
  <2>1. LogInv
    BY Zenon, InitInv
  <2>2. Durable = home
    BY Zenon, <2>1, DurableHome DEF Init
  <2>3. Active = {}
    BY Zenon DEF Init, Active
  <2>4. QED BY Zenon, <2>2, <2>3 DEF Init, Atomic!Init
<1>2. LogInv /\ LogInv' /\ [Next]_vars => [Atomic!Next]_Atomic!vars
  <2> SUFFICES ASSUME LogInv, LogInv', [Next]_vars PROVE [Atomic!Next]_Atomic!vars
    OBVIOUS
  <2>1. CASE UNCHANGED vars
    <3>1. UNCHANGED <<disk, cache, up, Active>>
      BY Zenon, <2>1 DEF vars, call, Active
    <3>2. QED BY Zenon, <3>1, Stutter
  <2>2. CASE Finish \/ read_head
    <3>1. UNCHANGED <<disk, cache, up, Active>>
      BY Zenon, <2>2 DEF Finish, read_head, Wakeup, Active, call, LogInv, LogSafe, TypeOK
    <3>2. QED BY Zenon, <3>1, Stutter
  <2>3. CASE Step
    BY Zenon, <2>2, <2>3, WriteLogStep, WriteHeadStep, InstallStep, EraseStep DEF Step, Atomic!Next
  <2>4. CASE \E p \in Caller : begin_op(p) \/ Op(p)
    BY Zenon, <2>4, CallerSteps
  <2>5. CASE Crash
    BY Zenon, <2>5, CrashStep DEF Atomic!Next
  <2>6. QED BY Zenon, <2>1, <2>3, <2>4, <2>5 DEF Next
<1>3. QED BY <1>1, <1>2, LogInvHolds, PTL DEF Spec, AtomicSpec, Atomic!Spec
=============================================================================
