----------------------------- MODULE BioProofs ------------------------------
(***************************************************************************)
(* The buffer cache is exact for every number of callers, blocks and       *)
(* buffers: bget, bread, bwrite and brelse keep one buffer per block,      *)
(* reference counts that are the number of users, and a list of all of the *)
(* buffers, whatever the disk interrupt interleaves.                       *)
(***************************************************************************)
EXTENDS Bio, FiniteSetTheorems, TLAPS

\* A caller has a buffer from bget to brelse, for a block it asked for; bread has filled
\* the one it works on.
Hold(p) ==
  /\ pc[p] \in {"idle", "panic"} <=> buf[p] = NoBuf
  /\ buf[p] # NoBuf => want[p] \in Block
  /\ pc[p] \in {"held", "modified"} => valid[buf[p]]
  /\ pc[p] = "io" => (dirty[buf[p]] <=> valid[buf[p]])
HoldInv == \A p \in Caller : Hold(p)

\* Somebody uses a buffer that is locked.
LockInv == \A b \in Buf : locked[b] => \E p \in Caller : Using(p) /\ buf[p] = b

\* Whoever sleeps for a buffer has somebody to wake it.
WakeInv ==
  \A p \in Caller : pc[p] = "asleep" => \E q \in Caller : Using(q) /\ buf[q] = buf[p]

\* What differs from the disk is dirty, or about to be.
FlagInv ==
  \A b \in Buf :
    /\ dirty[b] => valid[b]
    /\ valid[b] => blockno[b] \in Block
    /\ valid[b] /\ ~dirty[b] /\ (\A p \in Caller : pc[p] = "modified" => buf[p] # b)
         => disk[blockno[b]] = content[blockno[b]]

\* idequeue has the buffers whose callers wait in iderw, each once.
QueueInv ==
  /\ \A i \in 1..Len(idequeue) : \E p \in Caller : pc[p] = "io" /\ buf[p] = idequeue[i]
  /\ \A p \in Caller : pc[p] = "io" => \E i \in 1..Len(idequeue) : idequeue[i] = buf[p]
  /\ \A i, j \in 1..Len(idequeue) : idequeue[i] = idequeue[j] => i = j

\* Every buffer is on the list that bget scans.
LruInv == \A b \in Buf : \E i \in 1..NBUF : lru[i] = b

BioInv ==
  /\ TypeOK /\ OneBuffer /\ Coherent /\ Exclusive /\ NotRecycled /\ NoLeak
  /\ HoldInv /\ LockInv /\ WakeInv /\ FlagInv /\ QueueInv /\ LruInv

Pcs == {"idle", "lock", "asleep", "locked", "io", "held", "modified", "brelse", "panic"}

\* The types, with the buffer of a caller that has one.
LEMMA BioTypes ==
  ASSUME BioInv
  PROVE  /\ blockno \in [Buf -> Block \cup {NoBlock}] /\ data \in [Buf -> Val]
         /\ valid \in [Buf -> BOOLEAN] /\ dirty \in [Buf -> BOOLEAN] /\ locked \in [Buf -> BOOLEAN]
         /\ refcnt \in [Buf -> Nat] /\ lru \in [1..NBUF -> Buf] /\ idequeue \in Seq(Buf)
         /\ disk \in [Block -> Val] /\ content \in [Block -> Val]
         /\ pc \in [Caller -> Pcs] /\ buf \in [Caller -> Buf \cup {NoBuf}]
         /\ want \in [Caller -> Block \cup {NoBlock}]
         /\ NBUF \in Nat /\ NoBuf \notin Buf /\ NoBlock \notin Block
         /\ \A p \in Caller : pc[p] \notin {"idle", "panic"} =>
              /\ buf[p] \in Buf /\ blockno[buf[p]] \in Block /\ blockno[buf[p]] = want[p]
<1>1. NBUF \in Nat /\ NoBuf \notin Buf /\ NoBlock \notin Block
  BY BioAssumption DEF NoBuf, Buf
<1>2. ASSUME NEW p \in Caller, pc[p] \notin {"idle", "panic"}
      PROVE  buf[p] \in Buf /\ blockno[buf[p]] \in Block /\ blockno[buf[p]] = want[p]
  BY <1>2 DEF BioInv, TypeOK, HoldInv, Hold, NotRecycled
<1>3. QED BY <1>1, <1>2 DEF BioInv, TypeOK, Pcs

\* Steps that leave a part of the invariant alone: who holds which buffer, ...
LEMMA ListSame ==
  ASSUME BioInv, UNCHANGED <<blockno, refcnt, lru, buf, want>>
  PROVE  (OneBuffer /\ NotRecycled /\ NoLeak /\ LruInv)'
<1>1. OneBuffer'
  BY DEF BioInv, OneBuffer
<1>2. NotRecycled'
  BY DEF BioInv, NotRecycled
<1>3. NoLeak'
  BY DEF BioInv, NoLeak
<1>4. LruInv'
  BY DEF BioInv, LruInv
<1>5. QED BY <1>1, <1>2, <1>3, <1>4

\* ... what is in the buffers, ...
LEMMA DataSame ==
  ASSUME BioInv, UNCHANGED <<blockno, valid, data, disk, content>>
  PROVE  Coherent'
  BY DEF BioInv, Coherent

\* ... who uses a buffer and who sleeps for one, ...
LEMMA UseSame ==
  ASSUME BioInv, locked' = locked,
         \A q \in Caller : (Using(q)' <=> Using(q)) /\ (Using(q) => buf'[q] = buf[q]),
         \A q \in Caller : pc'[q] = "asleep" => pc[q] = "asleep" /\ buf'[q] = buf[q]
  PROVE  (Exclusive /\ LockInv /\ WakeInv)'
<1>1. Exclusive'
  BY DEF BioInv, Exclusive
<1>2. LockInv'
  BY DEF BioInv, LockInv
<1>3. WakeInv'
  BY DEF BioInv, WakeInv
<1>4. QED BY <1>1, <1>2, <1>3

\* ... the other callers, ...
LEMMA HoldSame ==
  ASSUME BioInv, NEW p \in Caller, Hold(p)',
         \A q \in Caller : q # p =>
           /\ pc'[q] = pc[q] \/ (pc[q] = "asleep" /\ pc'[q] = "lock")
           /\ buf'[q] = buf[q] /\ want'[q] = want[q]
           /\ pc[q] \in {"held", "modified"} => valid'[buf[q]]
           /\ pc[q] = "io" => (dirty'[buf[q]] <=> valid'[buf[q]])
  PROVE  HoldInv'
<1> SUFFICES ASSUME NEW q \in Caller, q # p PROVE Hold(q)'
  BY DEF HoldInv
<1>1. Hold(q)
  BY DEF BioInv, HoldInv
<1>2. QED BY <1>1 DEF Hold

\* ... the flags, ...
LEMMA FlagSame ==
  ASSUME BioInv, UNCHANGED <<blockno, valid, dirty, disk, content>>,
         \A q \in Caller : pc[q] = "modified" => pc'[q] = "modified" /\ buf'[q] = buf[q]
  PROVE  FlagInv'
<1> SUFFICES ASSUME NEW b \in Buf, valid[b], ~dirty[b], \A q \in Caller : pc'[q] = "modified" => buf'[q] # b
             PROVE  disk[blockno[b]] = content[blockno[b]]
  BY DEF BioInv, FlagInv
<1>1. \A q \in Caller : pc[q] = "modified" => buf[q] # b
  OBVIOUS
<1>2. QED BY <1>1 DEF BioInv, FlagInv

\* ... idequeue and the callers in iderw.
LEMMA QueueSame ==
  ASSUME BioInv, idequeue' = idequeue,
         \A q \in Caller : (pc'[q] = "io" <=> pc[q] = "io") /\ (pc[q] = "io" => buf'[q] = buf[q])
  PROVE  QueueInv'
<1>1. \A i \in 1..Len(idequeue) : \E q \in Caller : pc'[q] = "io" /\ buf'[q] = idequeue[i]
  BY DEF BioInv, QueueInv
<1>2. \A q \in Caller : pc'[q] = "io" => \E i \in 1..Len(idequeue) : idequeue[i] = buf'[q]
  BY DEF BioInv, QueueInv
<1>3. \A i, j \in 1..Len(idequeue) : idequeue[i] = idequeue[j] => i = j
  BY DEF BioInv, QueueInv
<1>4. QED BY <1>1, <1>2, <1>3 DEF QueueInv

\* acquiresleep: the lock is free, or somebody holds it who will wake the caller.
LEMMA AcquireInv ==
  ASSUME BioInv, NEW p \in Caller, acquiresleep(p)
  PROVE  BioInv'
<1>0. /\ pc \in [Caller -> Pcs] /\ locked \in [Buf -> BOOLEAN] /\ pc[p] = "lock" /\ buf[p] \in Buf
      /\ pc' = [pc EXCEPT ![p] = IF locked[buf[p]] THEN "asleep" ELSE "locked"]
      /\ locked' = [locked EXCEPT ![buf[p]] = TRUE]
      /\ UNCHANGED <<blockno, valid, dirty, refcnt, data, lru, idequeue, disk, buf, want, content>>
  BY BioTypes, Zenon DEF acquiresleep
<1>1. /\ pc' \in [Caller -> Pcs] /\ pc'[p] \in {"asleep", "locked"}
      /\ \A q \in Caller : q # p => pc'[q] = pc[q]
  BY <1>0 DEF Pcs
<1>2. TypeOK'
  BY <1>0, <1>1 DEF BioInv, TypeOK, Pcs
<1>3. (OneBuffer /\ NotRecycled /\ NoLeak /\ LruInv)' /\ Coherent'
  BY <1>0, ListSame, DataSame
<1>4. \A q \in Caller : Using(q)' <=> Using(q) \/ (q = p /\ ~locked[buf[p]])
  BY <1>0 DEF Using
<1>5. Exclusive'
  BY <1>0, <1>4 DEF BioInv, Exclusive
<1>6. HoldInv'
  <2>1. Hold(p)'
    BY <1>0, <1>1 DEF BioInv, HoldInv, Hold
  <2>2. QED BY <1>0, <1>1, <2>1, HoldSame DEF BioInv, HoldInv, Hold
<1>7. LockInv'
  BY <1>0, <1>4 DEF BioInv, LockInv
<1>8. WakeInv'
  <2> SUFFICES ASSUME NEW q \in Caller, pc'[q] = "asleep"
               PROVE  \E r \in Caller : Using(r)' /\ buf[r] = buf[q]
    BY <1>0, Zenon DEF WakeInv
  <2>1. CASE q = p
    BY <1>0, <1>4, <2>1 DEF BioInv, LockInv
  <2>2. CASE q # p
    BY <1>1, <1>4, <2>2 DEF BioInv, WakeInv
  <2>3. QED BY <2>1, <2>2
<1>9. FlagInv'
  BY <1>0, <1>1, FlagSame
<1>10. QueueInv'
  BY <1>0, <1>1, QueueSame
<1>11. QED BY <1>2, <1>3, <1>5, <1>6, <1>7, <1>8, <1>9, <1>10 DEF BioInv

\* iderw puts the request of a caller that uses its buffer at the end of the queue.
LEMMA EnqueueInv ==
  ASSUME BioInv, NEW p \in Caller, Using(p), pc[p] # "io",
         pc' = [pc EXCEPT ![p] = "io"], idequeue' = Append(idequeue, buf[p]), buf' = buf
  PROVE  QueueInv'
<1>0. /\ buf[p] \in Buf /\ idequeue \in Seq(Buf) /\ pc \in [Caller -> Pcs] /\ pc'[p] = "io"
      /\ \A q \in Caller : q # p => pc'[q] = pc[q]
  BY BioTypes, Zenon DEF Using
<1>1. /\ Len(idequeue') = Len(idequeue) + 1 /\ idequeue'[Len(idequeue) + 1] = buf[p]
      /\ \A i \in 1..Len(idequeue) : idequeue'[i] = idequeue[i]
      /\ Len(idequeue) \in Nat
  BY <1>0
<1>2. \A i \in 1..Len(idequeue) : idequeue[i] # buf[p]
  BY <1>0 DEF BioInv, QueueInv, Exclusive, Using
<1>3. ASSUME NEW i \in 1..Len(idequeue')
      PROVE  \E q \in Caller : pc'[q] = "io" /\ buf'[q] = idequeue'[i]
  <2>1. CASE i \in 1..Len(idequeue)
    BY <1>0, <1>1, <2>1 DEF BioInv, QueueInv
  <2>2. CASE i = Len(idequeue) + 1
    BY <1>0, <1>1, <2>2
  <2>3. QED BY <1>1, <2>1, <2>2
<1>4. ASSUME NEW q \in Caller, pc'[q] = "io"
      PROVE  \E i \in 1..Len(idequeue') : idequeue'[i] = buf'[q]
  <2>1. CASE q = p
    BY <1>0, <1>1, <2>1
  <2>2. CASE q # p
    <3>1. PICK i \in 1..Len(idequeue) : idequeue[i] = buf[q]
      BY <1>0, <1>4, <2>2 DEF BioInv, QueueInv
    <3>2. i \in 1..Len(idequeue')
      BY <1>1
    <3>3. QED BY <1>1, <3>1, <3>2
  <2>3. QED BY <2>1, <2>2, Zenon
<1>5. ASSUME NEW i \in 1..Len(idequeue'), NEW j \in 1..Len(idequeue'), idequeue'[i] = idequeue'[j]
      PROVE  i = j
  BY <1>1, <1>2, <1>5 DEF BioInv, QueueInv
<1>6. QED BY <1>3, <1>4, <1>5, Zenon DEF QueueInv

\* bread finds the block in its buffer, or queues one request for it.
LEMMA BreadInv ==
  ASSUME BioInv, NEW p \in Caller, bread(p)
  PROVE  BioInv'
<1>0. /\ pc \in [Caller -> Pcs] /\ pc[p] = "locked" /\ buf[p] \in Buf
      /\ UNCHANGED <<blockno, valid, dirty, refcnt, locked, data, lru, disk, buf, want, content>>
  BY BioTypes, Zenon DEF bread, bufs
<1>1. \/ valid[buf[p]] /\ pc' = [pc EXCEPT ![p] = "held"] /\ UNCHANGED idequeue
      \/ ~valid[buf[p]] /\ pc' = [pc EXCEPT ![p] = "io"] /\ idequeue' = Append(idequeue, buf[p])
  BY Zenon DEF bread, Enqueue
<1>2. /\ pc' \in [Caller -> Pcs] /\ pc'[p] \in {"held", "io"} /\ (pc'[p] = "held" <=> valid[buf[p]])
      /\ \A q \in Caller : q # p => pc'[q] = pc[q]
  BY <1>0, <1>1, Zenon DEF Pcs
<1>3. TypeOK'
  <2>1. idequeue' \in Seq(Buf)
    <3>1. idequeue \in Seq(Buf)
      BY BioTypes
    <3>2. QED BY <1>0, <1>1, <3>1
  <2>2. QED BY <1>0, <1>2, <2>1, Zenon DEF BioInv, TypeOK, Pcs
<1>4. (OneBuffer /\ NotRecycled /\ NoLeak /\ LruInv)' /\ Coherent'
  BY <1>0, ListSame, DataSame
<1>5. (Exclusive /\ LockInv /\ WakeInv)'
  BY <1>0, <1>2, UseSame, Zenon DEF Using
<1>6. HoldInv'
  <2>1. Hold(p)'
    BY <1>0, <1>2 DEF BioInv, HoldInv, Hold, FlagInv
  <2>2. QED BY <1>0, <1>2, <2>1, HoldSame, Zenon DEF BioInv, HoldInv, Hold
<1>7. FlagInv'
  BY <1>0, <1>2, FlagSame
<1>8. QueueInv'
  <2>1. CASE pc'[p] = "held"
    BY <1>0, <1>1, <1>2, <2>1, QueueSame
  <2>2. CASE pc'[p] = "io"
    BY <1>0, <1>1, <2>2, EnqueueInv DEF Using
  <2>3. QED BY <1>2, <2>1, <2>2, Zenon
<1>9. QED BY <1>3, <1>4, <1>5, <1>6, <1>7, <1>8, Zenon DEF BioInv

\* The caller changes its buffer, which is the only one of its block.
LEMMA ModifyInv ==
  ASSUME BioInv, NEW p \in Caller, Modify(p)
  PROVE  BioInv'
<1>0. /\ pc \in [Caller -> Pcs] /\ pc[p] = "held" /\ pc' = [pc EXCEPT ![p] = "modified"]
      /\ buf[p] \in Buf /\ blockno[buf[p]] \in Block /\ valid[buf[p]]
      /\ data \in [Buf -> Val] /\ content \in [Block -> Val]
      /\ UNCHANGED <<blockno, valid, dirty, refcnt, locked, lru, idequeue, disk, buf, want>>
  BY BioTypes, Zenon DEF Modify, BioInv, HoldInv, Hold
<1>1. PICK v \in Val : /\ data' = [data EXCEPT ![buf[p]] = v]
                       /\ content' = [content EXCEPT ![blockno[buf[p]]] = v]
  BY Zenon DEF Modify
<1>2. /\ pc' \in [Caller -> Pcs] /\ pc'[p] = "modified"
      /\ \A q \in Caller : q # p => pc'[q] = pc[q]
      /\ \A q \in Caller : Using(q)' <=> Using(q)
  BY <1>0, Zenon DEF Pcs, Using
<1>3. TypeOK'
  BY <1>0, <1>1, <1>2, Zenon DEF BioInv, TypeOK, Pcs
<1>4. (OneBuffer /\ NotRecycled /\ NoLeak /\ LruInv)'
  BY <1>0, ListSame
<1>5. Coherent'
  <2> SUFFICES ASSUME NEW k \in Block
               PROVE  IF \E b \in Buf : blockno[b] = k /\ valid[b]
                      THEN \A b \in Buf : blockno[b] = k /\ valid[b] => data'[b] = content'[k]
                      ELSE disk[k] = content'[k]
    BY <1>0, Zenon DEF Coherent
  <2>1. CASE k = blockno[buf[p]]
    <3>1. \A b \in Buf : blockno[b] = k => b = buf[p]
      BY <1>0, <2>1, BioTypes, Zenon DEF BioInv, OneBuffer
    <3>2. content'[k] = v /\ data'[buf[p]] = v
      BY <1>0, <1>1, <2>1
    <3>3. QED BY <1>0, <2>1, <3>1, <3>2, Zenon
  <2>2. CASE k # blockno[buf[p]]
    <3>1. content'[k] = content[k] /\ \A b \in Buf : blockno[b] = k => data'[b] = data[b]
      BY <1>0, <1>1, <2>2, Zenon
    <3>2. QED BY <3>1, ZenonT(30) DEF BioInv, Coherent
  <2>3. QED BY <2>1, <2>2, Zenon
<1>6. (Exclusive /\ LockInv /\ WakeInv)'
  BY <1>0, <1>2, UseSame, Zenon
<1>7. HoldInv'
  <2>1. Hold(p)'
    BY <1>0, <1>2, Zenon DEF BioInv, HoldInv, Hold
  <2>2. QED BY <1>0, <1>2, <2>1, HoldSame, Zenon DEF BioInv, HoldInv, Hold
<1>8. FlagInv'
  <2> SUFFICES ASSUME NEW b \in Buf
               PROVE  /\ dirty[b] => valid[b]
                      /\ valid[b] => blockno[b] \in Block
                      /\ valid[b] /\ ~dirty[b] /\ (\A q \in Caller : pc'[q] = "modified" => buf[q] # b)
                           => disk[blockno[b]] = content'[blockno[b]]
    BY <1>0, Zenon DEF FlagInv
  <2>1. CASE b = buf[p]
    BY <1>0, <1>2, <2>1, Zenon DEF BioInv, FlagInv
  <2>2. CASE b # buf[p]
    <3>1. blockno[b] # blockno[buf[p]] \/ ~valid[b]
      BY <1>0, <2>2, BioTypes, Zenon DEF BioInv, OneBuffer, FlagInv
    <3>2. valid[b] => content'[blockno[b]] = content[blockno[b]]
      BY <1>0, <1>1, <3>1, Zenon DEF BioInv, FlagInv
    <3>3. (\A q \in Caller : pc'[q] = "modified" => buf[q] # b)
            => \A q \in Caller : pc[q] = "modified" => buf[q] # b
      BY <1>2, <2>2, Zenon
    <3>4. QED BY <3>2, <3>3, Zenon DEF BioInv, FlagInv
  <2>3. QED BY <2>1, <2>2, Zenon
<1>9. QueueInv'
  BY <1>0, <1>2, QueueSame, Zenon
<1>10. QED BY <1>3, <1>4, <1>5, <1>6, <1>7, <1>8, <1>9, Zenon DEF BioInv

\* log_write pins the buffer.
LEMMA LogWriteInv ==
  ASSUME BioInv, NEW p \in Caller, log_write(p)
  PROVE  BioInv'
<1>0. /\ pc \in [Caller -> Pcs] /\ pc[p] = "modified" /\ pc' = [pc EXCEPT ![p] = "held"]
      /\ buf[p] \in Buf /\ valid[buf[p]] /\ dirty \in [Buf -> BOOLEAN]
      /\ dirty' = [dirty EXCEPT ![buf[p]] = TRUE]
      /\ UNCHANGED <<blockno, valid, refcnt, locked, data, lru, idequeue, disk, buf, want, content>>
  BY BioTypes, Zenon DEF log_write, BioInv, HoldInv, Hold
<1>1. /\ pc' \in [Caller -> Pcs] /\ pc'[p] = "held"
      /\ \A q \in Caller : q # p => pc'[q] = pc[q]
      /\ \A q \in Caller : Using(q)' <=> Using(q)
  BY <1>0, Zenon DEF Pcs, Using
<1>2. TypeOK'
  BY <1>0, <1>1, Zenon DEF BioInv, TypeOK, Pcs
<1>3. (OneBuffer /\ NotRecycled /\ NoLeak /\ LruInv)' /\ Coherent'
  BY <1>0, ListSame, DataSame, Zenon
<1>4. (Exclusive /\ LockInv /\ WakeInv)'
  BY <1>0, <1>1, UseSame, Zenon
<1>5. HoldInv'
  <2>1. Hold(p)'
    BY <1>0, <1>1, Zenon DEF BioInv, HoldInv, Hold
  <2>2. ASSUME NEW q \in Caller, q # p
        PROVE  /\ pc[q] \in {"held", "modified"} => valid[buf[q]]
               /\ pc[q] = "io" => (dirty'[buf[q]] <=> valid[buf[q]])
    <3>1. Hold(q)
      BY Zenon DEF BioInv, HoldInv
    <3>2. pc[q] = "io" => buf[q] # buf[p] /\ buf[q] \in Buf
      BY <1>0, <2>2, BioTypes, Zenon DEF BioInv, Exclusive, Using
    <3>3. QED BY <1>0, <3>1, <3>2 DEF Hold
  <2>3. QED BY <1>0, <1>1, <2>1, <2>2, HoldSame, Zenon
<1>6. FlagInv'
  <2> SUFFICES ASSUME NEW b \in Buf
               PROVE  /\ dirty'[b] => valid[b]
                      /\ valid[b] => blockno[b] \in Block
                      /\ valid[b] /\ ~dirty'[b] /\ (\A q \in Caller : pc'[q] = "modified" => buf[q] # b)
                           => disk[blockno[b]] = content[blockno[b]]
    BY <1>0, Zenon DEF FlagInv
  <2>1. CASE b = buf[p]
    BY <1>0, <2>1, Zenon DEF BioInv, FlagInv
  <2>2. CASE b # buf[p]
    BY <1>0, <1>1, <2>2, Zenon DEF BioInv, FlagInv
  <2>3. QED BY <2>1, <2>2, Zenon
<1>7. QueueInv'
  BY <1>0, <1>1, QueueSame, Zenon
<1>8. QED BY <1>2, <1>3, <1>4, <1>5, <1>6, <1>7 DEF BioInv

\* bwrite queues one request to write the buffer.
LEMMA BwriteInv ==
  ASSUME BioInv, NEW p \in Caller, bwrite(p)
  PROVE  BioInv'
<1>0. /\ pc \in [Caller -> Pcs] /\ pc[p] \in {"held", "modified"} /\ pc' = [pc EXCEPT ![p] = "io"]
      /\ buf[p] \in Buf /\ valid[buf[p]] /\ dirty \in [Buf -> BOOLEAN]
      /\ dirty' = [dirty EXCEPT ![buf[p]] = TRUE]
      /\ idequeue \in Seq(Buf) /\ idequeue' = Append(idequeue, buf[p])
      /\ UNCHANGED <<blockno, valid, refcnt, locked, data, lru, disk, buf, want, content>>
  BY BioTypes, Zenon DEF bwrite, Enqueue, BioInv, HoldInv, Hold
<1>1. /\ pc' \in [Caller -> Pcs] /\ pc'[p] = "io" /\ idequeue' \in Seq(Buf)
      /\ \A q \in Caller : q # p => pc'[q] = pc[q]
      /\ \A q \in Caller : Using(q)' <=> Using(q)
  BY <1>0 DEF Pcs, Using
<1>2. TypeOK'
  BY <1>0, <1>1, Zenon DEF BioInv, TypeOK, Pcs
<1>3. (OneBuffer /\ NotRecycled /\ NoLeak /\ LruInv)' /\ Coherent'
  BY <1>0, ListSame, DataSame, Zenon
<1>4. (Exclusive /\ LockInv /\ WakeInv)'
  BY <1>0, <1>1, UseSame, Zenon
<1>5. HoldInv'
  <2>1. Hold(p)'
    BY <1>0, <1>1, Zenon DEF BioInv, HoldInv, Hold
  <2>2. ASSUME NEW q \in Caller, q # p
        PROVE  /\ pc[q] \in {"held", "modified"} => valid[buf[q]]
               /\ pc[q] = "io" => (dirty'[buf[q]] <=> valid[buf[q]])
    <3>1. Hold(q)
      BY DEF BioInv, HoldInv
    <3>2. pc[q] = "io" => buf[q] # buf[p] /\ buf[q] \in Buf
      BY <1>0, <2>2, BioTypes, Zenon DEF BioInv, Exclusive, Using
    <3>3. QED BY <1>0, <3>1, <3>2, Zenon DEF Hold
  <2>3. QED BY <1>0, <1>1, <2>1, <2>2, HoldSame, Zenon
<1>6. FlagInv'
  <2> SUFFICES ASSUME NEW b \in Buf
               PROVE  /\ dirty'[b] => valid[b]
                      /\ valid[b] => blockno[b] \in Block
                      /\ valid[b] /\ ~dirty'[b] /\ (\A q \in Caller : pc'[q] = "modified" => buf[q] # b)
                           => disk[blockno[b]] = content[blockno[b]]
    BY <1>0, Zenon DEF FlagInv
  <2>1. CASE b = buf[p]
    BY <1>0, <2>1, Zenon DEF BioInv, FlagInv
  <2>2. CASE b # buf[p]
    BY <1>0, <1>1, <2>2, Zenon DEF BioInv, FlagInv
  <2>3. QED BY <2>1, <2>2
<1>7. QueueInv'
  BY <1>0, EnqueueInv, Zenon DEF Using
<1>8. QED BY <1>2, <1>3, <1>4, <1>5, <1>6, <1>7 DEF BioInv

\* releasesleep wakes whoever sleeps for the buffer.
LEMMA ReleaseInv ==
  ASSUME BioInv, NEW p \in Caller, releasesleep(p)
  PROVE  BioInv'
<1>0. /\ pc \in [Caller -> Pcs] /\ pc[p] = "held" /\ buf[p] \in Buf /\ locked \in [Buf -> BOOLEAN]
      /\ locked' = [locked EXCEPT ![buf[p]] = FALSE]
      /\ pc' = [q \in Caller |-> IF q = p THEN "brelse"
                  ELSE IF pc[q] = "asleep" /\ buf[q] = buf[p] THEN "lock" ELSE pc[q]]
      /\ UNCHANGED <<blockno, valid, dirty, refcnt, data, lru, idequeue, disk, buf, want, content>>
  BY BioTypes, Zenon DEF releasesleep, Awake
<1>1. /\ pc' \in [Caller -> Pcs] /\ pc'[p] = "brelse"
      /\ \A q \in Caller : q # p => pc'[q] = pc[q] \/ (pc[q] = "asleep" /\ pc'[q] = "lock")
      /\ \A q \in Caller : Using(q)' <=> Using(q) /\ q # p
      /\ \A q \in Caller : pc'[q] = "asleep" => pc[q] = "asleep" /\ buf[q] # buf[p]
  BY <1>0, Zenon DEF Pcs, Using
<1>2. TypeOK'
  BY <1>0, <1>1, Zenon DEF BioInv, TypeOK, Pcs
<1>3. (OneBuffer /\ NotRecycled /\ NoLeak /\ LruInv)' /\ Coherent'
  BY <1>0, ListSame, DataSame, Zenon
<1>4. Exclusive'
  BY <1>0, <1>1 DEF BioInv, Exclusive, Using
<1>5. LockInv'
  BY <1>0, <1>1 DEF BioInv, LockInv
<1>6. HoldInv'
  <2>1. Hold(p)'
    BY <1>0, <1>1, Zenon DEF BioInv, HoldInv, Hold
  <2>2. QED BY <1>0, <1>1, <2>1, HoldSame, Zenon DEF BioInv, HoldInv, Hold
<1>7. WakeInv'
  BY <1>0, <1>1 DEF BioInv, WakeInv
<1>8. FlagInv'
  BY <1>0, <1>1, FlagSame, Zenon
<1>9. QueueInv'
  BY <1>0, <1>1, QueueSame, Zenon
<1>10. QED BY <1>2, <1>3, <1>4, <1>5, <1>6, <1>7, <1>8, <1>9 DEF BioInv

\* The callers that hold b or wait for it.
Users(b) == {p \in Caller : buf[p] = b}

\* Their number before and after a caller takes a buffer or gives it up.
LEMMA UsersCount ==
  ASSUME BioInv, NEW p \in Caller, NEW x \in Buf \cup {NoBuf}, buf' = [buf EXCEPT ![p] = x]
  PROVE  \A b \in Buf :
           /\ IsFiniteSet(Users(b)) /\ Cardinality(Users(b)) = refcnt[b]
           /\ b # x /\ b # buf[p] => Users(b)' = Users(b)
           /\ b = x /\ buf[p] = NoBuf => Cardinality(Users(b)') = refcnt[b] + 1
           /\ b # x /\ b = buf[p] => refcnt[b] > 0 /\ Cardinality(Users(b)') = refcnt[b] - 1
<1> SUFFICES ASSUME NEW b \in Buf
             PROVE  /\ IsFiniteSet(Users(b)) /\ Cardinality(Users(b)) = refcnt[b]
                    /\ b # x /\ b # buf[p] => Users(b)' = Users(b)
                    /\ b = x /\ buf[p] = NoBuf => Cardinality(Users(b)') = refcnt[b] + 1
                    /\ b # x /\ b = buf[p] => refcnt[b] > 0 /\ Cardinality(Users(b)') = refcnt[b] - 1
  BY Zenon
<1>0. buf \in [Caller -> Buf \cup {NoBuf}] /\ refcnt[b] \in Nat /\ NoBuf \notin Buf
  BY BioTypes
<1>1. IsFiniteSet(Users(b)) /\ Cardinality(Users(b)) = refcnt[b]
  <2>1. Users(b) \in SUBSET Caller
    BY DEF Users
  <2>2. IsFiniteSet(Users(b))
    BY <2>1, FS_Subset, BioAssumption
  <2>3. QED BY <2>2 DEF Users, BioInv, NoLeak
<1>2. b # x /\ b # buf[p] => Users(b)' = Users(b)
  BY <1>0 DEF Users
<1>3. ASSUME b = x, buf[p] = NoBuf PROVE Cardinality(Users(b)') = refcnt[b] + 1
  <2>1. Users(b)' = Users(b) \cup {p} /\ p \notin Users(b)
    BY <1>0, <1>3, Zenon DEF Users
  <2>2. QED BY <1>1, <2>1, FS_AddElement
<1>4. ASSUME b # x, b = buf[p] PROVE refcnt[b] > 0 /\ Cardinality(Users(b)') = refcnt[b] - 1
  <2>1. Users(b)' = Users(b) \ {p} /\ p \in Users(b)
    BY <1>0, <1>4 DEF Users
  <2>2. Cardinality(Users(b)') = refcnt[b] - 1 /\ IsFiniteSet(Users(b)')
    BY <1>1, <2>1, FS_RemoveElement
  <2>3. Cardinality(Users(b)') \in Nat
    BY <2>2, FS_CardinalityType
  <2>4. QED BY <1>0, <2>2, <2>3
<1>5. QED BY <1>1, <1>2, <1>3, <1>4, Zenon

\* brelse moves a buffer that nobody uses to the front of the list, and loses none.
LEMMA MoveFrontInv ==
  ASSUME BioInv, NEW b \in Buf
  PROVE  /\ MoveFront(b) \in [1..NBUF -> Buf]
         /\ \A x \in Buf : \E i \in 1..NBUF : MoveFront(b)[i] = x
<1> DEFINE i == CHOOSE i \in 1..NBUF : lru[i] = b
<1>1. i \in 1..NBUF /\ lru[i] = b /\ NBUF \in Nat /\ lru \in [1..NBUF -> Buf]
  BY BioTypes, Zenon DEF BioInv, LruInv
<1>2. MoveFront(b) = [j \in 1..NBUF |-> IF j = 1 THEN b ELSE IF j <= i THEN lru[j-1] ELSE lru[j]]
  BY DEF MoveFront
<1> HIDE DEF i
<1>3. MoveFront(b) \in [1..NBUF -> Buf]
  BY <1>1, <1>2
<1>4. ASSUME NEW x \in Buf PROVE \E j \in 1..NBUF : MoveFront(b)[j] = x
  <2>1. PICK m \in 1..NBUF : lru[m] = x
    BY DEF BioInv, LruInv
  <2>2. CASE m = i
    <3>1. 1 \in 1..NBUF
      BY <1>1
    <3>2. QED BY <1>1, <1>2, <2>1, <2>2, <3>1
  <2>3. CASE m < i
    <3>1. m + 1 \in 1..NBUF /\ m + 1 # 1 /\ m + 1 <= i /\ (m + 1) - 1 = m
      BY <1>1, <2>3
    <3>2. QED BY <1>2, <2>1, <3>1
  <2>4. CASE m > i
    <3>1. m # 1 /\ ~(m <= i)
      BY <1>1, <2>4
    <3>2. QED BY <1>2, <2>1, <3>1
  <2>5. QED BY <1>1, <2>2, <2>3, <2>4
<1>5. QED BY <1>3, <1>4, Zenon

\* The rest of brelse drops the reference.
LEMMA BrelseInv ==
  ASSUME BioInv, NEW p \in Caller, brelse(p)
  PROVE  BioInv'
<1>0. /\ pc \in [Caller -> Pcs] /\ pc[p] = "brelse" /\ pc' = [pc EXCEPT ![p] = "idle"]
      /\ buf[p] \in Buf /\ buf \in [Caller -> Buf \cup {NoBuf}] /\ buf' = [buf EXCEPT ![p] = NoBuf]
      /\ want \in [Caller -> Block \cup {NoBlock}] /\ want' = [want EXCEPT ![p] = NoBlock]
      /\ refcnt \in [Buf -> Nat] /\ refcnt' = [refcnt EXCEPT ![buf[p]] = @ - 1]
      /\ NoBuf \notin Buf
      /\ UNCHANGED <<blockno, valid, dirty, locked, data, idequeue, disk, content>>
  BY BioTypes, Zenon DEF brelse, Unref
<1>1. /\ pc' \in [Caller -> Pcs] /\ pc'[p] = "idle" /\ buf'[p] = NoBuf
      /\ \A q \in Caller : q # p => pc'[q] = pc[q] /\ buf'[q] = buf[q] /\ want'[q] = want[q]
      /\ \A q \in Caller : (Using(q)' <=> Using(q)) /\ (Using(q) => q # p)
  BY <1>0, Zenon DEF Pcs, Using
<1>2. refcnt' \in [Buf -> Nat] /\ NoLeak'
  <2>1. \A b \in Buf :
           /\ Cardinality(Users(b)) = refcnt[b]
           /\ b # NoBuf /\ b # buf[p] => Users(b)' = Users(b)
           /\ b # NoBuf /\ b = buf[p] => refcnt[b] > 0 /\ Cardinality(Users(b)') = refcnt[b] - 1
    <3>1. NoBuf \in Buf \cup {NoBuf}
      OBVIOUS
    <3>2. QED BY <1>0, <3>1, UsersCount, Zenon
  <2>2. refcnt' \in [Buf -> Nat]
    BY <1>0, <2>1
  <2>3. \A b \in Buf : refcnt'[b] = Cardinality(Users(b)')
    BY <1>0, <2>1, Zenon
  <2>4. QED BY <2>2, <2>3 DEF NoLeak, Users
<1>3. lru' \in [1..NBUF -> Buf] /\ LruInv'
  <2>1. lru' = MoveFront(buf[p]) \/ lru' = lru
    BY Zenon DEF brelse
  <2>2. CASE lru' = MoveFront(buf[p])
    BY <1>0, <2>2, MoveFrontInv, Zenon DEF LruInv
  <2>3. CASE lru' = lru
    BY <2>3, BioTypes, Zenon DEF BioInv, LruInv
  <2>4. QED BY <2>1, <2>2, <2>3, Zenon
<1>4. TypeOK'
  BY <1>0, <1>1, <1>2, <1>3 DEF BioInv, TypeOK, Pcs
<1>5. OneBuffer' /\ Coherent'
  <2>1. OneBuffer'
    BY <1>0, Zenon DEF BioInv, OneBuffer
  <2>2. QED BY <1>0, <2>1, DataSame, Zenon
<1>6. NotRecycled'
  BY <1>0, <1>1, ZenonT(30) DEF BioInv, NotRecycled
<1>7. (Exclusive /\ LockInv /\ WakeInv)'
  BY <1>0, <1>1, UseSame
<1>8. HoldInv'
  <2>1. Hold(p)'
    BY <1>0, <1>1, Zenon DEF Hold
  <2>2. QED BY <1>0, <1>1, <2>1, HoldSame, ZenonT(30) DEF BioInv, HoldInv, Hold
<1>9. FlagInv'
  BY <1>0, <1>1, FlagSame, Zenon
<1>10. QueueInv'
  BY <1>0, <1>1, QueueSame
<1>11. QED BY <1>2, <1>3, <1>4, <1>5, <1>6, <1>7, <1>8, <1>9, <1>10, Zenon DEF BioInv

\* A block of which no buffer is valid is on the disk.
LEMMA DiskHas ==
  ASSUME BioInv, NEW k \in Block, \A b \in Buf : blockno[b] = k => ~valid[b]
  PROVE  disk[k] = content[k]
  BY Zenon DEF BioInv, Coherent

\* The disk has written or filled the buffer at the head of the queue.
LEMMA InterruptInv ==
  ASSUME BioInv, ideintr
  PROVE  BioInv'
<1> DEFINE b == Head(idequeue)
           k == blockno[b]
<1>0. /\ idequeue \in Seq(Buf) /\ idequeue # <<>> /\ pc \in [Caller -> Pcs]
      /\ data \in [Buf -> Val] /\ disk \in [Block -> Val] /\ content \in [Block -> Val]
      /\ valid \in [Buf -> BOOLEAN] /\ dirty \in [Buf -> BOOLEAN]
      /\ idequeue' = Tail(idequeue)
      /\ UNCHANGED <<blockno, refcnt, locked, lru, buf, want, content>>
  BY BioTypes, Zenon DEF ideintr
<1>1. /\ \/ dirty[b] /\ disk' = [disk EXCEPT ![k] = data[b]] /\ data' = data
         \/ ~dirty[b] /\ data' = [data EXCEPT ![b] = disk[k]] /\ disk' = disk
      /\ valid' = [valid EXCEPT ![b] = TRUE] /\ dirty' = [dirty EXCEPT ![b] = FALSE]
      /\ pc' = [q \in Caller |-> IF pc[q] = "io" /\ buf[q] = b THEN "held" ELSE pc[q]]
  BY Zenon DEF ideintr
<1>2. /\ Len(idequeue) \in Nat /\ Len(idequeue) >= 1 /\ b = idequeue[1]
      /\ Tail(idequeue) \in Seq(Buf) /\ Len(Tail(idequeue)) = Len(idequeue) - 1
      /\ \A i \in 1..Len(idequeue)-1 : Tail(idequeue)[i] = idequeue[i + 1]
  BY <1>0
<1>3. 1 \in 1..Len(idequeue) /\ b \in Buf
  BY <1>0, <1>2
<1>4. PICK p \in Caller : pc[p] = "io" /\ buf[p] = b
  BY <1>2, <1>3 DEF BioInv, QueueInv
<1>5. k \in Block /\ (dirty[b] <=> valid[b])
  <2>1. Hold(p)
    BY Zenon DEF BioInv, HoldInv
  <2>2. k \in Block
    BY <1>4, BioTypes, Zenon
  <2>3. QED BY <1>4, <2>1, <2>2 DEF Hold
<1> HIDE DEF b, k
<1>6. /\ pc' \in [Caller -> Pcs] /\ pc'[p] = "held"
      /\ \A q \in Caller : q # p => pc'[q] = pc[q]
      /\ \A q \in Caller : Using(q)' <=> Using(q)
  <2>1. pc' \in [Caller -> Pcs] /\ pc'[p] = "held"
    BY <1>0, <1>1, <1>4, Zenon DEF Pcs
  <2>2. \A q \in Caller : pc[q] = "io" /\ buf[q] = b => q = p
    BY <1>4 DEF BioInv, Exclusive, Using
  <2>3. QED BY <1>1, <1>4, <2>1, <2>2, Zenon DEF Using
<1>7. \A c \in Buf : c # b => data'[c] = data[c] /\ valid'[c] = valid[c] /\ dirty'[c] = dirty[c]
  BY <1>0, <1>1, <1>3, Zenon
<1>8. \A m \in Block : m # k => disk'[m] = disk[m]
  BY <1>0, <1>1, <1>5, Zenon
<1>9. data'[b] = content[k] /\ disk'[k] = content[k] /\ valid'[b] /\ ~dirty'[b]
  <2>1. CASE dirty[b]
    <3>1. data[b] = content[k]
      BY <1>3, <1>5, <2>1, Zenon DEF BioInv, Coherent, k
    <3>2. QED BY <1>0, <1>1, <1>3, <1>5, <2>1, <3>1, Zenon
  <2>2. CASE ~dirty[b]
    <3>1. \A c \in Buf : blockno[c] = k => ~valid[c]
      BY <1>3, <1>5, <2>2, BioTypes, Zenon DEF BioInv, OneBuffer, k
    <3>2. disk[k] = content[k]
      BY <1>5, <3>1, DiskHas, Zenon
    <3>3. QED BY <1>0, <1>1, <1>3, <1>5, <2>2, <3>2, Zenon
  <2>3. QED BY <2>1, <2>2, Zenon
<1>10. \A c \in Buf : c # b => blockno[c] # k
  BY <1>3, <1>5, BioTypes, Zenon DEF BioInv, OneBuffer, k
<1>11. TypeOK'
  <2>1. /\ data' \in [Buf -> Val] /\ disk' \in [Block -> Val]
        /\ valid' \in [Buf -> BOOLEAN] /\ dirty' \in [Buf -> BOOLEAN]
    BY <1>0, <1>1, <1>3, <1>5, Zenon
  <2>2. idequeue' \in Seq(Buf)
    BY <1>0, <1>2, Zenon
  <2>3. QED BY <1>0, <1>6, <2>1, <2>2, Zenon DEF BioInv, TypeOK, Pcs
<1>12. (OneBuffer /\ NotRecycled /\ NoLeak /\ LruInv)'
  BY <1>0, ListSame, Zenon
<1>13. Coherent'
  <2> SUFFICES ASSUME NEW m \in Block
               PROVE  IF \E c \in Buf : blockno[c] = m /\ valid'[c]
                      THEN \A c \in Buf : blockno[c] = m /\ valid'[c] => data'[c] = content[m]
                      ELSE disk'[m] = content[m]
    BY <1>0 DEF Coherent
  <2>1. CASE m = k
    BY <1>3, <1>9, <1>10, <2>1, Zenon
  <2>2. CASE m # k
    <3>1. \A c \in Buf : blockno[c] = m => c # b
      BY <2>2, Zenon DEF k
    <3>2. \A c \in Buf : blockno[c] = m => data'[c] = data[c] /\ valid'[c] = valid[c]
      BY <1>7, <3>1, Zenon
    <3>3. disk'[m] = disk[m]
      BY <1>8, <2>2, Zenon
    <3>4. CASE \E c \in Buf : blockno[c] = m /\ valid'[c]
      BY <3>2, <3>4, ZenonT(30) DEF BioInv, Coherent
    <3>5. CASE ~\E c \in Buf : blockno[c] = m /\ valid'[c]
      BY <3>2, <3>3, <3>5, DiskHas, Zenon
    <3>6. QED BY <3>4, <3>5
  <2>3. QED BY <2>1, <2>2
<1>14. (Exclusive /\ LockInv /\ WakeInv)'
  BY <1>0, <1>6, UseSame, Zenon
<1>15. HoldInv'
  <2>1. Hold(p)'
    BY <1>0, <1>4, <1>6, <1>9, Zenon DEF BioInv, HoldInv, Hold
  <2>2. ASSUME NEW q \in Caller, q # p
        PROVE  /\ pc[q] \in {"held", "modified"} => valid'[buf[q]]
               /\ pc[q] = "io" => (dirty'[buf[q]] <=> valid'[buf[q]])
    <3>1. Hold(q)
      BY Zenon DEF BioInv, HoldInv
    <3>2. pc[q] \in {"held", "modified", "io"} => buf[q] # b /\ buf[q] \in Buf
      BY <1>4, <2>2, BioTypes, Zenon DEF BioInv, Exclusive, Using
    <3>3. QED BY <1>7, <3>1, <3>2, Zenon DEF Hold
  <2>3. QED BY <1>0, <1>6, <2>1, <2>2, HoldSame, Zenon
<1>16. FlagInv'
  <2> SUFFICES ASSUME NEW c \in Buf
               PROVE  /\ dirty'[c] => valid'[c]
                      /\ valid'[c] => blockno[c] \in Block
                      /\ valid'[c] /\ ~dirty'[c] /\ (\A q \in Caller : pc'[q] = "modified" => buf[q] # c)
                           => disk'[blockno[c]] = content[blockno[c]]
    BY <1>0, Zenon DEF FlagInv
  <2>1. CASE c = b
    BY <1>5, <1>9, <2>1, Zenon DEF k
  <2>2. CASE c # b
    <3>1. valid[c] => blockno[c] \in Block /\ disk'[blockno[c]] = disk[blockno[c]]
      BY <1>8, <1>10, <2>2, Zenon DEF BioInv, FlagInv
    <3>2. \A q \in Caller : pc[q] = "modified" => pc'[q] = "modified"
      BY <1>4, <1>6, Zenon
    <3>3. QED BY <1>7, <2>2, <3>1, <3>2, Zenon DEF BioInv, FlagInv
  <2>3. QED BY <2>1, <2>2, Zenon
<1>17. QueueInv'
  <2>1. ASSUME NEW i \in 1..Len(idequeue') PROVE \E q \in Caller : pc'[q] = "io" /\ buf'[q] = idequeue'[i]
    <3>1. i + 1 \in 1..Len(idequeue) /\ idequeue'[i] = idequeue[i + 1] /\ i + 1 # 1
      BY <1>0, <1>2
    <3>2. PICK q \in Caller : pc[q] = "io" /\ buf[q] = idequeue[i + 1]
      BY <3>1, Zenon DEF BioInv, QueueInv
    <3>3. idequeue[i + 1] # idequeue[1]
      BY <1>3, <3>1, Zenon DEF BioInv, QueueInv
    <3>4. q # p
      BY <1>2, <1>4, <3>2, <3>3, Zenon
    <3>5. QED BY <1>0, <1>6, <3>1, <3>2, <3>4, Zenon
  <2>2. ASSUME NEW q \in Caller, pc'[q] = "io" PROVE \E i \in 1..Len(idequeue') : idequeue'[i] = buf'[q]
    <3>1. q # p /\ pc[q] = "io"
      BY <1>6, <2>2
    <3>2. buf[q] # b
      BY <1>4, <3>1, Zenon DEF BioInv, Exclusive, Using
    <3>3. PICK i \in 1..Len(idequeue) : idequeue[i] = buf[q]
      BY <3>1 DEF BioInv, QueueInv
    <3>4. i # 1
      BY <1>2, <3>2, <3>3, Zenon
    <3>5. i - 1 \in 1..Len(idequeue)-1 /\ (i - 1) + 1 = i
      BY <1>2, <3>4
    <3>6. QED BY <1>0, <1>2, <3>3, <3>5, Zenon
  <2>3. ASSUME NEW i \in 1..Len(idequeue'), NEW j \in 1..Len(idequeue'), idequeue'[i] = idequeue'[j]
        PROVE  i = j
    <3>1. /\ i \in Int /\ j \in Int /\ i + 1 \in 1..Len(idequeue) /\ j + 1 \in 1..Len(idequeue)
          /\ idequeue[i + 1] = idequeue[j + 1]
      BY <1>0, <1>2, <2>3
    <3>2. i + 1 = j + 1
      BY <3>1, Zenon DEF BioInv, QueueInv
    <3>3. QED BY <3>1, <3>2
  <2>4. QED BY <2>1, <2>2, <2>3, Zenon DEF QueueInv
<1>18. QED BY <1>11, <1>12, <1>13, <1>14, <1>15, <1>16, <1>17, Zenon DEF BioInv

\* bget gives p the buffer b for block k; it may have recycled b.
Get(p, b, k) ==
  /\ pc[p] = "idle" /\ pc' = [pc EXCEPT ![p] = "lock"]
  /\ buf' = [buf EXCEPT ![p] = b] /\ want' = [want EXCEPT ![p] = k]
  /\ UNCHANGED <<locked, data, lru, idequeue, disk, content>>
  /\ \A c \in Buf : c # b => /\ blockno'[c] = blockno[c] /\ valid'[c] = valid[c]
                             /\ dirty'[c] = dirty[c] /\ refcnt'[c] = refcnt[c]
  /\ UNCHANGED <<blockno, valid, dirty>> \/ refcnt[b] = 0
  /\ blockno'[b] = k /\ refcnt'[b] = refcnt[b] + 1

\* The part of the invariant that does not depend on how bget found the buffer.
LEMMA GetCommon ==
  ASSUME BioInv, NEW p \in Caller, NEW b \in Buf, NEW k \in Block, Get(p, b, k)
  PROVE  /\ (NotRecycled /\ NoLeak /\ LruInv)' /\ (Exclusive /\ LockInv /\ WakeInv)'
         /\ HoldInv' /\ QueueInv'
<1>0. /\ pc \in [Caller -> Pcs] /\ buf \in [Caller -> Buf \cup {NoBuf}] /\ NoBuf \notin Buf
      /\ want \in [Caller -> Block \cup {NoBlock}] /\ pc[p] = "idle" /\ buf[p] = NoBuf /\ b # NoBuf
  BY BioTypes DEF Get, BioInv, HoldInv, Hold
<1>1. /\ pc'[p] = "lock" /\ buf'[p] = b /\ want'[p] = k
      /\ \A q \in Caller : q # p => pc'[q] = pc[q] /\ buf'[q] = buf[q] /\ want'[q] = want[q]
  BY <1>0, Zenon DEF Get
<1>2. \A c \in Buf :
        /\ IsFiniteSet(Users(c)) /\ Cardinality(Users(c)) = refcnt[c]
        /\ c # b => Users(c)' = Users(c)
        /\ c = b => Cardinality(Users(c)') = refcnt[c] + 1
  <2>1. b \in Buf \cup {NoBuf} /\ buf' = [buf EXCEPT ![p] = b]
    BY Zenon DEF Get
  <2>2. QED BY <1>0, <2>1, UsersCount, Zenon
<1>3. NoLeak'
  <2>1. \A c \in Buf : refcnt'[c] = Cardinality(Users(c)')
    BY <1>2, Zenon DEF Get
  <2>2. QED BY <2>1, Zenon DEF NoLeak, Users
<1>4. UNCHANGED <<blockno, valid, dirty>> \/ \A q \in Caller : buf[q] # b
  <2>1. ASSUME refcnt[b] = 0 PROVE Users(b) = {}
    BY <1>2, <2>1, FS_EmptySet, Zenon
  <2>2. QED BY <2>1, Zenon DEF Users, Get
<1>5. ASSUME NEW q \in Caller, q # p, buf[q] # NoBuf
      PROVE  /\ buf[q] \in Buf /\ blockno'[buf[q]] = blockno[buf[q]]
             /\ valid'[buf[q]] = valid[buf[q]] /\ dirty'[buf[q]] = dirty[buf[q]]
  <2>1. buf[q] \in Buf
    BY <1>0, <1>5, Zenon
  <2>2. QED BY <1>4, <2>1, Zenon DEF Get
<1>6. NotRecycled'
  <2> SUFFICES ASSUME NEW q \in Caller, buf'[q] # NoBuf PROVE blockno'[buf'[q]] = want'[q]
    BY Zenon DEF NotRecycled
  <2>1. CASE q = p
    BY <1>1, <2>1, ZenonT(30) DEF Get
  <2>2. CASE q # p
    BY <1>1, <1>5, <2>2 DEF BioInv, NotRecycled
  <2>3. QED BY <2>1, <2>2, Zenon
<1>7. (Exclusive /\ LockInv /\ WakeInv)'
  <2>1. locked' = locked
    BY Zenon DEF Get
  <2>2. /\ \A q \in Caller : (Using(q)' <=> Using(q)) /\ (Using(q) => buf'[q] = buf[q])
        /\ \A q \in Caller : pc'[q] = "asleep" => pc[q] = "asleep" /\ buf'[q] = buf[q]
    BY <1>0, <1>1 DEF Using
  <2>3. QED BY <2>1, <2>2, UseSame, Zenon
<1>8. HoldInv'
  <2>1. Hold(p)'
    BY <1>0, <1>1, Zenon DEF Hold
  <2>2. ASSUME NEW q \in Caller, q # p
        PROVE  /\ pc[q] \in {"held", "modified"} => valid'[buf[q]]
               /\ pc[q] = "io" => (dirty'[buf[q]] <=> valid'[buf[q]])
    <3>1. Hold(q)
      BY Zenon DEF BioInv, HoldInv
    <3>2. QED BY <1>5, <2>2, <3>1, Zenon DEF Hold
  <2>3. QED BY <1>1, <2>1, <2>2, HoldSame, Zenon
<1>9. QueueInv'
  <2>1. idequeue' = idequeue
    BY Zenon DEF Get
  <2>2. QED BY <1>0, <1>1, <2>1, QueueSame, Zenon
<1>10. LruInv'
  BY ZenonT(30) DEF BioInv, LruInv, Get
<1>11. QED BY <1>3, <1>6, <1>7, <1>8, <1>9, <1>10, Zenon

\* bget finds the block, or recycles a buffer that nobody uses and that the disk agrees
\* with, or panics.
LEMMA GetInv ==
  ASSUME BioInv, NEW p \in Caller, bget(p)
  PROVE  BioInv'
<1>0. /\ pc \in [Caller -> Pcs] /\ pc[p] = "idle" /\ buf[p] = NoBuf
      /\ blockno \in [Buf -> Block \cup {NoBlock}] /\ refcnt \in [Buf -> Nat]
      /\ valid \in [Buf -> BOOLEAN] /\ dirty \in [Buf -> BOOLEAN]
      /\ buf \in [Caller -> Buf \cup {NoBuf}] /\ want \in [Caller -> Block \cup {NoBlock}]
      /\ NoBlock \notin Block
      /\ UNCHANGED <<locked, data, lru, idequeue, disk, content>>
  BY BioTypes, Zenon DEF bget, BioInv, HoldInv, Hold
<1>1. PICK k \in Block :
        /\ want' = [want EXCEPT ![p] = k]
        /\ \/ \E b \in Cached(k) :
                /\ buf' = [buf EXCEPT ![p] = b] /\ refcnt' = [refcnt EXCEPT ![b] = @ + 1]
                /\ pc' = [pc EXCEPT ![p] = "lock"] /\ UNCHANGED <<blockno, valid, dirty>>
           \/ /\ Cached(k) = {}
              /\ \E b \in Buf :
                   /\ LeastRecent(b, Recyclable) /\ buf' = [buf EXCEPT ![p] = b]
                   /\ blockno' = [blockno EXCEPT ![b] = k] /\ valid' = [valid EXCEPT ![b] = FALSE]
                   /\ dirty' = [dirty EXCEPT ![b] = FALSE] /\ refcnt' = [refcnt EXCEPT ![b] = 1]
              /\ pc' = [pc EXCEPT ![p] = "lock"]
           \/ pc' = [pc EXCEPT ![p] = "panic"] /\ UNCHANGED <<buf, blockno, valid, dirty, refcnt>>
  BY Zenon DEF bget
<1>2. want' \in [Caller -> Block \cup {NoBlock}]
  BY <1>0, <1>1, Zenon
<1>3. ASSUME NEW b \in Cached(k), buf' = [buf EXCEPT ![p] = b], refcnt' = [refcnt EXCEPT ![b] = @ + 1],
             pc' = [pc EXCEPT ![p] = "lock"], UNCHANGED <<blockno, valid, dirty>>
      PROVE  BioInv'
  <2>1. b \in Buf /\ blockno[b] = k
    BY Zenon DEF Cached
  <2>2. Get(p, b, k)
    BY <1>0, <1>1, <1>3, <2>1, Zenon DEF Get
  <2>3. TypeOK'
    <3>1. /\ pc' \in [Caller -> Pcs] /\ refcnt' \in [Buf -> Nat]
          /\ buf' \in [Caller -> Buf \cup {NoBuf}]
      BY <1>0, <1>3, <2>1 DEF Pcs
    <3>2. QED BY <1>0, <1>2, <1>3, <3>1, Zenon DEF BioInv, TypeOK, Pcs
  <2>4. OneBuffer' /\ Coherent'
    <3>1. OneBuffer'
      BY <1>3, Zenon DEF BioInv, OneBuffer
    <3>2. QED BY <1>0, <1>3, <3>1, DataSame, Zenon
  <2>5. FlagInv'
    <3>1. \A q \in Caller : pc[q] = "modified" => pc'[q] = "modified" /\ buf'[q] = buf[q]
      BY <1>0, <1>3, Zenon
    <3>2. QED BY <1>0, <1>3, <3>1, FlagSame, Zenon
  <2>6. QED BY <2>1, <2>2, <2>3, <2>4, <2>5, GetCommon DEF BioInv
<1>4. ASSUME Cached(k) = {}, NEW b \in Buf, LeastRecent(b, Recyclable), buf' = [buf EXCEPT ![p] = b],
             blockno' = [blockno EXCEPT ![b] = k], valid' = [valid EXCEPT ![b] = FALSE],
             dirty' = [dirty EXCEPT ![b] = FALSE], refcnt' = [refcnt EXCEPT ![b] = 1],
             pc' = [pc EXCEPT ![p] = "lock"]
      PROVE  BioInv'
  <2>1. refcnt[b] = 0 /\ ~dirty[b]
    BY <1>4, Zenon DEF LeastRecent, Recyclable
  <2>2. /\ blockno'[b] = k /\ ~valid'[b] /\ ~dirty'[b] /\ refcnt'[b] = refcnt[b] + 1
        /\ \A c \in Buf : c # b => /\ blockno'[c] = blockno[c] /\ valid'[c] = valid[c]
                                   /\ dirty'[c] = dirty[c] /\ refcnt'[c] = refcnt[c]
    BY <1>0, <1>4, <2>1
  <2>3. Get(p, b, k)
    BY <1>0, <1>1, <1>4, <2>1, <2>2, Zenon DEF Get
  <2>4. TypeOK'
    <3>1. /\ pc' \in [Caller -> Pcs] /\ refcnt' \in [Buf -> Nat]
          /\ buf' \in [Caller -> Buf \cup {NoBuf}] /\ blockno' \in [Buf -> Block \cup {NoBlock}]
          /\ valid' \in [Buf -> BOOLEAN] /\ dirty' \in [Buf -> BOOLEAN]
      BY <1>0, <1>4, Zenon DEF Pcs
    <3>2. QED BY <1>0, <1>2, <3>1, Zenon DEF BioInv, TypeOK, Pcs
  <2>5. \A c \in Buf : blockno[c] # k
    BY <1>4 DEF Cached
  <2>6. OneBuffer'
    BY <2>2, <2>5, ZenonT(30) DEF BioInv, OneBuffer
  <2>7. blockno[b] \in Block => disk[blockno[b]] = content[blockno[b]]
    <3>1. CASE valid[b]
      <4>1. Cardinality(Users(b)) = 0 /\ IsFiniteSet(Users(b))
        BY <1>0, <1>4, <2>1, UsersCount, Zenon
      <4>2. Users(b) = {}
        BY <4>1, FS_EmptySet, Zenon
      <4>3. QED BY <2>1, <3>1, <4>2, Zenon DEF BioInv, FlagInv, Users
    <3>2. CASE ~valid[b]
      <4>1. blockno[b] \in Block => \A c \in Buf : blockno[c] = blockno[b] => ~valid[c]
        BY <1>0, <3>2 DEF BioInv, OneBuffer
      <4>2. QED BY <4>1, DiskHas, Zenon
    <3>3. QED BY <3>1, <3>2, Zenon
  <2>8. Coherent'
    <3> SUFFICES ASSUME NEW m \in Block
                 PROVE  IF \E c \in Buf : blockno'[c] = m /\ valid'[c]
                        THEN \A c \in Buf : blockno'[c] = m /\ valid'[c] => data[c] = content[m]
                        ELSE disk[m] = content[m]
      BY <1>0, Zenon DEF Coherent
    <3>1. \A c \in Buf : blockno'[c] = m /\ valid'[c] => blockno[c] = m /\ valid[c]
      BY <2>2, Zenon
    <3>2. CASE \E c \in Buf : blockno'[c] = m /\ valid'[c]
      BY <3>1, <3>2, Zenon DEF BioInv, Coherent
    <3>3. CASE ~\E c \in Buf : blockno'[c] = m /\ valid'[c]
      <4>1. CASE blockno[b] = m
        BY <2>7, <3>3, <4>1, Zenon
      <4>2. CASE blockno[b] # m
        <5>1. \A c \in Buf : blockno[c] = m => ~valid[c]
          BY <2>2, <3>3, <4>2, Zenon
        <5>2. QED BY <3>3, <5>1, DiskHas, Zenon
      <4>3. QED BY <4>1, <4>2, Zenon
    <3>4. QED BY <3>2, <3>3, Zenon
  <2>9. FlagInv'
    <3> SUFFICES ASSUME NEW c \in Buf
                 PROVE  /\ dirty'[c] => valid'[c]
                        /\ valid'[c] => blockno'[c] \in Block
                        /\ valid'[c] /\ ~dirty'[c] /\ (\A q \in Caller : pc'[q] = "modified" => buf'[q] # c)
                             => disk[blockno'[c]] = content[blockno'[c]]
      BY <1>0, Zenon DEF FlagInv
    <3>1. CASE c = b
      BY <2>2, <3>1, ZenonT(30)
    <3>2. CASE c # b
      <4>1. \A q \in Caller : pc[q] = "modified" => pc'[q] = "modified" /\ buf'[q] = buf[q]
        BY <1>0, <1>4, Zenon
      <4>2. (\A q \in Caller : pc'[q] = "modified" => buf'[q] # c)
              => \A q \in Caller : pc[q] = "modified" => buf[q] # c
        BY <4>1, Zenon
      <4>3. QED BY <2>2, <3>2, <4>2 DEF BioInv, FlagInv
    <3>3. QED BY <3>1, <3>2, Zenon
  <2>10. QED BY <2>3, <2>4, <2>6, <2>8, <2>9, GetCommon, Zenon DEF BioInv
<1>5. ASSUME pc' = [pc EXCEPT ![p] = "panic"], UNCHANGED <<buf, blockno, valid, dirty, refcnt>>
      PROVE  BioInv'
  <2>1. /\ pc' \in [Caller -> Pcs] /\ pc'[p] = "panic"
        /\ \A q \in Caller : q # p => pc'[q] = pc[q] /\ want'[q] = want[q]
    BY <1>0, <1>1, <1>5 DEF Pcs
  <2>2. TypeOK'
    BY <1>0, <1>2, <1>5, <2>1, Zenon DEF BioInv, TypeOK, Pcs
  <2>3. (OneBuffer /\ NoLeak /\ LruInv)' /\ Coherent'
    <3>1. OneBuffer' /\ NoLeak' /\ LruInv'
      BY <1>0, <1>5 DEF BioInv, OneBuffer, NoLeak, LruInv
    <3>2. QED BY <1>0, <1>5, <3>1, DataSame, Zenon
  <2>4. NotRecycled'
    BY <1>0, <1>5, <2>1, Zenon DEF BioInv, NotRecycled
  <2>5. HoldInv'
    <3>1. Hold(p)'
      BY <1>0, <1>5, <2>1, Zenon DEF Hold
    <3>2. QED BY <1>5, <2>1, <3>1, HoldSame, Zenon DEF BioInv, HoldInv, Hold
  <2>6. (Exclusive /\ LockInv /\ WakeInv)'
    <3>1. /\ \A q \in Caller : (Using(q)' <=> Using(q)) /\ (Using(q) => buf'[q] = buf[q])
          /\ \A q \in Caller : pc'[q] = "asleep" => pc[q] = "asleep" /\ buf'[q] = buf[q]
      BY <1>0, <1>5, <2>1, Zenon DEF Using
    <3>2. QED BY <1>0, <3>1, UseSame, Zenon
  <2>7. FlagInv'
    BY <1>0, <1>5, <2>1, FlagSame, Zenon
  <2>8. QueueInv'
    BY <1>0, <1>5, <2>1, QueueSame
  <2>9. QED BY <2>2, <2>3, <2>4, <2>5, <2>6, <2>7, <2>8, Zenon DEF BioInv
<1>6. QED BY <1>1, <1>3, <1>4, <1>5

\* binit
LEMMA BioInitInv == Init => BioInv
<1> SUFFICES ASSUME Init PROVE BioInv
  OBVIOUS
<1>0. NBUF \in Nat /\ NoBlock \notin Block
  BY BioAssumption, Zenon
<1>1. TypeOK
  <2>1. lru \in [1..NBUF -> Buf]
    BY <1>0 DEF Init, Buf
  <2>2. content \in [Block -> Val] /\ data \in [Buf -> Val] /\ idequeue \in Seq(Buf)
    BY DEF Init
  <2>3. QED BY <2>1, <2>2, Zenon DEF Init, TypeOK
<1>2. OneBuffer /\ Coherent /\ Exclusive /\ NotRecycled
  BY <1>0, Zenon DEF Init, OneBuffer, Coherent, Exclusive, NotRecycled, Using
<1>3. NoLeak
  <2>1. \A b \in Buf : {p \in Caller : buf[p] = b} = {}
    BY DEF Init, NoBuf, Buf
  <2>2. Cardinality({}) = 0
    BY FS_EmptySet, Zenon
  <2>3. QED BY <2>1, <2>2, Zenon DEF Init, NoLeak
<1>4. HoldInv /\ LockInv /\ WakeInv /\ FlagInv /\ QueueInv
  BY DEF Init, HoldInv, Hold, LockInv, WakeInv, FlagInv, QueueInv
<1>5. LruInv
  <2> SUFFICES ASSUME NEW b \in Buf PROVE \E i \in 1..NBUF : lru[i] = b
    BY DEF LruInv
  <2>1. NBUF + 1 - b \in 1..NBUF /\ NBUF + 1 - (NBUF + 1 - b) = b
    BY <1>0 DEF Buf
  <2>2. QED BY <2>1 DEF Init
<1>6. QED BY <1>1, <1>2, <1>3, <1>4, <1>5 DEF BioInv

\* What the invariant says of the queue, in the words of QueueServes.
LEMMA QueueCounts == BioInv => QueueServes
<1> SUFFICES ASSUME BioInv PROVE QueueServes
  BY Zenon
<1>1. ASSUME NEW b \in Buf
      PROVE  Cardinality({i \in 1..Len(idequeue) : idequeue[i] = b}) =
               IF \E p \in Caller : pc[p] = "io" /\ buf[p] = b THEN 1 ELSE 0
  <2>1. CASE \E p \in Caller : pc[p] = "io" /\ buf[p] = b
    <3>1. PICK i \in 1..Len(idequeue) : idequeue[i] = b
      BY <2>1, ZenonT(30) DEF BioInv, QueueInv
    <3>2. {j \in 1..Len(idequeue) : idequeue[j] = b} = {i}
      BY <3>1, Zenon DEF BioInv, QueueInv
    <3>3. QED BY <2>1, <3>2, FS_Singleton, Zenon
  <2>2. CASE ~\E p \in Caller : pc[p] = "io" /\ buf[p] = b
    <3>1. {j \in 1..Len(idequeue) : idequeue[j] = b} = {}
      BY <2>2 DEF BioInv, QueueInv
    <3>2. QED BY <2>2, <3>1, FS_EmptySet, Zenon
  <2>3. QED BY <2>1, <2>2, Zenon
<1>2. QED BY <1>1 DEF BioInv, WakeInv, QueueServes

\* Every step of bget, acquiresleep, iderw, ideintr, releasesleep and brelse keeps the
\* invariant.
THEOREM BioInvHolds == Spec => []BioInv
<1>1. BioInv /\ [Next]_vars => BioInv'
  <2> SUFFICES ASSUME BioInv, [Next]_vars PROVE BioInv'
    BY Zenon
  <2>1. CASE UNCHANGED vars
    <3>1. UNCHANGED <<blockno, valid, dirty, refcnt, locked, data, lru, idequeue, disk, pc, buf, want, content>>
      BY <2>1, Zenon DEF vars, bufs
    <3>2. TypeOK'
      BY <3>1, Zenon DEF BioInv, TypeOK
    <3>3. (OneBuffer /\ NotRecycled /\ NoLeak /\ LruInv)' /\ Coherent'
      BY <3>1, ListSame, DataSame, Zenon
    <3>4. (Exclusive /\ LockInv /\ WakeInv)'
      BY <3>1, UseSame, Zenon DEF Using
    <3>5. HoldInv'
      BY <3>1, Zenon DEF BioInv, HoldInv, Hold
    <3>6. FlagInv' /\ QueueInv'
      BY <3>1, FlagSame, QueueSame, Zenon
    <3>7. QED BY <3>2, <3>3, <3>4, <3>5, <3>6, Zenon DEF BioInv
  <2>2. CASE Next
    BY <2>2, InterruptInv, GetInv, AcquireInv, BreadInv, ModifyInv, LogWriteInv, BwriteInv,
      ReleaseInv, BrelseInv DEF Next
  <2>3. QED BY <2>1, <2>2
<1>2. QED BY BioInitInv, <1>1, PTL DEF Spec

\* The buffer cache keeps its promises: one synchronised copy of each block, held by one
\* caller at a time, never recycled or leaked under its users.
THEOREM BioCorrect == Spec => []BuffersExact
<1>1. BioInv => BuffersExact
  BY QueueCounts DEF BioInv, BuffersExact
<1>2. QED BY <1>1, BioInvHolds, PTL
=============================================================================
