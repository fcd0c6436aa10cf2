-------------------------------- MODULE Boot --------------------------------
(***************************************************************************)
(* How the kernel brings the processors up (main.c, mp.c, entryother.S,    *)
(* lapicstartap): the boot processor hands each of the others its stack in *)
(* one word of memory below the entry code, while they run on their own.   *)
(***************************************************************************)
EXTENDS Naturals, Sequences, FiniteSets

CONSTANTS
  MPTables,     \* configuration tables: sequences of "other", "unknown" and APIC ids
  NCPU,
  LowPages,     \* pages that entrypgdir maps, free after kinit1()
  HighPages,    \* the ones kinit2() frees
  NoPage

VARIABLES
  entries,      \* what mpinit() has still to read
  mptable,      \* the whole table
  bsp,          \* APIC id of the boot processor
  cpus,         \* sequence of [apicid, started]
  at,           \* where the boot processor is
  c,            \* startothers()'s index
  pages,        \* the free pages, in the order kalloc() takes them
  word,         \* the stack at code-4
  ap            \* per APIC id: where that processor is, and its stack

bvars == <<entries, mptable, bsp, cpus, at, c, pages, word, ap>>

Ids(t) == {t[i] : i \in DOMAIN t} \ {"other", "unknown"}
mycpu(id) == CHOOSE i \in DOMAIN cpus : cpus[i].apicid = id

\* The pages kinit1() frees.
kinit1 == LowPages

BootInit ==
  /\ mptable \in MPTables /\ entries = mptable
  /\ bsp \in Ids(mptable) /\ bsp = mptable[CHOOSE i \in DOMAIN mptable : mptable[i] \in Ids(mptable)
                                         /\ \A j \in 1..i-1 : mptable[j] \notin Ids(mptable)]
  /\ cpus = <<>> /\ at = "mpinit" /\ c = 1
  /\ pages = kinit1 /\ word = NoPage
  /\ ap = [i \in Ids(mptable) |-> [at |-> "halted", stack |-> NoPage]]

\* An entry of the table.  On one of an unknown type the loop never gets further.
MpEntry ==
  /\ at = "mpinit" /\ entries # <<>> /\ Head(entries) # "unknown"
  /\ entries' = Tail(entries)
  /\ cpus' = IF Head(entries) # "other" /\ Len(cpus) < NCPU
             THEN Append(cpus, [apicid |-> Head(entries), started |-> 0]) ELSE cpus
  /\ UNCHANGED <<mptable, bsp, at, c, pages, word, ap>>

mpinit ==
  /\ at = "mpinit" /\ entries = <<>>
  /\ at' = "startothers"
  /\ UNCHANGED <<entries, mptable, bsp, cpus, c, pages, word, ap>>

SkipSelf ==
  /\ at = "startothers" /\ c <= Len(cpus) /\ c = mycpu(bsp)
  /\ c' = c + 1
  /\ UNCHANGED <<entries, mptable, bsp, cpus, at, pages, word, ap>>

lapicstartap(id) == [ap EXCEPT ![id].at = IF @ = "halted" THEN "entry" ELSE @]

startothers ==
  /\ at = "startothers" /\ c <= Len(cpus) /\ c # mycpu(bsp)
  /\ word' = Head(pages) /\ pages' = Tail(pages)
  /\ ap' = lapicstartap(cpus[c].apicid)
  /\ at' = "wait"
  /\ UNCHANGED <<entries, mptable, bsp, cpus, c>>

\* Waiting for the processor, and a version that only sends it on its way.
Started_sent == ap[cpus[c].apicid].at # "halted"
Started == cpus[c].started # 0

WaitStarted ==
  /\ at = "wait" /\ Started
  /\ c' = c + 1 /\ at' = "startothers"
  /\ UNCHANGED <<entries, mptable, bsp, cpus, pages, word, ap>>

kinit2 ==
  /\ at = "startothers" /\ c > Len(cpus)
  /\ pages' = HighPages \o pages
  /\ at' = "userinit"
  /\ UNCHANGED <<entries, mptable, bsp, cpus, c, word, ap>>

\* userinit(), and then mpmain() for this processor.
BootScheduler ==
  /\ at = "userinit"
  /\ at' = "scheduler"
  /\ cpus' = [cpus EXCEPT ![mycpu(bsp)].started = 1]
  /\ UNCHANGED <<entries, mptable, bsp, c, pages, word, ap>>

\* entryother.S: on entrypgdir, the stack comes from the word.
entryother(i) ==
  /\ ap[i].at = "entry"
  /\ ap' = [ap EXCEPT ![i] = [at |-> "mpenter", stack |-> word]]
  /\ UNCHANGED <<entries, mptable, bsp, cpus, at, c, pages, word>>

\* mpenter() moves to the kernel's page table.
mpenter(i) ==
  /\ ap[i].at = "mpenter"
  /\ ap' = [ap EXCEPT ![i].at = "mpmain"]
  /\ UNCHANGED <<entries, mptable, bsp, cpus, at, c, pages, word>>

\* What mpmain() stores.
Told(i) == [cpus EXCEPT ![mycpu(i)].started = 1]

mpmain(i) ==
  /\ ap[i].at = "mpmain"
  /\ cpus' = Told(i)
  /\ ap' = [ap EXCEPT ![i].at = "scheduler"]
  /\ UNCHANGED <<entries, mptable, bsp, at, c, pages, word>>

BspStep == MpEntry \/ mpinit \/ SkipSelf \/ startothers \/ WaitStarted \/ kinit2 \/ BootScheduler
ApStep(i) == entryother(i) \/ mpenter(i) \/ mpmain(i)
BootNext == BspStep \/ \E i \in Ids(mptable) : ApStep(i)

-----------------------------------------------------------------------------
\* Every processor that has left the entry code has a stack of its own, a page that is
\* not free, though all of them read it from the same word.
OwnStack ==
  \A i \in Ids(mptable) : ap[i].at \in {"mpenter", "mpmain", "scheduler"} =>
    /\ ap[i].stack \notin {pages[k] : k \in DOMAIN pages} \cup {NoPage}
    /\ \A j \in Ids(mptable) \ {i} : ap[j].stack # ap[i].stack

\* A processor on the entry page table has its stack in the memory that table maps.
StackMapped ==
  \A i \in Ids(mptable) : ap[i].at = "mpenter" => \E k \in DOMAIN LowPages : LowPages[k] = ap[i].stack

\* A table without entries of unknown type has been found, and some processor that
\* mpinit() records is not in its scheduler yet.
Booting ==
  /\ "unknown" \notin {mptable[i] : i \in DOMAIN mptable}
  /\ \/ at # "scheduler"
     \/ \E i \in DOMAIN cpus : cpus[i].apicid # bsp /\ ap[cpus[i].apicid].at # "scheduler"

\* startothers() hands every processor a mapped stack of its own, though all of them read
\* it from the same word below the entry code.
StacksReady == OwnStack /\ StackMapped
=============================================================================
