------------------------------- MODULE Memory -------------------------------
(***************************************************************************)
(* Physical pages and address spaces: kalloc.c, the user part of vm.c,     *)
(* growproc and the memory of fork, exec, exit and wait.                   *)
(*                                                                         *)
(* An operation works on an address space that only its process uses, so   *)
(* it is one step.  Other processes show in one way: the pages they hold   *)
(* meanwhile.  So each operation gets a number of pages, left, after which *)
(* kalloc fails; it may be anything up to the number of free pages.  Sizes *)
(* are uints (modulo 2 * KERNBASE) in bytes, PGSIZE to a page; which of    *)
(* the free pages kalloc returns does not matter, it takes the least.      *)
(***************************************************************************)
EXTENDS Integers, FiniteSets, Sequences, SequencesExt

CONSTANTS
  Slots,            \* process slots, 1 is the first process
  NPAGES,           \* physical pages
  PGSIZE, KERNBASE,
  NPTE,             \* page table entries per page table page
  Growth,           \* bound: the n of sbrk
  Images            \* bound: programs, as sequences of segment ends (vaddr + memsz)

VARIABLES free,     \* kmem.freelist
          mem       \* per slot: state, kernel stack, address space, sz

mvars == <<free, mem>>

Pages == 1..NPAGES
Pg(n) == (n + PGSIZE - 1) \div PGSIZE             \* PGROUNDUP, in pages
UserPages == 0..Pg(KERNBASE)-1
Tables == {k \div NPTE : k \in UserPages}
UInt(n) == n % (2 * KERNBASE)

\* An address space: page directory, page table of the kernel, page tables, user pages.
NoSpace == [dir |-> 0, kpt |-> 0, pt |-> [t \in Tables |-> 0], map |-> [k \in UserPages |-> 0]]
PagesOf(as) == ({as.dir, as.kpt} \cup Range(as.pt) \cup Range(as.map)) \ {0}

-----------------------------------------------------------------------------
(* Functions of s: the free pages, the pages left to this operation, the   *)
(* address space it works on, the page kalloc returned and whether the     *)
(* last call worked.  allocuvm and deallocuvm leave their result in s.sz.  *)

kalloc(s) ==
  IF s.left = 0 THEN [s EXCEPT !.got = 0, !.ok = FALSE]
  ELSE [s EXCEPT !.got = Min(s.free), !.free = @ \ {Min(s.free)}, !.left = @ - 1]

kfree(s, pages) == [s EXCEPT !.free = @ \cup (pages \ {0})]

\* The page table of page k, allocated if it is missing.
walkpgdir(s, k) ==
  IF s.as.pt[k \div NPTE] # 0 THEN s
  ELSE LET t == kalloc(s) IN [t EXCEPT !.as.pt[k \div NPTE] = t.got]

mappages(s, k, page) ==
  LET t == walkpgdir(s, k) IN IF t.ok THEN [t EXCEPT !.as.map[k] = page] ELSE t

freevm(s) == [kfree(s, PagesOf(s.as)) EXCEPT !.as = NoSpace]

setupkvm(s) ==
  LET d == kalloc([s EXCEPT !.as = NoSpace])
      k == kalloc([d EXCEPT !.as.dir = d.got])
  IN IF ~d.ok THEN d ELSE IF ~k.ok THEN freevm(k) ELSE [k EXCEPT !.as.kpt = k.got]

\* The pages that deallocuvm frees: newsz is rounded up.
Gone(oldsz, newsz) == {k \in UserPages : Pg(newsz) <= k /\ k < Pg(oldsz)}

Unmap(s, gone) == [k \in UserPages |-> IF k \in gone THEN 0 ELSE s.as.map[k]]

\* A version that leaves the page table entries as they are.
deallocuvm_stale(s, oldsz, newsz) ==
  IF newsz >= oldsz THEN [s EXCEPT !.sz = oldsz]
  ELSE [kfree(s, {s.as.map[k] : k \in Gone(oldsz, newsz)}) EXCEPT !.sz = newsz]
deallocuvm(s, oldsz, newsz) ==
  IF newsz >= oldsz THEN [s EXCEPT !.sz = oldsz]
  ELSE [kfree(s, {s.as.map[k] : k \in Gone(oldsz, newsz)}) EXCEPT
          !.as.map = Unmap(s, Gone(oldsz, newsz)), !.sz = newsz]

\* One round of allocuvm, and a version that drops the page when mappages fails.
AllocPage_drop(s, k) ==
  LET t == kalloc(s) IN IF s.ok /\ t.ok THEN mappages(t, k, t.got) ELSE t
AllocPage(s, k) ==
  LET t == kalloc(s)
      u == mappages(t, k, t.got)
  IN CASE ~s.ok -> s
       [] s.ok /\ ~t.ok -> t
       [] s.ok /\ t.ok -> IF u.ok THEN u ELSE kfree(u, {t.got})

PageSeq(lo, hi) == [i \in 1..(hi - lo) |-> lo + i - 1]

allocuvm(s, oldsz, newsz) ==
  LET t == FoldLeft(AllocPage, s, PageSeq(Pg(oldsz), Pg(newsz))) IN
  CASE newsz >= KERNBASE -> [s EXCEPT !.sz = 0]
    [] newsz < oldsz -> [s EXCEPT !.sz = oldsz]
    [] OTHER -> IF t.ok THEN [t EXCEPT !.sz = newsz]
                ELSE [deallocuvm(t, newsz, oldsz) EXCEPT !.sz = 0]

\* One round of copyuvm: it does not free the page that mappages could not map.
CopyPage(s, k) ==
  LET t == kalloc(s) IN
  IF ~s.ok THEN s ELSE IF ~t.ok THEN t ELSE mappages(t, k, t.got)

copyuvm(s, sz) ==
  LET t == FoldLeft(CopyPage, setupkvm(s), PageSeq(0, Pg(sz))) IN
  IF t.ok \/ t.as = NoSpace THEN t ELSE freevm(t)

\* One call of allocuvm in exec: a result of 0 is an error.
ExecAlloc(s, newsz) ==
  LET t == allocuvm(s, s.sz, newsz) IN IF s.ok THEN [t EXCEPT !.ok = t.sz # 0] ELSE s

\* exec's segments, then at the next page boundary a guard page and a stack page.
LoadImage(s, image) ==
  LET t == FoldLeft(ExecAlloc, s, image)
      top == Pg(t.sz) * PGSIZE
  IN ExecAlloc([t EXCEPT !.sz = top], top + 2 * PGSIZE)

-----------------------------------------------------------------------------
NoProc == [state |-> "UNUSED", kstack |-> 0, as |-> NoSpace, sz |-> 0]

\* What an operation of process p starts from, when kalloc will work n times.
Work(p, n) == [free |-> free, left |-> n, as |-> mem[p].as, got |-> 0, ok |-> TRUE, sz |-> 0]
Budget == 0..Cardinality(free)

\* userinit: the first process has one page.
MemInit ==
  LET s == [free |-> Pages, left |-> NPAGES, as |-> NoSpace, got |-> 0, ok |-> TRUE, sz |-> 0]
      k == kalloc(s)
      u == allocuvm(setupkvm(k), 0, PGSIZE)
  IN /\ free = u.free
     /\ mem = [[p \in Slots |-> NoProc] EXCEPT
                 ![1] = [state |-> "LIVE", kstack |-> k.got, as |-> u.as, sz |-> u.sz]]

\* A process that has no page left faults on its next instruction: trap kills it.
Runs(p) == mem[p].state = "LIVE" /\ Range(mem[p].as.map) # {0}

\* fork: allocproc's kernel stack, then the copy; either may fail.
MemFork(p, c) ==
  /\ Runs(p)
  /\ mem[c].state = "UNUSED"
  /\ \E n \in Budget :
       LET k == kalloc(Work(p, n))
           s == copyuvm(k, mem[p].sz)
       IN IF ~k.ok THEN UNCHANGED mvars
          ELSE IF ~s.ok THEN free' = s.free \cup {k.got} /\ UNCHANGED mem
          ELSE /\ free' = s.free
               /\ mem' = [mem EXCEPT ![c] = [state |-> "LIVE", kstack |-> k.got, as |-> s.as,
                                             sz |-> mem[p].sz]]

\* exec, which may also fail to read the header, a segment, or to push the arguments;
\* readable is FALSE then.  The old image goes only when the new one is complete.
MemExec(p) ==
  /\ Runs(p)
  /\ \E n \in Budget, image \in Images, readable \in BOOLEAN :
       LET d == setupkvm(Work(p, n))
           s == LoadImage(d, image)
       IN IF ~d.ok THEN free' = d.free /\ UNCHANGED mem
          ELSE IF ~s.ok \/ ~readable THEN free' = freevm(s).free /\ UNCHANGED mem
          ELSE /\ free' = s.free \cup PagesOf(mem[p].as)
               /\ mem' = [mem EXCEPT ![p].as = s.as, ![p].sz = s.sz]

\* sbrk: growproc(n).  A new size of 0 counts as an error, after the pages have gone.
growproc(p) ==
  /\ Runs(p)
  /\ \E n \in Budget, more \in Growth :
       LET sz == mem[p].sz
           s == IF more > 0 THEN allocuvm(Work(p, n), sz, UInt(sz + more))
                ELSE deallocuvm(Work(p, n), sz, UInt(sz + more))
       IN /\ free' = s.free
          /\ mem' = [mem EXCEPT ![p].as = s.as, ![p].sz = IF s.sz = 0 THEN @ ELSE s.sz]

\* exit keeps the memory, wait frees it.
MemExit(p) ==
  /\ p # 1
  /\ mem[p].state = "LIVE"
  /\ mem' = [mem EXCEPT ![p].state = "ZOMBIE"]
  /\ UNCHANGED free

MemWait(c) ==
  /\ mem[c].state = "ZOMBIE"
  /\ free' = free \cup {mem[c].kstack} \cup PagesOf(mem[c].as)
  /\ mem' = [mem EXCEPT ![c] = NoProc]

MemNext ==
  \E p \in Slots : \/ MemExec(p) \/ growproc(p) \/ MemExit(p) \/ MemWait(p)
                   \/ \E c \in Slots : MemFork(p, c)

-----------------------------------------------------------------------------
\* Every place that refers to a physical page, with the page.
Uses ==
  {u \in UNION {{<<p, "kstack", 0, mem[p].kstack>>, <<p, "dir", 0, mem[p].as.dir>>,
                 <<p, "kpt", 0, mem[p].as.kpt>>}
                \cup {<<p, "pt", t, mem[p].as.pt[t]>> : t \in Tables}
                \cup {<<p, "map", k, mem[p].as.map[k]>> : k \in UserPages} : p \in Slots} :
     u[4] # 0}
Used == UNION {{mem[p].kstack} \cup PagesOf(mem[p].as) : p \in Slots}

\* No page is in use twice, and no page in use is on kalloc's free list, whichever calls
\* of kalloc fail in the middle of allocuvm, copyuvm, setupkvm, exec, fork and growproc.
PageOnce == Cardinality(Uses) = Cardinality(Used \ {0}) /\ Used \cap free = {}

\* A process that runs has all the pages below its sz and none above: copyuvm and loaduvm
\* find every page present and mappages maps none twice, their panics are unreachable.
SzMapped ==
  \A p \in Slots : Runs(p) =>
    \A k \in UserPages : mem[p].as.map[k] # 0 <=> k < Pg(mem[p].sz)

Lost == Pages \ (free \cup Used)

\* Pages are lost in one case only: a fork that fails, which loses at most one (copyuvm
\* does not free the page that mappages could not map).  No other failure loses a page.
LostInFork ==
  [][/\ Lost \subseteq Lost'
     /\ Lost' # Lost => /\ mem' = mem /\ Cardinality(Lost' \ Lost) = 1
                        /\ \E p, c \in Slots : MemFork(p, c)]_mvars

\* Every page is in one place, and what lies below sz is mapped, after any sequence of
\* fork, sbrk, exec and exit, those that run out of memory included.
PagesExact == PageOnce /\ SzMapped
=============================================================================
