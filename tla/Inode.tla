------------------------------- MODULE Inode -------------------------------
(***************************************************************************)
(* The inode cache and the directories of fs.c under the system calls of   *)
(* sysfile.c that name files: open, mkdir, mknod, link, unlink, chdir, and *)
(* the close of an open file.                                              *)
(*                                                                         *)
(* A process runs the instructions in proc[p].code.  An instruction takes  *)
(* one inode lock and runs up to the next lock it waits for, or to the     *)
(* next access to a reference count, so that processes interleave where    *)
(* fs.c lets them.  A cache entry is named by its inode number: iget never *)
(* makes two entries for one inode.  The contents of files are in Content, *)
(* the transaction around each call is in Log.                             *)
(***************************************************************************)
EXTENDS Integers, Sequences, FiniteSets, FiniteSetsExt

CONSTANTS
  Process, NoProc,
  NINODES,          \* the inodes of the disk
  Name,             \* names of directory entries besides "." and ".."
  Calls, MaxCalls,  \* bound: the system calls the programs make, and how many
  Paths, OldPaths   \* bound: the path names they use, and link for the old name

VARIABLES
  disk,             \* the inodes on disk, with the entries of directories
  inode,            \* the cache, with the holder of each lock
  proc,             \* per process: cwd, one open file, the rest of its call,
                    \* the inode namex is at, and the locals ip, dp and name
  panic,            \* ialloc: no inodes
  left              \* the calls that may still be made

other == <<panic, left>>
vars == <<disk, inode, proc, other>>

Inum == 1..NINODES
ROOTINO == 1
Dots == {".", ".."}
NoEnts == [n \in Name \cup Dots |-> 0]
NoInode == [type |-> "none", nlink |-> 0, ents |-> NoEnts]
NoEntry == [ref |-> 0, valid |-> FALSE, type |-> "none", nlink |-> 0, lock |-> NoProc]
DirEnts(i, d) == [NoEnts EXCEPT !["."] = i, ![".."] = d]

Init ==
  /\ disk = [i \in Inum |-> IF i # ROOTINO THEN NoInode
               ELSE [type |-> "dir", nlink |-> 1, ents |-> DirEnts(ROOTINO, ROOTINO)]]
  /\ inode = [i \in Inum |-> IF i # ROOTINO THEN NoEntry
                ELSE [NoEntry EXCEPT !.ref = Cardinality(Process)]]
  /\ proc = [p \in Process |-> [cwd |-> ROOTINO, file |-> 0, code |-> <<>>,
                                at |-> 0, ip |-> 0, dp |-> 0, name |-> "."]]
  /\ panic = FALSE /\ left = MaxCalls

-----------------------------------------------------------------------------
iget(e) == IF e.ref > 0 THEN [e EXCEPT !.ref = @ + 1] ELSE [NoEntry EXCEPT !.ref = 1]

\* What ilock(i) finds or reads into the cache, and whether it can; it panics on a free inode.
ilock(i) == IF inode[i].valid THEN inode[i]
            ELSE [inode[i] EXCEPT !.valid = TRUE, !.type = disk[i].type, !.nlink = disk[i].nlink]
CanLock(i) == inode[i].lock = NoProc /\ (inode[i].valid \/ disk[i].type # "none")

iupdate(d, e) == [d EXCEPT !.type = e.type, !.nlink = e.nlink]
Linked(e, n) == [e EXCEPT !.nlink = @ + n]
Hold(e, p) == [e EXCEPT !.lock = p]

Op(p) == Head(proc[p].code)
Rest(p) == Tail(proc[p].code)
Runs(p, op) == ~panic /\ proc[p].code # <<>> /\ Op(p)[1] = op
Goto(p, c) == proc' = [proc EXCEPT ![p].code = c]
Put(i) == <<"iput", i>>

\* The inode whose lock the next instruction takes, 0 for none.
Wants(p) ==
  CASE proc[p].code = <<>> -> 0
    [] Op(p)[1] = "iput" -> Op(p)[2]
    [] Op(p)[1] = "namex" -> IF Op(p)[2] = <<>> THEN 0 ELSE proc[p].at
    [] Op(p)[1] \in {"create", "dirlink", "unlink"} -> proc[p].dp
    [] Op(p)[1] \in {"createold", "open", "chdir", "link", "linkbad", "unlinkip"} -> proc[p].ip
    [] OTHER -> 0

\* The test of iput, its freeing of the inode, and the reference it drops.
\* A version of it that ignores the other references.
Unused_shared(e) == e.valid /\ e.nlink = 0
Unused(e) == e.valid /\ e.nlink = 0 /\ e.ref = 1

iput(p) ==
  /\ Runs(p, "iput") /\ inode[Op(p)[2]].lock = NoProc
  /\ LET i == Op(p)[2] IN
     \/ /\ Unused(inode[i])
        /\ inode' = [inode EXCEPT ![i] = Hold(@, p)]
        /\ Goto(p, <<<<"ifree", i>>>> \o Rest(p))
     \/ /\ ~Unused(inode[i])
        /\ Goto(p, <<<<"iref", i>>>> \o Rest(p)) /\ UNCHANGED inode
  /\ UNCHANGED <<disk, other>>

Freed(e) == [e EXCEPT !.type = "none", !.valid = FALSE, !.lock = NoProc]

ifree(p) ==                                       \* itrunc, type = 0, iupdate
  /\ Runs(p, "ifree")
  /\ LET i == Op(p)[2] IN
     /\ disk' = [disk EXCEPT ![i] = NoInode]
     /\ inode' = [inode EXCEPT ![i] = Freed(@)]
     /\ Goto(p, <<<<"iref", i>>>> \o Rest(p))
  /\ UNCHANGED other

iref(p) ==
  /\ Runs(p, "iref")
  /\ inode' = [inode EXCEPT ![Op(p)[2]] = IF @.ref = 1 THEN NoEntry ELSE [@ EXCEPT !.ref = @ - 1]]
  /\ Goto(p, Rest(p)) /\ UNCHANGED <<disk, other>>

-----------------------------------------------------------------------------
(* namex: one step per element of the path, from ilock to iunlock.         *)

Start(p, path) == IF path.abs THEN ROOTINO ELSE proc[p].cwd

\* What a failed call still does: link takes its new link back.
Fail(p) == IF proc[p].ip # 0 THEN <<<<"linkbad">>>> ELSE <<>>

\* The iput after each element.
NamexPut(i) == <<Put(i)>>

namex(p) ==
  /\ Runs(p, "namex") /\ Op(p)[2] # <<>> /\ CanLock(proc[p].at)
  /\ LET i == proc[p].at
         elem == Head(Op(p)[2])
         rest == Tail(Op(p)[2])
         f == [inode EXCEPT ![i] = ilock(i)]
         isdir == f[i].type = "dir"
         stop == Op(p)[3] /\ rest = <<>>                 \* one level early
         next == disk[i].ents[elem]
     IN
     \/ /\ isdir /\ ~stop /\ next # 0
        /\ inode' = [f EXCEPT ![next] = iget(@)]
        /\ proc' = [proc EXCEPT ![p].at = next,
             ![p].code = NamexPut(i) \o <<<<"namex", rest, Op(p)[3]>>>> \o Rest(p)]
     \/ /\ isdir /\ stop
        /\ inode' = f
        /\ proc' = [proc EXCEPT ![p].at = 0, ![p].dp = i, ![p].name = elem, ![p].code = Rest(p)]
     \/ /\ ~isdir \/ (~stop /\ next = 0)
        /\ inode' = f
        /\ proc' = [proc EXCEPT ![p].at = 0, ![p].code = NamexPut(i) \o Fail(p)]
  /\ UNCHANGED <<disk, other>>

NamexEnd(p) ==                                         \* the path is used up
  /\ Runs(p, "namex") /\ Op(p)[2] = <<>>
  /\ LET i == proc[p].at IN
     proc' = IF Op(p)[3] THEN [proc EXCEPT ![p].at = 0, ![p].code = <<Put(i)>> \o Fail(p)]
             ELSE [proc EXCEPT ![p].at = 0, ![p].ip = i, ![p].code = Rest(p)]
  /\ UNCHANGED <<disk, inode, other>>

-----------------------------------------------------------------------------
(* create, with ialloc and dirlink; open, mkdir, mknod and chdir.          *)

Entry(p) == disk[proc[p].dp].ents[proc[p].name]        \* dirlookup
LockedDir(p) == [inode EXCEPT ![proc[p].dp] = ilock(proc[p].dp)]
NoDir(pr, p) == [pr EXCEPT ![p].dp = 0, ![p].name = "."]

CreateOld(p) ==                                        \* the name exists
  /\ Runs(p, "create") /\ CanLock(proc[p].dp) /\ Entry(p) # 0
  /\ inode' = [LockedDir(p) EXCEPT ![Entry(p)] = iget(@)]
  /\ proc' = NoDir([proc EXCEPT ![p].ip = Entry(p),
       ![p].code = <<Put(proc[p].dp), <<"createold", Op(p)[2]>>>> \o Rest(p)], p)
  /\ UNCHANGED <<disk, other>>

\* Lock ip and go on if ok, drop it otherwise.
LockOrPut(p, ok) ==
  LET i == proc[p].ip IN
  /\ inode' = [inode EXCEPT ![i] = IF ok THEN Hold(ilock(i), p) ELSE ilock(i)]
  /\ proc' = IF ok THEN [proc EXCEPT ![p].code = Rest(p)]
             ELSE [proc EXCEPT ![p].code = <<Put(i)>>, ![p].ip = 0]
  /\ UNCHANGED <<disk, other>>

CreateReuse(p) ==
  /\ Runs(p, "createold") /\ CanLock(proc[p].ip)
  /\ LockOrPut(p, Op(p)[2] = "file" /\ ilock(proc[p].ip).type = "file")

OpenLock(p) ==
  /\ Runs(p, "open") /\ CanLock(proc[p].ip)
  /\ LockOrPut(p, ilock(proc[p].ip).type = "dir" => Op(p)[2] = "O_RDONLY")

\* The first free inode; the link that the ".." of a directory is.
Free(i) == disk[i].type = "none" /\ \A j \in 1..i-1 : disk[j].type # "none"
DotDot(type) == IF type = "dir" THEN 1 ELSE 0

CreateNew(p) ==
  /\ Runs(p, "create") /\ CanLock(proc[p].dp) /\ Entry(p) = 0
  /\ \/ (\A i \in Inum : ~Free(i)) /\ panic' = TRUE /\ UNCHANGED <<disk, inode, proc, left>>
     \/ \E i \in Inum :
        LET d == proc[p].dp
            type == Op(p)[2]
            got == iget(inode[i])
            new == IF got.valid THEN [got EXCEPT !.nlink = 1]    \* ialloc wrote type to disk
                   ELSE [got EXCEPT !.valid = TRUE, !.type = type, !.nlink = 1]
            dir == Linked(ilock(d), DotDot(type))
        IN
        /\ Free(i) /\ inode[i].lock = NoProc
        /\ inode' = [inode EXCEPT ![i] = Hold(new, p), ![d] = dir]
        /\ disk' = [disk EXCEPT
             ![i] = [type |-> new.type, nlink |-> new.nlink,
                     ents |-> IF type = "dir" THEN DirEnts(i, d) ELSE NoEnts],
             ![d] = [iupdate(@, dir) EXCEPT !.ents[proc[p].name] = i]]
        /\ proc' = NoDir([proc EXCEPT ![p].ip = i,
             ![p].code = <<Put(d)>> \o Rest(p)], p)      \* iunlockput(dp), ip locked
        /\ UNCHANGED other

\* iunlock(ip), and the reference goes to the descriptor, or is dropped.
sys_open(p) ==
  /\ Runs(p, "sys_open") \/ Runs(p, "iunlockput")
  /\ inode' = [inode EXCEPT ![proc[p].ip] = Hold(@, NoProc)]
  /\ proc' = IF Op(p)[1] = "sys_open" /\ proc[p].file = 0
             THEN [proc EXCEPT ![p].file = proc[p].ip, ![p].ip = 0, ![p].code = <<>>]
             ELSE [proc EXCEPT ![p].ip = 0, ![p].code = <<Put(proc[p].ip)>>]
  /\ UNCHANGED <<disk, other>>

\* cwd is read by its own process only, so it may change before the iput.
sys_chdir(p) ==
  /\ Runs(p, "chdir") /\ CanLock(proc[p].ip)
  /\ LET i == proc[p].ip IN
     /\ inode' = [inode EXCEPT ![i] = ilock(i)]
     /\ proc' = IF ilock(i).type = "dir"
                THEN [proc EXCEPT ![p].cwd = i, ![p].ip = 0, ![p].code = <<Put(proc[p].cwd)>>]
                ELSE [proc EXCEPT ![p].ip = 0, ![p].code = <<Put(i)>>]
  /\ UNCHANGED <<disk, other>>

-----------------------------------------------------------------------------
(* link and unlink.                                                        *)

\* iunlock(ip) before link looks up the new name, and a version without it.
LinkUnlock_not(e, p) == Hold(e, p)
LinkUnlock(e, p) == Hold(e, NoProc)

sys_link(p) ==
  /\ Runs(p, "link") /\ CanLock(proc[p].ip)
  /\ LET i == proc[p].ip
         new == Op(p)[2]
         e == Linked(ilock(i), 1)
         s == Start(p, new)
     IN
     \/ /\ e.type = "dir"
        /\ inode' = [inode EXCEPT ![i] = ilock(i)]
        /\ proc' = [proc EXCEPT ![p].ip = 0, ![p].code = <<Put(i)>>]
        /\ UNCHANGED disk
     \/ /\ e.type # "dir"
        /\ disk' = [disk EXCEPT ![i] = iupdate(@, e)]
        /\ inode' = [[inode EXCEPT ![i] = LinkUnlock(e, p)] EXCEPT ![s] = iget(@)]
        /\ proc' = [proc EXCEPT ![p].at = s,
             ![p].code = <<<<"namex", new.elems, TRUE>>, <<"dirlink">>>>]
  /\ UNCHANGED other

dirlink(p) ==
  /\ Runs(p, "dirlink") /\ CanLock(proc[p].dp)
  /\ LET d == proc[p].dp
         x == Entry(p)
     IN
     \/ /\ x # 0                                       \* iput(x) with dp locked
        /\ inode' = [[LockedDir(p) EXCEPT ![x] = iget(@)] EXCEPT ![d] = Hold(@, p)]
        /\ Goto(p, <<Put(x), <<"bad">>>>) /\ UNCHANGED disk
     \/ /\ x = 0
        /\ disk' = [disk EXCEPT ![d].ents[proc[p].name] = proc[p].ip]
        /\ inode' = LockedDir(p)
        /\ proc' = NoDir([proc EXCEPT ![p].ip = 0, ![p].code = <<Put(d), Put(proc[p].ip)>>], p)
  /\ UNCHANGED other

Bad(p) ==                                              \* iunlockput(dp)
  /\ Runs(p, "bad")
  /\ inode' = [inode EXCEPT ![proc[p].dp] = Hold(@, NoProc)]
  /\ proc' = NoDir([proc EXCEPT ![p].code = <<Put(proc[p].dp)>> \o Fail(p)], p)
  /\ UNCHANGED <<disk, other>>

\* ip->nlink--; iupdate(ip); iunlockput(ip), of link when it fails and of unlink.
Decrement(p) ==
  LET i == proc[p].ip
      e == Hold(Linked(ilock(i), -1), NoProc)
  IN
  /\ inode' = [inode EXCEPT ![i] = e]
  /\ disk' = [disk EXCEPT ![i] = iupdate(@, e)]
  /\ proc' = [proc EXCEPT ![p].ip = 0, ![p].code = <<Put(i)>>]
  /\ UNCHANGED other

LinkBad(p) == Runs(p, "linkbad") /\ CanLock(proc[p].ip) /\ Decrement(p)

sys_unlink(p) ==
  /\ Runs(p, "unlink") /\ CanLock(proc[p].dp)
  /\ LET d == proc[p].dp
         x == Entry(p)
     IN
     \/ /\ proc[p].name \in Dots \/ x = 0
        /\ inode' = LockedDir(p)
        /\ proc' = NoDir([proc EXCEPT ![p].code = <<Put(d)>>], p)
     \/ /\ proc[p].name \notin Dots /\ x # 0
        /\ inode' = [[LockedDir(p) EXCEPT ![x] = iget(@)] EXCEPT ![d] = Hold(@, p)]
        /\ proc' = [proc EXCEPT ![p].ip = x, ![p].code = <<<<"unlinkip">>>>]
  /\ UNCHANGED <<disk, other>>

isdirempty(i) == \A n \in Name : disk[i].ents[n] = 0

UnlinkEntry(p) ==
  /\ Runs(p, "unlinkip") /\ CanLock(proc[p].ip) /\ ilock(proc[p].ip).nlink >= 1
  /\ LET d == proc[p].dp
         i == proc[p].ip
         e == ilock(i)
         dir == Hold(Linked(inode[d], -DotDot(e.type)), NoProc)
     IN
     \/ /\ e.type = "dir" /\ ~isdirempty(i)
        /\ inode' = [inode EXCEPT ![i] = e]
        /\ proc' = [proc EXCEPT ![p].ip = 0, ![p].code = <<Put(i), <<"bad">>>>]
        /\ UNCHANGED disk
     \/ /\ e.type = "dir" => isdirempty(i)
        /\ inode' = [inode EXCEPT ![i] = Hold(e, p), ![d] = dir]
        /\ disk' = [disk EXCEPT ![d] = [iupdate(@, dir) EXCEPT !.ents[proc[p].name] = 0]]
        /\ proc' = NoDir([proc EXCEPT ![p].code = <<Put(d), <<"unlinkdec">>>>], p)
  /\ UNCHANGED other

UnlinkDec(p) == Runs(p, "unlinkdec") /\ Decrement(p)

-----------------------------------------------------------------------------
\* The instructions of a system call.
Code(call, path, new) ==
  LET parent == call \in {"unlink", "create", "mkdir", "mknod"} IN
  <<<<"namex", path.elems, parent>>>> \o
  CASE call = "link" -> <<<<"link", new>>>>
    [] call \in {"unlink", "chdir"} -> <<<<call>>>>
    [] call = "create" -> <<<<"create", "file">>, <<"sys_open">>>>
    [] call = "mkdir" -> <<<<"create", "dir">>, <<"iunlockput">>>>
    [] call = "mknod" -> <<<<"create", "dev">>, <<"iunlockput">>>>
    [] call \in {"O_RDONLY", "O_RDWR"} -> <<<<"open", call>>, <<"sys_open">>>>

Syscall(p, call, path, new) ==
  /\ ~panic /\ proc[p].code = <<>> /\ left > 0
  /\ inode' = [inode EXCEPT ![Start(p, path)] = iget(@)]
  /\ proc' = [proc EXCEPT ![p].at = Start(p, path), ![p].code = Code(call, path, new)]
  /\ left' = left - 1
  /\ UNCHANGED <<disk, panic>>

Close(p) ==
  /\ ~panic /\ proc[p].code = <<>> /\ proc[p].file # 0
  /\ proc' = [proc EXCEPT ![p].file = 0, ![p].code = <<Put(proc[p].file)>>]
  /\ UNCHANGED <<disk, inode, other>>

Step(p) ==
  \/ iput(p) \/ ifree(p) \/ iref(p) \/ namex(p) \/ NamexEnd(p)
  \/ CreateOld(p) \/ CreateReuse(p) \/ CreateNew(p) \/ OpenLock(p) \/ sys_open(p) \/ sys_chdir(p)
  \/ sys_link(p) \/ dirlink(p) \/ Bad(p) \/ LinkBad(p)
  \/ sys_unlink(p) \/ UnlinkEntry(p) \/ UnlinkDec(p)

Next ==
  \E p \in Process :
    \/ Step(p) \/ Close(p)
    \/ \E call \in Calls \ {"link"}, path \in Paths : Syscall(p, call, path, path)
    \/ "link" \in Calls /\ \E old \in OldPaths, new \in Paths : Syscall(p, "link", old, new)

Spec == Init /\ [][Next]_vars

-----------------------------------------------------------------------------
TypeOK ==
  \A i \in Inum :
    /\ disk[i].type \in {"none", "dir", "file", "dev"} /\ disk[i].nlink \in Nat
    /\ disk[i].ents \in [Name \cup Dots -> 0..NINODES]
    /\ inode[i].ref \in Nat /\ inode[i].lock \in Process \cup {NoProc}

\* The pointers process p holds to inode i: its directory and file, its locals,
\* and the references its next instructions drop.
Pointers(p, i) ==
  Cardinality({r \in {"cwd", "file", "at", "ip", "dp"} : proc[p][r] = i})
  + Cardinality({k \in DOMAIN proc[p].code :
                   proc[p].code[k][1] \in {"iput", "ifree", "iref"} /\ proc[p].code[k][2] = i})

\* ref counts the pointers to a cache entry: no path through namex, create, link,
\* unlink or their errors loses a reference or drops one twice.
RefExact ==
  \A i \in Inum : inode[i].ref = FoldSet(LAMBDA p, n : n + Pointers(p, i), 0, Process)

\* A valid copy in the cache is the inode on disk (the write-through that iupdate keeps), also
\* when the inode was freed and made again while the old entry was still referenced.
CacheCoherent ==
  \A i \in Inum : inode[i].valid =>
    inode[i].type = disk[i].type /\ inode[i].nlink = disk[i].nlink

\* A directory that an entry names; only its ".." counts as a link of the parent.
Listed(d) == d = ROOTINO \/ \E x \in Inum, n \in Name : disk[x].ents[n] = d
Links(i) == {l \in Inum \X Name : disk[l[1]].ents[l[2]] = i}
            \cup {l \in Inum \X {".."} : disk[l[1]].ents[l[2]] = i /\ Listed(l[1])}

\* Every entry of a directory is counted in the nlink of its inode, so that iput never
\* frees what a name still leads to.
LinksCounted == \A i \in Inum : Cardinality(Links(i)) <= disk[i].nlink

\* "iput() frees if the reference and link counts have fallen to zero" (fs.c): an allocated
\* inode has a link or a reference.
NoLostInode ==
  \A i \in Inum : disk[i].type # "none" => disk[i].nlink > 0 \/ inode[i].ref > 0

\* The panics "ilock: no type" and "unlink: nlink < 1": ilock does not find a free inode, and
\* unlink no entry for an inode without links.
NoPanic ==
  \A p \in Process : Wants(p) # 0 /\ Op(p)[1] # "iput" /\ inode[Wants(p)].lock = NoProc =>
    CanLock(Wants(p)) /\ (Op(p)[1] = "unlinkip" => ilock(Wants(p)).nlink >= 1)

\* p waits for q: q holds the lock that p wants.
WaitsFor(p, q) == Wants(p) # 0 /\ inode[Wants(p)].lock = q

\* Processes that wait for each other do so because of an iput that runs under another
\* inode's lock: the locks that ilock takes go from a directory to its entry.
CycleNeedsPut ==
  \A p, q \in Process :
    WaitsFor(p, q) /\ WaitsFor(q, p) => "iput" \in {Op(p)[1], Op(q)[1]}

\* usertests runs create, link and unlink of one name in two processes "to look for
\* deadlocks": no two processes wait for each other's locks.
NoDeadlock == \A p, q \in Process : ~(WaitsFor(p, q) /\ WaitsFor(q, p))

\* The inode layer is exact at every step: references and links are counted, a cached
\* inode is the one on disk, and none of its panics is reached.
InodesExact == TypeOK /\ RefExact /\ CacheCoherent /\ LinksCounted /\ NoPanic
=============================================================================
