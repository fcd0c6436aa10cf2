------------------------------- MODULE Shell --------------------------------
(***************************************************************************)
(* init and the shell (init.c, sh.c): the processes that run a command     *)
(* line, their descriptors on pipes, and who waits for whom.  A command is *)
(* a tuple: <<"exec">>, <<"redir", c>>, <<"list", c, d>>, <<"pipe", c, d>>,*)
(* <<"back", c>>.  A program reads its input to the end before it exits,   *)
(* as cat, grep and wc do.  fork, wait, exit and pipe are the kernel's.    *)
(***************************************************************************)
EXTENDS Integers, FiniteSets, FiniteSetsExt, Sequences

CONSTANTS
  ShSlots,          \* processes, 1 is init and 2 the first shell
  Commands,         \* bound: the command lines
  MaxLines,         \* bound: command lines typed
  ShPipes           \* pipes there can be at a time

VARIABLES sh,       \* per process: where it is, its command, parent, descriptors, wait()s to go
          shell,    \* the child that init waits for, 0 if it is gone
          lines

shvars == <<sh, shell, lines>>

None == <<"none", 0>>
Con == <<"console", 0>>
FDs == 0..4
NoFDs == [d \in FDs |-> None]
StdFDs == [d \in FDs |-> IF d < 3 THEN Con ELSE None]
ShUnused == [at |-> "unused", cmd |-> <<"exec">>, parent |-> 0, fd |-> NoFDs, waits |-> 0]

\* init has opened the console and started a shell; it waits for that shell.
ShInit ==
  /\ sh = [[p \in ShSlots |-> ShUnused] EXCEPT
             ![1] = [ShUnused EXCEPT !.at = "init", !.fd = StdFDs],
             ![2] = [ShUnused EXCEPT !.at = "prompt", !.fd = StdFDs, !.parent = 1]]
  /\ shell = 2
  /\ lines = 0

ShFree == {p \in ShSlots : sh[p].at = "unused"}
Kids(p) == {q \in ShSlots : sh[q].parent = p /\ sh[q].at # "unused"}

\* exit: the descriptors close, the children go to init.
Exited(s, p) ==
  [q \in ShSlots |->
     IF q = p THEN [s[p] EXCEPT !.at = "zombie", !.fd = NoFDs, !.waits = 0]
     ELSE IF s[q].parent = p THEN [s[q] EXCEPT !.parent = 1] ELSE s[q]]

\* fork1: the child starts with a copy of fds; then its parent goes to r.  Without a free
\* process fork fails and the caller exits.
fork1(p, child, r) ==
  IF ShFree = {} THEN sh' = Exited(sh, p)
  ELSE LET c == Min(ShFree) IN
       sh' = [sh EXCEPT ![c] = [child EXCEPT !.parent = p],
                        ![p] = r]

Child(at, cmd, fd) == [at |-> at, cmd |-> cmd, parent |-> 0, fd |-> fd, waits |-> 0]

-----------------------------------------------------------------------------
\* init: another shell once its shell is gone; other children are just reaped.
InitFork ==
  /\ shell = 0 /\ ShFree # {}
  /\ shell' = Min(ShFree)
  /\ fork1(1, Child("prompt", <<"exec">>, StdFDs), sh[1])
  /\ UNCHANGED lines

InitWait(c) ==
  /\ sh[c].at = "zombie" /\ sh[c].parent = 1
  /\ sh' = [sh EXCEPT ![c] = ShUnused]
  /\ shell' = IF c = shell THEN 0 ELSE shell
  /\ UNCHANGED lines

\* The shell's main loop: a line, a child that runs it, wait.
ReadLine(p) ==
  /\ sh[p].at = "prompt" /\ lines < MaxLines
  /\ lines' = lines + 1
  /\ \E c \in Commands : fork1(p, Child("run", c, sh[p].fd), [sh[p] EXCEPT !.at = "shwait", !.waits = 1])
  /\ UNCHANGED shell

EndOfInput(p) ==
  /\ sh[p].at = "prompt" /\ lines < MaxLines
  /\ lines' = lines + 1
  /\ sh' = Exited(sh, p)
  /\ UNCHANGED shell

-----------------------------------------------------------------------------
ShRuns(p, type) == sh[p].at = "run" /\ sh[p].cmd[1] = type

RunExec(p) ==
  /\ ShRuns(p, "exec")
  /\ \/ sh' = [sh EXCEPT ![p].at = "program"]
     \/ sh' = Exited(sh, p)                             \* no command, or exec failed
  /\ UNCHANGED <<shell, lines>>

\* close and open give the lowest descriptor, which is the one just closed.
RunRedir(p) ==
  /\ ShRuns(p, "redir")
  /\ \/ \E d \in {0, 1} : sh' = [sh EXCEPT ![p].cmd = @[2], ![p].fd[d] = <<"file", 0>>]
     \/ sh' = Exited(sh, p)                             \* open failed
  /\ UNCHANGED <<shell, lines>>

\* Where a list goes after the fork, and a version that does not wait.
ListNext_on(p) == [sh[p] EXCEPT !.cmd = @[3]]
ListNext(p) == [sh[p] EXCEPT !.at = "wait", !.waits = 1]

RunList(p) ==
  /\ ShRuns(p, "list")
  /\ fork1(p, Child("run", sh[p].cmd[2], sh[p].fd), ListNext(p))
  /\ UNCHANGED <<shell, lines>>

RunBack(p) ==
  /\ ShRuns(p, "back")
  /\ fork1(p, Child("run", sh[p].cmd[2], sh[p].fd), [sh[p] EXCEPT !.at = "exit"])
  /\ UNCHANGED <<shell, lines>>

Ends(e) == {q \in ShSlots : \E d \in FDs : sh[q].fd[d] = e}

\* pipe(p) uses the two lowest free descriptors, 3 and 4: the shell keeps 0, 1 and 2.
RunPipe(p) ==
  /\ ShRuns(p, "pipe")
  /\ LET unused == {k \in ShPipes : Ends(<<"read", k>>) \cup Ends(<<"write", k>>) = {}}
         k == Min(unused)
         fd == [sh[p].fd EXCEPT ![3] = <<"read", k>>, ![4] = <<"write", k>>]
     IN IF unused = {} THEN sh' = Exited(sh, p)
        ELSE fork1(p, Child("left", sh[p].cmd[2], fd), [sh[p] EXCEPT !.at = "pipe2", !.fd = fd])
  /\ UNCHANGED <<shell, lines>>

RunPipe2(p) ==
  /\ sh[p].at = "pipe2"
  /\ fork1(p, Child("right", sh[p].cmd[3], sh[p].fd), [sh[p] EXCEPT !.at = "pipe3"])
  /\ UNCHANGED <<shell, lines>>

\* close(p[0]); close(p[1]): and a version that keeps p[1].
ClosePipe_write(fd) == [fd EXCEPT ![3] = None]
ClosePipe(fd) == [fd EXCEPT ![3] = None, ![4] = None]

\* The two children put their end on 1 or 0.
ChildFDs(p) ==
  LET fd == sh[p].fd IN
  IF sh[p].at = "left" THEN ClosePipe([fd EXCEPT ![1] = fd[4]]) ELSE ClosePipe([fd EXCEPT ![0] = fd[3]])

PipeChild(p) ==
  /\ sh[p].at \in {"left", "right"}
  /\ sh' = [sh EXCEPT ![p].at = "run", ![p].fd = ChildFDs(p)]
  /\ UNCHANGED <<shell, lines>>

RunPipe3(p) ==
  /\ sh[p].at = "pipe3"
  /\ sh' = [sh EXCEPT ![p].at = "wait", ![p].waits = 2, ![p].fd = ClosePipe(@)]
  /\ UNCHANGED <<shell, lines>>

\* wait: any child that has exited; after the last wait() the process goes on.
AfterWait(r) ==
  CASE r.waits > 0 -> r
    [] r.waits = 0 /\ r.at = "shwait" -> [r EXCEPT !.at = "prompt"]
    [] r.waits = 0 /\ r.at = "wait" -> IF r.cmd[1] = "list" THEN [r EXCEPT !.at = "run", !.cmd = @[3]]
                                      ELSE [r EXCEPT !.at = "exit"]

ShWait(p, c) ==
  /\ sh[p].at \in {"wait", "shwait"}
  /\ sh[c].at = "zombie" /\ sh[c].parent = p
  /\ sh' = [sh EXCEPT ![c] = ShUnused, ![p] = AfterWait([@ EXCEPT !.waits = @ - 1])]
  /\ UNCHANGED <<shell, lines>>

ShExit(p) ==
  /\ sh[p].at = "exit"
  /\ sh' = Exited(sh, p)
  /\ UNCHANGED <<shell, lines>>

\* A program exits at the end of its input: on a pipe, when no write end is left.
ProgramExit(p) ==
  /\ sh[p].at = "program"
  /\ sh[p].fd[0][1] = "read" => Ends(<<"write", sh[p].fd[0][2]>>) = {}
  /\ sh' = Exited(sh, p)
  /\ UNCHANGED <<shell, lines>>

ShStep(p) ==
  \/ RunExec(p) \/ RunRedir(p) \/ RunList(p) \/ RunBack(p)
  \/ RunPipe(p) \/ RunPipe2(p) \/ RunPipe3(p) \/ PipeChild(p)
  \/ ShExit(p) \/ ProgramExit(p) \/ InitWait(p)
  \/ \E c \in ShSlots : ShWait(p, c)

ShNext ==
  \/ InitFork
  \/ \E p \in ShSlots : ReadLine(p) \/ EndOfInput(p) \/ ShStep(p)

-----------------------------------------------------------------------------
\* A process that waits has as many children as it has calls of wait() to go: a background command,
\* left to init by the child that started it, is never taken for the foreground one.
WaitExact ==
  \A p \in ShSlots : sh[p].at \in {"wait", "shwait"} => Cardinality(Kids(p)) = sh[p].waits

\* A program starts with descriptors 0, 1 and 2 and nothing else, and of its pipes it has
\* only the end it uses.
ProgramFDs ==
  \A p \in ShSlots : sh[p].at = "program" =>
    /\ \A d \in FDs : sh[p].fd[d] = None <=> d > 2
    /\ sh[p].fd[0][1] # "write" /\ sh[p].fd[1][1] # "read"

\* A shell waits for a command line to end.
ShellWaits == \E p \in ShSlots : sh[p].at = "shwait"

\* The processes of a command line: the shell waits for as many children as it made, and
\* each program starts with its own ends of the pipes and no other.
PipelineWired == WaitExact /\ ProgramFDs
=============================================================================
