------------------------------- MODULE MCTasks -------------------------------
(***************************************************************************)
(* What processes get and do: the processor, memory, the bytes and names   *)
(* of files, the commands of the shell; and how the processors start.      *)
(* They are checked one part at a time in one run: part says which one     *)
(* steps, the others rest in an initial state.                             *)
(***************************************************************************)
EXTENDS PickLoop, Memory, Content, Shell, Strings, Boot

VARIABLE part

Part == {"pick", "memory", "content", "shell", "strings", "boot"}

TasksInit ==
  /\ part \in Part
  /\ IF part = "pick" THEN PickInit
     ELSE /\ st = [s \in Slot |-> "RUNNABLE"] /\ pri = [s \in Slot |-> 1]
          /\ p = 1 /\ p1 = 1 /\ highestp = 1 /\ loop = "up"
  /\ MemInit /\ ContentInit /\ ShInit /\ StringsInit
  /\ BootInit /\ (part # "boot" => \E i \in DOMAIN mptable : mptable[i] = "unknown")

TasksNext ==
  /\ IF part = "pick" THEN PickNext ELSE UNCHANGED pvars
  /\ IF part = "memory" THEN MemNext ELSE UNCHANGED mvars
  /\ IF part = "content" THEN ContentNext ELSE UNCHANGED cvars
  /\ IF part = "shell" THEN ShNext ELSE UNCHANGED shvars
  /\ IF part = "strings" THEN StringsNext ELSE UNCHANGED strvars
  /\ IF part = "boot" THEN BootNext ELSE UNCHANGED bvars
  /\ UNCHANGED part

\* Every process of the shell and every processor runs on.
TasksSpec ==
  /\ TasksInit
  /\ [][TasksNext]_<<part, pvars, mvars, cvars, shvars, strvars, bvars>>
  /\ \A q \in ShSlots : WF_shvars(part = "shell" /\ ShStep(q))
  /\ WF_bvars(part = "boot" /\ BspStep)
  /\ \A i \in {"c0", "c1", "c2", "c3"} :
       WF_bvars(part = "boot" /\ i \in Ids(mptable) /\ ApStep(i))

\* Every wait ends.  A shell prompts again: no process is left with the write end of a
\* pipe, so every program gets to the end of its input.  Every processor that mpinit()
\* records comes to its scheduler, the boot processor after startothers() has waited for
\* each of the others.
WaitsEnd == ShellWaits \/ Booting ~> ~(ShellWaits \/ Booting)

-----------------------------------------------------------------------------
(* Inputs. *)

\* Less and more than a page, back to nothing, below nothing, past KERNBASE.
MCGrowth == {1, -1, 3, -3, -4, 9}
MCImages == {<<1>>, <<3, 2>>, <<0>>, <<8>>}

Cmd == <<"exec">>
Pair == <<"pipe", Cmd, Cmd>>

\* a | b | c    a & ; b | c    a | b &    (a ; b) | c > f
MCCommands == {<<"pipe", Cmd, Pair>>, <<"list", <<"back", Cmd>>, Pair>>, <<"back", Pair>>,
               <<"pipe", <<"list", Cmd, Cmd>>, <<"redir", Cmd>>>>}

MCNames == SeqOf({"a", "b"}, 4)
MCPaths == SeqOf({"a", "b", "/"}, 6)
MCFormats == SeqOf({"%", "d", "c", "q"}, 5)

\* The boot processor first or not, more processors than NCPU, an unknown entry.
MCTables == {<<"c0", "other", "c1", "c2">>, <<"other", "c2", "c0", "c1", "c3">>,
             <<"c1", "unknown", "c0">>, <<"c0">>}
MCLowPages == <<"l1", "l2", "l3">>
MCHighPages == <<"h1", "h2">>
=============================================================================
