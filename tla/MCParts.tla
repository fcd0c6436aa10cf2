------------------------------- MODULE MCParts -------------------------------
(***************************************************************************)
(* Parts of the kernel and of its programs that share no state, checked    *)
(* one at a time in one run: part says which one steps, the others rest in *)
(* an initial state.                                                       *)
(***************************************************************************)
EXTENDS Pipe, FileTable, Spinlock, SyscallTrace, Mkfs, ShellParser, Umalloc, Grep

VARIABLE part

Part == {"pipe", "file", "spinlock", "trace", "mkfs", "parser", "umalloc", "grep"}

PartsInit ==
  /\ part \in Part
  /\ Init /\ (part # "pipe" => \A i \in DOMAIN data : data[i] = 0)
  /\ fileinit /\ SpinInit /\ TraceInit /\ MkfsInit /\ ParserInit /\ UmallocInit /\ GrepInit

PartsNext ==
  /\ IF part = "pipe" THEN Next ELSE UNCHANGED vars
  /\ IF part = "file" THEN FileNext ELSE UNCHANGED fvars
  /\ IF part = "spinlock" THEN SpinNext ELSE UNCHANGED svars
  /\ IF part = "trace" THEN TraceNext ELSE UNCHANGED tvars
  /\ IF part = "mkfs" THEN MkfsNext ELSE UNCHANGED mkvars
  /\ IF part = "parser" THEN ParserNext ELSE UNCHANGED pvars
  /\ IF part = "umalloc" THEN UmallocNext ELSE UNCHANGED uvars
  /\ IF part = "grep" THEN GrepNext ELSE UNCHANGED gvars
  /\ UNCHANGED part

PartsSpec ==
  PartsInit /\ [][PartsNext]_<<part, vars, fvars, svars, tvars, mkvars, pvars, uvars, gvars>>

-----------------------------------------------------------------------------
(* Inputs. *)

MCFileSizes == UNION {[1..n -> {0, 1, 2, 3, 7, 9}] : n \in 0..3}
MCGeometries == {<<16, 4>>, <<20, 3>>, <<33, 5>>}

MCTokenLists == SeqOf({"a", "<", ">", ">>", "|", "&", ";", "(", ")"}, 4)
                  \cup SeqOf({"a", "|", ";", "(", ")", ">"}, 5)

\* Patterns against short lines, and files longer than the buffer of grep.
MCJobs == (SeqOf({"a", ".", "*", "^", "$"}, 3) \cup {<<"a", "*", "a", "$">>})
              \X SeqOf({"a", "b"}, 3)
            \cup {<<"a">>, <<"^", "a", "$">>} \X SeqOf({"a", "n"}, 6)
=============================================================================
