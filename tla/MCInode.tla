------------------------------- MODULE MCInode -------------------------------
(***************************************************************************)
(* Instances of Inode for TLC: the path names the programs use.            *)
(***************************************************************************)
EXTENDS Inode, TLC

Symmetry == Permutations(Process)

Abs(e) == [abs |-> TRUE, elems |-> e]
Rel(e) == [abs |-> FALSE, elems |-> e]

\* Entries of the root, of a directory in it, and of the current directory.
MCPaths == {Abs(<<"a">>), Rel(<<"b">>), Abs(<<"a", "b">>)}
MCOldPaths == {Rel(<<"b">>)}

\* linkunlink of usertests: link("cat", "x"), create and unlink of "x".
TestPaths == {Rel(<<"x">>)}
TestOld == {Rel(<<"cat">>)}
=============================================================================
