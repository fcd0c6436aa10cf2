------------------------------- MODULE Bytes -------------------------------
(***************************************************************************)
(* What fileread and filewrite promise: a file is a sequence of bytes, and *)
(* open files that share one see each other's bytes at their offsets.      *)
(***************************************************************************)
EXTENDS Naturals, Sequences

CONSTANTS Inodes, Files, Value, MaxBytes

VARIABLES content,  \* the bytes of each inode
          open,     \* of each open file, its inode or 0, and its offset
          got       \* what the last read returned

vars == <<content, open, got>>

Overwrite(c, off, n, v) ==
  [k \in 1..(IF off + n > Len(c) THEN off + n ELSE Len(c)) |->
     IF k \in off+1..off+n THEN v ELSE c[k]]

Write(f, n, v) ==
  /\ open[f].ip # 0 /\ open[f].off + n <= MaxBytes
  /\ content' = [content EXCEPT ![open[f].ip] = Overwrite(@, open[f].off, n, v)]
  /\ open' = [open EXCEPT ![f].off = @ + n]
  /\ UNCHANGED got

Read(f, n) ==
  /\ open[f].ip # 0 /\ open[f].off + n <= Len(content[open[f].ip])
  /\ got' = SubSeq(content[open[f].ip], open[f].off + 1, open[f].off + n)
  /\ open' = [open EXCEPT ![f].off = @ + n]
  /\ UNCHANGED content

Open(f, i) == open' = [open EXCEPT ![f] = [ip |-> i, off |-> 0]] /\ UNCHANGED <<content, got>>

Truncate(i) ==
  /\ \A f \in Files : open[f].ip # i
  /\ content' = [content EXCEPT ![i] = <<>>]
  /\ UNCHANGED <<open, got>>

Next ==
  \/ \E f \in Files, n \in 1..MaxBytes :
       Read(f, n) \/ \E v \in Value : Write(f, n, v)
  \/ \E f \in Files, i \in Inodes \cup {0} : Open(f, i)
  \/ \E i \in Inodes : Truncate(i)

Init == /\ content = [i \in Inodes |-> <<>>]
        /\ open = [f \in Files |-> [ip |-> 0, off |-> 0]]
        /\ got = <<>>

Spec == Init /\ [][Next]_vars
=============================================================================
