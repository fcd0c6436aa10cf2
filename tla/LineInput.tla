----------------------------- MODULE LineInput ------------------------------
(***************************************************************************)
(* What the console promises its readers: a queue of finished text, to     *)
(* which a line that is being edited is added when it is ended, and from   *)
(* whose front each read takes at most one line.                           *)
(***************************************************************************)
EXTENDS Naturals, Sequences, SequencesExt

CONSTANTS Room          \* characters the console holds

VARIABLES queue, line, taken    \* taken: what the last read or part of a read took

lvars == <<queue, line, taken>>

EOF == "D"
Init == queue = <<>> /\ line = <<>> /\ taken = <<>>

Type(c) ==
  /\ Len(queue) + Len(line) < Room
  /\ IF c \in {"\n", EOF} \/ Len(queue) + Len(line) + 1 = Room
     THEN queue' = queue \o line \o <<c>> /\ line' = <<>>
     ELSE line' = Append(line, c) /\ UNCHANGED queue
  /\ UNCHANGED taken

Erase ==
  /\ line # <<>>
  /\ line' = Front(line) \/ line' = <<>>
  /\ UNCHANGED <<queue, taken>>

\* A read takes text up to a newline; an EOF after text stays for the next read.
Read ==
  \E k \in 0..Len(queue) :
    LET text == SubSeq(queue, 1, k) IN
    /\ \A j \in 1..k : text[j] \in {"\n", EOF} => j = k
    /\ k > 1 => Last(text) # EOF
    /\ taken' = text
    /\ queue' = SubSeq(queue, k + 1, Len(queue))
    /\ UNCHANGED line

Next == Erase \/ Read \/ \E c \in {"a", "\n", EOF} : Type(c)

Spec == Init /\ [][Next]_lvars
=============================================================================
