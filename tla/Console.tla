------------------------------ MODULE Console -------------------------------
(***************************************************************************)
(* The console (console.c): the input ring with its read, write and edit   *)
(* index, the interrupt handler that edits the line, the processes that    *)
(* read, and the cursor of the screen.  Every step is a section under      *)
(* cons.lock.  A key is a character ("D" is ^D), "U" (kill line) or "H"    *)
(* (backspace); an interrupt with several keys is several steps.           *)
(***************************************************************************)
EXTENDS Integers, Sequences, SequencesExt

CONSTANTS
  INPUT_BUF,
  IndexMod,          \* the indices are uints: a multiple of INPUT_BUF
  Readers,
  ReadSizes,         \* bound: the n of read
  COLS, ROWS         \* the screen: 80 columns, 25 rows

VARIABLES
  input,             \* buf, r, w, e
  reader,            \* per process: where it is, its n and what n was at the start
  pos,               \* cursor
  taken              \* the characters of the last section of consoleread

convars == <<input, reader, pos, taken>>

Typed == {"a", "\n", "D"}
ResetReader == [at |-> "user", n |-> 0, target |-> 0, killed |-> FALSE]

consoleinit ==
  /\ input = [buf |-> [k \in 0..INPUT_BUF-1 |-> "a"], r |-> 0, w |-> 0, e |-> 0]
  /\ reader = [p \in Readers |-> ResetReader]
  /\ pos = 0
  /\ taken = <<>>

Ring(k) == (k % IndexMod) % INPUT_BUF
Uint(k) == k % IndexMod
At(k) == input.buf[Ring(k)]

-----------------------------------------------------------------------------
\* The cursor before cgaputc scrolls.
CursorMoved(c) ==
  CASE c = "\n" -> pos + COLS - (pos % COLS)
    [] c = "H" -> IF pos > 0 THEN pos - 1 ELSE pos
    [] OTHER -> pos + 1

\* It scrolls when the cursor is on the last row.
cgaputc(c) == IF CursorMoved(c) \div COLS >= ROWS - 1 THEN CursorMoved(c) - COLS ELSE CursorMoved(c)

\* wakeup(&input.r).
WakeReaders(c) == [p \in Readers |-> IF reader[p].at = "sleep" THEN [reader[p] EXCEPT !.at = "run"] ELSE reader[p]]

\* Does the character at the edit index end the line?  A version that never ends one
\* because the ring is full.
EndsLine_open(c, e) == c \in {"\n", "D"}
EndsLine(c, e) == c \in {"\n", "D"} \/ e = Uint(input.r + INPUT_BUF)

\* consoleintr: a character, which is dropped when the ring is full.
TypeKey(c) ==
  /\ Uint(input.e - input.r) < INPUT_BUF
  /\ LET e == Uint(input.e + 1) IN
       /\ input' = [input EXCEPT !.buf[Ring(input.e)] = c, !.e = e,
                                 !.w = IF EndsLine(c, e) THEN e ELSE @]
       /\ reader' = IF EndsLine(c, e) THEN WakeReaders(c) ELSE reader
  /\ pos' = cgaputc(c)
  /\ UNCHANGED taken

\* Backspace and kill line, each erased character echoed as a backspace.
CanErase == input.e # input.w
Backspace ==
  /\ CanErase
  /\ input' = [input EXCEPT !.e = Uint(@ - 1)]
  /\ pos' = cgaputc("H")
  /\ UNCHANGED <<reader, taken>>

KillLine ==
  /\ CanErase
  /\ LET end == Max({k \in 0..Uint(input.e - input.w) :
                       k = 0 \/ (k > 0 /\ At(input.w + k - 1) = "\n")})
     IN /\ input' = [input EXCEPT !.e = Uint(input.w + end)]
        /\ pos' = Max({0, pos - Uint(input.e - input.w) + end})
  /\ UNCHANGED <<reader, taken>>

consolewrite(c) == pos' = cgaputc(c) /\ UNCHANGED <<input, reader, taken>>

-----------------------------------------------------------------------------
StartRead(p) ==
  /\ reader[p].at = "user"
  /\ \E n \in ReadSizes : reader' = [reader EXCEPT ![p] = [ResetReader EXCEPT !.at = "run", !.n = n, !.target = n]]
  /\ UNCHANGED <<input, pos, taken>>

\* A version of TakeLen that takes the EOF with the text.
TakeLen_eof(p) == Min({Uint(input.w - input.r), reader[p].n}
                      \cup {j \in 1..Uint(input.w - input.r) : At(input.r + j - 1) \in {"\n", "D"}})

\* The characters a section of consoleread takes: up to its n, the end of the text, a
\* newline, or an EOF, which stays in the ring if the read already has characters.
Avail == Uint(input.w - input.r)
Stops(k) == k > 0 /\ At(input.r + k - 1) \in {"\n", "D"}
TakeLen(p) ==
  LET k == Min({Avail, reader[p].n} \cup {j \in 1..Avail : Stops(j)}) IN
  IF k > 0 /\ At(input.r + k - 1) = "D" /\ (k > 1 \/ reader[p].n < reader[p].target) THEN k - 1 ELSE k

\* A read returns at n, at a newline or at an EOF; otherwise it sleeps for more.
ReadDone(p) ==
  LET k == TakeLen(p) IN
  \/ k = reader[p].n
  \/ \E j \in 1..Avail : j \in {k, k + 1} /\ Stops(j)

consoleread(p) ==
  /\ reader[p].at = "run"
  /\ LET k == TakeLen(p) IN
       /\ input' = [input EXCEPT !.r = Uint(@ + k)]
       /\ taken' = [j \in 1..k |-> At(input.r + j - 1)]
       /\ reader' = [reader EXCEPT ![p] = IF ReadDone(p) \/ @.killed THEN ResetReader
                                          ELSE [@ EXCEPT !.at = "sleep", !.n = @ - k]]
  /\ UNCHANGED pos

\* kill of a process that reads: it wakes, and leaves with -1 once the text is used up.
KillReader(p) ==
  /\ reader[p].at # "user"
  /\ reader' = [reader EXCEPT ![p].killed = TRUE, ![p].at = "run"]
  /\ UNCHANGED <<input, pos, taken>>

ConsoleNext ==
  \/ \E c \in Typed : TypeKey(c) \/ consolewrite(c)
  \/ Backspace \/ KillLine
  \/ \E p \in Readers : StartRead(p) \/ consoleread(p) \/ KillReader(p)

-----------------------------------------------------------------------------
\* A reader sleeps only while there is no finished text: no wakeup is lost, not even
\* with several readers, one of which puts an EOF back.
ReaderAwake == \A p \in Readers : reader[p].at = "sleep" => input.r = input.w

\* A full ring holds only finished text, so a reader can always make room: the console
\* never drops the newline that would end a line that is too long.
FullIsFinished == Uint(input.e - input.r) = INPUT_BUF => input.w = input.e

\* The cursor stays on the screen (cgaputc's panic), also in front of a scroll.
CursorOnScreen == pos \in 0..(ROWS - 1) * COLS - 1 /\ \A c \in Typed : CursorMoved(c) <= ROWS * COLS

Line == INSTANCE LineInput WITH
  Room <- INPUT_BUF,
  queue <- [j \in 1..Uint(input.w - input.r) |-> At(input.r + j - 1)],
  line <- [j \in 1..Uint(input.e - input.w) |-> At(input.w + j - 1)],
  taken <- taken

\* The ring of consoleintr and consoleread behaves as a queue of finished text with a
\* line under edit: nothing is lost, doubled or out of order when the indices wrap.
LineSpec == Line!Spec

\* The console never gets stuck: no reader sleeps on finished text, a full ring has a
\* finished line to read, and the cursor is where cgaputc may write.
ConsoleSafe == ReaderAwake /\ FullIsFinished /\ CursorOnScreen
=============================================================================
