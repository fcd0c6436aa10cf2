-------------------------------- MODULE Grep --------------------------------
(***************************************************************************)
(* grep (grep.c): the matcher, and the loop that finds lines in a buffer   *)
(* filled by read().  A file gives as many bytes as asked for while it has *)
(* them; a pipe or the console may give fewer.                             *)
(***************************************************************************)
EXTENDS Naturals, Sequences, SequencesExt

CONSTANTS
  Jobs,        \* pairs of a pattern and a text, sequences of characters
  BUFSIZE      \* sizeof(buf)

VARIABLES pattern, text,
          input,     \* "file" or "pipe"
          at,        \* how much of the text has been read
          gbuf, written, done

gvars == <<pattern, text, input, at, gbuf, written, done>>

NL == "n"

-----------------------------------------------------------------------------
From(s, i) == SubSeq(s, i, Len(s))
Is(re, i, c) == i <= Len(re) /\ re[i] = c

\* The text that c* may swallow first.
RECURSIVE matchhere(_, _), matchstar(_, _, _)
matchstar(c, re, s) ==
  \/ matchhere(re, s)
  \/ s # <<>> /\ (s[1] = c \/ c = ".") /\ matchstar(c, re, Tail(s))

matchhere(re, s) ==
  IF re = <<>> THEN TRUE
  ELSE IF Is(re, 2, "*") THEN matchstar(re[1], From(re, 3), s)
  ELSE IF re = <<"$">> THEN s = <<>>
  ELSE s # <<>> /\ (re[1] = "." \/ re[1] = s[1]) /\ matchhere(Tail(re), Tail(s))

match(re, s) ==
  IF Is(re, 1, "^") THEN matchhere(Tail(re), s)
  ELSE \E i \in 1..Len(s)+1 : matchhere(re, From(s, i))

-----------------------------------------------------------------------------
GrepInit ==
  /\ pattern = <<>> /\ text = <<>> /\ input = "none"
  /\ at = 0 /\ gbuf = <<>> /\ written = <<>> /\ done = FALSE

\* main(): grep is given a pattern, and a file or what a pipe brings.
GrepMain(j) ==
  /\ input = "none"
  /\ pattern' = j[1] /\ text' = j[2] /\ input' \in {"file", "pipe"}
  /\ UNCHANGED <<at, gbuf, written, done>>

Newlines(b) == {i \in DOMAIN b : b[i] = NL}
LastNewline(b) == CHOOSE i \in Newlines(b) : \A j \in Newlines(b) : j <= i
\* Where the line that ends at q starts.
LineStart(b, q) == LET before == {i \in Newlines(b) : i < q} IN
  IF before = {} THEN 1 ELSE 1 + CHOOSE i \in before : \A j \in before : j <= i
\* The loop over the newlines of the buffer: what it writes.
LinesOf(b) == [k \in 1..Len(SelectSeq(b, LAMBDA c : c = NL)) |->
  LET q == CHOOSE i \in Newlines(b) : SelectSeq(SubSeq(b, 1, i), LAMBDA c : c = NL) = [n \in 1..k |-> NL]
  IN SubSeq(b, LineStart(b, q), q - 1)]
Matching(b) == SelectSeq(LinesOf(b), LAMBDA l : match(pattern, l))

\* What stays in the buffer for the next read(), and a version that drops it.
Rest_none(b) == <<>>
Rest(b) == IF Newlines(b) = {} THEN <<>> ELSE From(b, LastNewline(b) + 1)

\* One round: read() fills the rest of the buffer, with n bytes.
grep(n) ==
  /\ input # "none" /\ ~done
  /\ LET most == IF BUFSIZE - Len(gbuf) - 1 < Len(text) - at THEN BUFSIZE - Len(gbuf) - 1 ELSE Len(text) - at
         b == gbuf \o SubSeq(text, at + 1, at + n)
     IN /\ n \in (IF input = "file" \/ most = 0 THEN {most} ELSE 1..most)
        /\ at' = at + n
        /\ done' = (n = 0)
        /\ written' = written \o Matching(b)
        /\ gbuf' = IF n = 0 THEN gbuf ELSE Rest(b)
  /\ UNCHANGED <<pattern, text, input>>

GrepNext == (\E j \in Jobs : GrepMain(j)) \/ \E n \in 0..BUFSIZE : grep(n)

-----------------------------------------------------------------------------
(* What a pattern matches: the set of positions at which a match that starts *)
(* at i may end, item by item.                                               *)
RECURSIVE MatchEnds(_, _, _)
MatchEnds(re, s, from) ==
  LET ok(i) == i <= Len(s) /\ (re[1] = "." \/ s[i] = re[1])
      star == {j \in 1..Len(s)+1 : \E i \in from : i <= j /\ \A k \in i..j-1 : ok(k)}
  IN IF re = <<>> THEN from
     ELSE IF Is(re, 2, "*") THEN MatchEnds(From(re, 3), s, star)
     ELSE IF re = <<"$">> THEN from \cap {Len(s) + 1}
     ELSE MatchEnds(Tail(re), s, {i + 1 : i \in {j \in from : ok(j)}})
InLanguage(re, s) ==
  IF Is(re, 1, "^") THEN MatchEnds(Tail(re), s, {1}) # {} ELSE MatchEnds(re, s, 1..Len(s)+1) # {}

\* The backtracking matcher finds a match exactly when the pattern has one, stars,
\* anchors and special characters in odd places included.
MatcherRight == done => match(pattern, text) = InLanguage(pattern, text)

\* Of a file whose lines fit the buffer, grep writes exactly the lines that match, whole
\* and in order, wherever the buffer's ends fall; a last line without newline is not one.
FileLines ==
  done /\ input = "file" /\ (\A l \in ToSet(LinesOf(text)) \cup {From(text, LineStart(text, Len(text) + 1))} :
                               Len(l) < BUFSIZE - 1)
    => written = Matching(text)

\* From a pipe too, every line written is the end of a line of the input: the reads never
\* join two lines or bring one back.
OnlyLines ==
  \A l \in ToSet(written) :
    NL \notin ToSet(l) /\ \E j \in Newlines(text) : Len(l) < j /\ l = SubSeq(text, j - Len(l), j - 1)

\* grep writes the lines that match: the matcher is right, and so is the cutting of the
\* input into lines, however reads divide it.
GrepRight == MatcherRight /\ FileLines /\ OnlyLines
=============================================================================
