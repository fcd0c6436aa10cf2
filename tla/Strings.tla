------------------------------ MODULE Strings -------------------------------
(***************************************************************************)
(* The pure functions on bytes and names: string.c, ulib.c, printf.c, the  *)
(* kernel's cprintf, and the parser of path names in fs.c.  A string is    *)
(* the sequence of its characters without the NUL; a call is a step.       *)
(***************************************************************************)
EXTENDS Integers, Sequences, FiniteSets, SequencesExt

CONSTANTS
  MemSize,     \* bytes of memory in a memmove()
  DIRSIZ,
  Names, Paths, Formats,
  IntBits, Bases

VARIABLES call, result

strvars == <<call, result>>

NUL == "0"
Ch(s, i) == IF i <= Len(s) THEN s[i] ELSE NUL
Lowest(S) == CHOOSE x \in S : \A y \in S : x <= y
Memory == [i \in 1..MemSize |-> i]

StringsInit == call = <<"none">> /\ result = <<>>

-----------------------------------------------------------------------------
(* memmove: src and dst are 0-based offsets. *)
CopyByte(m, d, s, k) == [m EXCEPT ![d + k] = m[s + k]]
CopyUp(m, d, s, n) == FoldLeft(LAMBDA a, k : CopyByte(a, d, s, k), m, [k \in 1..n |-> k])
CopyDown(m, d, s, n) == FoldLeft(LAMBDA a, k : CopyByte(a, d, s, k), m, [k \in 1..n |-> n + 1 - k])

\* The kernel's memmove.
memmove(m, d, s, n) == IF s < d /\ s + n > d THEN CopyDown(m, d, s, n) ELSE CopyUp(m, d, s, n)
\* The user library's.
ulib_memmove(m, d, s, n) == CopyUp(m, d, s, n)

CallMemmove ==
  \E d, s, n \in 0..MemSize :
    /\ d + n <= MemSize /\ s + n <= MemSize
    /\ call' = <<"memmove", d, s, n>>
    /\ result' = <<memmove(Memory, d, s, n), ulib_memmove(Memory, d, s, n)>>

-----------------------------------------------------------------------------
(* Names of directory entries. *)
strncpy(t, n) == [i \in 1..n |-> Ch(t, i)]
DirName(t) == strncpy(t, DIRSIZ)
strncmp(p, q, n) ==
  LET stop == {i \in 1..n : Ch(p, i) = NUL \/ Ch(p, i) # Ch(q, i)}
  IN IF stop = {} \/ Ch(p, Lowest(stop)) = Ch(q, Lowest(stop)) THEN 0 ELSE 1
namecmp(s, t) == strncmp(s, t, DIRSIZ)

\* dirlink() stores one name and dirlookup() looks for another.
CallDirlookup ==
  \E s, t \in Names : call' = <<"dirlookup", s, t>> /\ result' = <<namecmp(t, DirName(s)) = 0>>

\* The rest of the path after an element, its leading slashes skipped.
Slashes(p) == LET i == {k \in DOMAIN p : p[k] # "/"} IN IF i = {} THEN <<>> ELSE SubSeq(p, Lowest(i), Len(p))
ElemLen(p) == LET i == {k \in DOMAIN p : p[k] = "/"} IN IF i = {} THEN Len(p) ELSE Lowest(i) - 1
\* skipelem(): the name and the rest.
skipelem(p) ==
  LET s == Slashes(p) IN [name |-> SubSeq(s, 1, IF ElemLen(s) >= DIRSIZ THEN DIRSIZ ELSE ElemLen(s)),
                          rest |-> Slashes(SubSeq(s, ElemLen(s) + 1, Len(s)))]

\* The names that namex() looks up, the last one with what nameiparent() tests.
RECURSIVE Walk(_)
Walk(p) == IF Slashes(p) = <<>> THEN <<>>
           ELSE LET e == skipelem(p) IN <<<<e.name, e.rest = <<>>>>>> \o Walk(e.rest)

CallNamex == \E p \in Paths : call' = <<"namex", p>> /\ result' = Walk(p)

-----------------------------------------------------------------------------
(* Numbers. *)
Unsigned(x) == x % 2^IntBits
RECURSIVE Digits(_, _)
Digits(x, base) == (IF x \div base = 0 THEN <<>> ELSE Digits(x \div base, base)) \o <<x % base>>

\* printint(): the sign and the digits; a version that takes the magnitude as an int.
Magnitude_int(xx) == IF xx = -(2^(IntBits - 1)) THEN 0 ELSE -xx
Magnitude(xx) == Unsigned(-xx)
printint(xx, base, sgn) ==
  IF sgn /\ xx < 0 THEN <<"-", Digits(Magnitude(xx), base)>> ELSE <<"", Digits(Unsigned(xx), base)>>

atoi(s) == FoldLeft(LAMBDA n, d : Unsigned(n * 10 + d), 0, s)

CallPrintint ==
  \E xx \in -(2^(IntBits-1))..2^(IntBits-1)-1, base \in Bases, sgn \in BOOLEAN :
    /\ call' = <<"printint", xx, base, sgn>>
    /\ result' = printint(xx, base, sgn) \o <<IF base = 10 /\ xx >= 0 THEN atoi(printint(xx, base, sgn)[2]) ELSE xx>>

-----------------------------------------------------------------------------
(* Formats: argument k of a call is written <<k, directive>>. *)
\* What a character does after a %.
AfterPercent(a, c, dirs) ==
  IF c \in dirs THEN [out |-> Append(a.out, <<a.ap, c>>), ap |-> a.ap + 1, state |-> 0]
  ELSE IF c = "%" THEN [out |-> Append(a.out, c), ap |-> a.ap, state |-> 0]
  ELSE [out |-> a.out \o <<"%", c>>, ap |-> a.ap, state |-> 0]

printf(fmt) ==
  FoldLeft(LAMBDA a, c : IF a.state = 1 THEN AfterPercent(a, c, {"d", "x", "p", "s", "c"})
                         ELSE IF c = "%" THEN [a EXCEPT !.state = 1]
                         ELSE [a EXCEPT !.out = Append(@, c)],
           [out |-> <<>>, ap |-> 1, state |-> 0], fmt).out

\* The kernel's, which looks ahead and does not know %c.
RECURSIVE Cprintf(_, _, _)
Cprintf(fmt, i, a) ==
  IF Ch(fmt, i) = NUL THEN a.out
  ELSE IF fmt[i] # "%" THEN Cprintf(fmt, i + 1, [a EXCEPT !.out = Append(@, fmt[i])])
  ELSE IF Ch(fmt, i + 1) = NUL THEN a.out
  ELSE Cprintf(fmt, i + 2, AfterPercent(a, fmt[i + 1], {"d", "x", "p", "s"}))
cprintf(fmt) == Cprintf(fmt, 1, [out |-> <<>>, ap |-> 1, state |-> 0])

CallPrintf == \E f \in Formats : call' = <<"printf", f>> /\ result' = <<printf(f), cprintf(f)>>

StringsNext ==
  call = <<"none">> /\ (CallMemmove \/ CallDirlookup \/ CallNamex \/ CallPrintint \/ CallPrintf)

-----------------------------------------------------------------------------
\* The kernel's memmove moves the bytes as they were before, whatever the overlap; the
\* user library's does unless the destination starts inside the source.
MovesExact ==
  call[1] = "memmove" =>
    LET d == call[2]
        s == call[3]
        n == call[4]
        want == [i \in 1..MemSize |-> IF i \in d+1..d+n THEN i - d + s ELSE i]
    IN result[1] = want /\ (result[2] = want <=> (~(s < d /\ d < s + n)))

\* A name finds the entry that another one made exactly when they agree in their first
\* DIRSIZ characters, with names of exactly DIRSIZ characters stored without a NUL.
EntryFound ==
  call[1] = "dirlookup" => (result[1] <=> \A i \in 1..DIRSIZ : Ch(call[2], i) = Ch(call[3], i))

\* namex() looks up the non-empty parts between slashes, cut to DIRSIZ, and takes the
\* last part for the last even if slashes follow it.
PathSplit ==
  call[1] = "namex" =>
    LET p == call[2]
        starts == SetToSortSeq({i \in DOMAIN p : p[i] # "/" /\ (i = 1 \/ p[i - 1] = "/")}, <)
        part(i) == SubSeq(p, i, i + ElemLen(SubSeq(p, i, Len(p))) - 1)
    IN result = [k \in DOMAIN starts |->
                  <<SubSeq(part(starts[k]), 1, IF Len(part(starts[k])) < DIRSIZ THEN Len(part(starts[k])) ELSE DIRSIZ),
                    k = Len(starts)>>]

\* The digits printed denote the number, the least int and 0 included, and atoi() reads
\* them back; there are never more of them than binary digits.
PrintsBack ==
  call[1] = "printint" =>
    LET v == FoldLeft(LAMBDA n, d : n * call[3] + d, 0, result[2])
    IN /\ (IF result[1] = "-" THEN -v ELSE v) = (IF call[4] THEN call[2] ELSE Unsigned(call[2]))
       /\ result[3] = call[2]
       /\ Len(result[2]) <= IntBits /\ (Len(result[2]) > 1 => result[2][1] # 0)

\* Both formatters replace each directive by its own argument, in order, print %% as one
\* percent sign and an unknown directive as it stands, and ignore a percent sign at the end.
DirectiveArgs ==
  call[1] = "printf" =>
    LET f == call[2]
        run(i) == {j \in 1..i : \A k \in j..i : f[k] = "%"}
        opens(i) == f[i] = "%" /\ Cardinality(run(i)) % 2 = 1
        directive(i, dirs) == i > 1 /\ opens(i - 1) /\ f[i] \in dirs
        piece(i, dirs) ==
          IF opens(i) THEN <<>>
          ELSE IF directive(i, dirs)
          THEN <<<<Cardinality({j \in 1..i : directive(j, dirs)}), f[i]>>>>
          ELSE (IF i > 1 /\ opens(i - 1) /\ f[i] # "%" THEN <<"%">> ELSE <<>>) \o <<f[i]>>
        want(dirs) == FlattenSeq([i \in DOMAIN f |-> piece(i, dirs)])
    IN result = <<want({"d", "x", "p", "s", "c"}), want({"d", "x", "p", "s"})>>

\* Each function agrees with its reference on every call: overlapping moves, names of the
\* full DIRSIZ, slashes in a path, the least integer, and %% and unknown directives.
MatchesReference == MovesExact /\ EntryFound /\ PathSplit /\ PrintsBack /\ DirectiveArgs
=============================================================================
