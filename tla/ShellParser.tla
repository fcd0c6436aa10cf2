---------------------------- MODULE ShellParser -----------------------------
(***************************************************************************)
(* The parser of the shell (sh.c): a line of characters to a command tree, *)
(* and the NULs that nulterminate() then writes into the line.  A word is  *)
(* the pair <<q, eq>> of the position it starts at and the one after it.   *)
(* The reference is a grammar over the tokens the line was written from.   *)
(***************************************************************************)
EXTENDS Naturals, Sequences, SequencesExt

CONSTANTS
  TokenLists,    \* the lines, as sequences of tokens
  MAXARGS

VARIABLES tokens,  \* the tokens the user typed
          tight,   \* whether they are written without spaces where they can be
          buf,     \* the line
          cmd      \* what parsecmd() returned; NoCmd before

pvars == <<tokens, tight, buf, cmd>>

NUL == "0"
NoCmd == <<"none">>
Panic == <<"panic">>
Symbols == {"<", "|", ">", "&", ";", "(", ")"}

(* The line the tokens make: a word "a" is written as two characters. *)
Spelled(t) == CASE t = "a" -> <<"a", "a">> [] t = ">>" -> <<">", ">">> [] OTHER -> <<t>>
Sticks(t, u) == (t = "a" /\ u = "a") \/ (t = ">" /\ u \in {">", ">>"})
Gap(i) == IF i > 1 /\ (~tight \/ Sticks(tokens[i - 1], tokens[i])) THEN <<" ">> ELSE <<>>
Line(n) == FlattenSeq([i \in 1..n |-> Gap(i) \o Spelled(tokens[i])])

NoLine == <<"no line">>

ParserInit == tokens = <<>> /\ tight = TRUE /\ buf = NoLine /\ cmd = NoCmd

\* getcmd() reads the line.
getcmd ==
  /\ buf = NoLine
  /\ tokens' \in TokenLists /\ tight' \in BOOLEAN
  /\ buf' = Line(Len(tokens))'
  /\ UNCHANGED cmd

-----------------------------------------------------------------------------
Char(s) == IF s <= Len(buf) THEN buf[s] ELSE NUL
es == Len(buf) + 1
RECURSIVE Skip(_), WordEnd(_)
Skip(s) == IF s < es /\ buf[s] = " " THEN Skip(s + 1) ELSE s
WordEnd(s) == IF s < es /\ buf[s] \notin Symbols \cup {" "} THEN WordEnd(s + 1) ELSE s

TokenEnd(q) ==
  CASE Char(q) = NUL -> q
    [] Char(q) = ">" /\ Char(q + 1) = ">" -> q + 2
    [] Char(q) \in Symbols -> q + 1
    [] OTHER -> WordEnd(q)

Token(q, eq) ==
  [ret |-> CASE Char(q) \in Symbols -> (IF eq = q + 2 THEN "+" ELSE Char(q))
             [] Char(q) = NUL -> NUL [] OTHER -> "a",
   word |-> <<q, eq>>, s |-> Skip(eq)]
TokenAt(q) == Token(q, TokenEnd(q))
gettoken(s) == TokenAt(Skip(s))
peek(s, toks) == Char(Skip(s)) \in toks

\* A parse: the command, where the parser is, and whether it has not panicked.  After a
\* panic it stands at the end, where no peek() succeeds.
At(c, s, ok) == [cmd |-> c, s |-> IF ok THEN s ELSE es, ok |-> ok]
Joined(kind, l, r) == At(<<kind, l.cmd, r.cmd>>, r.s, r.ok)

redircmd(c, tok, w) == <<"redir", c, w, IF tok = "<" THEN 0 ELSE 1>>

RECURSIVE parseredirs(_), parseline(_), parsepipe(_), Backs(_), Args(_, _, _)

\* One round of parseredirs(): the operator op, then the file.
Redirected(r, op, file) == At(redircmd(r.cmd, op.ret, file.word), file.s, r.ok /\ file.ret = "a")
Redirection(r, op) == Redirected(r, op, gettoken(op.s))
parseredirs(r) ==
  IF peek(r.s, {"<", ">"}) THEN parseredirs(Redirection(r, gettoken(r.s))) ELSE r

\* The loop of parseexec(): argv grows in the EXEC node under the redirections.
RECURSIVE WithArgs(_, _)
WithArgs(c, argv) == IF c[1] = "exec" THEN <<"exec", argv>> ELSE [c EXCEPT ![2] = WithArgs(@, argv)]
ArgsFrom(r, argv) == Args(r, argv, gettoken(r.s))
Args(r, argv, t) ==
  IF peek(r.s, {"|", ")", "&", ";"}) \/ t.ret = NUL THEN At(WithArgs(r.cmd, argv), r.s, r.ok)
  ELSE ArgsFrom(parseredirs(At(r.cmd, t.s, t.ret = "a" /\ Len(argv) + 1 < MAXARGS)),
                Append(argv, t.word))

\* parseblock() after its parseline(): the ")", then redirections.
Closed(r) == parseredirs(At(r.cmd, gettoken(r.s).s, r.ok /\ peek(r.s, {")"})))
parseblock(s) == Closed(parseline(gettoken(s).s))

parseexec(s) ==
  IF peek(s, {"("}) THEN parseblock(s)
  ELSE ArgsFrom(parseredirs(At(<<"exec", <<>>>>, s, TRUE)), <<>>)

PipeTail(l) ==
  IF peek(l.s, {"|"}) THEN Joined("pipe", l, parsepipe(gettoken(l.s).s)) ELSE l
parsepipe(s) == PipeTail(parseexec(s))

\* The loop over "&", and a version that takes one.
Backs_one(r) == IF peek(r.s, {"&"}) THEN At(<<"back", r.cmd>>, gettoken(r.s).s, r.ok) ELSE r
Backs(r) == IF peek(r.s, {"&"}) THEN Backs(At(<<"back", r.cmd>>, gettoken(r.s).s, r.ok)) ELSE r

ListTail(l) ==
  IF peek(l.s, {";"}) THEN Joined("list", l, parseline(gettoken(l.s).s)) ELSE l
parseline(s) == ListTail(Backs(parsepipe(s)))

\* The words of a tree.
RECURSIVE Words(_)
Words(c) ==
  CASE c[1] = "exec" -> ToSet(c[2])
    [] c[1] = "redir" -> Words(c[2]) \cup {c[3]}
    [] c[1] = "back" -> Words(c[2])
    [] OTHER -> Words(c[2]) \cup Words(c[3])

\* A NUL after every word.
nulterminate(c) == [i \in DOMAIN buf |-> IF \E w \in Words(c) : i = w[2] THEN NUL ELSE buf[i]]

parsecmd ==
  /\ cmd = NoCmd /\ buf # NoLine
  /\ \E r \in {parseline(1)} :
       IF r.ok /\ Skip(r.s) = es THEN cmd' = r.cmd /\ buf' = nulterminate(r.cmd)
       ELSE cmd' = Panic /\ UNCHANGED buf
  /\ UNCHANGED <<tokens, tight>>

ParserNext == getcmd \/ parsecmd

-----------------------------------------------------------------------------
(* The grammar: the trees of the tokens i .. j-1. *)
Place(i) == LET n == Len(Line(i - 1)) + Len(Gap(i)) + 1 IN <<n, n + Len(Spelled(tokens[i]))>>
IsFile(i, k) == tokens[k] = "a" /\ k > i /\ tokens[k - 1] \in {"<", ">", ">>"}
Simple(i, j) == \A k \in i..j-1 :
  \/ tokens[k] = "a" \/ (tokens[k] \in {"<", ">", ">>"} /\ k + 1 < j /\ tokens[k + 1] = "a")
RECURSIVE GLine(_, _), GBack(_, _), GPipe(_, _), GBlock(_, _), Redirs(_, _, _)
ArgsOf(i, j) == SelectSeq([n \in 1..(j - i) |-> i + n - 1], LAMBDA k : tokens[k] = "a" /\ ~IsFile(i, k))
Redirs(c, i, j) ==
  IF i + 1 >= j THEN c ELSE Redirs(IF IsFile(i, i + 1) THEN redircmd(c, tokens[i], Place(i + 1)) ELSE c, i + 1, j)
GExec(i, j) ==
  LET a == ArgsOf(i, j) IN
  (IF Simple(i, j) /\ Len(a) < MAXARGS
   THEN {Redirs(<<"exec", [n \in DOMAIN a |-> Place(a[n])]>>, i, j)} ELSE {})
  \cup GBlock(i, j)
GBlock(i, j) ==
  (IF j - i >= 2 /\ tokens[i] = "(" /\ tokens[j - 1] = ")" THEN GLine(i + 1, j - 1) ELSE {})
  \cup (IF j - i >= 4 /\ IsFile(i, j - 1)
        THEN {redircmd(c, tokens[j - 2], Place(j - 1)) : c \in GBlock(i, j - 2)} ELSE {})
GPipe(i, j) == GExec(i, j) \cup
  UNION {{<<"pipe", l, r>> : l \in GExec(i, k), r \in GPipe(k + 1, j)} : k \in {x \in i..j-1 : tokens[x] = "|"}}
GBack(i, j) == GPipe(i, j) \cup
  (IF i < j /\ tokens[j - 1] = "&" THEN {<<"back", c>> : c \in GBack(i, j - 1)} ELSE {})
GLine(i, j) == GBack(i, j) \cup
  UNION {{<<"list", l, r>> : l \in GBack(i, k), r \in GLine(k + 1, j)} : k \in {x \in i..j-1 : tokens[x] = ";"}}

\* parsecmd() builds the one tree the grammar gives the line, and panics exactly when
\* there is none: pipes and lists lean right, "&" binds the pipeline to its left, and
\* nothing may follow it but "&", ";" or ")".
ParsesGrammar ==
  cmd # NoCmd => GLine(1, Len(tokens) + 1) = IF cmd = Panic THEN {} ELSE {cmd}

\* After nulterminate() every argument and every file name of the tree reads as the word
\* the user typed, up to its NUL, though neighbouring words have no space between them.
WordsTerminated ==
  cmd \notin {NoCmd, Panic} =>
    \A w \in Words(cmd) : (\A i \in w[1]..w[2]-1 : Char(i) = "a") /\ Char(w[2]) = NUL

\* parsecmd() returns the tree of the grammar, over words that end where they were typed.
ParserRight == ParsesGrammar /\ WordsTerminated
=============================================================================
