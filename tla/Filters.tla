-------------------------------- MODULE Filters --------------------------------
(***************************************************************************)
(* grep, wc and xargs (xv6-labs/user), which read what others write: a       *)
(* read() ends wherever the pipe was empty.  grep gathers lines in a buffer  *)
(* and has a matcher, wc counts, xargs cuts lines into words of a command.   *)
(***************************************************************************)
EXTENDS Integers, Sequences, SequencesExt, FiniteSets, FiniteSetsExt

CONSTANTS Alphabet, NL,   \* characters of a file; one of them is the newline
          Patterns,       \* patterns, as sequences of characters
          GREPBUF,        \* sizeof(buf) of grep
          MaxFile         \* bound: the length of a file

ASSUME GrepAssumption == NL \in Alphabet /\ GREPBUF \in Nat /\ GREPBUF >= 2 /\ MaxFile \in Nat

CONSTANTS MaxText,  \* bound: the length of what is read
          WCBUF,    \* sizeof(buf) of wc
          MAXARG,   \* bytes of xargs's pre_buf, and pointers of its lat_buf
          Given,    \* arguments that xargs was given
          MaxFails  \* bound: how often a fork() or exec() of xargs fails

ASSUME FiltersAssumption ==
  MaxText \in Nat /\ WCBUF \in Nat \ {0} /\ MAXARG \in Nat \ {0} /\ Given \in 1..(MAXARG - 1)
  /\ MaxFails \in Nat

VARIABLES
  gfile, re,   \* the file and the pattern
  consumed,    \* how much of the file read() has returned
  gbuf,        \* the first m bytes of buf
  gout,        \* what was written
  grepping     \* FALSE after the loop

grepVars == <<gfile, re, consumed, gbuf, gout, grepping>>

VARIABLES
  text,     \* what is in the pipe: "c" is a character, "_" a space, "n" a newline
  readTo,   \* how much of it was read
  split,    \* a read() has ended inside a line
  counts,   \* wc: its l, w, c and inword
  xargs,    \* the process of xargs that runs: pre_buf, lat_buf and its place in the loops
  waiting,  \* the processes of xargs in wait() for it, the youngest last
  ran,      \* the commands that xargs ran: where their line ends, and their words
  noFork,  \* where the lines end whose fork() failed
  noExec      \* where the lines end whose exec() failed

xargsVars == <<split, xargs, waiting, ran, noFork, noExec>>
filterVars == <<text, readTo, counts, xargsVars>>

-----------------------------------------------------------------------------
Where(s, ch) == {i \in 1..Len(s) : s[i] = ch}

\* The pieces of s that end in a ch.
PiecesOf(s, ch) ==
  LET e == SetToSortSeq(Where(s, ch), <)
  IN [k \in 1..Len(e) |-> SubSeq(s, (IF k = 1 THEN 0 ELSE e[k - 1]) + 1, e[k] - 1)]

-----------------------------------------------------------------------------
(* grep. *)

\* matchhere() and matchstar(); the end of a sequence is its NUL.
RECURSIVE matchhere(_, _)
matchstar(c, rest, line) ==
  LET atMost == Max({k \in 0..Len(line) : \A j \in 1..k : c = "." \/ line[j] = c})
  IN \E k \in 0..atMost : matchhere(rest, SubSeq(line, k + 1, Len(line)))

matchhere(r, line) ==
  IF r = <<>> THEN TRUE
  ELSE IF Len(r) >= 2 /\ r[2] = "*" THEN matchstar(r[1], SubSeq(r, 3, Len(r)), line)
  ELSE IF r = <<"$">> THEN line = <<>>
  ELSE /\ line # <<>> /\ r[1] \in {".", Head(line)}
       /\ matchhere(Tail(r), Tail(line))

match(r, line) ==
  IF r # <<>> /\ r[1] = "^" THEN matchhere(Tail(r), line)
  ELSE \E k \in 0..Len(line) : matchhere(r, SubSeq(line, k + 1, Len(line)))

\* The lines of s that end in it, without their newlines, and what follows them.
LinesOf(s) == PiecesOf(s, NL)
RestOf(s) == SubSeq(s, Max({0} \cup Where(s, NL)) + 1, Len(s))

GrepInit ==
  /\ gfile \in UNION {[1..n -> Alphabet] : n \in 0..MaxFile} /\ re \in Patterns
  /\ consumed = 0 /\ gbuf = <<>> /\ gout = <<>> /\ grepping = TRUE

\* Mutant of memmove: from the last byte to the first, however the ranges overlap.
memmoveDown(s, dst, src, n) ==
  FoldLeft(LAMBDA b, k : [b EXCEPT ![dst + k] = b[src + k]], s, [i \in 1..n |-> n - i])

\* memmove() of ulib.c: upwards when src > dst, else downwards.
memmove(s, dst, src, n) ==
  FoldLeft(LAMBDA b, k : [b EXCEPT ![dst + k] = b[src + k]], s,
           [i \in 1..n |-> IF src > dst THEN i - 1 ELSE n - i])

\* What is behind the last newline moves to the front.
Kept(s) ==
  LET p == Max({0} \cup Where(s, NL)) + 1
      m == Len(s) - (p - 1)
  IN SubSeq(memmove(s, 1, p, m), 1, m)

\* One round: read() gives n bytes, the lines that are complete are matched and
\* written, the rest moves to the front.
GrepRound ==
  /\ grepping
  /\ \E n \in 1..(GREPBUF - Len(gbuf) - 1) :
       LET s == gbuf \o SubSeq(gfile, consumed + 1, consumed + n) IN
       /\ consumed + n <= Len(gfile)
       /\ consumed' = consumed + n
       /\ gout' = gout \o SelectSeq(LinesOf(s), LAMBDA l : match(re, l))
       /\ gbuf' = Kept(s)
  /\ UNCHANGED <<gfile, re, grepping>>

\* read() returns 0: the file ends, or there is no room in the buffer.
GrepEnds ==
  /\ grepping /\ (consumed = Len(gfile) \/ Len(gbuf) = GREPBUF - 1)
  /\ grepping' = FALSE
  /\ UNCHANGED <<gfile, re, consumed, gbuf, gout>>

GrepNext == GrepRound \/ GrepEnds
GrepSpec == GrepInit /\ [][GrepNext]_grepVars

-----------------------------------------------------------------------------
(* wc and xargs. *)

Chars == {"a", "b", "_", "n"}
End == "0"   \* a NUL

FiltersStarts(texts) ==
  /\ text \in texts
  /\ readTo = 0 /\ split = FALSE
  /\ counts = [l |-> 0, w |-> 0, c |-> 0, inword |-> FALSE]
  /\ xargs = [buf |-> [i \in 0..(MAXARG - 1) |-> End], len |-> 0, start |-> 0, args |-> <<>>,
              base |-> 0, got |-> 0, at |-> 0, smashed |-> FALSE]
  /\ waiting = <<>> /\ ran = <<>> /\ noFork = {} /\ noExec = {}

FiltersInit == FiltersStarts(UNION {[1..k -> Chars] : k \in 0..MaxText})

\* One byte of what was read.
Count(s, ch) ==
  LET space == ch \in {"_", "n"} IN
  [l |-> s.l + (IF ch = "n" THEN 1 ELSE 0), c |-> s.c + 1,
   w |-> s.w + (IF ~space /\ ~s.inword THEN 1 ELSE 0), inword |-> ~space]

\* A string ends at its NUL (or somewhere behind the buffer).
StringAt(buf, a) ==
  LET end == Min({i \in a..(MAXARG - 1) : buf[i] = End} \cup {MAXARG})
  IN [i \in 1..(end - a) |-> buf[a + i - 1]]

\* A space: the word that began at p_pre_buf ends.
EndWord(s) ==
  [s EXCEPT !.buf[s.len] = End, !.len = @ + 1, !.start = s.len + 1,
            !.args = Append(@, s.start), !.smashed = Given + Len(s.args) + 1 > MAXARG]

\* A round of the loop, but for one that finds a newline.  pre_buf[i] is read again
\* and written at line_buf_size: one buffer for both.
TakeChar(s, round) ==
  IF s.smashed \/ s.buf[s.at] = "n" THEN s
  ELSE IF s.len >= MAXARG THEN [s EXCEPT !.smashed = TRUE]
  ELSE IF s.buf[s.at] = "_" THEN [EndWord(s) EXCEPT !.at = @ + 1]
  ELSE [s EXCEPT !.buf[s.len] = s.buf[s.at], !.len = @ + 1, !.at = @ + 1]

\* The rounds up to the next newline, or to the end of what was read.
Gather(s) == FoldLeft(TakeChar, s, [k \in 1..(s.got - s.at) |-> k])

\* At a newline: the words of the line, and whether they fit with a last pointer.
LineEnd == xargs.base + xargs.at + 1
WordsOfLine ==
  LET ptrs == Append(xargs.args, xargs.start)
      nul == [xargs.buf EXCEPT ![xargs.len] = End]
  IN [i \in 1..Len(ptrs) |-> StringAt(nul, ptrs[i])]
Fits == xargs.len < MAXARG /\ Given + Len(xargs.args) + 1 < MAXARG

\* Mutant of NextLine: p_pre_buf stays where the line's last word began.
NextLineKeeps(s) ==
  Gather([s EXCEPT !.buf[s.len] = End, !.len = 0, !.args = <<>>, !.at = @ + 1])

\* After wait(): the next line goes to the beginning of the buffer.
NextLine(s) ==
  Gather([s EXCEPT !.buf[s.len] = End, !.len = 0, !.start = 0, !.args = <<>>, !.at = @ + 1])

-----------------------------------------------------------------------------
Piece(n) == SubSeq(text, readTo + 1, readTo + n)

\* wc: a read() that gives n bytes, and the loop over them.
WcReads(n) ==
  /\ n \in 1..Min({WCBUF, Len(text) - readTo}) /\ xargs.got = 0
  /\ readTo' = readTo + n
  /\ counts' = FoldLeft(Count, counts, Piece(n))
  /\ UNCHANGED <<text, xargsVars>>

XargsRuns == counts.c = 0 /\ ~xargs.smashed
AtLine == XargsRuns /\ xargs.at < xargs.got

\* xargs: a read() that gives n bytes, and the loop over them up to a newline.
XargsReads(n) ==
  /\ n \in 1..Min({MAXARG, Len(text) - readTo}) /\ XargsRuns /\ xargs.at = xargs.got
  /\ readTo' = readTo + n
  /\ split' = (split \/ text[readTo + n] # "n")
  /\ xargs' = Gather([xargs EXCEPT !.buf = [i \in DOMAIN @ |-> IF i < n THEN Piece(n)[i + 1] ELSE @[i]],
                                   !.base = readTo, !.got = n, !.at = 0])
  /\ UNCHANGED <<text, counts, waiting, ran, noFork, noExec>>

\* The line has too many words, or no room for its NUL: a write behind the arrays.
XargsSmashes ==
  /\ AtLine /\ ~Fits
  /\ xargs' = [xargs EXCEPT !.smashed = TRUE]
  /\ UNCHANGED <<text, readTo, split, counts, waiting, ran, noFork, noExec>>

\* fork(), exec() with the words of the line behind the arguments given, and wait().
XargsLine ==
  /\ AtLine /\ Fits
  /\ ran' = Append(ran, [line |-> LineEnd, words |-> WordsOfLine])
  /\ xargs' = NextLine(xargs)
  /\ UNCHANGED <<text, readTo, split, counts, waiting, noFork, noExec>>

MayFail == Cardinality(noFork) + Cardinality(noExec) < MaxFails

\* fork() fails: wait() returns at once, and the loop goes on without the command.
XargsForkFails ==
  /\ AtLine /\ Fits /\ MayFail
  /\ noFork' = noFork \cup {LineEnd}
  /\ xargs' = NextLine(xargs)
  /\ UNCHANGED <<text, readTo, split, counts, waiting, ran, noExec>>

\* exec() fails: the child goes on with its copy of the loop and of the buffer, while
\* its parent waits for it.
XargsExecFails ==
  /\ AtLine /\ Fits /\ MayFail
  /\ noExec' = noExec \cup {LineEnd}
  /\ waiting' = Append(waiting, NextLine(xargs))
  /\ xargs' = NextLine(xargs)
  /\ UNCHANGED <<text, readTo, split, counts, ran, noFork>>

\* read() returns 0 to such a child; its parent goes on with what it had read.
XargsChildEnds ==
  /\ XargsRuns /\ xargs.at = xargs.got /\ readTo = Len(text) /\ waiting # <<>>
  /\ xargs' = Last(waiting) /\ waiting' = Front(waiting)
  /\ UNCHANGED <<text, readTo, split, counts, ran, noFork, noExec>>

FiltersNext ==
  \/ \E n \in 1..MaxText : WcReads(n) \/ XargsReads(n)
  \/ XargsSmashes \/ XargsLine \/ XargsForkFails \/ XargsExecFails \/ XargsChildEnds
FiltersSpec == FiltersInit /\ [][FiltersNext]_filterVars

-----------------------------------------------------------------------------
\* What a pattern means.  Its items are characters, some of them starred; a line has
\* it if it can be cut so that every item has its own piece, the first one from
\* the beginning after a ^ and the last one to the end before a $.
Items(r) ==
  LET body == SubSeq(r, IF r # <<>> /\ r[1] = "^" THEN 2 ELSE 1,
                     IF r # <<>> /\ Last(r) = "$" THEN Len(r) - 1 ELSE Len(r))
      starts == SetToSortSeq({i \in 1..Len(body) : body[i] # "*"}, <)
  IN [k \in 1..Len(starts) |->
        [c |-> body[starts[k]], star |-> starts[k] < Len(body) /\ body[starts[k] + 1] = "*"]]

Means(r, line) ==
  LET items == Items(r)
      n == Len(items)
  IN \E cut \in [0..n -> 0..Len(line)] :
       /\ \A k \in 1..n :
            /\ cut[k] >= cut[k - 1]
            /\ ~items[k].star => cut[k] = cut[k - 1] + 1
            /\ \A j \in (cut[k - 1] + 1)..cut[k] : items[k].c \in {".", line[j]}
       /\ r # <<>> /\ r[1] = "^" => cut[0] = 0
       /\ r # <<>> /\ Last(r) = "$" => cut[n] = Len(line)

\* Of what was read, the lines that have the pattern are written, in order; what is
\* behind them is in the buffer.  The end leaves out a last line without a newline,
\* and everything from a line on that does not fit in the buffer.
GrepExact ==
  LET seen == SubSeq(gfile, 1, consumed) IN
  /\ gout = SelectSeq(LinesOf(seen), LAMBDA l : Means(re, l))
  /\ gbuf = RestOf(seen)
  /\ ~grepping => \/ consumed = Len(gfile)
                  \/ Len(gbuf) = GREPBUF - 1 /\ gbuf = SubSeq(gfile, consumed - GREPBUF + 2, consumed)

\* wc counts the words, lines and characters of what it has read, wherever the reads
\* ended.
WcExact ==
  counts.c > 0 =>
    /\ counts.c = readTo /\ counts.l = Cardinality(Where(SubSeq(text, 1, readTo), "n"))
    /\ counts.w = Cardinality({i \in 1..readTo : text[i] \notin {"_", "n"}
                                               /\ (i = 1 \/ text[i - 1] \in {"_", "n"})})

LineTo(q) == LET q0 == Max({0} \cup {i \in 1..(q - 1) : text[i] = "n"}) IN SubSeq(text, q0 + 1, q - 1)
LineWords(q) == PiecesOf(Append(LineTo(q), "_"), "_")

\* As long as every read ended at the end of a line: xargs runs a command with the
\* words of a line, for every line whose fork() and exec() succeed; in the order of
\* the lines and once, but for lines behind one whose exec() failed, which the child
\* and then its parent run.  It writes behind its arrays only after a read that did
\* not end a line, or for a line of too many words.
XargsExact ==
  LET ends == Where(SubSeq(text, 1, readTo), "n") IN
  /\ ~split =>
       /\ \A k \in 1..Len(ran) : ran[k].line \in ends /\ ran[k].words = LineWords(ran[k].line)
       /\ \A q \in ends : q <= xargs.base + xargs.at /\ ~xargs.smashed =>
            q \in noFork \cup noExec \cup {ran[k].line : k \in 1..Len(ran)}
       /\ \A j, k \in 1..Len(ran) :
            j < k /\ ran[j].line >= ran[k].line => \E q \in noExec : q < ran[k].line
  /\ xargs.smashed =>
       split \/ \E q \in ends : Cardinality(Where(LineTo(q), "_")) >= MAXARG - Given - 1

FiltersExact == WcExact /\ XargsExact
=============================================================================
