----------------------------- MODULE ShellParser -----------------------------
(***************************************************************************)
(* The parser of the shell (xv6-labs/user/sh.c): recursive descent over the  *)
(* tokens of a line, against a definition of the language by where a line     *)
(* splits.  Blanks and the letters of words are left out: a line is a         *)
(* sequence of tokens as gettoken() finds them.                              *)
(***************************************************************************)
EXTENDS Integers, Sequences, SequencesExt

CONSTANTS Words, MAXARGS, MaxTokens

ASSUME ShellAssumption == MAXARGS \in Nat \ {0} /\ MaxTokens \in Nat

VARIABLE tokens   \* of the line that is typed; every prefix is a line to parse

Redirections == {"<", ">", ">>"}
Symbols == {"|", "&", ";", "(", ")"} \cup Redirections

EXEC(argv) == [type |-> "EXEC", argv |-> argv]
REDIR(cmd, op, file) == [type |-> "REDIR", cmd |-> cmd, op |-> op, file |-> file]
PIPE(l, r) == [type |-> "PIPE", left |-> l, right |-> r]
LIST(l, r) == [type |-> "LIST", left |-> l, right |-> r]
BACK(cmd) == [type |-> "BACK", cmd |-> cmd]

-----------------------------------------------------------------------------
(* The parser.  Each function takes the tokens that are left and returns a     *)
(* command and those that are left then, or ends the process in panic().       *)

PanicSyntax == [ok |-> FALSE]
Parsed(cmd, rest) == [ok |-> TRUE, cmd |-> cmd, rest |-> rest]
Peek(s, set) == s # <<>> /\ Head(s) \in set

RECURSIVE ParseLine(_), ParsePipe(_), ParseRedirs(_, _), ParseArgs(_, _, _), ParseBacks(_, _)

\* "<", ">" or ">>" and a file, as often as they come.
ParseRedirs(cmd, s) ==
  IF ~Peek(s, Redirections) THEN Parsed(cmd, s)
  ELSE IF ~Peek(Tail(s), Words) THEN PanicSyntax
  ELSE ParseRedirs(REDIR(cmd, Head(s), s[2]), SubSeq(s, 3, Len(s)))

\* Wrap the redirections found so far, cmds, around the execcmd, whose argv
\* parseexec() still fills through its pointer.
RECURSIVE Rewrap(_, _)
Rewrap(cmd, exec) ==
  IF cmd.type = "REDIR" THEN [cmd EXCEPT !.cmd = Rewrap(@, exec)] ELSE exec

\* The loop of parseexec().
ParseArgs(argv, cmd, s) ==
  LET done == Parsed(Rewrap(cmd, EXEC(argv)), s) IN
  IF s = <<>> \/ Peek(s, {"|", ")", "&", ";"}) THEN done
  ELSE IF Head(s) \notin Words \/ Len(argv) + 1 >= MAXARGS THEN PanicSyntax
  ELSE LET more == ParseRedirs(cmd, Tail(s))
       IN IF more.ok THEN ParseArgs(Append(argv, Head(s)), more.cmd, more.rest) ELSE more

ParseBlock(s) ==
  LET line == ParseLine(Tail(s))
  IN IF ~line.ok THEN line
     ELSE IF ~Peek(line.rest, {")"}) THEN PanicSyntax
     ELSE ParseRedirs(line.cmd, Tail(line.rest))

ParseExec(s) ==
  IF Peek(s, {"("}) THEN ParseBlock(s)
  ELSE LET first == ParseRedirs(EXEC(<<>>), s)
       IN IF first.ok THEN ParseArgs(<<>>, first.cmd, first.rest) ELSE first

\* Mutant of ParsePipe: what follows the bar is one command, not a pipeline.
ParsePipeOnce(s) ==
  LET left == ParseExec(s)
  IN IF ~left.ok \/ ~Peek(left.rest, {"|"}) THEN left
     ELSE LET right == ParseExec(Tail(left.rest))
          IN IF right.ok THEN Parsed(PIPE(left.cmd, right.cmd), right.rest) ELSE right

ParsePipe(s) ==
  LET left == ParseExec(s)
  IN IF ~left.ok \/ ~Peek(left.rest, {"|"}) THEN left
     ELSE LET right == ParsePipe(Tail(left.rest))
          IN IF right.ok THEN Parsed(PIPE(left.cmd, right.cmd), right.rest) ELSE right

ParseBacks(cmd, s) == IF Peek(s, {"&"}) THEN ParseBacks(BACK(cmd), Tail(s)) ELSE Parsed(cmd, s)

ParseLine(s) ==
  LET pipe == ParsePipe(s)
      back == ParseBacks(pipe.cmd, pipe.rest)
      right == ParseLine(Tail(back.rest))
  IN IF ~pipe.ok THEN pipe
     ELSE IF ~Peek(back.rest, {";"}) THEN back
     ELSE IF right.ok THEN Parsed(LIST(back.cmd, right.cmd), right.rest) ELSE right

\* parsecmd(): nothing may be left over.
ParseCmd(s) ==
  LET line == ParseLine(s)
  IN IF line.ok /\ line.rest = <<>> THEN [ok |-> TRUE, cmd |-> line.cmd] ELSE PanicSyntax

-----------------------------------------------------------------------------
(* The language.  A line is split at its first ";", a pipeline at its first    *)
(* "|", each outside of parentheses; "&" only ends a pipeline.                 *)

Opens(s, i) == Len(SelectSeq(SubSeq(s, 1, i), LAMBDA t : t = "("))
Closes(s, i) == Len(SelectSeq(SubSeq(s, 1, i), LAMBDA t : t = ")"))
Tops(s, set) == {i \in 1..Len(s) : s[i] \in set /\ Opens(s, i) = Closes(s, i)}
FirstOf(S) == CHOOSE i \in S : \A j \in S : i <= j
Before(s, i) == SubSeq(s, 1, i - 1)
After(s, i) == SubSeq(s, i + 1, Len(s))

\* Operator and file by turns.
RedirsOnly(s) == Len(s) % 2 = 0
                 /\ \A i \in 1..Len(s) : s[i] \in (IF i % 2 = 1 THEN Redirections ELSE Words)
RECURSIVE Wrapped(_, _)
Wrapped(cmd, s) == IF s = <<>> THEN cmd ELSE Wrapped(REDIR(cmd, s[1], s[2]), SubSeq(s, 3, Len(s)))

RECURSIVE LineOf(_), PipeOf(_), BackOf(_)

SimpleOf(s) ==
  LET ops == {i \in 1..Len(s) : s[i] \in Redirections}
      files == {i + 1 : i \in ops}
      pick(S) == LET f[i \in 0..Len(s)] ==
                       IF i = 0 THEN <<>> ELSE IF i \in S THEN Append(f[i - 1], s[i]) ELSE f[i - 1]
                 IN f[Len(s)]
      argv == pick(1..Len(s) \ (ops \cup files))
  IN IF /\ \A i \in 1..Len(s) : s[i] \in Words \cup Redirections
        /\ \A i \in ops : i < Len(s) /\ s[i + 1] \in Words
        /\ Len(argv) < MAXARGS
     THEN [ok |-> TRUE, cmd |-> Wrapped(EXEC(argv), pick(ops \cup files))] ELSE PanicSyntax

BlockOf(s) ==
  LET ends == {i \in 2..Len(s) : Opens(s, i) = Closes(s, i)}
      inner == LineOf(SubSeq(s, 2, FirstOf(ends) - 1))
      redirs == After(s, FirstOf(ends))
  IN IF ends # {} /\ RedirsOnly(redirs) /\ inner.ok
     THEN [ok |-> TRUE, cmd |-> Wrapped(inner.cmd, redirs)] ELSE PanicSyntax

PipeOf(s) ==
  LET bars == Tops(s, {"|"})
      item(t) == IF Peek(t, {"("}) THEN BlockOf(t) ELSE SimpleOf(t)
      left == item(Before(s, FirstOf(bars)))
      right == PipeOf(After(s, FirstOf(bars)))
  IN IF bars = {} THEN item(s)
     ELSE IF left.ok /\ right.ok THEN [ok |-> TRUE, cmd |-> PIPE(left.cmd, right.cmd)] ELSE PanicSyntax

BackOf(s) ==
  IF s = <<>> \/ s[Len(s)] # "&" THEN PipeOf(s)
  ELSE LET cmd == BackOf(Before(s, Len(s)))
       IN IF cmd.ok THEN [ok |-> TRUE, cmd |-> BACK(cmd.cmd)] ELSE cmd

LineOf(s) ==
  LET semis == Tops(s, {";"})
      left == BackOf(Before(s, FirstOf(semis)))
      right == LineOf(After(s, FirstOf(semis)))
  IN IF semis = {} THEN BackOf(s)
     ELSE IF left.ok /\ right.ok THEN [ok |-> TRUE, cmd |-> LIST(left.cmd, right.cmd)] ELSE PanicSyntax

ShellInit == tokens = <<>>
ShellNext == /\ Len(tokens) < MaxTokens
             /\ \E t \in Words \cup Symbols : tokens' = Append(tokens, t)

\* The parser accepts the lines of the language and builds the command they say.
ParserExact == ParseCmd(tokens) = LineOf(tokens)
=============================================================================
