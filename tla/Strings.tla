-------------------------------- MODULE Strings --------------------------------
(***************************************************************************)
(* Bytes and text: kernel/string.c, the names of directory entries and of     *)
(* path elements (kernel/fs.c), and the two printfs (kernel/printf.c,         *)
(* user/printf.c).  A call is chosen, its result computed, and both compared  *)
(* with what the function is for.                                           *)
(***************************************************************************)
EXTENDS Integers, Sequences, SequencesExt, FiniteSets, FiniteSetsExt

CONSTANTS MEMSIZE,   \* bound: bytes of memory in a memmove()
          NAMESIZE,  \* DIRSIZ
          MaxName,   \* bound: the length of a name
          MaxPath,   \* bound: the length of a path
          INTBITS,   \* the width of an int
          Formats    \* format strings, as sequences of characters

ASSUME StringsAssumption ==
  /\ MEMSIZE \in Nat /\ NAMESIZE \in Nat \ {0} /\ MaxName \in Nat /\ MaxPath \in Nat
  /\ INTBITS \in Nat /\ INTBITS >= 2

VARIABLES textCall,   \* a function and its arguments
          textResult, \* what it returned or wrote
  called      \* FALSE before that

textVars == <<textCall, textResult, called>>

Nul1 == 0
Letter == {1, 2}   \* the other bytes of a name
Strs(n) == UNION {[1..k -> Letter] : k \in 0..n}
Range1(a, n) == a..(a + n - 1)
Word1 == 2 ^ INTBITS
Ints == (-(Word1 \div 2))..(Word1 \div 2 - 1)
-----------------------------------------------------------------------------
(* string.c; m is memory, a function from addresses to bytes.                *)

\* Mutant of CopiesDown: upwards whenever the destination is behind the source.
CopiesDownNever(s, dst, n) == FALSE

CopiesDown(s, dst, n) == s < dst /\ s + n > dst
kmemmove(m, dst, s, n) ==
  FoldLeft(LAMBDA b, k : [b EXCEPT ![dst + k] = b[s + k]], m,
           [i \in 1..n |-> IF CopiesDown(s, dst, n) THEN n - i ELSE i - 1])

RECURSIVE strncmp(_, _, _, _)
strncmp(m, p, q, n) ==
  IF n > 0 /\ m[p] # Nul1 /\ m[p] = m[q] THEN strncmp(m, p + 1, q + 1, n - 1)
  ELSE IF n = 0 THEN 0 ELSE m[p] - m[q]

\* The bytes behind the Nul1 are cleared; a string of n bytes gets none.
RECURSIVE strncpy(_, _, _, _)
strncpy(m, s, t, n) ==
  IF n = 0 THEN m
  ELSE IF m[t] # Nul1 THEN strncpy([m EXCEPT ![s] = m[t]], s + 1, t + 1, n - 1)
  ELSE [a \in DOMAIN m |-> IF a \in Range1(s, n) THEN Nul1 ELSE m[a]]

\* Behind a string that ends early, one byte more is cleared.
RECURSIVE safestrcpy(_, _, _, _)
safestrcpy(m, s, t, n) ==
  IF n <= 0 THEN m
  ELSE IF n = 1 THEN [m EXCEPT ![s] = Nul1]
  ELSE IF m[t] # Nul1 THEN safestrcpy([m EXCEPT ![s] = m[t]], s + 1, t + 1, n - 1)
  ELSE [m EXCEPT ![s] = Nul1, ![s + 1] = Nul1]

\* skipelem(): the rest of the path, and the first element in a name of NAMESIZE bytes.
Slash == 3
skipelem(path) ==
  LET first == Min({i \in 1..Len(path) : path[i] # Slash} \cup {Len(path) + 1})
      end == Min({i \in first..Len(path) : path[i] = Slash} \cup {Len(path) + 1})
      next == Min({i \in end..Len(path) : path[i] # Slash} \cup {Len(path) + 1})
  IN [found |-> first <= Len(path), rest |-> SubSeq(path, next, Len(path)),
      name |-> SubSeq(path, first, Min({end - 1, first + NAMESIZE - 1}))]

RECURSIVE Elements(_)
Elements(path) ==
  LET e == skipelem(path)
  IN IF e.found THEN <<e.name>> \o Elements(e.rest) ELSE <<>>

-----------------------------------------------------------------------------
(* The printfs.                                                               *)

digits == <<"0", "1", "2", "3", "4", "5", "6", "7", "8", "9", "A", "B", "C", "D", "E", "F">>
DigitValue(c) == (CHOOSE i \in 1..16 : digits[i] = c) - 1

RECURSIVE DigitsOf(_, _)
DigitsOf(x, base) ==
  (IF x \div base = 0 THEN <<>> ELSE DigitsOf(x \div base, base)) \o <<digits[(x % base) + 1]>>

\* printint(): -xx is unsigned, which the least int survives.
Negated(xx) == (-xx) % Word1
printint(xx, base, sgn) ==
  IF sgn /\ xx < 0 THEN <<"-">> \o DigitsOf(Negated(xx), base) ELSE DigitsOf(xx % Word1, base)

\* atoi() of ulib.c, of digits.
RECURSIVE atoi(_)
atoi(s) ==
  IF s = <<>> THEN 0 ELSE atoi(Front(s)) * 10 + DigitValue(Last(s))

\* What one letter after the % prints; args are the ones left.
Directive(c, args, hexSigned, more) ==
  CASE c = "d" -> [out |-> printint(args[1], 10, TRUE), uses |-> 1]
    [] c = "x" -> [out |-> printint(args[1], 16, hexSigned), uses |-> 1]
    [] c = "c" /\ more -> [out |-> <<args[1]>>, uses |-> 1]
    [] c = "%" -> [out |-> <<"%">>, uses |-> 0]
    [] OTHER -> [out |-> <<"%", c>>, uses |-> 0]

\* vprintf() of user/printf.c, a state machine over the format.
vprintf(fmt, args) ==
  LET step(s, c) ==
        IF ~s.percent THEN IF c = "%" THEN [s EXCEPT !.percent = TRUE]
                           ELSE [s EXCEPT !.out = Append(@, c)]
        ELSE LET dir == Directive(c, s.args, FALSE, TRUE)
             IN [percent |-> FALSE, out |-> s.out \o dir.out,
                 args |-> SubSeq(s.args, 1 + dir.uses, Len(s.args))]
  IN FoldLeft(step, [percent |-> FALSE, out |-> <<>>, args |-> args], fmt).out

\* printf() of kernel/printf.c, which looks one character ahead.
RECURSIVE kprintf(_, _)
kprintf(fmt, args) ==
  IF fmt = <<>> THEN <<>>
  ELSE IF Head(fmt) # "%" THEN <<Head(fmt)>> \o kprintf(Tail(fmt), args)
  ELSE IF Len(fmt) = 1 THEN <<>>
  ELSE LET dir == Directive(fmt[2], args, TRUE, FALSE)
       IN dir.out \o kprintf(SubSeq(fmt, 3, Len(fmt)), SubSeq(args, 1 + dir.uses, Len(args)))

-----------------------------------------------------------------------------
(* The calls.  A string is in memory with a byte before it and one after it.  *)

\* Memory: a field of n bytes 3 from address 1 on, then the string t.
Memory1(n, t) ==
  [a \in 0..(n + Len(t) + 2) |-> IF a <= n + 1 THEN 3
                                 ELSE IF a = n + Len(t) + 2 THEN Nul1 ELSE t[a - n - 1]]

Calls1 ==
  {c \in [f : {"memmove"}, dst : 0..(MEMSIZE - 1), src : 0..(MEMSIZE - 1), n : 0..MEMSIZE] :
     c.dst + c.n <= MEMSIZE /\ c.src + c.n <= MEMSIZE}
  \cup [f : {"dirent"}, name : Strs(MaxName), sought : Strs(MaxName)]
  \cup [f : {"safestrcpy"}, t : Strs(MaxName), n : 1..(MaxName + 2)]
  \cup [f : {"path"}, path : UNION {[1..k -> {1, Slash}] : k \in 0..MaxPath}]
  \cup [f : {"printint"}, xx : Ints, base : {2, 10, 16}]
  \cup [f : {"printf"}, fmt : Formats, args : {<<-3, 5, 4>>, <<5, 0, -1>>}]

TextStarts(calls) == textCall \in calls /\ textResult = <<>> /\ called = FALSE
TextInit == TextStarts(Calls1)

Field(m, n) == [i \in 1..n |-> m[i]]

\* dirlink() stores the name, dirlookup() compares it: the one who looks it up has a
\* name of his own, of NAMESIZE bytes at most behind which is a Nul1.
DirentOf(c) ==
  LET stored == Field(strncpy(Memory1(NAMESIZE, c.name), 1, NAMESIZE + 2, NAMESIZE), NAMESIZE)
      m == [a \in 0..(NAMESIZE + Len(c.sought)) |->
              IF a <= Len(c.sought) THEN (c.sought \o <<Nul1>>)[a + 1]
              ELSE stored[a - Len(c.sought)]]
  IN strncmp(m, 0, Len(c.sought) + 1, NAMESIZE)

Yields(v) == textResult' = v /\ called' = TRUE /\ UNCHANGED textCall

Compute ==
  LET c == textCall IN
  /\ ~called
  /\ \/ c.f = "memmove" /\ Yields(kmemmove([a \in 0..(MEMSIZE - 1) |-> a], c.dst, c.src, c.n))
     \/ c.f = "dirent" /\ Yields(DirentOf(c))
     \/ c.f = "safestrcpy" /\ Yields(safestrcpy(Memory1(c.n, c.t), 1, c.n + 2, c.n))
     \/ c.f = "path" /\ Yields(Elements(c.path))
     \/ c.f = "printint" /\ Yields(printint(c.xx, c.base, TRUE))
     \/ c.f = "printf" /\ Yields([kernel |-> kprintf(c.fmt, c.args), user |-> vprintf(c.fmt, c.args)])

TextNext == Compute
TextSpec == TextInit /\ [][TextNext]_textVars

-----------------------------------------------------------------------------
(* What the functions are for.                                               *)

Cut(t, n) == SubSeq(t, 1, Min({n, Len(t)}))

\* The value of a row of digits.
Value(s, base) == FoldLeft(LAMBDA v, k : v * base + DigitValue(k), 0, s)

\* Where the two printfs are meant to say the same: no %c, and no %x of a negative.
SameMeaning(c) ==
  \A i \in 1..(Len(c.fmt) - 1) : c.fmt[i] = "%" => /\ c.fmt[i + 1] # "c"
                                                   /\ c.fmt[i + 1] = "x" => \A v \in Range(c.args) : v >= 0

\* A move copies what was there, overlap or not; a name of any length is found again,
\* and only by a name that agrees with it in the first DIRSIZ bytes; a string is cut,
\* ended, and nothing behind its field is touched; a path falls into its elements; a
\* number is printed so that its digits denote it, the least one too; the kernel's
\* printf and the user's print the same.
TextExact ==
  LET c == textCall IN
  called =>
  CASE c.f = "memmove" ->
         \A a \in 0..(MEMSIZE - 1) :
            textResult[a] = IF a \in Range1(c.dst, c.n) THEN c.src + (a - c.dst) ELSE a
    [] c.f = "dirent" -> (textResult = 0) <=> (Cut(c.name, NAMESIZE) = Cut(c.sought, NAMESIZE))
    [] c.f = "safestrcpy" ->
         LET kept1 == Cut(c.t, c.n - 1)
         IN /\ SubSeq(Field(textResult, c.n), 1, Len(kept1) + 1) = Append(kept1, Nul1)
            /\ \A a \in DOMAIN textResult \ Range1(1, c.n) : textResult[a] = Memory1(c.n, c.t)[a]
    [] c.f = "path" ->
         /\ \A e \in Range(textResult) : e # <<>> /\ Slash \notin Range(e)
         /\ Len(textResult) = Cardinality({i \in 1..Len(c.path) :
              c.path[i] # Slash /\ (i = 1 \/ c.path[i - 1] = Slash)})
    [] c.f = "printint" ->
         LET negative == Head(textResult) = "-"
             row == IF negative THEN Tail(textResult) ELSE textResult
         IN /\ (IF negative THEN -Value(row, c.base) ELSE Value(row, c.base)) = c.xx
            /\ Len(row) > 1 => Head(row) # "0"
            /\ c.base = 10 /\ ~negative => atoi(row) = c.xx
    [] c.f = "printf" -> SameMeaning(c) => textResult.kernel = textResult.user
=============================================================================
