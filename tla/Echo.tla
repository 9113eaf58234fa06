-------------------------------- MODULE Echo --------------------------------
(***************************************************************************)
(* The threads that echo lines (os_course_code/code/conc/echo_cnt.c,          *)
(* netp/echo.c) over the robust I/O package (src/csapp.c: rio_readlineb,      *)
(* rio_read, rio_writen): reads and writes transfer less than they are asked. *)
(*                                                                           *)
(* A byte is named by its position in what its client sends.  A call that a   *)
(* signal interrupts (EINTR) is made again and changes nothing.               *)
(***************************************************************************)
EXTENDS Integers, Sequences, SequencesExt, FiniteSets

CONSTANTS EchoThreads,     \* a thread for each connection
          MAXLINE, RIO_BUFSIZE,  \* csapp.h
          MaxSent          \* bound: bytes that the clients send

ASSUME EchoAssumption ==
  {MAXLINE, RIO_BUFSIZE} \subseteq Nat \ {0} /\ MAXLINE >= 2 /\ MaxSent \in Nat

VARIABLES
  sent,      \* by the client: of each byte, whether it is a newline
  shut,      \* the client has closed its side
  taken,     \* bytes that read() has returned
  rioBuf,    \* the unread bytes of rio_buf; rio_cnt is its length
  lineBuf, nChars,  \* buf, and what rio_readlineb() returned
  echoed,    \* what the client got back
  doing,     \* where the thread is
  byte_cnt, holder, \* the counter, and who has its mutex
  loaded     \* the counter as the thread that adds to it has read it

echoVars == <<sent, shut, taken, rioBuf, lineBuf, nChars, echoed, doing, byte_cnt, holder, loaded>>

NUL == 0
Nobody == [is |-> "nobody"]

EchoInit ==
  /\ sent = [t \in EchoThreads |-> <<>>] /\ shut = [t \in EchoThreads |-> FALSE]
  /\ taken = [t \in EchoThreads |-> 0]
  /\ rioBuf = [t \in EchoThreads |-> <<>>] /\ lineBuf = [t \in EchoThreads |-> <<>>]
  /\ nChars = [t \in EchoThreads |-> 0]
  /\ echoed = [t \in EchoThreads |-> <<>>] /\ doing = [t \in EchoThreads |-> "line"]
  /\ byte_cnt = 0 /\ holder = Nobody /\ loaded = 0

Put(f, t, v) == [f EXCEPT ![t] = v]
From(t, a, b) == doing[t] = a /\ doing' = Put(doing, t, b)

-----------------------------------------------------------------------------
ClientSends(t) ==
  /\ ~shut[t]
  /\ FoldFunction(LAMBDA s, n : Len(s) + n, 0, sent) < MaxSent
  /\ \E newline \in BOOLEAN : sent' = Put(sent, t, Append(sent[t], newline))
  /\ UNCHANGED <<shut, taken, rioBuf, lineBuf, nChars, echoed, doing, byte_cnt, holder, loaded>>

ClientShuts(t) ==
  /\ ~shut[t] /\ shut' = Put(shut, t, TRUE)
  /\ UNCHANGED <<sent, taken, rioBuf, lineBuf, nChars, echoed, doing, byte_cnt, holder, loaded>>

\* rio_read() refills its buffer with what read() returns.
Refill(t) ==
  /\ doing[t] = "line" /\ rioBuf[t] = <<>>
  /\ \E k \in 1..RIO_BUFSIZE :
       /\ taken[t] + k <= Len(sent[t])
       /\ rioBuf' = Put(rioBuf, t, [i \in 1..k |-> taken[t] + i])
       /\ taken' = Put(taken, t, taken[t] + k)
  /\ UNCHANGED <<sent, shut, lineBuf, nChars, echoed, doing, byte_cnt, holder, loaded>>

\* rio_readlineb() takes a byte.  It stops behind a newline, and before the buffer is
\* full: it then returns one more than it has taken.
TakeByte(t) ==
  /\ doing[t] = "line" /\ rioBuf[t] # <<>>
  /\ LET line == Append(lineBuf[t], Head(rioBuf[t]))
         newline == sent[t][Head(rioBuf[t])]
         ends == newline \/ Len(line) + 1 >= MAXLINE
     IN /\ lineBuf' = Put(lineBuf, t, line)
        /\ nChars' = Put(nChars, t, IF ~ends THEN 0 ELSE Len(line) + (IF newline THEN 0 ELSE 1))
        /\ doing' = Put(doing, t, IF ends THEN "count" ELSE "line")
  /\ rioBuf' = Put(rioBuf, t, Tail(rioBuf[t]))
  /\ UNCHANGED <<sent, shut, taken, echoed, byte_cnt, holder, loaded>>

\* End of file: 0, or one more than was taken.
AtEof(t) ==
  /\ doing[t] = "line" /\ rioBuf[t] = <<>> /\ taken[t] = Len(sent[t]) /\ shut[t]
  /\ IF lineBuf[t] = <<>> THEN doing' = Put(doing, t, "done") /\ UNCHANGED nChars
     ELSE doing' = Put(doing, t, "count") /\ nChars' = Put(nChars, t, Len(lineBuf[t]) + 1)
  /\ UNCHANGED <<sent, shut, taken, rioBuf, lineBuf, echoed, byte_cnt, holder, loaded>>

\* Mutant of LockCount: P(&mutex) is left out.
LockCountNot(t) ==
  /\ From(t, "count", "add")
  /\ holder' = t /\ loaded' = byte_cnt
  /\ UNCHANGED <<sent, shut, taken, rioBuf, lineBuf, nChars, echoed, byte_cnt>>

\* P(&mutex), and the load of byte_cnt.
LockCount(t) ==
  /\ From(t, "count", "add") /\ holder = Nobody
  /\ holder' = t /\ loaded' = byte_cnt
  /\ UNCHANGED <<sent, shut, taken, rioBuf, lineBuf, nChars, echoed, byte_cnt>>

\* The store, and V(&mutex).
AddCount(t) ==
  /\ From(t, "add", "echo")
  /\ byte_cnt' = loaded + nChars[t]
  /\ holder' = Nobody /\ loaded' = 0
  /\ UNCHANGED <<sent, shut, taken, rioBuf, lineBuf, nChars, echoed>>

\* What is left to write of buf, with the NUL behind the line where n counts it.
Unwritten(t) == IF Len(lineBuf[t]) < nChars[t] THEN Append(lineBuf[t], NUL) ELSE lineBuf[t]

\* rio_writen(): write() takes k of the bytes that are left.
WriteBytes(t) ==
  /\ doing[t] = "echo"
  /\ \E k \in 1..nChars[t] :
       LET rest == SubSeq(Unwritten(t), k + 1, nChars[t]) IN
       /\ echoed' = Put(echoed, t, echoed[t] \o SubSeq(Unwritten(t), 1, k))
       /\ nChars' = Put(nChars, t, Len(rest))
       /\ lineBuf' = Put(lineBuf, t, rest)
       /\ doing' = Put(doing, t, IF rest = <<>> THEN "line" ELSE "echo")
  /\ UNCHANGED <<sent, shut, taken, rioBuf, byte_cnt, holder, loaded>>

EchoNext == \E t \in EchoThreads :
  \/ ClientSends(t) \/ ClientShuts(t) \/ Refill(t) \/ TakeByte(t) \/ AtEof(t)
  \/ LockCount(t) \/ AddCount(t) \/ WriteBytes(t)

EchoSpec == EchoInit /\ [][EchoNext]_echoVars

-----------------------------------------------------------------------------
NoNuls(s) == SelectSeq(s, LAMBDA k : k # NUL)
InLine(t) == IF doing[t] \in {"count", "add", "echo"} THEN Unwritten(t) ELSE lineBuf[t]

\* Every byte that was read is echoed, waits in the line or in rio_buf, once and in
\* order.
NothingLost == \A t \in EchoThreads :
  NoNuls(echoed[t] \o InLine(t)) \o rioBuf[t] = [k \in 1..taken[t] |-> k]

\* A NUL is echoed too, behind a line that the end of file or the buffer cut off,
\* and nowhere else.
NulsEndCutLines == \A t \in EchoThreads :
  LET all == echoed[t] \o InLine(t) IN
  \A i \in 1..Len(all) : all[i] = NUL =>
    /\ i > 1 /\ all[i - 1] # NUL /\ ~sent[t][all[i - 1]]
    /\ \/ \A j \in (i - MAXLINE + 1)..(i - 1) : j >= 1 /\ all[j] # NUL
       \/ i = Len(all) /\ shut[t] /\ taken[t] = Len(sent[t])

\* The counter has what the threads have echoed or are about to.
CountExact ==
  holder = Nobody =>
    byte_cnt = FoldFunction(+, 0, [t \in EchoThreads |->
      Len(echoed[t]) + (IF doing[t] = "echo" THEN nChars[t] ELSE 0)])

EchoSound == NothingLost /\ NulsEndCutLines /\ CountExact
=============================================================================
