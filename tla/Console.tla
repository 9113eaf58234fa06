------------------------------- MODULE Console -------------------------------
(***************************************************************************)
(* The console (xv6-labs/kernel/console.c) over the UART (uart.c): keys  *)
(* that are typed, users that read and write, the ring of input with its *)
(* three free-running indices, the ring of output.                       *)
(*                                                                       *)
(* cons.lock is held from the first step of a call to its sleep or       *)
(* return; the interrupt handler spins for it on another hart.  kill()   *)
(* does not take it, and may come between a reader's test of killed and  *)
(* its sleep.  The UART may be ready for a byte, or not, at any time.    *)
(* Bytes that nobody reads again are forgotten.                          *)
(***************************************************************************)
EXTENDS Integers, Sequences

CONSTANTS Users, NoUser,
          Mortal,           \* the users that may be killed
          Letters,          \* what can be typed, but for the keys with a meaning
          INPUT_BUF,
          UART_TX_BUF_SIZE,
          IndexWrap,        \* stands for 2^32: r, w and e are uints
          MaxCount          \* bound on the n of a read or write

ASSUME ConsoleAssumption ==
  /\ {INPUT_BUF, MaxCount, IndexWrap} \subseteq Nat \ {0}
  /\ IndexWrap % INPUT_BUF = 0 /\ IndexWrap > INPUT_BUF
  /\ UART_TX_BUF_SIZE \in Nat /\ UART_TX_BUF_SIZE > 1
  /\ NoUser \notin Users /\ Mortal \subseteq Users

VARIABLES
  buf, r, w, e,   \* cons: the input, its read, write and edit index
  consLock,
  call,           \* a user's call: "none", "read", "write", or asleep in "read"
  dozing,         \* the readers that sleep on cons.r
  nodding,        \* the reader that is about to: it was not killed when it looked
  left, got,      \* n, and the bytes that the call has copied out
  killed,
  tx, txR, txW,   \* uart_tx_buf, uart_tx_r, uart_tx_w
  panicked

input == <<buf, r, w, e>>
uart == <<tx, txR, txW>>
consVars == <<input, consLock, call, dozing, nodding, left, got, killed, uart, panicked>>

ConsInit ==
  /\ buf = [k \in 0..(INPUT_BUF - 1) |-> "none"]
  /\ r = 0 /\ w = 0 /\ e = 0
  /\ consLock = NoUser
  /\ call = [u \in Users |-> "none"] /\ dozing = {} /\ nodding = {}
  /\ left = [u \in Users |-> 0] /\ got = [u \in Users |-> <<>>]
  /\ killed = {}
  /\ tx = [k \in 0..(UART_TX_BUF_SIZE - 1) |-> NoUser]
  /\ txR = 0 /\ txW = 0 /\ panicked = FALSE

Up(i) == (i + 1) % IndexWrap
Down(i) == (i + IndexWrap - 1) % IndexWrap
Dist(j, i) == (j + IndexWrap - i) % IndexWrap
TxNext(i) == (i + 1) % UART_TX_BUF_SIZE

-----------------------------------------------------------------------------
(* consoleintr(), one key at a time; the echo only waits for the UART. *)

KeyUnchanged == UNCHANGED <<consLock, call, nodding, left, got, killed, uart, panicked>>

\* Whether a byte, once stored, makes what was typed available to readers.
LineEnds(c) == c \in {"nl", "eof"} \/ Up(e) = (r + INPUT_BUF) % IndexWrap

\* Mutant of KeyTyped: only a newline or an end of file wakes the readers.
KeyTypedQuiet(c) ==
  /\ consLock = NoUser /\ Dist(e, r) < INPUT_BUF
  /\ buf' = [buf EXCEPT ![e % INPUT_BUF] = c]
  /\ e' = Up(e)
  /\ w' = IF LineEnds(c) THEN e' ELSE w
  /\ dozing' = IF c \in {"nl", "eof"} THEN {} ELSE dozing
  /\ UNCHANGED r /\ KeyUnchanged

\* A byte goes into the ring; at the end of a line w moves up and readers are woken.
KeyTyped(c) ==
  /\ consLock = NoUser /\ Dist(e, r) < INPUT_BUF
  /\ buf' = [buf EXCEPT ![e % INPUT_BUF] = c]
  /\ e' = Up(e)
  /\ IF LineEnds(c) THEN w' = e' /\ dozing' = {} ELSE UNCHANGED <<w, dozing>>
  /\ UNCHANGED r /\ KeyUnchanged

KeyErase ==
  /\ consLock = NoUser /\ e # w
  /\ e' = Down(e)
  /\ buf' = [buf EXCEPT ![e' % INPUT_BUF] = "none"]
  /\ UNCHANGED <<r, w, dozing>> /\ KeyUnchanged

\* ^U: back to the start of the line.
KeyKill ==
  /\ consLock = NoUser /\ e # w
  /\ \E k \in 0..(Dist(e, w) - 1) :
       /\ e' = (w + k) % IndexWrap
       /\ \A j \in k..(Dist(e, w) - 1) : buf[(w + j) % INPUT_BUF] # "nl"
       /\ k > 0 => buf[(w + k - 1) % INPUT_BUF] = "nl"
       /\ buf' = [i \in DOMAIN buf |-> IF \E j \in k..(Dist(e, w) - 1) : i = (w + j) % INPUT_BUF
                                      THEN "none" ELSE buf[i]]
  /\ UNCHANGED <<r, w, dozing>> /\ KeyUnchanged

-----------------------------------------------------------------------------
(* consoleread() and consolewrite() *)

Call(u) ==
  /\ call[u] = "none" /\ consLock = NoUser
  /\ \E c \in {"read", "write"}, n \in 0..MaxCount :
       /\ call' = [call EXCEPT ![u] = c]
       /\ left' = [left EXCEPT ![u] = n]
  /\ consLock' = u
  /\ UNCHANGED <<input, dozing, nodding, got, killed, uart, panicked>>

\* release(&cons.lock), and the count to the caller.
Returns(u) ==
  /\ consLock' = NoUser
  /\ call' = [call EXCEPT ![u] = "none"]
  /\ left' = [left EXCEPT ![u] = 0]
  /\ got' = [got EXCEPT ![u] = <<>>]
  /\ UNCHANGED <<dozing, nodding, killed, uart, panicked>>

Reads(u) == call[u] = "read" /\ consLock = u /\ u \notin nodding
Next1 == buf[r % INPUT_BUF]
Take == r' = Up(r) /\ buf' = [buf EXCEPT ![r % INPUT_BUF] = "none"]

\* The loop of consoleread() takes a byte, and goes on if it may.
ReadByte(u) ==
  /\ Reads(u) /\ left[u] > 0 /\ r # w /\ Next1 # "eof"
  /\ Take
  /\ got' = [got EXCEPT ![u] = Append(@, Next1)]
  /\ left' = [left EXCEPT ![u] = IF Next1 = "nl" THEN 0 ELSE @ - 1]
  /\ UNCHANGED <<w, e, consLock, call, dozing, nodding, killed, uart, panicked>>

\* n bytes were read, or the line has ended.
ReadDone(u) == Reads(u) /\ left[u] = 0 /\ Returns(u) /\ UNCHANGED input

\* Mutant of ReadEof: an end of file that ends a line is not saved for next time.
ReadEofLost(u) ==
  /\ Reads(u) /\ left[u] > 0 /\ r # w /\ Next1 = "eof"
  /\ Take
  /\ Returns(u)
  /\ UNCHANGED <<w, e>>

\* ^D: "Save ^D for next time, to make sure caller gets a 0-byte result."
ReadEof(u) ==
  /\ Reads(u) /\ left[u] > 0 /\ r # w /\ Next1 = "eof"
  /\ IF got[u] = <<>> THEN Take ELSE r' = Down(Up(r)) /\ UNCHANGED buf
  /\ Returns(u)
  /\ UNCHANGED <<w, e>>

\* either_copyout() fails: the byte is gone.
ReadBadAddress(u) ==
  /\ Reads(u) /\ left[u] > 0 /\ r # w /\ Next1 # "eof"
  /\ Take
  /\ Returns(u)
  /\ UNCHANGED <<w, e>>

ReadKilled(u) ==
  Reads(u) /\ left[u] > 0 /\ r = w /\ u \in killed /\ Returns(u) /\ UNCHANGED input

\* Nothing to read, and not killed;
ReadWaits(u) ==
  /\ Reads(u) /\ left[u] > 0 /\ r = w /\ u \notin killed
  /\ nodding' = nodding \cup {u}
  /\ UNCHANGED <<input, consLock, call, dozing, left, got, killed, uart, panicked>>

\* sleep(&cons.r, &cons.lock), whether or not it was killed since.
ReadSleeps(u) ==
  /\ u \in nodding
  /\ consLock' = NoUser
  /\ dozing' = dozing \cup {u}
  /\ nodding' = nodding \ {u}
  /\ UNCHANGED <<input, call, left, got, killed, uart, panicked>>

ReadWoken(u) ==
  /\ call[u] = "read" /\ u \notin dozing /\ consLock = NoUser
  /\ consLock' = u
  /\ UNCHANGED <<input, call, dozing, nodding, left, got, killed, uart, panicked>>

\* kill() of a user; it wakes the victim.  One that is not in a call exits.
KillUser(u) ==
  /\ u \in Mortal /\ call[u] = "read" /\ u \notin killed
  /\ killed' = killed \cup {u}
  /\ dozing' = dozing \ {u}
  /\ UNCHANGED <<input, consLock, call, nodding, left, got, uart, panicked>>

Exits(u) ==
  /\ call[u] = "none" /\ u \in killed
  /\ killed' = killed \ {u}
  /\ UNCHANGED <<input, consLock, call, dozing, nodding, left, got, uart, panicked>>

TxFull == TxNext(txW) = txR

\* uartputc() of a byte, with uartstart() in UartStart.
WriteByte(u) ==
  /\ call[u] = "write" /\ consLock = u /\ left[u] > 0 /\ ~TxFull
  /\ tx' = [tx EXCEPT ![txW] = u]
  /\ txW' = TxNext(txW)
  /\ left' = [left EXCEPT ![u] = @ - 1]
  /\ UNCHANGED <<input, consLock, call, dozing, nodding, got, killed, txR, panicked>>

\* either_copyin() fails: the call returns with what it has written.
CopyinFails(u) ==
  call[u] = "write" /\ consLock = u /\ left[u] > 0 /\ Returns(u) /\ UNCHANGED input

\* The buffer is full: sleep() with cons.lock held, and sched() panics.
WritePanics(u) ==
  /\ call[u] = "write" /\ consLock = u /\ left[u] > 0 /\ TxFull
  /\ panicked' = TRUE
  /\ UNCHANGED <<input, consLock, call, dozing, nodding, left, got, killed, uart>>

WriteDone(u) ==
  call[u] = "write" /\ consLock = u /\ left[u] = 0 /\ Returns(u) /\ UNCHANGED input

-----------------------------------------------------------------------------
\* uartstart(), from uartputc() or from the UART's interrupt, when the UART can
\* take a byte.
UartStart ==
  /\ txW # txR
  /\ tx' = [tx EXCEPT ![txR] = NoUser]
  /\ txR' = TxNext(txR)
  /\ UNCHANGED <<input, consLock, call, dozing, nodding, left, got, killed, txW, panicked>>

ConsNext ==
  /\ ~panicked
  /\ \/ \E c \in Letters \cup {"nl", "eof"} : KeyTyped(c)
     \/ KeyErase \/ KeyKill \/ UartStart
     \/ \E u \in Users :
          \/ Call(u) \/ ReadByte(u) \/ ReadDone(u) \/ ReadEof(u) \/ ReadBadAddress(u)
          \/ ReadKilled(u) \/ ReadWaits(u) \/ ReadSleeps(u) \/ ReadWoken(u)
          \/ KillUser(u) \/ Exits(u)
          \/ WriteByte(u) \/ CopyinFails(u) \/ WritePanics(u) \/ WriteDone(u)

ConsSpec == ConsInit /\ [][ConsNext]_consVars

-----------------------------------------------------------------------------
Typable == Letters \cup {"nl", "eof"}

ConsTypeOK ==
  /\ buf \in [0..(INPUT_BUF - 1) -> Typable \cup {"none"}]
  /\ {r, w, e} \subseteq 0..(IndexWrap - 1)
  /\ consLock \in Users \cup {NoUser}
  /\ call \in [Users -> {"none", "read", "write"}]
  /\ dozing \subseteq Users /\ nodding \subseteq Users /\ killed \subseteq Users
  /\ left \in [Users -> 0..MaxCount]
  /\ got \in [Users -> Seq(Typable)]
  /\ tx \in [0..(UART_TX_BUF_SIZE - 1) -> Users \cup {NoUser}]
  /\ {txR, txW} \subseteq 0..(UART_TX_BUF_SIZE - 1)
  /\ panicked \in BOOLEAN

\* A reader sleeps only while no line, and no end of file, is there for it.
ConsoleServes == ConsTypeOK /\ (dozing # {} => r = w)

\* The console is a line discipline: no byte is lost, repeated or taken out of its
\* line, however the indices wrap, and a full line is handed over.
Ring(b, size, from, n) == [k \in 1..n |-> b[(from + k - 1) % size]]
LD == INSTANCE LineDiscipline WITH
        LineCapacity <- INPUT_BUF, OutCapacity <- UART_TX_BUF_SIZE - 1,
        edit <- Ring(buf, INPUT_BUF, w, Dist(e, w)),
        lines <- Ring(buf, INPUT_BUF, r, Dist(w, r)),
        given <- got,
        output <- Ring(tx, UART_TX_BUF_SIZE, txR, (txW + UART_TX_BUF_SIZE - txR) % UART_TX_BUF_SIZE)
ConsoleImplementsLines == LD!LDSpec
=============================================================================
