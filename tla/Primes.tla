-------------------------------- MODULE Primes --------------------------------
(***************************************************************************)
(* The prime sieve (xv6-labs/user/primes.c): every process reads numbers *)
(* from one and the same pipe, writes what is left of them back into it, *)
(* and forks the next process, whose end it awaits.                      *)
(***************************************************************************)
EXTENDS Integers, Sequences, SequencesExt

CONSTANT MaxNum   \* bound: the largest number (35 in the source)
ASSUME PrimesAssumption == MaxNum \in Nat /\ MaxNum >= 2

VARIABLES
  top,      \* the numbers are 2..top
  numbers,  \* in the pipe
  stages,   \* max of primes(), for every process that is in it, the youngest last
  atPrime,  \* what the youngest has read first; 0: nothing yet
  kept,     \* its num2Next[0..cnt-1]
  printed,
  forkFailed   \* history: a fork() has failed

sieveVars == <<top, numbers, stages, atPrime, kept, printed, forkFailed>>

SieveInit ==
  /\ top \in 2..MaxNum
  /\ numbers = [k \in 1..(top - 1) |-> k + 1]
  /\ stages = <<top>> /\ atPrime = 0 /\ kept = <<>> /\ printed = <<>>
  /\ forkFailed = FALSE

Running1 == stages # <<>>

\* read() of the first number, which is printed.
ReadPrime ==
  /\ Running1 /\ atPrime = 0 /\ numbers # <<>>
  /\ printed' = Append(printed, Head(numbers))
  /\ numbers' = Tail(numbers)
  /\ IF Head(numbers) = Last(stages)
     THEN stages' = <<>> /\ UNCHANGED atPrime   \* exit(0), and all the wait()s return
     ELSE atPrime' = Head(numbers) /\ UNCHANGED stages
  /\ UNCHANGED <<top, kept, forkFailed>>

\* Mutant of Sieve: a number is kept unless it is the prime's double.
SieveDouble(n) == IF n = 2 * atPrime THEN kept ELSE Append(kept, n)
Sieve(n) == IF n % atPrime = 0 THEN kept ELSE Append(kept, n)

\* A round of the loop that is not its last one.
ReadNumber ==
  /\ Running1 /\ atPrime # 0 /\ numbers # <<>> /\ Head(numbers) < Last(stages)
  /\ kept' = Sieve(Head(numbers)) /\ numbers' = Tail(numbers)
  /\ UNCHANGED <<top, stages, atPrime, printed, forkFailed>>

\* After the number max, what was kept is written, and a child goes on with it; its
\* max is num2Next[cnt-1].  Without a child wait() and primes() return at once, in
\* this process and in those that await it.
ReadLast ==
  /\ Running1 /\ atPrime # 0 /\ numbers # <<>> /\ Head(numbers) >= Last(stages)
  /\ LET rest == Sieve(Head(numbers)) IN
       /\ numbers' = Tail(numbers) \o rest
       /\ \/ stages' = Append(stages, Last(rest)) /\ UNCHANGED forkFailed
          \/ stages' = <<>> /\ forkFailed' = TRUE
  /\ kept' = <<>> /\ atPrime' = 0
  /\ UNCHANGED <<top, printed>>

SieveNext == ReadPrime \/ ReadNumber \/ ReadLast
SieveSpec == SieveInit /\ [][SieveNext]_sieveVars

-----------------------------------------------------------------------------
IsPrime(k) == \A d \in 2..(k - 1) : k % d # 0
PrimesUpTo(n) == SelectSeq([k \in 1..(n - 1) |-> k + 1], IsPrime)

\* The primes are printed in their order, all of them by the time the first process
\* is back in main() - unless a fork() has failed: then the pipe still holds what no
\* printed prime divides.  While the sieve runs the pipe holds the numbers up to the
\* reader's max, as a read() of an empty pipe would never return: the reader could
\* write to it itself.
PrimesExact ==
  /\ IsPrefix(printed, PrimesUpTo(top))
  /\ Running1 => numbers # <<>> /\ Last(numbers) = Last(stages)
  /\ ~Running1 /\ ~forkFailed => numbers = <<>> /\ printed = PrimesUpTo(top)
  /\ ~Running1 /\ forkFailed =>
       numbers = SelectSeq([k \in 1..(top - 1) |-> k + 1],
                           LAMBDA n : \A i \in 1..Len(printed) : n % printed[i] # 0)
=============================================================================
