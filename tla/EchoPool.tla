------------------------------ MODULE EchoPool ------------------------------
(***************************************************************************)
(* The echo server that serves its clients from one loop around select()      *)
(* (os_course_code/code/conc/echoservers.c).  A client sends whole lines;      *)
(* check_clients() works on a copy of the client's rio_t, so that lines which  *)
(* arrive together are read together, and only the first of them is kept.      *)
(***************************************************************************)
EXTENDS Integers, FiniteSets

CONSTANTS Clients2, Polite,   \* descriptors; those whose client awaits its echo
          FD_SETSIZE, MaxLines

ASSUME EchoPoolAssumption ==
  FD_SETSIZE \in Nat \ {0} /\ MaxLines \in Nat /\ Polite \subseteq Clients2

VARIABLES
  client,    \* "off", "calling" or "connected"; "closed" until the server closes too
  inSocket, answered, lost,   \* its lines: unread, echoed, read and forgotten
  clientfd, maxi,             \* the pool: a slot is a descriptor or Vacant
  readSet, readySet, nready,
  slotAt                      \* i of check_clients(); -1: before select()

poolVars == <<client, inSocket, answered, lost, clientfd, maxi, readSet, readySet, nready, slotAt>>

Vacant == [fd |-> -1]
Listen == [fd |-> 0]
Slots == 0..(FD_SETSIZE - 1)

\* init_pool()
PoolInit ==
  /\ client = [c \in Clients2 |-> "off"]
  /\ inSocket = [c \in Clients2 |-> 0] /\ answered = inSocket /\ lost = inSocket
  /\ clientfd = [i \in Slots |-> Vacant] /\ maxi = -1
  /\ readSet = {Listen} /\ readySet = {} /\ nready = 0 /\ slotAt = -1

-----------------------------------------------------------------------------
Connect(c) ==
  /\ client[c] = "off" /\ client' = [client EXCEPT ![c] = "calling"]
  /\ UNCHANGED <<inSocket, answered, lost, clientfd, maxi, readSet, readySet, nready, slotAt>>

SentBy(c) == inSocket[c] + answered[c] + lost[c]

SendLine(c) ==
  /\ client[c] = "connected" /\ SentBy(c) < MaxLines
  /\ c \in Polite => inSocket[c] = 0
  /\ inSocket' = [inSocket EXCEPT ![c] = @ + 1]
  /\ UNCHANGED <<client, answered, lost, clientfd, maxi, readSet, readySet, nready, slotAt>>

CloseLine(c) ==
  /\ client[c] = "connected" /\ client' = [client EXCEPT ![c] = "closed"]
  /\ UNCHANGED <<inSocket, answered, lost, clientfd, maxi, readSet, readySet, nready, slotAt>>

IsReady(c) == inSocket[c] > 0 \/ client[c] = "closed"
Calling == {c \in Clients2 : client[c] = "calling"}

\* Select()
PoolSelect ==
  /\ slotAt = -1
  /\ readySet' = {c \in readSet \ {Listen} : IsReady(c)} \cup (IF Calling = {} THEN {} ELSE {Listen})
  /\ readySet' # {}
  /\ nready' = Cardinality(readySet')
  /\ slotAt' = 0
  /\ UNCHANGED <<client, inSocket, answered, lost, clientfd, maxi, readSet>>

\* Mutant of AddClient: the listening descriptor is not counted off nready.
AddClientKeeps ==
  /\ slotAt = 0 /\ Listen \in readySet
  /\ \E c \in Calling, i \in Slots :
       /\ clientfd[i] = Vacant /\ \A j \in 0..(i - 1) : clientfd[j] # Vacant
       /\ clientfd' = [clientfd EXCEPT ![i] = c]
       /\ client' = [client EXCEPT ![c] = "connected"]
       /\ readSet' = readSet \cup {c}
       /\ maxi' = IF i > maxi THEN i ELSE maxi
  /\ readySet' = readySet \ {Listen}
  /\ UNCHANGED <<inSocket, answered, lost, nready, slotAt>>

\* Accept() and add_client(); without a slot the server ends in app_error().
AddClient ==
  /\ slotAt = 0 /\ Listen \in readySet
  /\ \E c \in Calling, i \in Slots :
       /\ clientfd[i] = Vacant /\ \A j \in 0..(i - 1) : clientfd[j] # Vacant
       /\ clientfd' = [clientfd EXCEPT ![i] = c]
       /\ client' = [client EXCEPT ![c] = "connected"]
       /\ readSet' = readSet \cup {c}
       /\ maxi' = IF i > maxi THEN i ELSE maxi
  /\ nready' = nready - 1
  /\ readySet' = readySet \ {Listen}
  /\ UNCHANGED <<inSocket, answered, lost, slotAt>>

Checking == slotAt >= 0 /\ Listen \notin readySet /\ slotAt <= maxi /\ nready > 0

\* One round of the loop of check_clients() on a descriptor that is not ready.
SkipSlot ==
  /\ Checking /\ clientfd[slotAt] \notin readySet
  /\ slotAt' = slotAt + 1
  /\ UNCHANGED <<client, inSocket, answered, lost, clientfd, maxi, readSet, readySet, nready>>

\* A line is echoed; those that the same read() returned go with the copied rio_t.
ServeSlot ==
  LET c == clientfd[slotAt] IN
  /\ Checking /\ c \in readySet /\ inSocket[c] > 0
  /\ \E k \in 1..inSocket[c] :
       /\ inSocket' = [inSocket EXCEPT ![c] = @ - k]
       /\ lost' = [lost EXCEPT ![c] = @ + k - 1]
  /\ answered' = [answered EXCEPT ![c] = @ + 1]
  /\ nready' = nready - 1 /\ slotAt' = slotAt + 1
  /\ readySet' = readySet \ {c}
  /\ UNCHANGED <<client, clientfd, maxi, readSet>>

\* End of file: the client leaves the pool, its descriptor may be given out again.
DropClient ==
  LET c == clientfd[slotAt] IN
  /\ Checking /\ c \in readySet /\ inSocket[c] = 0
  /\ client' = [client EXCEPT ![c] = "off"]
  /\ clientfd' = [clientfd EXCEPT ![slotAt] = Vacant]
  /\ readSet' = readSet \ {c}
  /\ nready' = nready - 1 /\ slotAt' = slotAt + 1
  /\ readySet' = readySet \ {c}
  /\ answered' = [answered EXCEPT ![c] = 0] /\ lost' = [lost EXCEPT ![c] = 0]
  /\ UNCHANGED <<inSocket, maxi>>

EndRound ==
  /\ slotAt >= 0 /\ Listen \notin readySet /\ (slotAt > maxi \/ nready = 0)
  /\ slotAt' = -1
  /\ UNCHANGED <<client, inSocket, answered, lost, clientfd, maxi, readSet, readySet, nready>>

PoolNext == \/ PoolSelect \/ AddClient \/ SkipSlot \/ ServeSlot \/ DropClient \/ EndRound
            \/ \E c \in Clients2 : Connect(c) \/ SendLine(c) \/ CloseLine(c)

PoolSpec == PoolInit /\ [][PoolNext]_poolVars

-----------------------------------------------------------------------------
\* The pool, the set that select() watches and the slots agree; a round ends with
\* every ready client served, no slot behind maxi is in use; a client that awaits its
\* echo loses no line.
PoolSound ==
  /\ readSet = {Listen} \cup {clientfd[i] : i \in {j \in Slots : clientfd[j] # Vacant}}
  /\ readSet = {Listen} \cup {c \in Clients2 : client[c] \in {"connected", "closed"}}
  /\ \A i, j \in Slots : clientfd[i] # Vacant /\ i # j => clientfd[i] # clientfd[j]
  /\ \A i \in Slots : clientfd[i] # Vacant => i <= maxi
  /\ slotAt >= 0 => /\ nready = Cardinality(readySet)
                    /\ \A i \in 0..(slotAt - 1) : clientfd[i] \notin readySet
  /\ slotAt = -1 => nready = 0
  /\ \A c \in Polite : lost[c] = 0 /\ inSocket[c] <= 1
=============================================================================
