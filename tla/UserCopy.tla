------------------------------ MODULE UserCopy ------------------------------
(***************************************************************************)
(* How the kernel reaches user memory (xv6-labs/kernel/vm.c: copyout, copyin,  *)
(* copyinstr; kernel/syscall.c: fetchaddr, fetchstr), page by page, with        *)
(* addresses and lengths as the program gives them.                            *)
(***************************************************************************)
EXTENDS Integers, Sequences

CONSTANTS CPGSIZE, USERPAGES,  \* bytes of a page; pages below MAXVA
          ADDRWRAP,            \* addresses are a uint64: this is 2^64
          WORDSIZE,            \* sizeof(uint64)
          MaxLen               \* bound: the length of a copy

CMAXVA == USERPAGES * CPGSIZE
ASSUME UserCopyAssumption ==
  /\ {CPGSIZE, USERPAGES, WORDSIZE} \subseteq Nat \ {0} /\ MaxLen \in Nat
  /\ ADDRWRAP \in Nat /\ ADDRWRAP >= CMAXVA /\ ADDRWRAP % CPGSIZE = 0

VARIABLES
  mem2,   \* the user's memory: the pages that are valid with PTE_U, the address of
          \* the NUL in it, and p->sz
  request,   \* the function, its address and length as they were given
  va, len, touched,  \* srcva or dstva, len or max; the addresses of the bytes copied
  ret     \* "running", or what the function returned

copyVars == <<mem2, request, va, len, touched, ret>>

Addresses2 == 0..(ADDRWRAP - 1)
NoNul == -1

CopyInit ==
  /\ \E pages \in SUBSET (0..(USERPAGES - 1)), nul \in {NoNul} \cup 0..(CMAXVA - 1),
        sz \in {0, CMAXVA \div 2, CMAXVA} :
       mem2 = [pages |-> pages, nul |-> nul, sz |-> sz]
  /\ \E f \in {"copy", "str", "addr"}, a \in Addresses2, n \in 0..MaxLen :
       /\ f = "addr" => n = WORDSIZE
       /\ f # "str" => mem2.nul = NoNul
       /\ f # "addr" => mem2.sz = 0
       /\ request = [f |-> f, addr |-> a, len |-> n]
  /\ va = request.addr /\ len = request.len /\ touched = <<>>
  /\ ret = "running"

-----------------------------------------------------------------------------
PGROUNDDOWN(a) == a - (a % CPGSIZE)

\* walkaddr(): a page the user may use, below MAXVA.
walkaddr(a) == a < CMAXVA /\ a \div CPGSIZE \in mem2.pages

\* Mutant of InPage: the offset in the page is forgotten.
InPageWhole(n) == IF CPGSIZE > n THEN n ELSE CPGSIZE

\* How many of n bytes are in the page of va.
InPage(n) ==
  LET room == CPGSIZE - (va - PGROUNDDOWN(va)) IN IF room > n THEN n ELSE room

NextPage == va' = (PGROUNDDOWN(va) + CPGSIZE) % ADDRWRAP
Upto(n) == [k \in 1..n |-> va + k - 1]

\* fetchaddr() looks at p->sz before it copies.
FetchRefused ==
  /\ ret = "running" /\ request.f = "addr" /\ touched = <<>> /\ len = WORDSIZE
  /\ va >= mem2.sz \/ (va + WORDSIZE) % ADDRWRAP > mem2.sz
  /\ ret' = "-1"
  /\ UNCHANGED <<mem2, request, va, len, touched>>

FetchAllowed ==
  request.f = "addr" /\ len = WORDSIZE => va < mem2.sz /\ (va + WORDSIZE) % ADDRWRAP <= mem2.sz

\* A round of the loop of copyin() or copyout().
CopyPage ==
  /\ ret = "running" /\ request.f # "str" /\ FetchAllowed
  /\ len > 0 /\ walkaddr(PGROUNDDOWN(va))
  /\ touched' = touched \o Upto(InPage(len))
  /\ len' = len - InPage(len)
  /\ NextPage
  /\ UNCHANGED <<mem2, request, ret>>

\* The loop of copyinstr(): up to a NUL, the end of the page, or max bytes.
CopyStrPage ==
  /\ ret = "running" /\ request.f = "str" /\ len > 0 /\ walkaddr(PGROUNDDOWN(va))
  /\ LET n == InPage(len) IN
       IF mem2.nul \in va..(va + n - 1)
       THEN /\ touched' = touched \o Upto(mem2.nul - va)
            /\ ret' = "0"
            /\ UNCHANGED <<len, va>>
       ELSE /\ touched' = touched \o Upto(n)
            /\ len' = len - n
            /\ NextPage /\ UNCHANGED ret
  /\ UNCHANGED <<mem2, request>>

BadPage ==
  /\ ret = "running" /\ len > 0 /\ FetchAllowed /\ ~walkaddr(PGROUNDDOWN(va))
  /\ ret' = "-1"
  /\ UNCHANGED <<mem2, request, va, len, touched>>

AllCopied ==
  /\ ret = "running" /\ len = 0
  /\ ret' = IF request.f = "str" THEN "-1" ELSE "0"
  /\ UNCHANGED <<mem2, request, va, len, touched>>

CopyNext == FetchRefused \/ CopyPage \/ CopyStrPage \/ BadPage \/ AllCopied
CopySpec == CopyInit /\ [][CopyNext]_copyVars

-----------------------------------------------------------------------------
\* The user may use every byte from a to b-1; an address that wraps is none.
Usable(a, b) == \A k \in a..(b - 1) : k < CMAXVA /\ k \div CPGSIZE \in mem2.pages
Bytes1(a, b) == [k \in 1..(b - a) |-> a + k - 1]

\* A copy succeeds when all of it is the user's, and then has every byte once; when
\* it fails it has touched a part of the range and nothing else.  A string has to
\* end within max bytes.
CopyExact ==
  LET a == request.addr  b == request.addr + request.len IN
  /\ ret = "0" /\ request.f # "str" => Usable(a, b) /\ touched = Bytes1(a, b)
  /\ ret = "-1" /\ request.f = "copy" => ~Usable(a, b)
  /\ request.f = "addr" => (ret = "0" => b <= mem2.sz) /\ (ret = "-1" => ~(Usable(a, b) /\ b <= mem2.sz))
  /\ request.f = "str" =>
       /\ ret = "0" => mem2.nul \in a..(b - 1) /\ Usable(a, mem2.nul + 1) /\ touched = Bytes1(a, mem2.nul)
       /\ ret = "-1" => ~(mem2.nul \in a..(b - 1) /\ Usable(a, mem2.nul + 1))
  /\ touched = Bytes1(a, a + Len(touched)) /\ Usable(a, a + Len(touched)) /\ Len(touched) <= request.len
=============================================================================
