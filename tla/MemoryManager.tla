---------------------------- MODULE MemoryManager ----------------------------
(***************************************************************************)
(* The kernel heap, src/src/memory_manager.cpp: first fit over a doubly    *)
(* linked list of chunks whose headers live in the arena itself.           *)
(*                                                                         *)
(* mem maps the address of every chunk header that is on the list to the   *)
(* header's contents; a header that free() merges away leaves the domain.  *)
(* The loop of malloc() is one action per iteration; the rest of malloc()  *)
(* and the whole of free() are one action each, because nothing that runs  *)
(* in an interrupt handler of this kernel calls either.                    *)
(*                                                                         *)
(* Sums of size_t values are taken modulo WordSize, as the code's are.     *)
(***************************************************************************)
EXTENDS Integers

CONSTANTS
  Start,        (* constructor argument start: kernel_main passes 10 MiB   *)
  Size,         (* constructor argument size                               *)
  HeaderSize,   (* sizeof(MemoryChunk): 16 on i386                         *)
  WordSize,     (* 2^32: size_t is a 32-bit unsigned                       *)
  Requests      (* the sizes malloc() is called with                       *)

ASSUME HeapAssumption ==
  /\ Start \in Nat \ {0}
  /\ Size \in Nat
  /\ HeaderSize \in Nat \ {0}
  /\ WordSize \in Nat \ {0}
  /\ Start + Size <= WordSize
  /\ Requests \subseteq 0 .. (WordSize - 1)

VARIABLES
  first,        (* MemoryManager::first                                    *)
  mem,          (* header address |-> MemoryChunk                          *)
  pc,           (* "scan" while the for loop of malloc() runs, else "idle" *)
  want,         (* malloc()'s requested_size                               *)
  chunk,        (* malloc()'s loop cursor                                  *)
  ret           (* the pointer the last call of malloc() returned          *)

vars == <<first, mem, pc, want, chunk, ret>>

NULL == 0

Word(n) == n % WordSize

End == Start + Size

Chunk == [next : Nat, prev : Nat, allocated : BOOLEAN, size : Nat]

-----------------------------------------------------------------------------

Init ==
  /\ first = IF Size < HeaderSize THEN NULL ELSE Start
  /\ mem = [a \in {first} \ {NULL} |->
              [next |-> NULL, prev |-> NULL, allocated |-> FALSE,
               size |-> Size - HeaderSize]]
  /\ pc = "idle"
  /\ want = 0
  /\ chunk = NULL
  /\ ret = NULL

MallocCall(n) ==
  /\ pc = "idle"
  /\ pc' = "scan"
  /\ want' = n
  /\ chunk' = first
  /\ UNCHANGED <<first, mem, ret>>

(* Mutant: the test of allocated is dropped.                               *)
FitsInUse(c) == mem[c].size > want

Fits(c) == mem[c].size > want /\ ~ mem[c].allocated

(* Mutant: the loop does not advance.                                      *)
MallocStay ==
  /\ pc = "scan"
  /\ chunk # NULL
  /\ ~ Fits(chunk)
  /\ UNCHANGED vars

MallocSkip ==
  /\ pc = "scan"
  /\ chunk # NULL
  /\ ~ Fits(chunk)
  /\ chunk' = mem[chunk].next
  /\ UNCHANGED <<first, mem, pc, want, ret>>

(* The call ends and its locals with it.                                   *)
Return == pc' = "idle" /\ want' = 0 /\ chunk' = NULL

(* malloc() found no chunk and returns nullptr.                            *)
MallocFail ==
  /\ pc = "scan"
  /\ chunk = NULL
  /\ ret' = NULL
  /\ Return
  /\ UNCHANGED <<first, mem>>

Mark(m, c, flag) == [m EXCEPT ![c].allocated = flag]

(* Mutant: no room is asked for the header of the rest.                    *)
SplitsTightly(c, n) == mem[c].size > n

(* Is there room behind n bytes of chunk c for a header and one byte?      *)
Splits(c, n) == mem[c].size >= Word(n + HeaderSize + 1)

(* The chunk that malloc() puts behind the n bytes it grants from chunk c. *)
Rest(c, n) == Word(c + HeaderSize + n)

(* Mutant: the rest is not linked to what followed.                        *)
SplitUnlinked(c, n) ==
  [a \in DOMAIN mem \cup {Rest(c, n)} |->
     IF a = c
       THEN [mem[c] EXCEPT !.next = Rest(c, n), !.size = n]
     ELSE IF a = Rest(c, n)
       THEN [next |-> NULL, prev |-> c, allocated |-> FALSE,
             size |-> Word(mem[c].size - n - HeaderSize)]
     ELSE mem[a]]

Split(c, n) ==
  [a \in DOMAIN mem \cup {Rest(c, n)} |->
     IF a = c
       THEN [mem[c] EXCEPT !.next = Rest(c, n), !.size = n]
     ELSE IF a = Rest(c, n)
       THEN [next |-> mem[c].next, prev |-> c, allocated |-> FALSE,
             size |-> Word(mem[c].size - n - HeaderSize)]
     ELSE IF a = mem[c].next
       THEN [mem[a] EXCEPT !.prev = Rest(c, n)]
     ELSE mem[a]]

MallocTake ==
  /\ pc = "scan"
  /\ chunk # NULL
  /\ Fits(chunk)
  /\ LET carved == IF Splits(chunk, want) THEN Split(chunk, want) ELSE mem
     IN  mem' = Mark(carved, chunk, TRUE)
  /\ ret' = chunk + HeaderSize
  /\ Return
  /\ UNCHANGED first

-----------------------------------------------------------------------------

(* Mutant: the prev pointer of the chunk behind is not corrected.          *)
AbsorbOneWay(m, keep, gone) ==
  [a \in DOMAIN m \ {gone} |->
     IF a = keep
       THEN [m[a] EXCEPT !.next = m[gone].next,
                         !.size = Word(@ + m[gone].size + HeaderSize)]
     ELSE m[a]]

(* Chunk gone, the successor of chunk keep, becomes part of chunk keep.    *)
Absorb(m, keep, gone) ==
  [a \in DOMAIN m \ {gone} |->
     IF a = keep
       THEN [m[a] EXCEPT !.next = m[gone].next,
                         !.size = Word(@ + m[gone].size + HeaderSize)]
     ELSE IF a = m[gone].next
       THEN [m[a] EXCEPT !.prev = keep]
     ELSE m[a]]

(* Mutant: a neighbour is merged without a look at its allocated flag.     *)
IsThere(m, c) == c # NULL

IsFree(m, c) == c # NULL /\ ~ m[c].allocated

(* Mutant: free() merges backwards only.                                   *)
MergeNothing(m, c) == m

MergeNext(m, c) ==
  IF IsFree(m, m[c].next) THEN Absorb(m, c, m[c].next) ELSE m

(* free(ptr) of the block whose header is at c.                            *)
Free(c) ==
  /\ pc = "idle"
  /\ mem[c].allocated
  /\ LET freed == Mark(mem, c, FALSE)
         prev  == mem[c].prev
     IN  mem' = IF IsFree(mem, prev)
                  THEN MergeNext(Absorb(freed, prev, c), prev)
                  ELSE MergeNext(freed, c)
  /\ UNCHANGED <<first, pc, want, chunk, ret>>

-----------------------------------------------------------------------------

Malloc == MallocSkip \/ MallocFail \/ MallocTake

Next ==
  \/ \E n \in Requests : MallocCall(n)
  \/ Malloc
  \/ \E c \in DOMAIN mem : Free(c)

Spec == Init /\ [][Next]_vars

(* A call of malloc(), once made, keeps executing.                         *)
FairSpec == Spec /\ WF_vars(Malloc)

-----------------------------------------------------------------------------

(* What a MemoryChunk list laid out in the arena looks like, for any m.    *)

HeapTyped(m) ==
  /\ DOMAIN m \subseteq Start .. (End - 1)
  /\ m \in [DOMAIN m -> Chunk]

(* The byte behind the last byte of chunk c.                               *)
Beyond(m, c) == c + HeaderSize + m[c].size

NextIsAdjacent(m, c) ==
  m[c].next = IF Beyond(m, c) = End THEN NULL ELSE Beyond(m, c)

LinksMirror(m, c) ==
  /\ m[c].next # NULL => m[c].next \in DOMAIN m /\ m[m[c].next].prev = c
  /\ m[c].prev # NULL => m[c].prev \in DOMAIN m /\ m[m[c].prev].next = c
  /\ m[c].prev = NULL <=> c = Start

HeapTiled(m) ==
  /\ \A c \in DOMAIN m : /\ Beyond(m, c) <= End
                         /\ NextIsAdjacent(m, c)
                         /\ LinksMirror(m, c)
  /\ \A c, d \in DOMAIN m : c < d => Beyond(m, c) <= d

-----------------------------------------------------------------------------

TypeOK ==
  /\ first \in {NULL, Start}
  /\ HeapTyped(mem)
  /\ pc \in {"idle", "scan"}
  /\ want \in 0 .. (WordSize - 1)
  /\ chunk \in DOMAIN mem \cup {NULL}
  /\ ret \in Nat

(* The headers tile the arena: each chunk ends where its next begins, the  *)
(* last one at the end of the arena, and next and prev mirror each other.  *)
Tiled ==
  /\ IF first = NULL THEN DOMAIN mem = {} ELSE Start \in DOMAIN mem
  /\ HeapTiled(mem)

(* free() leaves no two free chunks side by side, and the split in         *)
(* malloc() creates none: free space is never fragmented by history alone. *)
Coalesced ==
  \A c \in DOMAIN mem :
    IsFree(mem, c) => ~ IsFree(mem, mem[c].next)

(* Once every block has been freed the arena is one chunk again, of the    *)
(* size the constructor gave it, whatever the order of the calls.          *)
FreedHeapIsWhole ==
  (first # NULL /\ \A c \in DOMAIN mem : ~ mem[c].allocated)
    => /\ DOMAIN mem = {Start}
       /\ mem[Start].size = Size - HeaderSize

(* malloc() returns nullptr only if no chunk of the whole heap would do:   *)
(* the walk along the next pointers misses none.                           *)
FailsOnlyWhenFull ==
  [][ (pc = "scan" /\ pc' = "idle" /\ ret' = NULL)
        => \A c \in DOMAIN mem : ~ Fits(c) ]_vars

(* A pointer malloc() returns was in nobody's block, and its block holds   *)
(* the request and at most one header's worth more.                        *)
GrantIsFresh ==
  [][ (pc = "scan" /\ pc' = "idle" /\ ret' # NULL)
        => LET c == ret' - HeaderSize
           IN  /\ ~ mem[c].allocated
               /\ mem'[c].allocated
               /\ mem'[c].size \in want .. (want + HeaderSize) ]_vars

(* malloc() always returns: the list it walks has no cycle.                *)
MallocReturns == pc = "scan" ~> pc = "idle"

-----------------------------------------------------------------------------

Allocated == {c \in DOMAIN mem : mem[c].allocated}

(* The callers' view of the heap: what malloc() has handed out.            *)
LiveBlocks ==
  [p \in {c + HeaderSize : c \in Allocated} |-> mem[p - HeaderSize].size]

Abstract == INSTANCE Allocator
              WITH ArenaStart <- Start, ArenaEnd <- End, live <- LiveBlocks

(* The heap implements the abstract allocator: a caller's block is never   *)
(* moved, resized, handed out twice or taken away by another call.         *)
ImplementsAllocator == Abstract!Spec
=============================================================================
