------------------------ MODULE MemoryManager_proofs ------------------------
(***************************************************************************)
(* Proofs about MemoryManager for every arena, header size, word size and  *)
(* set of requests that HeapAssumption allows.                             *)
(***************************************************************************)
EXTENDS MemoryManager, TLAPS

(***************************************************************************)
(* Arithmetic.                                                             *)
(***************************************************************************)

(* A sum that does not exceed the word is not changed by it.               *)
LEMMA WordExact ==
  ASSUME NEW n \in 0 .. (WordSize - 1)
  PROVE  Word(n) = n
  BY HeapAssumption DEF Word

(* End is a natural number no larger than the word.                        *)
LEMMA EndBound == End \in Nat /\ Start <= End /\ End <= WordSize
  BY HeapAssumption DEF End

(***************************************************************************)
(* The operations of the list, one at a time.                              *)
(***************************************************************************)

(* Merging a chunk with its successor keeps the heap a tiling; the arena   *)
(* the two covered is now covered by one.                                  *)
LEMMA AbsorbTiles ==
  ASSUME NEW m, HeapTyped(m), HeapTiled(m),
         NEW keep \in DOMAIN m, m[keep].next # NULL,
         NEW gone, gone = m[keep].next
  PROVE  /\ DOMAIN Absorb(m, keep, gone) = DOMAIN m \ {gone}
         /\ keep # gone /\ gone \in DOMAIN m /\ gone # Start
         /\ HeapTyped(Absorb(m, keep, gone))
         /\ HeapTiled(Absorb(m, keep, gone))
         /\ \A a \in DOMAIN m \ {gone} :
              /\ Absorb(m, keep, gone)[a].allocated = m[a].allocated
              /\ a # keep => /\ Absorb(m, keep, gone)[a].next = m[a].next
                             /\ Absorb(m, keep, gone)[a].size = m[a].size
         /\ Absorb(m, keep, gone)[keep].next = m[gone].next
         /\ Absorb(m, keep, gone)[keep].size
              = m[keep].size + HeaderSize + m[gone].size
  <1> DEFINE w == Absorb(m, keep, gone)
             nn == m[gone].next
  <1> USE HeapAssumption, EndBound
  <1>1. /\ gone \in DOMAIN m
        /\ gone = Beyond(m, keep)
        /\ m[gone].prev = keep
        /\ keep < gone
        /\ gone # Start
    BY DEF HeapTiled, HeapTyped, NextIsAdjacent, LinksMirror, Beyond, Chunk, NULL
  <1>2. /\ m[keep] \in Chunk /\ m[gone] \in Chunk
        /\ keep \in Nat /\ gone \in Nat /\ keep # gone
    BY <1>1 DEF HeapTyped
  <1>3. Word(m[keep].size + m[gone].size + HeaderSize)
          = m[keep].size + HeaderSize + m[gone].size
    <2>1. Beyond(m, gone) <= End /\ keep >= Start
      BY <1>1 DEF HeapTiled, HeapTyped
    <2>2. m[keep].size + m[gone].size + HeaderSize \in 0 .. (WordSize - 1)
      BY <1>1, <1>2, <2>1 DEF Beyond, Chunk
    <2> QED BY <2>2, WordExact, <1>2 DEF Chunk
  <1>4. DOMAIN w = DOMAIN m \ {gone}
    BY DEF Absorb
  <1> DEFINE both == m[keep].size + HeaderSize + m[gone].size
  <1>5. /\ w[keep].next = nn
        /\ w[keep].prev = m[keep].prev
        /\ w[keep].allocated = m[keep].allocated
        /\ w[keep].size = m[keep].size + HeaderSize + m[gone].size
        /\ w[keep] \in Chunk
    <2>1. w[keep] = [m[keep] EXCEPT !.next = nn,
                     !.size = Word(m[keep].size + m[gone].size + HeaderSize)]
      BY <1>1, <1>2 DEF Absorb
    <2>2. both \in Nat /\ nn \in Nat
      BY <1>2 DEF Chunk
    <2>3. w[keep] = [m[keep] EXCEPT !.next = nn, !.size = both]
      BY <2>1, <1>3
    <2> HIDE DEF w, nn, both
    <2>4. /\ w[keep].next = nn /\ w[keep].size = both
          /\ w[keep].prev = m[keep].prev /\ w[keep].allocated = m[keep].allocated
          /\ w[keep] \in Chunk
      BY <2>3, <2>2, <1>2 DEF Chunk
    <2> QED BY <2>4 DEF both
  <1>6. ASSUME NEW a \in DOMAIN m, a # keep, a # gone
        PROVE  /\ w[a].next = m[a].next
               /\ w[a].prev = IF a = nn THEN keep ELSE m[a].prev
               /\ w[a].allocated = m[a].allocated
               /\ w[a].size = m[a].size
               /\ w[a] \in Chunk
    <2>1. m[a] \in Chunk BY DEF HeapTyped
    <2>2. w[a] = IF a = nn THEN [m[a] EXCEPT !.prev = keep] ELSE m[a]
      BY <1>6 DEF Absorb
    <2> QED BY <2>1, <2>2, <1>2 DEF Chunk
  <1>7. nn # NULL => nn \in DOMAIN m /\ nn # gone /\ nn # keep /\ nn = Beyond(m, gone)
    BY <1>1, <1>2 DEF HeapTiled, HeapTyped, NextIsAdjacent, LinksMirror, Beyond, Chunk, NULL
  <1>8. HeapTyped(w)
    <2>1. \A a \in DOMAIN w : w[a] \in Chunk
      BY <1>2, <1>4, <1>5, <1>6 DEF HeapTyped, Chunk
    <2>2. w = [a \in DOMAIN w |-> w[a]]
      BY DEF Absorb
    <2> QED BY <2>1, <2>2, <1>4 DEF HeapTyped
  <1>9. /\ Beyond(w, keep) = Beyond(m, gone)
        /\ \A a \in DOMAIN w : a # keep => Beyond(w, a) = Beyond(m, a)
    BY <1>1, <1>2, <1>4, <1>5, <1>6 DEF Beyond, HeapTyped, Chunk
  <1> HIDE DEF w
  <1>10. HeapTiled(w)
    <2>1. ASSUME NEW c \in DOMAIN w
          PROVE  Beyond(w, c) <= End /\ NextIsAdjacent(w, c)
      BY <1>1, <1>2, <1>4, <1>5, <1>6, <1>9
         DEF HeapTiled, HeapTyped, NextIsAdjacent, Chunk
    <2>2. ASSUME NEW c \in DOMAIN w
          PROVE  LinksMirror(w, c)
      <3>1. CASE c = keep
        BY <3>1, <1>1, <1>2, <1>4, <1>5, <1>6, <1>7
           DEF HeapTiled, HeapTyped, LinksMirror, Chunk
      <3>2. CASE c # keep
        <4>1. m[c].next # gone
          BY <3>2, <1>1, <1>4 DEF HeapTiled, LinksMirror, NULL
        <4>2. c # nn => m[c].prev # gone
          BY <3>2, <1>1, <1>4 DEF HeapTiled, LinksMirror
        <4> QED
          BY <3>2, <4>1, <4>2, <1>1, <1>2, <1>4, <1>5, <1>6, <1>7
             DEF HeapTiled, HeapTyped, LinksMirror, Chunk, NULL
      <3> QED BY <3>1, <3>2
    <2>3. ASSUME NEW c \in DOMAIN w, NEW d \in DOMAIN w, c < d
          PROVE  Beyond(w, c) <= d
      <3>1. CASE c # keep
        BY <3>1, <2>3, <1>4, <1>9 DEF HeapTiled
      <3>2. CASE c = keep
        BY <3>2, <2>3, <1>1, <1>2, <1>4, <1>9 DEF HeapTiled, HeapTyped
      <3> QED BY <3>1, <3>2
    <2> QED BY <2>1, <2>2, <2>3 DEF HeapTiled
  <1>11. \A a \in DOMAIN m \ {gone} :
              /\ w[a].allocated = m[a].allocated
              /\ a # keep => /\ w[a].next = m[a].next
                             /\ w[a].size = m[a].size
    BY <1>2, <1>5, <1>6 DEF HeapTyped, Chunk
  <1>12. w[keep].next = m[gone].next
         /\ w[keep].size = m[keep].size + HeaderSize + m[gone].size
    BY <1>2, <1>5 DEF Chunk
  <1> QED
    BY <1>1, <1>2, <1>4, <1>8, <1>10, <1>11, <1>12 DEF w

(* Headers that differ in their allocated flags only tile the same arena.  *)
LEMMA FlagsAside ==
  ASSUME NEW m, HeapTyped(m), HeapTiled(m),
         NEW w, DOMAIN w = DOMAIN m, w = [a \in DOMAIN w |-> w[a]],
         \A a \in DOMAIN m : /\ w[a].next = m[a].next
                             /\ w[a].prev = m[a].prev
                             /\ w[a].size = m[a].size
                             /\ w[a] \in Chunk
  PROVE  HeapTyped(w) /\ HeapTiled(w)
  <1>1. HeapTyped(w)
    BY DEF HeapTyped
  <1>2. \A a \in DOMAIN m : Beyond(w, a) = Beyond(m, a)
    BY DEF Beyond
  <1>3. ASSUME NEW a \in DOMAIN m
        PROVE  Beyond(w, a) <= End /\ NextIsAdjacent(w, a)
    BY <1>2 DEF HeapTiled, NextIsAdjacent
  <1>4. ASSUME NEW a \in DOMAIN m
        PROVE  LinksMirror(w, a)
    BY DEF HeapTiled, LinksMirror
  <1>5. \A a, d \in DOMAIN m : a < d => Beyond(w, a) <= d
    BY <1>2 DEF HeapTiled
  <1> QED BY <1>1, <1>3, <1>4, <1>5 DEF HeapTiled

(* Setting or clearing the allocated flag of a chunk moves nothing.        *)
LEMMA MarkTiles ==
  ASSUME NEW m, HeapTyped(m), HeapTiled(m),
         NEW c \in DOMAIN m, NEW b \in BOOLEAN
  PROVE  LET w == Mark(m, c, b)
         IN  /\ DOMAIN w = DOMAIN m
             /\ HeapTyped(w)
             /\ HeapTiled(w)
             /\ \A a \in DOMAIN m :
                  /\ w[a].next = m[a].next
                  /\ w[a].prev = m[a].prev
                  /\ w[a].size = m[a].size
                  /\ a # c => (w[a].allocated <=> m[a].allocated)
  <1> DEFINE w == Mark(m, c, b)
  <1>1. DOMAIN w = DOMAIN m /\ w = [a \in DOMAIN w |-> w[a]]
    BY DEF Mark
  <1>2. ASSUME NEW a \in DOMAIN m
        PROVE  /\ w[a].next = m[a].next
               /\ w[a].prev = m[a].prev
               /\ w[a].size = m[a].size
               /\ a # c => (w[a].allocated <=> m[a].allocated)
               /\ w[a] \in Chunk
    <2>1. m[a] \in Chunk BY DEF HeapTyped
    <2>2. w[a] = IF a = c THEN [m[a] EXCEPT !.allocated = b] ELSE m[a]
      BY DEF Mark
    <2> HIDE DEF w
    <2> QED BY <2>1, <2>2 DEF Chunk
  <1> HIDE DEF w
  <1>3. HeapTyped(w) /\ HeapTiled(w)
    BY ONLY <1>1, <1>2, FlagsAside, HeapTyped(m), HeapTiled(m)
  <1>4. QED BY <1>1, <1>2, <1>3 DEF w

(* Splitting a chunk that is large enough: the new header lies inside the  *)
(* old chunk, no sum wraps, and the two pieces tile what the one covered.  *)
LEMMA SplitTiles ==
  ASSUME HeapTyped(mem), HeapTiled(mem),
         NEW c \in DOMAIN mem, NEW n \in Nat,
         mem[c].size > n, Splits(c, n)
  PROVE  /\ Rest(c, n) \notin DOMAIN mem
         /\ DOMAIN Split(c, n) = DOMAIN mem \cup {Rest(c, n)}
         /\ HeapTyped(Split(c, n))
         /\ HeapTiled(Split(c, n))
         /\ Split(c, n)[c].size = n
         /\ Split(c, n)[c].next = Rest(c, n)
         /\ ~ Split(c, n)[Rest(c, n)].allocated
         /\ Split(c, n)[Rest(c, n)].next = mem[c].next
         /\ \A a \in DOMAIN mem :
              /\ Split(c, n)[a].allocated <=> mem[a].allocated
              /\ a # c => /\ Split(c, n)[a].size = mem[a].size
                          /\ Split(c, n)[a].next = mem[a].next
  <1> DEFINE w == Split(c, n)
             r == Rest(c, n)
             nn == mem[c].next
  <1> USE HeapAssumption, EndBound
  <1>1. /\ mem[c] \in Chunk /\ c \in Start .. (End - 1)
        /\ Beyond(mem, c) <= End
    BY DEF HeapTyped, HeapTiled
  <1>2. n + HeaderSize + 1 <= mem[c].size
    <2>1. n + HeaderSize + 1 \in 0 .. (WordSize - 1)
      BY <1>1 DEF Beyond, Chunk
    <2> QED BY <2>1, WordExact DEF Splits
  <1>3. r = c + HeaderSize + n /\ c < r /\ r < Beyond(mem, c) /\ r \in Start .. (End - 1)
    <2>1. c + HeaderSize + n \in 0 .. (WordSize - 1)
      BY <1>1, <1>2 DEF Beyond, Chunk
    <2> QED BY <2>1, <1>1, <1>2, WordExact DEF Rest, Beyond, Chunk
  <1>4. r \notin DOMAIN mem
    BY <1>1, <1>3 DEF HeapTiled, HeapTyped, Beyond, Chunk
  <1>5. Word(mem[c].size - n - HeaderSize) = mem[c].size - n - HeaderSize
    <2>1. mem[c].size - n - HeaderSize \in 0 .. (WordSize - 1)
      BY <1>1, <1>2 DEF Beyond, Chunk
    <2> QED BY <2>1, WordExact
  <1>6. DOMAIN w = DOMAIN mem \cup {r}
    BY DEF Split
  <1>7. /\ w[c].next = r /\ w[c].size = n
        /\ w[c].prev = mem[c].prev /\ w[c].allocated = mem[c].allocated
        /\ w[c] \in Chunk
    <2>1. w[c] = [mem[c] EXCEPT !.next = r, !.size = n]
      BY DEF Split
    <2>2. r \in Nat
      BY <1>3
    <2> HIDE DEF r
    <2> QED BY <2>1, <2>2, <1>1 DEF Chunk
  <1>8. /\ w[r].next = nn /\ w[r].size = mem[c].size - n - HeaderSize
        /\ w[r].prev = c /\ w[r].allocated = FALSE
        /\ w[r] \in Chunk
    <2>1. w[r] = [next |-> nn, prev |-> c, allocated |-> FALSE,
                  size |-> mem[c].size - n - HeaderSize]
      BY <1>3, <1>4, <1>5 DEF Split
    <2>2. mem[c].size - n - HeaderSize \in Nat /\ nn \in Nat /\ c \in Nat
      BY <1>1, <1>2 DEF Chunk
    <2> HIDE DEF r, nn
    <2> QED BY <2>1, <2>2 DEF Chunk
  <1>9. ASSUME NEW a \in DOMAIN mem, a # c
        PROVE  /\ w[a].next = mem[a].next /\ w[a].size = mem[a].size
               /\ w[a].allocated = mem[a].allocated
               /\ w[a].prev = IF a = nn THEN r ELSE mem[a].prev
               /\ w[a] \in Chunk
    <2>1. mem[a] \in Chunk BY DEF HeapTyped
    <2>2. w[a] = IF a = nn THEN [mem[a] EXCEPT !.prev = r] ELSE mem[a]
      BY <1>9, <1>4 DEF Split
    <2>3. r \in Nat
      BY <1>3
    <2> HIDE DEF r, nn
    <2> QED BY <2>1, <2>2, <2>3 DEF Chunk
  <1>10. w = [a \in DOMAIN w |-> w[a]]
    BY DEF Split
  <1> HIDE DEF w, r, nn
  <1>11. HeapTyped(w)
    BY <1>3, <1>6, <1>7, <1>8, <1>9, <1>10 DEF HeapTyped
  <1>12. /\ Beyond(w, c) = r
         /\ Beyond(w, r) = Beyond(mem, c)
         /\ \A a \in DOMAIN mem : a # c => Beyond(w, a) = Beyond(mem, a)
    BY <1>1, <1>2, <1>3, <1>7, <1>8, <1>9 DEF Beyond, Chunk
  <1>13. HeapTiled(w)
    <2>1. ASSUME NEW a \in DOMAIN w
          PROVE  Beyond(w, a) <= End /\ NextIsAdjacent(w, a)
      BY <1>1, <1>3, <1>6, <1>7, <1>8, <1>9, <1>12
         DEF HeapTiled, NextIsAdjacent, nn
    <2>2. ASSUME NEW a \in DOMAIN w
          PROVE  LinksMirror(w, a)
      <3> USE DEF LinksMirror, NULL
      <3>1. nn # NULL => nn \in DOMAIN mem /\ mem[nn].prev = c /\ nn # c
        BY <1>1 DEF HeapTiled, NextIsAdjacent, Beyond, Chunk, nn
      <3>2. mem[c].prev = NULL \/ (mem[c].prev # c /\ mem[c].prev # nn)
        BY <1>1, <3>1 DEF HeapTiled, NextIsAdjacent, Beyond, Chunk, HeapTyped, nn
      <3>3. CASE a = c
        BY <3>1, <3>2, <3>3, <1>1, <1>3, <1>4, <1>6, <1>7, <1>8, <1>9 DEF HeapTiled
      <3>4. CASE a = r
        BY <3>1, <3>4, <1>1, <1>3, <1>4, <1>6, <1>7, <1>8, <1>9
      <3>5. CASE a # c /\ a # r
        <4>1. a \in DOMAIN mem /\ LinksMirror(mem, a)
          BY <3>5, <1>6 DEF HeapTiled
        <4>2. mem[a].next # nn \/ nn = NULL
          BY <4>1, <3>1, <3>5
        <4>3. mem[a].next # NULL => w[a].next \in DOMAIN w /\ w[w[a].next].prev = a
          <5> SUFFICES ASSUME mem[a].next # NULL
                       PROVE  w[a].next \in DOMAIN w /\ w[w[a].next].prev = a
            OBVIOUS
          <5>1. CASE mem[a].next = c
            BY <5>1, <4>1, <3>5, <1>6, <1>7, <1>9
          <5>2. CASE mem[a].next # c
            BY <5>2, <4>1, <4>2, <3>5, <1>6, <1>9
          <5> QED BY <5>1, <5>2
        <4>4. CASE a = nn
          BY <4>1, <4>3, <4>4, <3>1, <3>5, <1>3, <1>6, <1>7, <1>8, <1>9 DEF HeapTyped
        <4>5. CASE a # nn
          BY <4>1, <4>3, <4>5, <3>5, <1>1, <1>6, <1>7, <1>9 DEF HeapTiled, nn
        <4> QED BY <4>4, <4>5
      <3> QED BY <3>3, <3>4, <3>5
    <2>3. ASSUME NEW a \in DOMAIN w, NEW d \in DOMAIN w, a < d
          PROVE  Beyond(w, a) <= d
      <3>1. /\ \A e \in DOMAIN mem : e \in Nat /\ (e # c => e < c \/ Beyond(mem, c) <= e)
            /\ Beyond(mem, c) \in Nat /\ c \in Nat /\ r \in Nat
        BY <1>1, <1>3, SMTT(30) DEF HeapTiled, HeapTyped, Beyond, Chunk
      <3>2. CASE a = c
        BY <3>1, <3>2, <2>3, <1>1, <1>3, <1>6, <1>12
      <3>3. CASE a = r
        BY <3>1, <3>3, <2>3, <1>1, <1>3, <1>6, <1>12
      <3>4. CASE a # c /\ a # r
        <4>1. a \in DOMAIN mem /\ Beyond(w, a) = Beyond(mem, a)
          BY <3>4, <1>6, <1>12
        <4>2. CASE d = r
          <5>1. a < c
            BY <3>1, <3>4, <4>1, <4>2, <2>3, <1>1, <1>3
          <5>2. Beyond(mem, a) <= c
            BY <4>1, <5>1 DEF HeapTiled
          <5>3. Beyond(mem, a) \in Nat
            BY <4>1, <3>1 DEF HeapTyped, Beyond, Chunk
          <5> QED BY <4>1, <4>2, <5>2, <5>3, <1>1, <1>3
        <4>3. CASE d # r
          BY <4>1, <4>3, <2>3, <1>6 DEF HeapTiled
        <4> QED BY <4>2, <4>3
      <3> QED BY <3>2, <3>3, <3>4
    <2> QED BY <2>1, <2>2, <2>3 DEF HeapTiled
  <1> QED BY <1>3, <1>4, <1>6, <1>7, <1>8, <1>9, <1>11, <1>13 DEF w, r, nn

(***************************************************************************)
(* No two free chunks side by side, except that the ones in S may have a   *)
(* free successor.  free() opens such a gap and its merges close it.       *)
(***************************************************************************)

ClosedExcept(m, S) ==
  \A a \in DOMAIN m \ S : IsFree(m, a) => ~ IsFree(m, m[a].next)

(* Merging gone into keep leaves at most keep with a free successor.       *)
LEMMA AbsorbCloses ==
  ASSUME NEW m, HeapTyped(m), HeapTiled(m),
         NEW keep \in DOMAIN m, m[keep].next # NULL,
         NEW gone, gone = m[keep].next,
         ClosedExcept(m, {keep, gone})
  PROVE  ClosedExcept(Absorb(m, keep, gone), {keep})
  <1> DEFINE w == Absorb(m, keep, gone)
  <1> SUFFICES ASSUME NEW a \in DOMAIN w, a # keep, IsFree(w, a)
               PROVE  ~ IsFree(w, w[a].next)
    BY DEF ClosedExcept
  <1>1. /\ DOMAIN w = DOMAIN m \ {gone} /\ gone \in DOMAIN m
        /\ \A b \in DOMAIN m \ {gone} :
              /\ w[b].allocated = m[b].allocated
              /\ b # keep => w[b].next = m[b].next
    BY AbsorbTiles
  <1> HIDE DEF w
  <1>2. a \in DOMAIN m \ {gone} /\ w[a].next = m[a].next
    BY <1>1
  <1>3. m[a].next # gone
    BY <1>2 DEF HeapTiled, LinksMirror
  <1>4. m[a].next # NULL => m[a].next \in DOMAIN m
    BY <1>2 DEF HeapTiled, LinksMirror
  <1>5. ~ IsFree(m, m[a].next)
    BY <1>1, <1>2 DEF ClosedExcept, IsFree
  <1> QED BY <1>1, <1>2, <1>3, <1>4, <1>5 DEF IsFree

(* The second merge of free() closes the gap the first steps opened.       *)
LEMMA MergeNextCloses ==
  ASSUME NEW m, HeapTyped(m), HeapTiled(m),
         NEW k \in DOMAIN m, ~ m[k].allocated,
         ClosedExcept(m, {k})
  PROVE  LET w == MergeNext(m, k)
         IN  /\ HeapTyped(w) /\ HeapTiled(w)
             /\ ClosedExcept(w, {})
             /\ DOMAIN w \subseteq DOMAIN m
             /\ Start \in DOMAIN m => Start \in DOMAIN w
             /\ \A a \in DOMAIN m : m[a].allocated =>
                  a \in DOMAIN w /\ w[a].size = m[a].size
             /\ \A a \in DOMAIN w : w[a].allocated = m[a].allocated
  <1> DEFINE gone == m[k].next
             w == Absorb(m, k, gone)
  <1>1. CASE ~ IsFree(m, gone)
    <2>1. MergeNext(m, k) = m
      BY <1>1 DEF MergeNext
    <2>2. ClosedExcept(m, {})
      BY <1>1 DEF ClosedExcept
    <2> QED BY <2>1, <2>2
  <1>2. CASE IsFree(m, gone)
    <2>1. MergeNext(m, k) = w
      BY <1>2 DEF MergeNext
    <2>2. gone # NULL /\ ~ m[gone].allocated
      BY <1>2 DEF IsFree
    <2>3. /\ DOMAIN w = DOMAIN m \ {gone}
          /\ k # gone /\ gone \in DOMAIN m /\ gone # Start
          /\ HeapTyped(w) /\ HeapTiled(w)
          /\ \A a \in DOMAIN m \ {gone} :
               /\ w[a].allocated = m[a].allocated
               /\ a # k => w[a].size = m[a].size
          /\ w[k].next = m[gone].next
      BY <2>2, AbsorbTiles
    <2>4. ClosedExcept(w, {k})
      BY <2>2, AbsorbCloses DEF ClosedExcept
    <2>5. ~ IsFree(m, m[gone].next)
      BY <1>2, <2>2, <2>3 DEF ClosedExcept
    <2>6. m[gone].next # NULL => m[gone].next \in DOMAIN m \ {gone}
      BY <2>3 DEF HeapTiled, LinksMirror, NextIsAdjacent, HeapTyped, Beyond, Chunk
    <2> HIDE DEF w, gone
    <2>7. ~ IsFree(w, w[k].next)
      BY <2>3, <2>5, <2>6 DEF IsFree
    <2>8. ClosedExcept(w, {})
      BY <2>4, <2>7 DEF ClosedExcept
    <2> QED BY <2>1, <2>2, <2>3, <2>8
  <1> QED BY <1>1, <1>2

(***************************************************************************)
(* The two actions that change the heap.                                   *)
(***************************************************************************)

(* free() keeps the heap tiled and coalesced, clears the flag of the one   *)
(* block it was called for and leaves every other allocated block alone.   *)
LEMMA FreeStep ==
  ASSUME HeapTyped(mem), HeapTiled(mem), ClosedExcept(mem, {}),
         NEW c \in DOMAIN mem, Free(c)
  PROVE  /\ HeapTyped(mem') /\ HeapTiled(mem') /\ ClosedExcept(mem', {})
         /\ DOMAIN mem' \subseteq DOMAIN mem
         /\ Start \in DOMAIN mem => Start \in DOMAIN mem'
         /\ \A a \in DOMAIN mem : mem[a].allocated /\ a # c =>
              a \in DOMAIN mem' /\ mem'[a].size = mem[a].size
         /\ \A a \in DOMAIN mem' :
              mem'[a].allocated <=> (mem[a].allocated /\ a # c)
  <1> DEFINE freed == Mark(mem, c, FALSE)
             prev  == mem[c].prev
             w     == Absorb(freed, prev, c)
  <1>1. /\ DOMAIN freed = DOMAIN mem
        /\ HeapTyped(freed) /\ HeapTiled(freed)
        /\ \A a \in DOMAIN mem :
              /\ freed[a].next = mem[a].next
              /\ freed[a].prev = mem[a].prev
              /\ freed[a].size = mem[a].size
              /\ freed[a].allocated <=> (a # c /\ mem[a].allocated)
    <2>1. FALSE \in BOOLEAN
      OBVIOUS
    <2>2. /\ DOMAIN freed = DOMAIN mem
          /\ HeapTyped(freed) /\ HeapTiled(freed)
          /\ \A a \in DOMAIN mem :
                /\ freed[a].next = mem[a].next
                /\ freed[a].prev = mem[a].prev
                /\ freed[a].size = mem[a].size
                /\ a # c => (freed[a].allocated <=> mem[a].allocated)
      BY <2>1, MarkTiles, Zenon
    <2>3. ~ freed[c].allocated
      BY DEF Mark, HeapTyped, Chunk
    <2> HIDE DEF freed
    <2> QED BY <2>2, <2>3
  <1>2. mem[c].allocated /\ mem[c] \in Chunk
    BY DEF Free, HeapTyped
  <1>3. mem' = IF IsFree(mem, prev) THEN MergeNext(w, prev) ELSE MergeNext(freed, c)
    BY DEF Free
  <1> HIDE DEF freed
  <1>4. \A a \in DOMAIN mem : mem[a].next # NULL => mem[a].next \in DOMAIN mem
    BY DEF HeapTiled, LinksMirror
  <1>6. c # NULL
    BY HeapAssumption, EndBound DEF HeapTyped, NULL
  <1>5. prev # NULL => /\ prev \in DOMAIN mem /\ mem[prev].next = c
                       /\ \A a \in DOMAIN mem : mem[a].next = c => a = prev
    BY <1>2, <1>6 DEF HeapTiled, LinksMirror
  <1>7. CASE IsFree(mem, prev)
    <2>1. prev # NULL /\ ~ mem[prev].allocated /\ prev # c
      BY <1>2, <1>7 DEF IsFree
    <2>2. prev \in DOMAIN freed /\ freed[prev].next = c /\ c # NULL
      BY <1>1, <1>5, <1>6, <2>1
    <2>3. ClosedExcept(freed, {prev, c})
      <3> SUFFICES ASSUME NEW a \in DOMAIN mem, a # prev, a # c, IsFree(freed, a)
                   PROVE  ~ IsFree(freed, freed[a].next)
        BY <1>1 DEF ClosedExcept
      <3>1. mem[a].next # c
        BY <1>5, <2>1
      <3>2. ~ IsFree(mem, mem[a].next)
        BY <1>1 DEF ClosedExcept, IsFree
      <3> QED BY <3>1, <3>2, <1>1, <1>4 DEF IsFree
    <2>4. /\ DOMAIN w = DOMAIN freed \ {c} /\ c # Start
          /\ HeapTyped(w) /\ HeapTiled(w)
          /\ \A a \in DOMAIN freed \ {c} :
               /\ w[a].allocated = freed[a].allocated
               /\ a # prev => w[a].size = freed[a].size
      <3>1. HeapTyped(freed) /\ HeapTiled(freed) /\ prev \in DOMAIN freed
            /\ freed[prev].next # NULL /\ c = freed[prev].next
        BY <1>1, <2>2
      <3> HIDE DEF prev
      <3> QED BY ONLY <3>1, AbsorbTiles
    <2>5. ClosedExcept(w, {prev})
      BY <1>1, <2>2, <2>3, AbsorbCloses
    <2>6. prev \in DOMAIN w /\ ~ w[prev].allocated
      BY <1>1, <2>1, <2>2, <2>4
    <2>7. mem' = MergeNext(w, prev)
      BY <1>3, <1>7
    <2> HIDE DEF w, prev
    <2>8. /\ HeapTyped(mem') /\ HeapTiled(mem') /\ ClosedExcept(mem', {})
          /\ DOMAIN mem' \subseteq DOMAIN w
          /\ Start \in DOMAIN w => Start \in DOMAIN mem'
          /\ \A a \in DOMAIN w : w[a].allocated =>
               a \in DOMAIN mem' /\ mem'[a].size = w[a].size
          /\ \A a \in DOMAIN mem' : mem'[a].allocated = w[a].allocated
      BY <2>4, <2>5, <2>6, <2>7, MergeNextCloses
    <2> QED BY <1>1, <1>2, <2>1, <2>4, <2>8
  <1>8. CASE ~ IsFree(mem, prev)
    <2>1. ClosedExcept(freed, {c})
      <3> SUFFICES ASSUME NEW a \in DOMAIN mem, a # c, IsFree(freed, a)
                   PROVE  ~ IsFree(freed, freed[a].next)
        BY <1>1 DEF ClosedExcept
      <3>1. IsFree(mem, a) /\ ~ IsFree(mem, mem[a].next)
        BY <1>1 DEF ClosedExcept, IsFree
      <3>2. mem[a].next # c
        BY <1>2, <1>8, <3>1, <1>6 DEF HeapTiled, LinksMirror
      <3> QED BY <3>1, <3>2, <1>1, <1>4 DEF IsFree
    <2>2. ~ freed[c].allocated /\ c \in DOMAIN freed /\ mem' = MergeNext(freed, c)
      BY <1>1, <1>3, <1>8
    <2>3. /\ HeapTyped(mem') /\ HeapTiled(mem') /\ ClosedExcept(mem', {})
          /\ DOMAIN mem' \subseteq DOMAIN freed
          /\ Start \in DOMAIN freed => Start \in DOMAIN mem'
          /\ \A a \in DOMAIN freed : freed[a].allocated =>
               a \in DOMAIN mem' /\ mem'[a].size = freed[a].size
          /\ \A a \in DOMAIN mem' : mem'[a].allocated = freed[a].allocated
      BY <1>1, <2>1, <2>2, MergeNextCloses
    <2> QED BY <1>1, <1>2, <2>3
  <1> QED BY <1>7, <1>8

(* A successful malloc() keeps the heap tiled and coalesced, allocates the *)
(* chunk it found and leaves every other allocated block alone.            *)
LEMMA TakeStep ==
  ASSUME HeapTyped(mem), HeapTiled(mem), ClosedExcept(mem, {}),
         want \in Nat, chunk \in DOMAIN mem, MallocTake
  PROVE  /\ HeapTyped(mem') /\ HeapTiled(mem') /\ ClosedExcept(mem', {})
         /\ DOMAIN mem \subseteq DOMAIN mem'
         /\ mem'[chunk].size \in want .. (want + HeaderSize)
         /\ \A a \in DOMAIN mem : a # chunk => mem'[a].size = mem[a].size
         /\ \A a \in DOMAIN mem' :
              mem'[a].allocated
                <=> (a = chunk \/ (a \in DOMAIN mem /\ mem[a].allocated))
  <1> DEFINE r == Rest(chunk, want)
             carved == IF Splits(chunk, want) THEN Split(chunk, want) ELSE mem
  <1>1. mem[chunk].size > want /\ ~ mem[chunk].allocated /\ chunk # NULL
    BY DEF MallocTake, Fits
  <1>2. mem' = Mark(carved, chunk, TRUE)
    BY DEF MallocTake
  <1>3. mem[chunk] \in Chunk /\ chunk \in Start .. (End - 1) /\ Beyond(mem, chunk) <= End
    BY DEF HeapTyped, HeapTiled
  <1>4. ~ IsFree(mem, mem[chunk].next)
    BY <1>1 DEF ClosedExcept, IsFree
  <1>5. \A a \in DOMAIN mem : mem[a].next # NULL => mem[a].next \in DOMAIN mem
    BY DEF HeapTiled, LinksMirror
  <1>6. \A a \in DOMAIN mem : IsFree(mem, a) => ~ IsFree(mem, mem[a].next)
    BY DEF ClosedExcept
  <1>7. CASE Splits(chunk, want)
    <2>1. carved = Split(chunk, want)
      BY <1>7
    <2> HIDE DEF carved
    <2>2. /\ r \notin DOMAIN mem
          /\ DOMAIN carved = DOMAIN mem \cup {r}
          /\ HeapTyped(carved) /\ HeapTiled(carved)
          /\ carved[chunk].size = want /\ carved[chunk].next = r
          /\ ~ carved[r].allocated /\ carved[r].next = mem[chunk].next
          /\ \A a \in DOMAIN mem :
               /\ carved[a].allocated <=> mem[a].allocated
               /\ a # chunk => /\ carved[a].size = mem[a].size
                               /\ carved[a].next = mem[a].next
      <3> DEFINE s == Split(chunk, want)
      <3>1. /\ r \notin DOMAIN mem
            /\ DOMAIN s = DOMAIN mem \cup {r}
            /\ HeapTyped(s) /\ HeapTiled(s)
            /\ s[chunk].size = want /\ s[chunk].next = r
            /\ ~ s[r].allocated /\ s[r].next = mem[chunk].next
            /\ \A a \in DOMAIN mem :
                 /\ s[a].allocated <=> mem[a].allocated
                 /\ a # chunk => /\ s[a].size = mem[a].size
                                 /\ s[a].next = mem[a].next
        BY <1>1, <1>7, SplitTiles
      <3> HIDE DEF s
      <3>2. s = carved
        BY <2>1 DEF s
      <3> QED BY <3>1, <3>2
    <2> HIDE DEF r
    <2>3. /\ DOMAIN mem' = DOMAIN carved
          /\ HeapTyped(mem') /\ HeapTiled(mem')
          /\ \A a \in DOMAIN carved :
               /\ mem'[a].next = carved[a].next
               /\ mem'[a].size = carved[a].size
               /\ mem'[a].allocated <=> (a = chunk \/ carved[a].allocated)
      <3>1. TRUE \in BOOLEAN /\ chunk \in DOMAIN carved
        BY <2>2
      <3> DEFINE t == Mark(carved, chunk, TRUE)
      <3>2. /\ DOMAIN t = DOMAIN carved
            /\ HeapTyped(t) /\ HeapTiled(t)
            /\ \A a \in DOMAIN carved :
                  /\ t[a].next = carved[a].next
                  /\ t[a].prev = carved[a].prev
                  /\ t[a].size = carved[a].size
                  /\ a # chunk => (t[a].allocated <=> carved[a].allocated)
        BY <2>2, <3>1, MarkTiles, Zenon
      <3>3. t = mem' /\ t[chunk].allocated
        BY <1>2, <2>2, <3>1 DEF Mark, HeapTyped, Chunk
      <3> HIDE DEF t
      <3> QED BY <3>2, <3>3
    <2>4. ClosedExcept(mem', {})
      <3> SUFFICES ASSUME NEW a \in DOMAIN mem', IsFree(mem', a)
                   PROVE  ~ IsFree(mem', mem'[a].next)
        BY DEF ClosedExcept
      <3>1. CASE a = r
        BY <3>1, <1>4, <1>5, <2>2, <2>3 DEF IsFree
      <3>2. CASE a \in DOMAIN mem
        BY <3>2, <1>5, <1>6, <2>2, <2>3 DEF IsFree
      <3> QED BY <3>1, <3>2, <2>2, <2>3
    <2>5. mem'[chunk].size \in want .. (want + HeaderSize)
      BY <2>2, <2>3, HeapAssumption
    <2> QED BY <2>2, <2>3, <2>4, <2>5
  <1>8. CASE ~ Splits(chunk, want)
    <2>1. carved = mem
      BY <1>8
    <2>2. /\ DOMAIN mem' = DOMAIN mem
          /\ HeapTyped(mem') /\ HeapTiled(mem')
          /\ \A a \in DOMAIN mem :
               /\ mem'[a].next = mem[a].next
               /\ mem'[a].size = mem[a].size
               /\ mem'[a].allocated <=> (a = chunk \/ mem[a].allocated)
      <3>1. TRUE \in BOOLEAN
        OBVIOUS
      <3> DEFINE t == Mark(mem, chunk, TRUE)
      <3>2. /\ DOMAIN t = DOMAIN mem
            /\ HeapTyped(t) /\ HeapTiled(t)
            /\ \A a \in DOMAIN mem :
                  /\ t[a].next = mem[a].next
                  /\ t[a].prev = mem[a].prev
                  /\ t[a].size = mem[a].size
                  /\ a # chunk => (t[a].allocated <=> mem[a].allocated)
        BY <3>1, MarkTiles, Zenon
      <3>3. t = mem' /\ t[chunk].allocated
        BY <1>2, <1>3, <2>1 DEF Mark, Chunk
      <3> HIDE DEF t
      <3> QED BY <3>2, <3>3
    <2>3. ClosedExcept(mem', {})
      BY <1>5, <1>6, <2>2 DEF ClosedExcept, IsFree
    <2>4. mem[chunk].size <= want + HeaderSize
      <3>1. want + HeaderSize + 1 \in 0 .. (WordSize - 1)
        BY <1>1, <1>3, HeapAssumption, EndBound DEF Beyond, Chunk
      <3> QED BY <3>1, <1>3, <1>8, WordExact, HeapAssumption DEF Splits, Chunk
    <2> QED BY <1>1, <1>3, <2>2, <2>3, <2>4, HeapAssumption DEF Chunk
  <1> QED BY <1>7, <1>8

(***************************************************************************)
(* The inductive invariant.                                                *)
(***************************************************************************)

(* The walk is for a size some caller asked for and has rejected every     *)
(* chunk that lies before the cursor; no cursor survives its call.         *)
Scanned ==
  /\ pc = "idle" => chunk = NULL
  /\ pc = "scan" => want \in Requests
  /\ pc = "scan" => \A d \in DOMAIN mem : chunk = NULL \/ d < chunk => ~ Fits(d)

HeapInv == TypeOK /\ Tiled /\ Coalesced /\ Scanned

LEMMA CoalescedIsClosed == Coalesced <=> ClosedExcept(mem, {})
  BY DEF Coalesced, ClosedExcept

LEMMA HeapInvInit == Init => HeapInv
  <1> SUFFICES ASSUME Init PROVE HeapInv
    OBVIOUS
  <1> USE HeapAssumption, EndBound DEF Init, NULL
  <1>1. CASE Size < HeaderSize
    <2>1. first = NULL /\ DOMAIN mem = {} /\ mem = [a \in {} |-> mem[a]]
      BY <1>1
    <2> QED
      BY <2>1 DEF HeapInv, TypeOK, HeapTyped, Tiled, HeapTiled, Coalesced, Scanned, Chunk
  <1>2. CASE ~ (Size < HeaderSize)
    <2>1. /\ first = Start /\ DOMAIN mem = {Start}
          /\ mem[Start] = [next |-> NULL, prev |-> NULL, allocated |-> FALSE,
                           size |-> Size - HeaderSize]
          /\ mem = [a \in DOMAIN mem |-> mem[a]]
      BY <1>2
    <2>2. /\ mem[Start] \in Chunk /\ mem[Start].next = NULL /\ mem[Start].prev = NULL
          /\ mem[Start].size = Size - HeaderSize
      BY <2>1, <1>2 DEF Chunk
    <2>3. TypeOK
      <3>1. Start \in Start .. (End - 1)
        BY <1>2 DEF End
      <3>2. HeapTyped(mem)
        BY <2>1, <2>2, <3>1 DEF HeapTyped
      <3>3. pc = "idle" /\ want = 0 /\ chunk = NULL /\ ret = NULL
        OBVIOUS
      <3> QED BY <2>1, <3>2, <3>3 DEF TypeOK
    <2>4. Beyond(mem, Start) = End
      BY <2>2 DEF Beyond, End
    <2>5. Tiled
      <3>1. NextIsAdjacent(mem, Start) /\ LinksMirror(mem, Start)
        BY <2>1, <2>2, <2>4 DEF NextIsAdjacent, LinksMirror
      <3>2. Beyond(mem, Start) <= End
        BY <2>4
      <3>3. \A c, d \in DOMAIN mem : ~ (c < d)
        BY <2>1
      <3>4. HeapTiled(mem)
        BY <2>1, <3>1, <3>2, <3>3 DEF HeapTiled
      <3> QED BY <2>1, <3>4 DEF Tiled
    <2>6. Coalesced /\ Scanned
      BY <2>1, <2>2 DEF Coalesced, IsFree, Scanned
    <2> QED BY <2>3, <2>5, <2>6 DEF HeapInv
  <1> QED BY <1>1, <1>2

LEMMA HeapInvNext == HeapInv /\ [Next]_vars => HeapInv'
  <1> SUFFICES ASSUME HeapInv, [Next]_vars PROVE HeapInv'
    OBVIOUS
  <1> USE HeapAssumption
  <1>1. /\ HeapTyped(mem) /\ HeapTiled(mem) /\ ClosedExcept(mem, {})
        /\ want \in 0 .. (WordSize - 1)
    BY CoalescedIsClosed DEF HeapInv, TypeOK, Tiled
  <1>2. NULL \notin DOMAIN mem
    BY <1>1, EndBound DEF HeapTyped, NULL
  <1>3. ASSUME NEW n \in Requests, MallocCall(n)
        PROVE  HeapInv'
    <2>1. TypeOK'
      BY <1>3 DEF HeapInv, TypeOK, Tiled, MallocCall
    <2>2. Tiled' /\ Coalesced'
      BY <1>3 DEF HeapInv, Tiled, Coalesced, MallocCall
    <2>3. Scanned'
      BY <1>1, <1>2, <1>3, EndBound
         DEF HeapInv, TypeOK, Tiled, Scanned, MallocCall, HeapTyped
    <2> QED BY <2>1, <2>2, <2>3 DEF HeapInv
  <1>4. CASE MallocSkip
    <2>1. chunk \in DOMAIN mem /\ mem' = mem /\ pc' = pc /\ want' = want
          /\ chunk' = mem[chunk].next /\ first' = first /\ ret' = ret
      BY <1>4 DEF HeapInv, TypeOK, MallocSkip
    <2>2. TypeOK'
      BY <2>1, <1>1 DEF HeapInv, TypeOK, HeapTiled, LinksMirror
    <2>3. Tiled' /\ Coalesced'
      BY <2>1 DEF HeapInv, Tiled, Coalesced
    <2>4. Scanned'
      <3> SUFFICES ASSUME NEW d \in DOMAIN mem, chunk' = NULL \/ d < chunk'
                   PROVE  ~ Fits(d)
        BY <2>1, <1>4 DEF HeapInv, Scanned, Fits, MallocSkip
      <3>1. /\ chunk \in Nat /\ d \in Start .. (End - 1) /\ mem[chunk] \in Chunk
        BY <1>1, <2>1, EndBound DEF HeapTyped
      <3>2. chunk < d => Beyond(mem, chunk) <= d
        BY <1>1, <2>1 DEF HeapTiled
      <3>3. NextIsAdjacent(mem, chunk)
        BY <1>1, <2>1 DEF HeapTiled
      <3>4. ~ (chunk < d)
        BY <2>1, <3>1, <3>2, <3>3, EndBound DEF NextIsAdjacent, Beyond, Chunk, NULL
      <3>5. CASE d = chunk
        BY <1>4, <3>5 DEF MallocSkip
      <3>6. CASE d # chunk
        <4>1. d < chunk
          BY <3>1, <3>4, <3>6, EndBound
        <4> QED BY <4>1, <1>4 DEF HeapInv, Scanned, MallocSkip
      <3> QED BY <3>5, <3>6
    <2> QED BY <2>2, <2>3, <2>4 DEF HeapInv
  <1>5. CASE MallocFail
    BY <1>5 DEF HeapInv, TypeOK, Tiled, Coalesced, Scanned, MallocFail, Return, NULL
  <1>6. CASE MallocTake
    <2>1. chunk \in DOMAIN mem /\ want \in Nat
      BY <1>1, <1>6 DEF HeapInv, TypeOK, MallocTake
    <2>2. /\ HeapTyped(mem') /\ HeapTiled(mem') /\ ClosedExcept(mem', {})
          /\ DOMAIN mem \subseteq DOMAIN mem'
      BY <1>1, <1>6, <2>1, TakeStep
    <2>3. /\ pc' = "idle" /\ want' = 0 /\ chunk' = NULL /\ first' = first
          /\ ret' = chunk + HeaderSize
      BY <1>6 DEF MallocTake, Return
    <2>4. ret' \in Nat
      BY <1>1, <2>1, <2>3, EndBound DEF HeapTyped
    <2>5. TypeOK'
      BY <2>2, <2>3, <2>4 DEF HeapInv, TypeOK
    <2>6. Tiled'
      BY <2>1, <2>2, <2>3 DEF HeapInv, Tiled
    <2>7. Coalesced'
      BY <2>2 DEF Coalesced, ClosedExcept
    <2>8. Scanned'
      BY <2>3 DEF Scanned
    <2> QED BY <2>5, <2>6, <2>7, <2>8 DEF HeapInv
  <1>7. ASSUME NEW c \in DOMAIN mem, Free(c)
        PROVE  HeapInv'
    <2>1. /\ HeapTyped(mem') /\ HeapTiled(mem') /\ ClosedExcept(mem', {})
          /\ DOMAIN mem' \subseteq DOMAIN mem
          /\ Start \in DOMAIN mem => Start \in DOMAIN mem'
      BY <1>1, <1>7, FreeStep
    <2>2. pc = "idle" /\ UNCHANGED <<first, pc, want, chunk, ret>>
      BY <1>7 DEF Free
    <2>3. TypeOK'
      BY <2>1, <2>2 DEF HeapInv, TypeOK, Scanned
    <2>4. Tiled'
      BY <2>1, <2>2 DEF HeapInv, Tiled
    <2>5. Coalesced'
      BY <2>1 DEF Coalesced, ClosedExcept
    <2>6. Scanned'
      BY <2>2 DEF HeapInv, Scanned
    <2> QED BY <2>3, <2>4, <2>5, <2>6 DEF HeapInv
  <1>8. CASE UNCHANGED vars
    BY <1>8 DEF HeapInv, TypeOK, Tiled, Coalesced, Scanned, Fits, vars
  <1> QED
    BY <1>3, <1>4, <1>5, <1>6, <1>7, <1>8 DEF Next, Malloc

(* The invariant holds in every reachable state.                           *)
THEOREM Invariance == Spec => []HeapInv
  <1> QED BY HeapInvInit, HeapInvNext, PTL DEF Spec

(***************************************************************************)
(* What the invariant is for.                                              *)
(***************************************************************************)

(* Whatever is called in whatever order, the variables keep their types:   *)
(* in particular every header lies inside the arena.                       *)
THEOREM TypeCorrect == Spec => []TypeOK
  <1>1. HeapInv => TypeOK
    BY DEF HeapInv
  <1> QED BY <1>1, Invariance, PTL

(* The headers always tile the arena, with mirrored links: no call of      *)
(* malloc() or free() loses a byte, overlaps two chunks or breaks a link.  *)
THEOREM ChunksTile == Spec => []Tiled
  <1>1. HeapInv => Tiled
    BY DEF HeapInv
  <1> QED BY <1>1, Invariance, PTL

(* free() leaves no two free chunks side by side.                          *)
THEOREM FreeChunksMerge == Spec => []Coalesced
  <1>1. HeapInv => Coalesced
    BY DEF HeapInv
  <1> QED BY <1>1, Invariance, PTL

(* When the last block is freed, the arena is one chunk again.             *)
THEOREM NothingIsLost == Spec => []FreedHeapIsWhole
  <1>1. HeapInv => FreedHeapIsWhole
    <2> SUFFICES ASSUME HeapInv, first # NULL,
                        \A c \in DOMAIN mem : ~ mem[c].allocated
                 PROVE  DOMAIN mem = {Start} /\ mem[Start].size = Size - HeaderSize
      BY DEF FreedHeapIsWhole
    <2> USE HeapAssumption, EndBound
    <2>1. HeapTyped(mem) /\ HeapTiled(mem) /\ Start \in DOMAIN mem /\ Coalesced
      BY DEF HeapInv, TypeOK, Tiled
    <2>2. mem[Start].next = NULL
      <3>1. ~ IsFree(mem, mem[Start].next)
        BY <2>1 DEF Coalesced, IsFree, NULL
      <3>2. mem[Start].next # NULL => mem[Start].next \in DOMAIN mem
        BY <2>1 DEF HeapTiled, LinksMirror
      <3> QED BY <3>1, <3>2 DEF IsFree
    <2>3. Beyond(mem, Start) = End
      BY <2>1, <2>2 DEF HeapTiled, NextIsAdjacent, HeapTyped, Beyond, Chunk, NULL
    <2>4. \A c \in DOMAIN mem : c = Start
      BY <2>1, <2>3 DEF HeapTiled, HeapTyped
    <2>5. mem[Start].size \in Nat
      BY <2>1 DEF HeapTyped, Chunk
    <2>6. mem[Start].size = Size - HeaderSize
      BY <2>3, <2>5 DEF Beyond, End
    <2> QED BY <2>1, <2>4, <2>6
  <1> QED BY <1>1, Invariance, PTL

(* malloc() fails only if no free chunk anywhere is larger than the        *)
(* request.                                                                *)
THEOREM FailureIsHonest == Spec => FailsOnlyWhenFull
  <1>1. HeapInv /\ [Next]_vars =>
          [(pc = "scan" /\ pc' = "idle" /\ ret' = NULL)
             => \A c \in DOMAIN mem : ~ Fits(c)]_vars
    <2> SUFFICES ASSUME HeapInv, Next, pc = "scan", pc' = "idle", ret' = NULL
                 PROVE  \A c \in DOMAIN mem : ~ Fits(c)
      BY DEF vars
    <2>1. CASE MallocFail
      BY <2>1 DEF HeapInv, Scanned, MallocFail
    <2>2. ~ MallocTake
      <3> SUFFICES ASSUME MallocTake PROVE FALSE
        OBVIOUS
      <3>1. chunk \in Start .. (End - 1)
        BY DEF HeapInv, TypeOK, HeapTyped, MallocTake
      <3>2. ret' = chunk + HeaderSize
        BY DEF MallocTake
      <3> QED BY <3>1, <3>2, HeapAssumption, EndBound DEF NULL
    <2>3. ~ MallocSkip
      BY DEF MallocSkip
    <2> QED BY <2>1, <2>2, <2>3 DEF Next, Malloc, MallocCall, Free
  <1> QED BY <1>1, Invariance, PTL DEF Spec, FailsOnlyWhenFull

(* What malloc() hands out was free, is now allocated, and is as large as  *)
(* asked with less than one split-off chunk to spare.                      *)
THEOREM GrantIsSound == Spec => GrantIsFresh
  <1>1. HeapInv /\ [Next]_vars =>
          [(pc = "scan" /\ pc' = "idle" /\ ret' # NULL)
             => LET c == ret' - HeaderSize
                IN  /\ ~ mem[c].allocated
                    /\ mem'[c].allocated
                    /\ mem'[c].size \in want .. (want + HeaderSize)]_vars
    <2> SUFFICES ASSUME HeapInv, Next, pc = "scan", pc' = "idle", ret' # NULL
                 PROVE  LET c == ret' - HeaderSize
                        IN  /\ ~ mem[c].allocated
                            /\ mem'[c].allocated
                            /\ mem'[c].size \in want .. (want + HeaderSize)
      BY DEF vars
    <2>1. MallocTake
      BY DEF Next, Malloc, MallocCall, MallocSkip, MallocFail, Free
    <2>2. /\ HeapTyped(mem) /\ HeapTiled(mem) /\ ClosedExcept(mem, {})
          /\ want \in Nat /\ chunk \in DOMAIN mem
      BY <2>1, CoalescedIsClosed, HeapAssumption
         DEF HeapInv, TypeOK, Tiled, MallocTake
    <2>3. /\ chunk \in DOMAIN mem'
          /\ mem'[chunk].size \in want .. (want + HeaderSize)
          /\ mem'[chunk].allocated
      BY <2>1, <2>2, TakeStep
    <2>4. ret' - HeaderSize = chunk
      BY <2>1, <2>2, HeapAssumption, EndBound DEF MallocTake, HeapTyped
    <2>5. ~ mem[chunk].allocated
      BY <2>1 DEF MallocTake, Fits
    <2> QED BY <2>3, <2>4, <2>5
  <1> QED BY <1>1, Invariance, PTL DEF Spec, GrantIsFresh

(***************************************************************************)
(* The heap implements the abstract allocator.                             *)
(***************************************************************************)

(* Free() is the release of the block behind header c.                     *)
LEMMA FreeReleases ==
  ASSUME HeapTyped(mem), HeapTiled(mem), ClosedExcept(mem, {}),
         NEW c \in DOMAIN mem, Free(c)
  PROVE  Abstract!Release(c + HeaderSize)
  <1> USE HeapAssumption, EndBound
  <1>1. mem[c].allocated
    BY DEF Free
  <1>2. /\ DOMAIN mem' \subseteq DOMAIN mem
        /\ \A a \in DOMAIN mem : mem[a].allocated /\ a # c =>
              a \in DOMAIN mem' /\ mem'[a].size = mem[a].size
        /\ \A a \in DOMAIN mem' :
              mem'[a].allocated <=> (mem[a].allocated /\ a # c)
    BY FreeStep
  <1>3. DOMAIN mem \subseteq Nat
    BY DEF HeapTyped
  <1>4. Allocated' = Allocated \ {c} /\ c \in Allocated /\ Allocated \subseteq Nat
    BY <1>1, <1>2, <1>3 DEF Allocated
  <1>5. DOMAIN LiveBlocks = {a + HeaderSize : a \in Allocated}
    BY DEF LiveBlocks
  <1>6. LiveBlocks' = [p \in DOMAIN LiveBlocks \ {c + HeaderSize} |-> LiveBlocks[p]]
    <2>1. {a + HeaderSize : a \in Allocated'} = DOMAIN LiveBlocks \ {c + HeaderSize}
      BY <1>4, <1>5
    <2>2. LiveBlocks' = [p \in {a + HeaderSize : a \in Allocated'} |-> mem'[p - HeaderSize].size]
      BY DEF LiveBlocks
    <2>3. ASSUME NEW p \in DOMAIN LiveBlocks \ {c + HeaderSize}
          PROVE  mem'[p - HeaderSize].size = LiveBlocks[p]
      <3>1. PICK a \in Allocated : p = a + HeaderSize
        BY <1>5
      <3>2. p - HeaderSize = a /\ a # c /\ a \in DOMAIN mem /\ mem[a].allocated
        BY <3>1, <1>4 DEF Allocated
      <3>3. LiveBlocks[p] = mem[p - HeaderSize].size
        BY <1>5 DEF LiveBlocks
      <3> QED BY <3>2, <3>3, <1>2
    <2> QED BY <2>1, <2>2, <2>3
  <1>7. c + HeaderSize \in DOMAIN LiveBlocks
    BY <1>4, <1>5
  <1> QED BY <1>6, <1>7 DEF Abstract!Release

(* A successful malloc() is the allocation of a block clear of all others. *)
LEMMA TakeAllocates ==
  ASSUME HeapInv, HeapInv', MallocTake
  PROVE  Abstract!Allocate(want)
  <1> USE HeapAssumption, EndBound
  <1>1. /\ HeapTyped(mem) /\ HeapTiled(mem) /\ ClosedExcept(mem, {})
        /\ want \in Nat /\ chunk \in DOMAIN mem
        /\ HeapTyped(mem') /\ HeapTiled(mem')
    BY CoalescedIsClosed DEF HeapInv, TypeOK, Tiled, MallocTake
  <1>2. /\ DOMAIN mem \subseteq DOMAIN mem'
        /\ mem'[chunk].size \in want .. (want + HeaderSize)
        /\ \A a \in DOMAIN mem : a # chunk => mem'[a].size = mem[a].size
        /\ \A a \in DOMAIN mem' :
              mem'[a].allocated <=> (a = chunk \/ (a \in DOMAIN mem /\ mem[a].allocated))
    BY <1>1, TakeStep
  <1>3. ~ mem[chunk].allocated
    BY DEF MallocTake, Fits
  <1>4. DOMAIN mem' \subseteq Nat
    BY <1>1 DEF HeapTyped
  <1>5. /\ Allocated' = Allocated \cup {chunk} /\ chunk \notin Allocated
        /\ Allocated' \subseteq Nat /\ Allocated' \subseteq DOMAIN mem'
        /\ Allocated \subseteq DOMAIN mem
    BY <1>1, <1>2, <1>3, <1>4 DEF Allocated
  <1> DEFINE p == chunk + HeaderSize
             s == mem'[chunk].size
  <1>6. DOMAIN LiveBlocks = {a + HeaderSize : a \in Allocated}
    BY DEF LiveBlocks
  <1>7. p \notin DOMAIN LiveBlocks
    BY <1>5, <1>6
  <1>8. ASSUME NEW b \in DOMAIN LiveBlocks
        PROVE  /\ LiveBlocks[b] = mem'[b - HeaderSize].size
               /\ Abstract!Clear(p, s, b, LiveBlocks[b])
    <2>1. PICK a \in Allocated : b = a + HeaderSize
      BY <1>6
    <2>2. b - HeaderSize = a /\ a # chunk /\ a \in DOMAIN mem /\ a \in Nat
      BY <2>1, <1>5
    <2>3. LiveBlocks[b] = mem'[a].size
      BY <2>2, <1>2, <1>6 DEF LiveBlocks
    <2>4. /\ a < chunk => Beyond(mem', a) <= chunk
          /\ chunk < a => Beyond(mem', chunk) <= a
      BY <1>1, <1>2, <2>2 DEF HeapTiled
    <2>5. mem'[a].size \in Nat /\ s \in Nat /\ chunk \in Nat
      BY <1>1, <1>2, <1>5, <2>2 DEF HeapTyped, Chunk
    <2>6. Abstract!Clear(p, s, b, mem'[a].size)
      BY <2>1, <2>2, <2>4, <2>5 DEF Abstract!Clear, Beyond
    <2> QED BY <2>2, <2>3, <2>6
  <1>9. LiveBlocks' = [b \in DOMAIN LiveBlocks \cup {p} |->
                         IF b = p THEN s ELSE LiveBlocks[b]]
    <2>1. {a + HeaderSize : a \in Allocated'} = DOMAIN LiveBlocks \cup {p}
      BY <1>5, <1>6
    <2>2. LiveBlocks' = [b \in {a + HeaderSize : a \in Allocated'} |-> mem'[b - HeaderSize].size]
      BY DEF LiveBlocks
    <2>3. p - HeaderSize = chunk
      BY <1>5
    <2> QED BY <2>1, <2>2, <2>3, <1>7, <1>8
  <1>10. p \in Start .. End /\ s \in 0 .. (End - Start) /\ s >= want /\ p + s <= End
    <2>1. Beyond(mem', chunk) <= End /\ chunk \in Start .. (End - 1)
      BY <1>1, <1>2 DEF HeapTiled, HeapTyped
    <2> QED BY <2>1, <1>1, <1>2 DEF Beyond
  <1> HIDE DEF p, s
  <1> QED BY <1>7, <1>8, <1>9, <1>10 DEF Abstract!Allocate

(* The heap implements the abstract allocator: a caller's block is never   *)
(* moved, resized, handed out twice or taken away by another call.         *)
THEOREM Refinement == Spec => ImplementsAllocator
  <1>1. Init => Abstract!Init
    <2> SUFFICES ASSUME Init PROVE LiveBlocks = [a \in {} |-> 0]
      BY DEF Abstract!Init
    <2>1. Allocated = {}
      BY DEF Init, Allocated
    <2> QED BY <2>1 DEF LiveBlocks
  <1>2. HeapInv /\ HeapInv' /\ [Next]_vars => [Abstract!Next]_LiveBlocks
    <2> SUFFICES ASSUME HeapInv, HeapInv', [Next]_vars
                 PROVE  Abstract!Next \/ UNCHANGED LiveBlocks
      OBVIOUS
    <2>1. CASE UNCHANGED mem
      BY <2>1 DEF LiveBlocks, Allocated
    <2>2. CASE MallocTake
      <3>1. want \in Requests
        BY <2>2 DEF HeapInv, Scanned, MallocTake
      <3>2. Abstract!Allocate(want)
        BY <2>2, TakeAllocates
      <3> QED BY <3>1, <3>2 DEF Abstract!Next
    <2>3. ASSUME NEW c \in DOMAIN mem, Free(c)
          PROVE  Abstract!Next
      <3>1. Abstract!Release(c + HeaderSize)
        BY <2>3, FreeReleases, CoalescedIsClosed DEF HeapInv, TypeOK, Tiled
      <3> QED BY <3>1 DEF Abstract!Next, Abstract!Release
    <2> QED
      BY <2>1, <2>2, <2>3
         DEF Next, Malloc, MallocCall, MallocSkip, MallocFail, vars
  <1> QED BY <1>1, <1>2, Invariance, PTL DEF Spec, ImplementsAllocator, Abstract!Spec
=============================================================================
