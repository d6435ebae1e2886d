---------------------------- MODULE Machine_proofs ----------------------------
(***************************************************************************)
(* Proofs about what lies closest to the machine: the arithmetic of Boot,  *)
(* for every 32-bit argument, and the stubs of InterruptStub, for any      *)
(* contexts and any vectors whose words balance.                           *)
(***************************************************************************)
EXTENDS Boot, InterruptStub, SequenceTheorems, TLAPS

(* The twenty bits of a limit lose nothing.                                *)
LEMMA TwentyBits ==
  ASSUME NEW n \in Nat, n < 1048576
  PROVE  65536 * ((n \div 65536) % 16) + (n % 65536) = n
<1>1. n \div 65536 \in Nat /\ n \div 65536 < 16
  BY SMT
<1>2. (n \div 65536) % 16 = n \div 65536
  BY <1>1, SMT
<1> QED
  BY <1>2, SMT

(* The limit in the descriptor's units fits in twenty bits.                *)
LEMMA ScaledFits ==
  ASSUME NEW limit \in UInt32
  PROVE  Scaled(limit) \in Nat /\ Scaled(limit) < 1048576
<1>1. CASE UsePages(limit)
  <2>1. limit \div 4096 \in Nat /\ 0 < limit \div 4096 /\ limit \div 4096 < 1048576
    BY <1>1, SMT DEF UsePages, UInt32, KiB
  <2> QED
    BY <1>1, <2>1, SMT DEF Scaled, Pages
<1>2. CASE ~UsePages(limit)
  BY <1>2, SMT DEF Scaled, UsePages, UInt32, KiB
<1> QED
  BY <1>1, <1>2, SMT

(* A descriptor covers what was asked for, but for the last bytes: its     *)
(* limit is the one given if that is at most 64 KiB or ends a page, and    *)
(* otherwise the end of the page before, never beyond.                     *)
THEOREM LimitRoundsDown ==
  ASSUME NEW base \in UInt32, NEW limit \in UInt32
  PROVE  LET read == GetLimit(SegmentDescriptor(base, limit))
         IN  /\ read <= limit
             /\ limit - read < 4096
             /\ (limit <= 64 * KiB \/ limit % 4096 = 4095) => read = limit
<1> DEFINE d == SegmentDescriptor(base, limit)
<1>1. 65536 * d.limit_bits_16_19 + d.limit_bits_0_15 = Scaled(limit)
  BY ScaledFits, TwentyBits, SMT DEF SegmentDescriptor
<1>2. d.granularity_4kb = UsePages(limit)
  BY SMT DEF SegmentDescriptor
<1>3. CASE UsePages(limit)
  <2>1. GetLimit(d) = 4096 * Pages(limit) + 4095
    BY <1>1, <1>2, <1>3, SMT DEF GetLimit, Scaled
  <2>2. /\ limit = 4096 * (limit \div 4096) + (limit % 4096)
        /\ limit % 4096 \in Nat /\ limit % 4096 < 4096 /\ limit \div 4096 \in Nat
    BY SMT DEF UInt32
  <2> QED
    BY <1>3, <2>1, <2>2, SMT DEF Pages, UsePages, UInt32, KiB
<1>4. CASE ~UsePages(limit)
  <2>1. GetLimit(d) = limit
    BY <1>1, <1>2, <1>4, SMT DEF GetLimit, Scaled
  <2>2. limit \in Nat /\ limit <= 64 * KiB
    BY <1>4, SMT DEF UsePages, UInt32, KiB
  <2> QED
    BY <2>1, <2>2, SMT
<1> QED
  BY <1>3, <1>4, SMT

(* The base address is read back as it was given.                          *)
THEOREM BaseIsKept ==
  ASSUME NEW base \in UInt32, NEW limit \in UInt32
  PROVE  GetBaseAddress(SegmentDescriptor(base, limit)) = base
<1> DEFINE high == base \div 65536
<1>1. high \in Nat /\ high < 65536 /\ base % 65536 \in Nat
      /\ base = 65536 * high + (base % 65536)
  BY SMT DEF UInt32
<1>2. base \div 16777216 = high \div 256
  BY SMT DEF UInt32
<1>3. /\ high \div 256 \in Nat /\ high \div 256 < 256 /\ high % 256 \in Nat
      /\ high = 256 * (high \div 256) + (high % 256)
  BY <1>1, SMT
<1>4. (high \div 256) % 256 = high \div 256
  BY <1>3, SMT
<1>5. GetBaseAddress(SegmentDescriptor(base, limit))
        = 65536 * (256 * (high \div 256) + (high % 256)) + (base % 65536)
  BY <1>2, <1>4, SMT DEF GetBaseAddress, SegmentDescriptor
<1> HIDE DEF high
<1> QED
  BY <1>1, <1>3, <1>5, SMT

(* The heap that kernel_main sets up lies in memory the machine has, and   *)
(* does not wrap around the address space, exactly if the loader reports   *)
(* 10250 KiB of upper memory or more; with less the size wraps.            *)
THEOREM HeapInMemory ==
  ASSUME NEW upper_memory \in Nat, upper_memory < 4194304
  PROVE  /\ InMemory(upper_memory) <=> upper_memory >= 10250
         /\ upper_memory >= 10250 => Heap + HeapSize(upper_memory) < 4294967296
<1> DEFINE size == upper_memory * KiB - Heap - 10 * KiB
<1>1. size = 1024 * upper_memory - 10496000
  BY SMT DEF KiB, MiB, Heap
<1>2. CASE upper_memory >= 10250
  <2>1. size \in Nat /\ size < 4294967296
    BY <1>1, <1>2, SMT
  <2>2. HeapSize(upper_memory) = size
    BY <2>1, SMT DEF HeapSize, Word32
  <2> QED
    BY <1>1, <1>2, <2>2, SMT DEF InMemory, KiB, MiB, Heap
<1>3. CASE upper_memory < 10250
  <2>1. size \in Int /\ size < 0 /\ size + 4294967296 > 0
    BY <1>1, <1>3, SMT
  <2>2. HeapSize(upper_memory) = size + 4294967296
    BY <2>1, SMT DEF HeapSize, Word32
  <2> QED
    BY <1>1, <1>3, <2>2, SMT DEF InMemory, KiB, MiB, Heap
<1> QED
  BY <1>2, <1>3, SMT

-----------------------------------------------------------------------------
(* The stubs.  Every vector that occurs has a stub that pushes, with the   *)
(* CPU, as many words as the way out takes.                                *)
Balances == \A v \in Vectors : v \in Exceptions => HasErrorCode(v)

Names   == {"ebp", "edi", "esi", "edx", "ecx", "ebx", "eax", "eflags", "cs", "eip",
            "error", "ss", "esp", "number"}
Texts   == {"run", "stub", "bottom", "call", "wrapper", "switch", "pop", "add", "iret",
            "on", "off", ""}
AnyWord == Contexts \X Int \X Names \X Texts

Snapshot == [cpu : [Fields -> AnyWord], stack : Seq(AnyWord), vector : Int]

StubTypes ==
  /\ current \in Contexts
  /\ stack \in [Contexts -> Seq(AnyWord)]
  /\ cpu \in [Fields -> AnyWord]
  /\ interrupt_number \in Int
  /\ saved \in [Tasks -> Int]
  /\ interrupted \in [Contexts -> Seq(Snapshot)]

(* A stack st holds what it held when s was interrupted, and on it the     *)
(* first k words of the CPUState of s: those at least, or exactly those.   *)
Covers(st, s, k) ==
  /\ \A i \in 1 .. Len(s.stack) : st[i] = s.stack[i]
  /\ \A i \in 1 .. k : st[Len(s.stack) + i] = CPUState(s.cpu)[i]

Exactly(st, s, k) == Len(st) = Len(s.stack) + k /\ Covers(st, s, k)

(* All registers but the first n are as they were when s was interrupted.  *)
Restored(c, s, n) == \A i \in (n + 1) .. 7 : c[General[i]] = s.cpu[General[i]]

FlagOf(c)  == c["eflags"][4]
PlaceOf(c) == c["eip"][4]

(* How far the interrupt of s can be on the stack of x, by the place it    *)
(* has come to, with registers c and stack st.                             *)
AtStub(s, c, st) ==
  /\ PlaceOf(c) = "stub" /\ c["eip"][2] = s.vector /\ FlagOf(c) = "off"
  /\ s.vector \in Vectors
  /\ Exactly(st, s, IF HasErrorCode(s.vector) THEN 4 ELSE 3)
  /\ Restored(c, s, 0)

AtBottom(s, c, st) ==
  /\ PlaceOf(c) = "bottom" /\ FlagOf(c) = "off"
  /\ Exactly(st, s, 4)
  /\ Restored(c, s, 0)

AtCall(s, c, st) ==
  /\ PlaceOf(c) = "call" /\ FlagOf(c) = "off"
  /\ Exactly(st, s, 11)

InWrapper(x, s, c, st) ==
  /\ PlaceOf(c) = "wrapper" /\ (FlagOf(c) = "on" => s.vector = Keyboard)
  /\ Len(st) = Len(s.stack) + 14 /\ Covers(st, s, 11)
  /\ st[Len(s.stack) + 12] = Pointer(x, Len(s.stack) + 11)
  /\ st[Len(s.stack) + 13][2] = s.vector
  /\ st[Len(s.stack) + 14] = Address(x, "switch", 0)

AtSwitch(x, s, c, st) ==
  /\ PlaceOf(c) = "switch"
  /\ FlagOf(c) = "on" => c["eax"] = Pointer(x, Len(s.stack) + 11)
  /\ Len(st) = Len(s.stack) + 13 /\ Covers(st, s, 11)

Popping(s, c, st) ==
  /\ PlaceOf(c) = "pop" /\ c["eip"][2] \in 1 .. 7
  /\ Exactly(st, s, 4 + c["eip"][2])
  /\ Restored(c, s, c["eip"][2])

AtAdd(s, c, st) ==
  PlaceOf(c) = "add" /\ Exactly(st, s, 4) /\ Restored(c, s, 0)

AtIret(s, c, st) ==
  PlaceOf(c) = "iret" /\ Exactly(st, s, 3) /\ Restored(c, s, 0)

Stage(x, s, c, st) ==
  \/ AtStub(s, c, st) \/ AtBottom(s, c, st) \/ AtCall(s, c, st)
  \/ InWrapper(x, s, c, st) \/ AtSwitch(x, s, c, st)
  \/ Popping(s, c, st) \/ AtAdd(s, c, st) \/ AtIret(s, c, st)

Interruptible(c) == FlagOf(c) = "on" \/ PlaceOf(c) = "wrapper"

(* The interrupts under way on one stack: the first has interrupted the    *)
(* context's own code, each other one a stage of the one before it.        *)
Linked(x, h, i) ==
  IF i = 1 THEN h[i].cpu = OwnRegisters(x) /\ h[i].stack = Own(x)
  ELSE Stage(x, h[i - 1], h[i].cpu, h[i].stack) /\ Interruptible(h[i].cpu)

Chained(x) == \A i \in 1 .. Len(interrupted[x]) : Linked(x, interrupted[x], i)

Running ==
  IF Depth = 0 THEN cpu = OwnRegisters(current) /\ Here = Own(current)
  ELSE Stage(current, Resumed(current), cpu, Here)

(* What schedule() has stored, or is about to store, of a task.            *)
Parked(t) ==
  /\ Len(interrupted[t]) > 0
  /\ saved[t] = Len(Resumed(t).stack) + 11
  /\ Len(stack[t]) >= saved[t]
  /\ Covers(stack[t], Resumed(t), 11)

(* The number is in the shared byte from the stub to the call, and the     *)
(* answer in eax is the stack pointer of this frame or of a parked one.    *)
Numbered == Place \in {"bottom", "call"} => interrupt_number = Resumed(current).vector

OwnPointer == Pointer(current, Len(Resumed(current).stack) + 11)

Answered ==
  Place = "switch" =>
    \/ cpu["eax"] = OwnPointer
    \/ /\ \E t \in Tasks \ {current} : cpu["eax"] = Pointer(t, saved[t])
       /\ current \in Tasks => saved[current] = Len(Resumed(current).stack) + 11

(* The invariant.                                                          *)
StubInv ==
  /\ StubTypes
  /\ \A x \in Contexts : Chained(x)
  /\ Running
  /\ \A t \in Tasks \ {current} : Parked(t)
  /\ Numbered
  /\ Answered

(* The names of the fields, one by one.                                    *)
LEMMA StubFields ==
  /\ DOMAIN General = 1 .. 7 /\ Len(General) = 7
  /\ DOMAIN Special = 1 .. 3 /\ Len(Special) = 3
  /\ Fields = {"ebp", "edi", "esi", "edx", "ecx", "ebx", "eax", "eflags", "cs", "eip"}
  /\ Range(General) = {"ebp", "edi", "esi", "edx", "ecx", "ebx", "eax"}
<1>1. General = <<"ebp", "edi", "esi", "edx", "ecx", "ebx", "eax">>
  BY DEF General
<1>2. Special = <<"eflags", "cs", "eip">>
  BY DEF Special
<1>3. DOMAIN General = 1 .. 7 /\ Len(General) = 7
  BY <1>1
<1>4. DOMAIN Special = 1 .. 3 /\ Len(Special) = 3
  BY <1>2
<1>5. /\ General[1] = "ebp" /\ General[2] = "edi" /\ General[3] = "esi"
      /\ General[4] = "edx" /\ General[5] = "ecx" /\ General[6] = "ebx"
      /\ General[7] = "eax"
  BY <1>1
<1>6. Special[1] = "eflags" /\ Special[2] = "cs" /\ Special[3] = "eip"
  BY <1>2
<1>7. Range(General) = {"ebp", "edi", "esi", "edx", "ecx", "ebx", "eax"}
  <2>1. Range(General) = {General[i] : i \in 1 .. 7}
    BY <1>3 DEF Range
  <2>2. {General[i] : i \in 1 .. 7} =
          {General[1], General[2], General[3], General[4], General[5], General[6], General[7]}
    OBVIOUS
  <2> QED
    BY <1>5, <2>1, <2>2
<1>8. Range(Special) = {"eflags", "cs", "eip"}
  <2>1. Range(Special) = {Special[i] : i \in 1 .. 3}
    BY <1>4 DEF Range
  <2>2. {Special[i] : i \in 1 .. 3} = {Special[1], Special[2], Special[3]}
    OBVIOUS
  <2> QED
    BY <1>6, <2>1, <2>2
<1> QED
  BY <1>3, <1>4, <1>7, <1>8 DEF Fields

(* The general registers are fields, and no two are the same.              *)
LEMMA GeneralFields ==
  /\ \A i \in 1 .. 7 : General[i] \in Fields /\ General[i] \notin {"eflags", "cs", "eip"}
  /\ \A i, j \in 1 .. 7 : General[i] = General[j] => i = j
  /\ \A f \in Range(General) : \E i \in 1 .. 7 : f = General[i]
  /\ \A i \in 1 .. 3 : Special[i] \in Fields
  /\ Special[1] = "eflags" /\ Special[2] = "cs" /\ Special[3] = "eip"
  /\ General[7] = "eax"
<1>1. General = <<"ebp", "edi", "esi", "edx", "ecx", "ebx", "eax">>
  BY DEF General
<1>2. Special = <<"eflags", "cs", "eip">>
  BY DEF Special
<1>3. /\ General[1] = "ebp" /\ General[2] = "edi" /\ General[3] = "esi"
      /\ General[4] = "edx" /\ General[5] = "ecx" /\ General[6] = "ebx"
      /\ General[7] = "eax"
  BY <1>1
<1>4. Special[1] = "eflags" /\ Special[2] = "cs" /\ Special[3] = "eip"
  BY <1>2
<1>5. \A i \in 1 .. 7 : General[i] \in Fields /\ General[i] \notin {"eflags", "cs", "eip"}
  BY <1>3, StubFields
<1>6. \A i, j \in 1 .. 7 : General[i] = General[j] => i = j
  BY <1>3
<1>7. \A f \in Range(General) : \E i \in 1 .. 7 : f = General[i]
  BY StubFields DEF Range
<1>8. \A i \in 1 .. 3 : Special[i] \in Fields
  BY <1>4, StubFields
<1> QED
  BY <1>3, <1>4, <1>5, <1>6, <1>7, <1>8

(* What lies on a stack after a push, and after a pop.                     *)
LEMMA Pushed ==
  ASSUME NEW S, NEW s \in Seq(S), NEW t \in Seq(S)
  PROVE  /\ s \o t \in Seq(S)
         /\ Len(s \o t) = Len(s) + Len(t)
         /\ \A i \in 1 .. Len(s) : (s \o t)[i] = s[i]
         /\ \A i \in 1 .. Len(t) : (s \o t)[Len(s) + i] = t[i]
<1>1. /\ s \o t \in Seq(S)
      /\ Len(s \o t) = Len(s) + Len(t)
      /\ \A i \in 1 .. Len(s) + Len(t) : (s \o t)[i] =
           IF i <= Len(s) THEN s[i] ELSE t[i - Len(s)]
  BY ConcatProperties
<1>2. Len(s) \in Nat /\ Len(t) \in Nat
  BY LenProperties
<1>3. \A i \in 1 .. Len(s) : i \in 1 .. Len(s) + Len(t) /\ i <= Len(s)
  BY <1>2
<1>4. \A i \in 1 .. Len(t) : /\ Len(s) + i \in 1 .. Len(s) + Len(t)
                             /\ ~(Len(s) + i <= Len(s))
                             /\ Len(s) + i - Len(s) = i
  BY <1>2
<1>5. \A i \in 1 .. Len(t) : (s \o t)[Len(s) + i] = t[i]
  <2> SUFFICES ASSUME NEW i \in 1 .. Len(t)
               PROVE  (s \o t)[Len(s) + i] = t[i]
    OBVIOUS
  <2> DEFINE j == Len(s) + i
  <2>1. j \in 1 .. Len(s) + Len(t) /\ ~(j <= Len(s)) /\ j - Len(s) = i
    BY <1>4
  <2>2. (s \o t)[j] = IF j <= Len(s) THEN s[j] ELSE t[j - Len(s)]
    BY <1>1, <2>1
  <2> QED
    BY <2>1, <2>2
<1> QED
  BY <1>1, <1>3, <1>5

LEMMA Cut ==
  ASSUME NEW S, NEW s \in Seq(S), NEW k \in Int, 0 <= k, k <= Len(s)
  PROVE  /\ SubSeq(s, 1, k) \in Seq(S)
         /\ Len(SubSeq(s, 1, k)) = k
         /\ \A i \in 1 .. k : SubSeq(s, 1, k)[i] = s[i]
<1>1. Len(s) \in Nat
  BY LenProperties
<1>2. \A i \in 1 .. k : s[i] \in S
  BY <1>1, ElementOfSeq
<1>3. /\ SubSeq(s, 1, k) \in Seq(S)
      /\ Len(SubSeq(s, 1, k)) = IF 1 <= k THEN k - 1 + 1 ELSE 0
      /\ \A i \in 1 .. k - 1 + 1 : SubSeq(s, 1, k)[i] = s[1 + i - 1]
  BY <1>2, SubSeqProperties
<1> DEFINE u == SubSeq(s, 1, k)
<1> HIDE DEF u
<1>4. /\ Len(u) = IF 1 <= k THEN k - 1 + 1 ELSE 0
      /\ \A i \in 1 .. k - 1 + 1 : u[i] = s[1 + i - 1]
  BY <1>3 DEF u
<1>5. Len(u) = k /\ \A i \in 1 .. k : u[i] = s[i]
  <2>1. \A i \in 1 .. k : i \in 1 .. k - 1 + 1 /\ 1 + i - 1 = i
    OBVIOUS
  <2>2. \A i \in 1 .. k : u[i] = s[i]
    BY <1>4, <2>1
  <2> QED
    BY <1>4, <2>2
<1> QED
  BY <1>3, <1>5 DEF u

(* The eleven words of a CPUState, and what a push of some fields holds.   *)
LEMMA FrameWords ==
  ASSUME NEW c \in [Fields -> AnyWord]
  PROVE  /\ Saved(c, Special) \in Seq(AnyWord) /\ Len(Saved(c, Special)) = 3
         /\ \A i \in 1 .. 3 : Saved(c, Special)[i] = c[Special[i]]
         /\ Saved(c, General) \in Seq(AnyWord) /\ Len(Saved(c, General)) = 7
         /\ \A i \in 1 .. 7 : Saved(c, General)[i] = c[General[i]]
         /\ <<Error>> \in Seq(AnyWord) /\ Len(<<Error>>) = 1 /\ <<Error>>[1] = Error
         /\ CPUState(c) \in Seq(AnyWord) /\ Len(CPUState(c)) = 11
         /\ \A i \in 1 .. 3 : CPUState(c)[i] = c[Special[i]]
         /\ CPUState(c)[4] = Error
         /\ \A i \in 1 .. 7 : CPUState(c)[4 + i] = c[General[i]]
<1>0. \A n \in Nat : \A f \in [1 .. n -> AnyWord] : f \in Seq(AnyWord) /\ Len(f) = n
  OBVIOUS
<1>1. /\ Saved(c, Special) \in [1 .. 3 -> AnyWord]
      /\ \A i \in 1 .. 3 : Saved(c, Special)[i] = c[Special[i]]
  <2>1. DOMAIN Special = 1 .. 3 /\ \A i \in 1 .. 3 : c[Special[i]] \in AnyWord
    BY StubFields, GeneralFields
  <2> QED
    BY <2>1 DEF Saved
<1>2. /\ Saved(c, General) \in [1 .. 7 -> AnyWord]
      /\ \A i \in 1 .. 7 : Saved(c, General)[i] = c[General[i]]
  <2>1. DOMAIN General = 1 .. 7 /\ \A i \in 1 .. 7 : c[General[i]] \in AnyWord
    BY StubFields, GeneralFields
  <2> QED
    BY <2>1 DEF Saved
<1>3. Error \in AnyWord
  <2>1. Boot \in Contexts /\ 0 \in Int
    BY DEF Contexts
  <2>2. "error" \in Names /\ "" \in Texts
    BY DEF Names, Texts
  <2> QED
    BY <2>1, <2>2 DEF Error, Word, AnyWord
<1>4. <<Error>> \in Seq(AnyWord) /\ Len(<<Error>>) = 1 /\ <<Error>>[1] = Error
  BY <1>3
<1> DEFINE a == Saved(c, Special)
           b == Saved(c, General)
           e == <<Error>>
<1>5. a \in Seq(AnyWord) /\ Len(a) = 3 /\ b \in Seq(AnyWord) /\ Len(b) = 7
  BY <1>0, <1>1, <1>2
<1>6. e \in Seq(AnyWord) /\ Len(e) = 1 /\ e[1] = Error
  BY <1>4
<1> HIDE DEF a, b, e
<1> DEFINE ae == a \o e
<1>7. /\ ae \in Seq(AnyWord) /\ Len(ae) = Len(a) + Len(e)
      /\ \A i \in 1 .. Len(a) : ae[i] = a[i]
      /\ \A i \in 1 .. Len(e) : ae[Len(a) + i] = e[i]
  <2>1. a \in Seq(AnyWord) /\ e \in Seq(AnyWord)
    BY <1>5, <1>6
  <2> QED
    BY <2>1, Pushed
<1> HIDE DEF ae
<1>8. /\ ae \in Seq(AnyWord) /\ Len(ae) = 4
      /\ \A i \in 1 .. 3 : ae[i] = a[i]
      /\ ae[4] = Error
  <2>1. 1 \in 1 .. Len(e)
    BY <1>6
  <2>2. ae[Len(a) + 1] = e[1]
    BY <1>7, <2>1
  <2> QED
    BY <1>5, <1>6, <1>7, <2>2
<1> DEFINE f == ae \o b
<1>9. /\ f \in Seq(AnyWord) /\ Len(f) = Len(ae) + Len(b)
      /\ \A i \in 1 .. Len(ae) : f[i] = ae[i]
      /\ \A i \in 1 .. Len(b) : f[Len(ae) + i] = b[i]
  <2>1. ae \in Seq(AnyWord) /\ b \in Seq(AnyWord)
    BY <1>5, <1>8
  <2> QED
    BY <2>1, Pushed
<1> HIDE DEF f
<1>10. /\ f \in Seq(AnyWord) /\ Len(f) = 11
       /\ \A i \in 1 .. 3 : f[i] = a[i]
       /\ f[4] = Error
       /\ \A i \in 1 .. 7 : f[4 + i] = b[i]
  BY <1>5, <1>8, <1>9
<1>11. CPUState(c) = f
  BY DEF CPUState, a, b, e, ae, f
<1> QED
  BY <1>1, <1>2, <1>4, <1>5, <1>10, <1>11 DEF a, b

(* What an interrupt has interrupted is a snapshot.                        *)
LEMMA ResumedType ==
  ASSUME StubTypes, NEW x \in Contexts, Len(interrupted[x]) > 0
  PROVE  /\ Resumed(x) = interrupted[x][Len(interrupted[x])]
         /\ Resumed(x) \in Snapshot
         /\ Len(interrupted[x]) \in Nat
         /\ Resumed(x).cpu \in [Fields -> AnyWord]
         /\ Resumed(x).stack \in Seq(AnyWord)
         /\ Len(Resumed(x).stack) \in Nat
         /\ Resumed(x).vector \in Int
<1> DEFINE h == interrupted[x]
<1>1. h \in Seq(Snapshot)
  BY DEF StubTypes
<1>2. Resumed(x) = h[Len(h)]
  BY DEF Resumed, Last
<1> HIDE DEF h
<1>3. Len(h) \in Nat
  BY <1>1, LenProperties
<1>4. Len(h) > 0
  BY DEF h
<1>5. Resumed(x) \in Snapshot
  BY <1>1, <1>2, <1>3, <1>4, ElementOfSeq
<1>6. /\ Resumed(x).cpu \in [Fields -> AnyWord]
      /\ Resumed(x).stack \in Seq(AnyWord)
      /\ Resumed(x).vector \in Int
  BY <1>5 DEF Snapshot
<1> QED
  BY <1>2, <1>3, <1>5, <1>6, LenProperties DEF h

(* A stack that holds exactly the first words of a frame.                  *)
LEMMA WholeFrame ==
  ASSUME NEW s \in Snapshot, NEW st \in Seq(AnyWord), NEW w \in Seq(AnyWord),
         Len(st) = Len(s.stack) + Len(w),
         \A i \in 1 .. Len(s.stack) : st[i] = s.stack[i],
         \A i \in 1 .. Len(w) : st[Len(s.stack) + i] = w[i]
  PROVE  st = s.stack \o w
<1> DEFINE b == s.stack
           u == b \o w
<1>1. b \in Seq(AnyWord)
  BY DEF Snapshot
<1> HIDE DEF b
<1>2. /\ u \in Seq(AnyWord) /\ Len(u) = Len(b) + Len(w)
      /\ \A i \in 1 .. Len(b) : u[i] = b[i]
      /\ \A i \in 1 .. Len(w) : u[Len(b) + i] = w[i]
  BY <1>1, Pushed
<1> HIDE DEF u
<1>3. Len(b) \in Nat /\ Len(w) \in Nat
  BY <1>1, LenProperties
<1>4. /\ Len(st) = Len(b) + Len(w)
      /\ \A i \in 1 .. Len(b) : st[i] = b[i]
      /\ \A i \in 1 .. Len(w) : st[Len(b) + i] = w[i]
  BY DEF b
<1>5. \A i \in 1 .. Len(st) : st[i] = u[i]
  <2> SUFFICES ASSUME NEW i \in 1 .. Len(st)
               PROVE  st[i] = u[i]
    OBVIOUS
  <2>1. CASE i \in 1 .. Len(b)
    BY <1>2, <1>4, <2>1
  <2>2. CASE i \notin 1 .. Len(b)
    <3> DEFINE j == i - Len(b)
    <3>1. j \in 1 .. Len(w) /\ Len(b) + j = i
      BY <1>3, <1>4, <2>2
    <3> HIDE DEF j
    <3> QED
      BY <1>2, <1>4, <3>1
  <2> QED
    BY <2>1, <2>2
<1>6. st = u
  BY <1>2, <1>4, <1>5, SeqEqual
<1> QED
  BY <1>6 DEF u, b

(* A step of the stub or wrapper on the current stack, from one stage of   *)
(* the innermost interrupt to another.                                     *)
LEMMA StageStep ==
  ASSUME StubInv, Depth > 0, current' = current, interrupted' = interrupted,
         saved' \in [Tasks -> Int], \A t \in Tasks \ {current} : saved'[t] = saved[t],
         interrupt_number' \in Int, cpu' \in [Fields -> AnyWord],
         NEW st \in Seq(AnyWord), stack' = [stack EXCEPT ![current] = st],
         Stage(current, Resumed(current), cpu', st), Numbered', Answered'
  PROVE  StubInv'
<1>1. /\ current \in Contexts /\ stack \in [Contexts -> Seq(AnyWord)]
      /\ \A x \in Contexts : Chained(x)
      /\ \A t \in Tasks \ {current} : Parked(t)
  BY DEF StubInv, StubTypes
<1>2. /\ stack' \in [Contexts -> Seq(AnyWord)] /\ stack'[current] = st
      /\ \A x \in Contexts : x # current => stack'[x] = stack[x]
  BY <1>1
<1>3. StubTypes'
  BY <1>1, <1>2 DEF StubInv, StubTypes
<1>4. (\A x \in Contexts : Chained(x))'
  BY <1>1 DEF Chained
<1>5. Running'
  BY <1>2 DEF Running, Here, Depth, Resumed
<1>6. (\A t \in Tasks \ {current} : Parked(t))'
  BY <1>1, <1>2 DEF Parked, Resumed, Contexts
<1> QED
  BY <1>3, <1>4, <1>5, <1>6 DEF StubInv

(* The place in the code says which stage the innermost interrupt is at.   *)
LEMMA AtPlace ==
  ASSUME StubInv, Place # "run"
  PROVE  LET s == Resumed(current)
         IN  /\ Depth > 0
             /\ Stage(current, s, cpu, Here)
             /\ Place = "stub"    => AtStub(s, cpu, Here)
             /\ Place = "bottom"  => AtBottom(s, cpu, Here)
             /\ Place = "call"    => AtCall(s, cpu, Here)
             /\ Place = "wrapper" => InWrapper(current, s, cpu, Here)
             /\ Place = "switch"  => AtSwitch(current, s, cpu, Here)
             /\ Place = "pop"     => Popping(s, cpu, Here)
             /\ Place = "add"     => AtAdd(s, cpu, Here)
             /\ Place = "iret"    => AtIret(s, cpu, Here)
<1>1. Depth = 0 => Place = "run"
  <2>1. "eip" \in Fields
    BY StubFields
  <2>2. OwnRegisters(current)["eip"][4] = "run"
    BY <2>1 DEF OwnRegisters, Registers, Word
  <2> QED
    BY <2>2 DEF StubInv, Running, Place
<1>2. Depth \in Nat
  BY LenProperties DEF StubInv, StubTypes, Depth
<1>3. Depth > 0 /\ Stage(current, Resumed(current), cpu, Here)
  BY <1>1, <1>2 DEF StubInv, Running
<1>4. Place = PlaceOf(cpu)
  BY DEF Place, PlaceOf
<1> QED
  BY <1>3, <1>4 DEF Stage, AtStub, AtBottom, AtCall, InWrapper, AtSwitch, Popping, AtAdd, AtIret

(* What is where in the invariant, of the context that runs.               *)
LEMMA CurrentTypes ==
  ASSUME StubInv
  PROVE  /\ current \in Contexts /\ cpu \in [Fields -> AnyWord]
         /\ Here \in Seq(AnyWord) /\ Len(Here) \in Nat
         /\ stack \in [Contexts -> Seq(AnyWord)]
         /\ interrupt_number \in Int
<1>1. /\ current \in Contexts /\ cpu \in [Fields -> AnyWord]
      /\ stack \in [Contexts -> Seq(AnyWord)] /\ interrupt_number \in Int
  BY DEF StubInv, StubTypes
<1>2. Here \in Seq(AnyWord)
  BY <1>1 DEF Here
<1> QED
  BY <1>1, <1>2, LenProperties

(* Words are words.                                                        *)
LEMMA WordTypes ==
  ASSUME NEW x \in Contexts, NEW n \in Int
  PROVE  /\ Pointer(x, n) \in AnyWord
         /\ Word(x, n, "number", "") \in AnyWord
         /\ \A flag \in {"on", "off"} : Word(x, n, "eflags", flag) \in AnyWord
         /\ \A place \in {"run", "stub", "bottom", "call", "wrapper", "switch", "pop",
                          "add", "iret"} :
              Address(x, place, n) \in AnyWord
<1> DEFINE places == {"run", "stub", "bottom", "call", "wrapper", "switch", "pop", "add",
                      "iret"}
<1>1. "esp" \in Names /\ "number" \in Names /\ "eflags" \in Names /\ "eip" \in Names
  BY DEF Names
<1>2. "" \in Texts /\ "on" \in Texts /\ "off" \in Texts
  BY DEF Texts
<1>3. \A place \in places : place \in Texts
  BY DEF Texts
<1> HIDE DEF places
<1>4. \A f \in Names : \A text \in Texts : Word(x, n, f, text) \in AnyWord
  BY DEF Word, AnyWord
<1>5. \A place \in places : Address(x, place, n) \in AnyWord
  BY <1>1, <1>3, <1>4 DEF Address
<1>6. Pointer(x, n) \in AnyWord /\ Word(x, n, "number", "") \in AnyWord
  BY <1>1, <1>2, <1>4 DEF Pointer
<1>7. \A flag \in {"on", "off"} : Word(x, n, "eflags", flag) \in AnyWord
  BY <1>1, <1>2, <1>4
<1> QED
  BY <1>5, <1>6, <1>7 DEF places

LEMMA PointerTypes ==
  \A x \in Contexts : \A n \in Int :
    Pointer(x, n) \in AnyWord /\ Word(x, n, "number", "") \in AnyWord
BY WordTypes

LEMMA AddressTypes ==
  \A x \in Contexts : \A n \in Int :
    \A place \in {"run", "stub", "bottom", "call", "wrapper", "switch", "pop", "add",
                  "iret"} : Address(x, place, n) \in AnyWord
BY WordTypes

(* A step that changes no register but eip.                                *)
LEMMA JumpOnly ==
  ASSUME StubInv, NEW n \in Int,
         NEW place \in {"run", "stub", "bottom", "call", "wrapper", "switch", "pop", "add",
                        "iret"},
         Jump(place, n)
  PROVE  /\ cpu' \in [Fields -> AnyWord]
         /\ PlaceOf(cpu') = place /\ cpu'["eip"][2] = n /\ FlagOf(cpu') = FlagOf(cpu)
         /\ \A i \in 1 .. 7 : cpu'[General[i]] = cpu[General[i]]
         /\ \A s : Restored(cpu, s, 0) => Restored(cpu', s, 0)
<1>1. current \in Contexts /\ cpu \in [Fields -> AnyWord]
  BY CurrentTypes
<1>2. Address(current, place, n) \in AnyWord
  BY <1>1, WordTypes
<1>3. cpu' = [cpu EXCEPT !["eip"] = Address(current, place, n)]
  BY DEF Jump
<1>4. cpu' \in [Fields -> AnyWord] /\ \A f \in Fields : f # "eip" => cpu'[f] = cpu[f]
  BY <1>1, <1>2, <1>3
<1>5. cpu'["eip"] = Address(current, place, n)
  BY <1>1, <1>3, StubFields
<1>6. cpu'["eip"][4] = place /\ cpu'["eip"][2] = n
  BY <1>5 DEF Address, Word
<1>7. cpu'["eflags"] = cpu["eflags"]
  BY <1>4, StubFields
<1>8. \A i \in 1 .. 7 : cpu'[General[i]] = cpu[General[i]]
  BY <1>4, GeneralFields
<1>9. \A s : Restored(cpu, s, 0) => Restored(cpu', s, 0)
  BY <1>8 DEF Restored
<1> QED
  BY <1>4, <1>6, <1>7, <1>8, <1>9 DEF PlaceOf, FlagOf

(* What a stack covers, it covers while nothing of that is popped, and a   *)
(* push of the words that come next adds to it.                            *)
LEMMA StillCovers ==
  ASSUME NEW s \in Snapshot, NEW st, NEW u, NEW k \in Nat, NEW j \in Nat, j <= k,
         Covers(st, s, k), \A i \in 1 .. (Len(s.stack) + j) : u[i] = st[i]
  PROVE  Covers(u, s, j)
<1> DEFINE n == Len(s.stack)
<1>1. n \in Nat
  BY LenProperties DEF Snapshot
<1>2. /\ \A i \in 1 .. n : st[i] = s.stack[i]
      /\ \A i \in 1 .. k : st[n + i] = CPUState(s.cpu)[i]
      /\ \A i \in 1 .. (n + j) : u[i] = st[i]
  BY DEF Covers
<1> HIDE DEF n
<1>3. \A i \in 1 .. n : u[i] = s.stack[i]
  BY <1>1, <1>2
<1>4. \A i \in 1 .. j : u[n + i] = CPUState(s.cpu)[i]
  <2> SUFFICES ASSUME NEW i \in 1 .. j
               PROVE  u[n + i] = CPUState(s.cpu)[i]
    OBVIOUS
  <2>1. n + i \in 1 .. (n + j) /\ i \in 1 .. k
    BY <1>1
  <2> QED
    BY <1>2, <2>1
<1> QED
  BY <1>3, <1>4 DEF Covers, n

LEMMA CoversMore ==
  ASSUME NEW s \in Snapshot, NEW st \in Seq(AnyWord), NEW w \in Seq(AnyWord),
         NEW k \in Nat, NEW j \in Nat, NEW m \in Nat, m = k + j, Exactly(st, s, k), j <= Len(w),
         \A i \in 1 .. j : w[i] = CPUState(s.cpu)[k + i]
  PROVE  /\ Covers(st \o w, s, m)
         /\ Len(st \o w) = Len(s.stack) + k + Len(w)
         /\ \A i \in 1 .. Len(w) : (st \o w)[Len(s.stack) + k + i] = w[i]
<1> DEFINE n == Len(s.stack)
           u == st \o w
<1>1. /\ Len(u) = Len(st) + Len(w)
      /\ \A i \in 1 .. Len(st) : u[i] = st[i]
      /\ \A i \in 1 .. Len(w) : u[Len(st) + i] = w[i]
  <2>1. st \in Seq(AnyWord) /\ w \in Seq(AnyWord)
    OBVIOUS
  <2> QED
    BY <2>1, Pushed
<1> HIDE DEF u
<1>2. n \in Nat /\ Len(w) \in Nat
  BY LenProperties DEF Snapshot
<1>3. /\ Len(st) = n + k
      /\ \A i \in 1 .. n : st[i] = s.stack[i]
      /\ \A i \in 1 .. k : st[n + i] = CPUState(s.cpu)[i]
  BY DEF Exactly, Covers
<1> DEFINE c == CPUState(s.cpu)
<1>4. \A i \in 1 .. j : w[i] = c[k + i]
  OBVIOUS
<1> HIDE DEF n, c
<1>5. \A i \in 1 .. n : u[i] = s.stack[i]
  <2>1. \A i \in 1 .. n : i \in 1 .. Len(st)
    BY <1>2, <1>3
  <2> QED
    BY <1>1, <1>3, <2>1
<1>6. \A i \in 1 .. (k + j) : u[n + i] = c[i]
  <2> SUFFICES ASSUME NEW i \in 1 .. (k + j)
               PROVE  u[n + i] = c[i]
    OBVIOUS
  <2>1. CASE i <= k
    <3>1. i \in 1 .. k /\ n + i \in 1 .. Len(st)
      BY <1>2, <1>3, <2>1
    <3>2. u[n + i] = st[n + i]
      BY <1>1, <3>1
    <3>3. st[n + i] = c[i]
      BY <1>3, <3>1 DEF c
    <3> QED
      BY <3>2, <3>3
  <2>2. CASE ~(i <= k)
    <3> DEFINE e == i - k
    <3>1. e \in 1 .. j /\ e \in 1 .. Len(w) /\ k + e = i /\ Len(st) + e = n + i
      BY <1>2, <1>3, <2>2
    <3> HIDE DEF e
    <3>2. u[Len(st) + e] = w[e]
      BY <1>1, <3>1
    <3>3. w[e] = c[k + e]
      BY <1>4, <3>1
    <3> QED
      BY <3>1, <3>2, <3>3
  <2> QED
    BY <2>1, <2>2
<1>7. Covers(u, s, m)
  BY <1>5, <1>6 DEF Covers, n, c
<1>8. Len(u) = n + k + Len(w) /\ \A i \in 1 .. Len(w) : u[n + k + i] = w[i]
  BY <1>1, <1>2, <1>3
<1> QED
  BY <1>7, <1>8 DEF u, n

(* The current stack after a push, and after a pop.                        *)
LEMMA PushStep ==
  ASSUME StubInv, NEW w, Push(w)
  PROVE  stack' = [stack EXCEPT ![current] = Here \o w]
BY CurrentTypes DEF Push, Here

LEMMA PopStep ==
  ASSUME StubInv, NEW n, Pop(n)
  PROVE  stack' = [stack EXCEPT ![current] = SubSeq(Here, 1, Len(Here) - n)]
BY CurrentTypes DEF Pop, Here

(* An exception's stub stores its number; its error code is there.         *)
LEMMA ExceptionKeeps ==
  ASSUME Balances, StubInv, HandleException
  PROVE  StubInv'
<1> DEFINE s == Resumed(current)
           st == Here
<1>1. /\ Place = "stub" /\ Operand \in Exceptions /\ interrupt_number' = Operand
      /\ current' = current /\ stack' = stack /\ saved' = saved
      /\ interrupted' = interrupted
      /\ Jump("bottom", 0)
  BY DEF HandleException
<1>2. /\ current \in Contexts /\ cpu \in [Fields -> AnyWord] /\ st \in Seq(AnyWord)
      /\ stack \in [Contexts -> Seq(AnyWord)]
  BY CurrentTypes
<1>3. Depth > 0 /\ AtStub(s, cpu, st)
  BY <1>1, AtPlace
<1>4. Operand = s.vector /\ HasErrorCode(s.vector)
  BY <1>1, <1>3 DEF AtStub, Operand, Balances
<1>5. /\ cpu' \in [Fields -> AnyWord] /\ PlaceOf(cpu') = "bottom"
      /\ FlagOf(cpu') = FlagOf(cpu) /\ \A i \in 1 .. 7 : cpu'[General[i]] = cpu[General[i]]
  BY <1>1, JumpOnly
<1>6. AtBottom(s, cpu', st)
  BY <1>3, <1>4, <1>5 DEF AtStub, AtBottom, Restored
<1>7. stack' = [stack EXCEPT ![current] = st]
  BY <1>1, <1>2 DEF Here
<1>8. Numbered' /\ Answered'
  <2>1. Place' = "bottom"
    BY <1>5 DEF Place, PlaceOf
  <2>2. Resumed(current)' = s
    BY <1>1 DEF Resumed
  <2> QED
    BY <1>1, <1>4, <2>1, <2>2 DEF Numbered, Answered
<1>9. interrupt_number' \in Int
  BY <1>1, SMT DEF Exceptions
<1>10. Stage(current, Resumed(current), cpu', st)
  BY <1>6 DEF Stage
<1>11. saved' \in [Tasks -> Int] /\ \A t \in Tasks \ {current} : saved'[t] = saved[t]
  BY <1>1 DEF StubInv, StubTypes
<1> QED
  BY <1>1, <1>2, <1>3, <1>5, <1>7, <1>8, <1>9, <1>10, <1>11, StageStep

(* A request's stub pushes a zero in the error code's place.               *)
LEMMA RequestKeeps ==
  ASSUME StubInv, HandleInterruptRequest
  PROVE  StubInv'
<1> DEFINE s == Resumed(current)
           st == Here \o <<Error>>
<1>1. /\ Place = "stub" /\ Operand \in Requests
      /\ interrupt_number' = Number(Operand - IRQ_BASE)
      /\ current' = current /\ saved' = saved /\ interrupted' = interrupted
      /\ Jump("bottom", 0)
  BY DEF HandleInterruptRequest
<1>2. /\ current \in Contexts /\ cpu \in [Fields -> AnyWord] /\ Here \in Seq(AnyWord)
      /\ stack \in [Contexts -> Seq(AnyWord)]
  BY CurrentTypes
<1>3. Depth > 0 /\ AtStub(s, cpu, Here)
  BY <1>1, AtPlace
<1>4. /\ s \in Snapshot /\ s.cpu \in [Fields -> AnyWord]
      /\ Len(s.stack) \in Nat
  BY <1>2, <1>3, ResumedType DEF StubInv, Depth
<1>5. Operand = s.vector
  BY <1>3 DEF AtStub, Operand
<1>6. interrupt_number' = s.vector /\ s.vector \in Int /\ ~HasErrorCode(s.vector)
  BY <1>1, <1>5, SMT DEF Number, Requests, IRQ_BASE, HasErrorCode
<1>7. Exactly(Here, s, 3) /\ Restored(cpu, s, 0) /\ FlagOf(cpu) = "off"
  BY <1>3, <1>6 DEF AtStub
<1>8. st \in Seq(AnyWord) /\ Exactly(st, s, 4)
  <2> DEFINE w == <<Error>>
  <2>1. w \in Seq(AnyWord) /\ Len(w) = 1 /\ w[1] = Error
    BY <1>2, FrameWords
  <2>2. CPUState(s.cpu)[4] = Error
    BY <1>4, FrameWords
  <2> HIDE DEF w
  <2>3. \A i \in 1 .. 1 : w[i] = CPUState(s.cpu)[3 + i]
    BY <2>1, <2>2
  <2> HIDE DEF s
  <2>4. Covers(Here \o w, s, 4) /\ Len(Here \o w) = Len(s.stack) + 3 + Len(w)
    <3>1. s \in Snapshot /\ Here \in Seq(AnyWord) /\ w \in Seq(AnyWord)
      BY <1>2, <1>4, <2>1
    <3>2. 3 \in Nat /\ 1 \in Nat /\ 4 \in Nat /\ 4 = 3 + 1 /\ 1 <= Len(w) /\ Exactly(Here, s, 3)
      BY <1>7, <2>1
    <3> QED
      BY <2>3, <3>1, <3>2, CoversMore
  <2>5. Here \o w \in Seq(AnyWord)
    <3>1. Here \in Seq(AnyWord) /\ w \in Seq(AnyWord)
      BY <1>2, <2>1
    <3> QED
      BY <3>1, Pushed
  <2>6. Exactly(Here \o w, s, 4)
    BY <1>4, <2>1, <2>4 DEF Exactly
  <2> QED
    BY <2>5, <2>6 DEF w
<1>9. /\ cpu' \in [Fields -> AnyWord] /\ PlaceOf(cpu') = "bottom"
      /\ FlagOf(cpu') = FlagOf(cpu) /\ \A i \in 1 .. 7 : cpu'[General[i]] = cpu[General[i]]
  BY <1>1, JumpOnly
<1>10. Stage(current, Resumed(current), cpu', st)
  BY <1>7, <1>8, <1>9 DEF AtBottom, Restored, Stage
<1>11. stack' = [stack EXCEPT ![current] = st]
  BY <1>1, <1>2 DEF HandleInterruptRequest, Push, Filler, Here
<1>12. Numbered' /\ Answered'
  <2>1. Place' = "bottom"
    BY <1>9 DEF Place, PlaceOf
  <2>2. Resumed(current)' = s
    BY <1>1 DEF Resumed
  <2> QED
    BY <1>6, <2>1, <2>2 DEF Numbered, Answered
<1>13. saved' \in [Tasks -> Int] /\ \A t \in Tasks \ {current} : saved'[t] = saved[t]
  BY <1>1 DEF StubInv, StubTypes
<1> HIDE DEF st
<1> QED
  BY <1>1, <1>3, <1>6, <1>8, <1>9, <1>10, <1>11, <1>12, <1>13, StageStep

(* A fact several steps use: what a step leaves of the parked tasks.       *)
LEMMA SavedStays ==
  ASSUME StubInv, saved' = saved
  PROVE  saved' \in [Tasks -> Int] /\ \A t \in Tasks \ {current} : saved'[t] = saved[t]
BY DEF StubInv, StubTypes

(* interrupt_bottom completes the CPUState.                                *)
LEMMA SavingKeeps ==
  ASSUME StubInv, SaveRegisters
  PROVE  StubInv'
<1> DEFINE s == Resumed(current)
           w == Saved(cpu, General)
           st == Here \o w
<1>1. /\ Place = "bottom" /\ Jump("call", 0)
      /\ current' = current /\ saved' = saved /\ interrupted' = interrupted
      /\ interrupt_number' = interrupt_number
  BY DEF SaveRegisters
<1>2. /\ current \in Contexts /\ cpu \in [Fields -> AnyWord] /\ Here \in Seq(AnyWord)
      /\ stack \in [Contexts -> Seq(AnyWord)] /\ interrupt_number \in Int
  BY CurrentTypes
<1>3. Depth > 0 /\ AtBottom(s, cpu, Here)
  BY <1>1, AtPlace
<1>4. s \in Snapshot /\ s.cpu \in [Fields -> AnyWord] /\ Len(s.stack) \in Nat
  BY <1>2, <1>3, ResumedType DEF StubInv, Depth
<1>5. stack' = [stack EXCEPT ![current] = st]
  BY <1>1, <1>2 DEF SaveRegisters, Push, Here
<1>6. st \in Seq(AnyWord) /\ Exactly(st, s, 11)
  <2>1. w \in Seq(AnyWord) /\ Len(w) = 7 /\ \A i \in 1 .. 7 : w[i] = cpu[General[i]]
    BY <1>2, FrameWords
  <2>2. \A i \in 1 .. 7 : CPUState(s.cpu)[4 + i] = s.cpu[General[i]]
    BY <1>4, FrameWords
  <2>3. \A i \in 1 .. 7 : cpu[General[i]] = s.cpu[General[i]]
    BY <1>3 DEF AtBottom, Restored
  <2> HIDE DEF w, s
  <2>4. \A i \in 1 .. 7 : w[i] = CPUState(s.cpu)[4 + i]
    BY <2>1, <2>2, <2>3
  <2>5. Covers(Here \o w, s, 11) /\ Len(Here \o w) = Len(s.stack) + 4 + Len(w)
    <3>1. s \in Snapshot /\ Here \in Seq(AnyWord) /\ w \in Seq(AnyWord)
      BY <1>2, <1>4, <2>1
    <3>2. 4 \in Nat /\ 7 \in Nat /\ 11 \in Nat /\ 11 = 4 + 7 /\ 7 <= Len(w) /\ Exactly(Here, s, 4)
      BY <1>3, <2>1 DEF AtBottom
    <3> DEFINE k == 4
               j == 7
               m == 11
    <3>3. k \in Nat /\ j \in Nat /\ m \in Nat /\ m = k + j /\ j <= Len(w) /\ Exactly(Here, s, k)
      BY <3>2
    <3>4. \A i \in 1 .. j : w[i] = CPUState(s.cpu)[k + i]
      BY <2>4
    <3> HIDE DEF k, j, m
    <3>5. Covers(Here \o w, s, m) /\ Len(Here \o w) = Len(s.stack) + k + Len(w)
      BY <3>1, <3>3, <3>4, CoversMore
    <3> QED
      BY <3>5 DEF k, j, m
  <2>6. Here \o w \in Seq(AnyWord)
    <3>1. Here \in Seq(AnyWord) /\ w \in Seq(AnyWord)
      BY <1>2, <2>1
    <3> QED
      BY <3>1, Pushed
  <2> QED
    BY <1>4, <2>1, <2>5, <2>6 DEF Exactly
<1> HIDE DEF st
<1>7. /\ cpu' \in [Fields -> AnyWord] /\ PlaceOf(cpu') = "call"
      /\ FlagOf(cpu') = FlagOf(cpu)
  BY <1>1, JumpOnly
<1>8. Stage(current, Resumed(current), cpu', st)
  BY <1>3, <1>6, <1>7 DEF AtBottom, AtCall, Stage
<1>9. Numbered' /\ Answered'
  <2>1. Place' = "call"
    BY <1>7 DEF Place, PlaceOf
  <2>2. Resumed(current)' = s
    BY <1>1 DEF Resumed
  <2>3. interrupt_number = s.vector
    BY <1>1 DEF StubInv, Numbered
  <2> QED
    BY <1>1, <2>1, <2>2, <2>3 DEF Numbered, Answered
<1>10. saved' \in [Tasks -> Int] /\ \A t \in Tasks \ {current} : saved'[t] = saved[t]
  BY <1>1, SavedStays
<1> QED
  BY <1>1, <1>2, <1>3, <1>5, <1>6, <1>7, <1>8, <1>9, <1>10, StageStep

(* The registers of a code, one by one.                                    *)
LEMMA RegisterTypes ==
  ASSUME NEW x \in Contexts, NEW n \in Int, NEW place \in Texts, NEW flag \in Texts
  PROVE  /\ Registers(x, n, place, flag) \in [Fields -> AnyWord]
         /\ PlaceOf(Registers(x, n, place, flag)) = place
         /\ FlagOf(Registers(x, n, place, flag)) = flag
<1>1. /\ Fields \subseteq Names /\ "eip" \in Fields /\ "eflags" \in Fields
      /\ "" \in Texts
  BY StubFields DEF Names, Texts
<1> DEFINE text(f) == CASE f = "eip" -> place [] f = "eflags" -> flag [] OTHER -> ""
<1>2. \A f \in Fields : text(f) \in Texts
  BY <1>1
<1>3. text("eip") = place /\ text("eflags") = flag
  OBVIOUS
<1>4. Registers(x, n, place, flag) = [f \in Fields |-> Word(x, n, f, text(f))]
  BY DEF Registers
<1> HIDE DEF text
<1>5. \A f \in Fields : Word(x, n, f, text(f)) \in AnyWord
  BY <1>1, <1>2 DEF Word, AnyWord
<1>6. Registers(x, n, place, flag) \in [Fields -> AnyWord]
  BY <1>4, <1>5
<1>7. /\ Registers(x, n, place, flag)["eip"] = Word(x, n, "eip", text("eip"))
      /\ Registers(x, n, place, flag)["eflags"] = Word(x, n, "eflags", text("eflags"))
  BY <1>1, <1>4
<1> QED
  BY <1>3, <1>6, <1>7 DEF PlaceOf, FlagOf, Word

(* The registers of a context's own code.                                  *)
LEMMA OwnTypes ==
  ASSUME NEW x \in Contexts
  PROVE  OwnRegisters(x) \in [Fields -> AnyWord] /\ PlaceOf(OwnRegisters(x)) = "run"
<1>1. "run" \in Texts /\ "on" \in Texts
  BY DEF Texts
<1>2. 0 \in Int
  OBVIOUS
<1> QED
  BY <1>1, <1>2, RegisterTypes DEF OwnRegisters

(* Three words are a sequence of words.                                    *)
LEMMA ThreeWords ==
  ASSUME NEW S, NEW a \in S, NEW b \in S, NEW c \in S
  PROVE  <<a, b, c>> \in Seq(S) /\ Len(<<a, b, c>>) = 3
OBVIOUS

(* The call pushes its arguments and where to return.                      *)
LEMMA CallKeeps ==
  ASSUME StubInv, CallWrapper
  PROVE  StubInv'
<1> DEFINE s == Resumed(current)
           n == Len(s.stack)
           w == <<Pointer(current, Len(Here)), Word(current, interrupt_number, "number", ""),
                  Address(current, "switch", 0)>>
           st == Here \o w
<1>1. /\ Place = "call" /\ current' = current /\ saved' = saved
      /\ interrupted' = interrupted /\ interrupt_number' = interrupt_number
      /\ cpu' = Registers(current, Depth, "wrapper", InterruptFlag)
  BY DEF CallWrapper
<1>2. /\ current \in Contexts /\ cpu \in [Fields -> AnyWord] /\ Here \in Seq(AnyWord)
      /\ Len(Here) \in Nat
      /\ stack \in [Contexts -> Seq(AnyWord)] /\ interrupt_number \in Int
  BY CurrentTypes
<1>3. Depth > 0 /\ AtCall(s, cpu, Here)
  BY <1>1, AtPlace
<1>4. s \in Snapshot /\ s.cpu \in [Fields -> AnyWord] /\ n \in Nat /\ Depth \in Int
  BY <1>2, <1>3, ResumedType DEF StubInv, Depth
<1>5. stack' = [stack EXCEPT ![current] = st]
  <2>1. Push(w)
    BY DEF CallWrapper
  <2> HIDE DEF w
  <2> QED
    BY <2>1, PushStep
<1>6. w \in Seq(AnyWord) /\ Len(w) = 3
  <2>1. Pointer(current, Len(Here)) \in AnyWord
    <3>1. current \in Contexts /\ Len(Here) \in Int
      BY <1>2
    <3> QED
      BY <3>1, PointerTypes
  <2>2. Word(current, interrupt_number, "number", "") \in AnyWord
    BY <1>2, PointerTypes
  <2>3. Address(current, "switch", 0) \in AnyWord
    BY <1>2, AddressTypes
  <2> QED
    BY <2>1, <2>2, <2>3, ThreeWords
<1>7. /\ w[1] = Pointer(current, Len(Here))
      /\ w[2][2] = interrupt_number
      /\ w[3] = Address(current, "switch", 0)
  BY DEF Word
<1>8. Len(Here) = n + 11 /\ FlagOf(cpu) = "off"
  BY <1>3 DEF AtCall, Exactly
<1>9. interrupt_number = s.vector
  BY <1>1 DEF StubInv, Numbered
<1> HIDE DEF w
<1>10. st \in Seq(AnyWord)
  <2>1. Here \in Seq(AnyWord) /\ w \in Seq(AnyWord)
    BY <1>2, <1>6
  <2> QED
    BY <2>1, Pushed
<1>11. /\ Covers(st, s, 11) /\ Len(st) = n + 14
       /\ st[n + 12] = w[1] /\ st[n + 13] = w[2] /\ st[n + 14] = w[3]
  <2> HIDE DEF s
  <2>1. s \in Snapshot /\ Here \in Seq(AnyWord) /\ w \in Seq(AnyWord)
    BY <1>2, <1>4, <1>6
  <2>2. 11 \in Nat /\ 0 \in Nat /\ 11 = 11 + 0 /\ 0 <= Len(w) /\ Exactly(Here, s, 11)
    BY <1>3, <1>6 DEF AtCall
  <2>3. \A i \in 1 .. 0 : w[i] = CPUState(s.cpu)[11 + i]
    OBVIOUS
  <2>4. /\ Covers(Here \o w, s, 11)
        /\ Len(Here \o w) = Len(s.stack) + 11 + Len(w)
        /\ \A i \in 1 .. Len(w) : (Here \o w)[Len(s.stack) + 11 + i] = w[i]
    BY <2>1, <2>2, <2>3, CoversMore
  <2>5. Covers(st, s, 11) /\ Len(st) = n + 14
    BY <1>4, <1>6, <2>4
  <2> HIDE DEF st
  <2>6. \A i \in 1 .. 3 : st[n + 11 + i] = w[i]
    BY <1>6, <2>4 DEF st
  <2>7. n + 11 + 1 = n + 12 /\ n + 11 + 2 = n + 13 /\ n + 11 + 3 = n + 14
    BY <1>4
  <2>8. st[n + 11 + 1] = w[1] /\ st[n + 11 + 2] = w[2] /\ st[n + 11 + 3] = w[3]
    BY <2>6
  <2> QED
    BY <2>5, <2>7, <2>8
<1> HIDE DEF st
<1>12. /\ cpu' \in [Fields -> AnyWord] /\ PlaceOf(cpu') = "wrapper" /\ FlagOf(cpu') = "off"
  <2>1. InterruptFlag = "off"
    BY <1>8 DEF InterruptFlag, FlagOf
  <2>2. "wrapper" \in Texts /\ "off" \in Texts
    BY DEF Texts
  <2> QED
    BY <1>1, <1>2, <1>4, <2>1, <2>2, RegisterTypes
<1>13. InWrapper(current, s, cpu', st)
  BY <1>7, <1>8, <1>9, <1>11, <1>12 DEF InWrapper
<1>14. Stage(current, Resumed(current), cpu', st)
  BY <1>13 DEF Stage
<1>15. Numbered' /\ Answered'
  <2>1. Place' = "wrapper"
    BY <1>12 DEF Place, PlaceOf
  <2> QED
    BY <2>1 DEF Numbered, Answered
<1>16. saved' \in [Tasks -> Int] /\ \A t \in Tasks \ {current} : saved'[t] = saved[t]
  BY <1>1, SavedStays
<1> QED
  BY <1>1, <1>2, <1>3, <1>5, <1>10, <1>12, <1>14, <1>15, <1>16, StageStep

(* What is left of a stack that is cut above what counts.                  *)
LEMMA CutCovers ==
  ASSUME NEW s \in Snapshot, NEW st \in Seq(AnyWord), NEW k \in Nat, NEW j \in Nat, j <= k,
         Covers(st, s, k), NEW len \in Int, Len(s.stack) + j <= len, len <= Len(st)
  PROVE  LET u == SubSeq(st, 1, len)
         IN  u \in Seq(AnyWord) /\ Len(u) = len /\ Covers(u, s, j)
<1> DEFINE u == SubSeq(st, 1, len)
           n == Len(s.stack)
<1>1. n \in Nat
  BY LenProperties DEF Snapshot
<1>2. 0 <= len
  BY <1>1
<1>3. u \in Seq(AnyWord) /\ Len(u) = len /\ \A i \in 1 .. len : u[i] = st[i]
  BY <1>2, Cut
<1> HIDE DEF u
<1>4. \A i \in 1 .. (n + j) : u[i] = st[i]
  <2>1. \A i \in 1 .. (n + j) : i \in 1 .. len
    BY <1>1
  <2> QED
    BY <1>3, <2>1
<1>5. Covers(u, s, j)
  BY <1>4, StillCovers
<1> QED
  BY <1>3, <1>5 DEF u

(* The arguments that the wrapper reads are those of its own call.         *)
LEMMA ArgumentsHeld ==
  ASSUME StubInv, Place = "wrapper"
  PROVE  /\ Depth > 0 /\ InWrapper(current, Resumed(current), cpu, Here)
         /\ EspArgument = OwnPointer
         /\ NumberArgument = Resumed(current).vector
         /\ Last(Here) = Address(current, "switch", 0)
<1> DEFINE s == Resumed(current)
           n == Len(s.stack)
<1>1. Depth > 0 /\ InWrapper(current, s, cpu, Here)
  BY AtPlace
<1>2. n \in Nat
  BY <1>1, CurrentTypes, ResumedType DEF StubInv, Depth
<1>3. /\ Len(Here) = n + 14
      /\ Here[n + 12] = Pointer(current, n + 11)
      /\ Here[n + 13][2] = s.vector
      /\ Here[n + 14] = Address(current, "switch", 0)
  BY <1>1 DEF InWrapper
<1>4. Len(Here) - 2 = n + 12 /\ Len(Here) - 1 = n + 13
  BY <1>2, <1>3
<1> QED
  BY <1>1, <1>3, <1>4 DEF EspArgument, NumberArgument, OwnPointer, Last

(* sti happens in the keyboard's handler.                                  *)
LEMMA StiKeeps ==
  ASSUME StubInv, Sti
  PROVE  StubInv'
<1> DEFINE s == Resumed(current)
           w == Word(current, Depth, "eflags", "on")
<1>1. /\ Place = "wrapper" /\ NumberArgument = Keyboard
      /\ current' = current /\ stack' = stack /\ saved' = saved
      /\ interrupted' = interrupted /\ interrupt_number' = interrupt_number
      /\ cpu' = [cpu EXCEPT !["eflags"] = w]
  BY DEF Sti
<1>2. /\ current \in Contexts /\ cpu \in [Fields -> AnyWord] /\ Here \in Seq(AnyWord)
      /\ stack \in [Contexts -> Seq(AnyWord)] /\ interrupt_number \in Int
  BY CurrentTypes
<1>3. Depth > 0 /\ InWrapper(current, s, cpu, Here) /\ s.vector = Keyboard
  BY <1>1, ArgumentsHeld
<1>4. Depth \in Int
  BY <1>2, LenProperties DEF StubInv, StubTypes, Depth
<1>5. w \in AnyWord
  BY <1>2, <1>4, WordTypes
<1> HIDE DEF w
<1>6. cpu' \in [Fields -> AnyWord] /\ cpu'["eip"] = cpu["eip"]
  BY <1>1, <1>2, <1>5, StubFields
<1>7. InWrapper(current, s, cpu', Here)
  BY <1>3, <1>6 DEF InWrapper, PlaceOf
<1>8. Stage(current, Resumed(current), cpu', Here)
  BY <1>7 DEF Stage
<1>9. stack' = [stack EXCEPT ![current] = Here]
  BY <1>1, <1>2 DEF Here
<1>10. Numbered' /\ Answered'
  <2>1. Place' = "wrapper"
    BY <1>1, <1>6 DEF Place
  <2> QED
    BY <2>1 DEF Numbered, Answered
<1>11. saved' \in [Tasks -> Int] /\ \A t \in Tasks \ {current} : saved'[t] = saved[t]
  BY <1>1, SavedStays
<1> QED
  BY <1>1, <1>2, <1>3, <1>6, <1>8, <1>9, <1>10, <1>11, StageStep

(* The wrapper answers its own stack pointer or, with interrupts off, that *)
(* of a parked task.                                                       *)
LEMMA ReturnKeeps ==
  ASSUME StubInv, Place = "wrapper", NEW answer \in AnyWord, Return(answer),
         saved' \in [Tasks -> Int], \A t \in Tasks \ {current} : saved'[t] = saved[t],
         \/ answer = OwnPointer
         \/ /\ FlagOf(cpu) # "on"
            /\ \E t \in Tasks \ {current} : answer = Pointer(t, saved'[t])
            /\ current \in Tasks => saved'[current] = Len(Resumed(current).stack) + 11
  PROVE  StubInv'
<1> DEFINE s == Resumed(current)
           n == Len(s.stack)
           st == SubSeq(Here, 1, Len(Here) - 1)
           a == Address(current, "switch", 0)
<1>1. /\ current' = current /\ interrupted' = interrupted
      /\ interrupt_number' = interrupt_number
      /\ cpu' = [cpu EXCEPT !["eax"] = answer, !["eip"] = Last(Here)]
  BY DEF Return
<1>2. /\ current \in Contexts /\ cpu \in [Fields -> AnyWord] /\ Here \in Seq(AnyWord)
      /\ Len(Here) \in Nat
      /\ stack \in [Contexts -> Seq(AnyWord)] /\ interrupt_number \in Int
  BY CurrentTypes
<1>3. /\ Depth > 0 /\ InWrapper(current, s, cpu, Here) /\ Last(Here) = a
  BY ArgumentsHeld
<1>4. s \in Snapshot /\ n \in Nat
  BY <1>2, <1>3, ResumedType DEF StubInv, Depth
<1>5. stack' = [stack EXCEPT ![current] = st]
  <2>1. Pop(1)
    BY DEF Return
  <2> QED
    BY <2>1, PopStep
<1>6. st \in Seq(AnyWord) /\ Len(st) = n + 13 /\ Covers(st, s, 11)
  <2> HIDE DEF s
  <2> DEFINE k == 11
             len == Len(Here) - 1
  <2>1. Covers(Here, s, k) /\ Len(Here) = n + 14
    BY <1>3 DEF InWrapper
  <2>2. k \in Nat /\ k <= k /\ len \in Int /\ n + k <= len /\ len <= Len(Here) /\ len = n + 13
    BY <1>2, <1>4, <2>1
  <2>3. s \in Snapshot /\ Here \in Seq(AnyWord)
    BY <1>2, <1>4
  <2> HIDE DEF k, len
  <2>4. /\ SubSeq(Here, 1, len) \in Seq(AnyWord) /\ Len(SubSeq(Here, 1, len)) = len
        /\ Covers(SubSeq(Here, 1, len), s, k)
    BY <2>1, <2>2, <2>3, CutCovers
  <2> QED
    BY <2>2, <2>4 DEF k, len
<1>7. a \in AnyWord /\ a[4] = "switch"
  <2>1. a \in AnyWord
    BY <1>2, AddressTypes
  <2> QED
    BY <2>1 DEF Address, Word
<1> HIDE DEF a, st
<1>8. /\ cpu' \in [Fields -> AnyWord] /\ cpu'["eip"] = a /\ cpu'["eax"] = answer
      /\ cpu'["eflags"] = cpu["eflags"]
  BY <1>1, <1>2, <1>3, <1>7, StubFields
<1>9. AtSwitch(current, s, cpu', st)
  <2>1. PlaceOf(cpu') = "switch" /\ FlagOf(cpu') = FlagOf(cpu)
    BY <1>7, <1>8 DEF PlaceOf, FlagOf
  <2>2. FlagOf(cpu') = "on" => cpu'["eax"] = Pointer(current, n + 11)
    BY <1>8, <2>1 DEF OwnPointer
  <2> QED
    BY <1>6, <2>1, <2>2 DEF AtSwitch
<1>10. Stage(current, Resumed(current), cpu', st)
  BY <1>9 DEF Stage
<1>11. Numbered'
  BY <1>7, <1>8 DEF Numbered, Place
<1>12. Answered'
  <2>1. Resumed(current)' = s /\ OwnPointer' = OwnPointer
    BY <1>1 DEF Resumed, OwnPointer
  <2>2. \/ cpu'["eax"] = OwnPointer
        \/ /\ \E t \in Tasks \ {current} : cpu'["eax"] = Pointer(t, saved'[t])
           /\ current \in Tasks => saved'[current] = n + 11
    BY <1>8
  <2> QED
    BY <1>1, <2>1, <2>2 DEF Answered
<1> QED
  BY <1>1, <1>2, <1>3, <1>5, <1>6, <1>8, <1>10, <1>11, <1>12, StageStep

LEMMA WrapperKeeps ==
  ASSUME StubInv, WrapperReturns
  PROVE  StubInv'
<1>1. Place = "wrapper" /\ Return(EspArgument) /\ saved' = saved
  BY DEF WrapperReturns
<1>2. Depth > 0 /\ EspArgument = OwnPointer
  BY <1>1, ArgumentsHeld
<1>3. OwnPointer \in AnyWord
  <2>1. Len(Resumed(current).stack) + 11 \in Int /\ current \in Contexts
    BY <1>2, CurrentTypes, ResumedType DEF StubInv, Depth
  <2> QED
    BY <2>1, PointerTypes DEF OwnPointer
<1>4. saved' \in [Tasks -> Int] /\ \A t \in Tasks \ {current} : saved'[t] = saved[t]
  BY <1>1, SavedStays
<1> QED
  BY <1>1, <1>2, <1>3, <1>4, ReturnKeeps

(* schedule() runs with interrupts off.                                    *)
LEMMA ScheduleKeeps ==
  ASSUME StubInv, Schedule
  PROVE  StubInv'
<1> DEFINE n == Len(Resumed(current).stack)
<1>1. /\ Place = "wrapper" /\ NumberArgument = Timer
      /\ saved' = IF current \in Tasks
                    THEN [saved EXCEPT ![current] = EspArgument[2]] ELSE saved
  BY DEF Schedule
<1>2. /\ Depth > 0 /\ InWrapper(current, Resumed(current), cpu, Here)
      /\ EspArgument = OwnPointer /\ NumberArgument = Resumed(current).vector
  BY <1>1, ArgumentsHeld
<1>3. n \in Nat /\ current \in Contexts
  BY <1>2, CurrentTypes, ResumedType DEF StubInv, Depth
<1>4. EspArgument[2] = n + 11
  BY <1>2 DEF OwnPointer, Pointer, Word
<1>5. saved \in [Tasks -> Int]
  BY DEF StubInv, StubTypes
<1>6. /\ saved' \in [Tasks -> Int] /\ \A t \in Tasks \ {current} : saved'[t] = saved[t]
      /\ current \in Tasks => saved'[current] = n + 11
  BY <1>1, <1>3, <1>4, <1>5
<1>7. FlagOf(cpu) # "on"
  BY <1>1, <1>2 DEF InWrapper, Timer, Keyboard, IRQ_BASE
<1>8. PICK t \in Tasks : Return(Pointer(t, saved'[t]))
  BY DEF Schedule
<1>9. Pointer(t, saved'[t]) \in AnyWord
  BY <1>6, PointerTypes DEF Contexts
<1>10. CASE t = current
  <2>1. Pointer(t, saved'[t]) = OwnPointer
    BY <1>6, <1>10 DEF OwnPointer
  <2> QED
    BY <1>1, <1>6, <1>8, <1>9, <2>1, ReturnKeeps
<1>11. CASE t # current
  <2>1. \E u \in Tasks \ {current} : Pointer(t, saved'[t]) = Pointer(u, saved'[u])
    BY <1>11
  <2> QED
    BY <1>1, <1>6, <1>7, <1>8, <1>9, <2>1, ReturnKeeps
<1> QED
  BY <1>10, <1>11

(* Before the switch, the answer points at a frame, of the stack that is   *)
(* left or of a parked task; and every task but its owner is parked.       *)
LEMMA AnswerHeld ==
  ASSUME StubInv, Place = "switch"
  PROVE  \E x \in Contexts :
           /\ Len(interrupted[x]) > 0
           /\ cpu["eax"] = Pointer(x, Len(Resumed(x).stack) + 11)
           /\ Len(stack[x]) >= Len(Resumed(x).stack) + 11
           /\ Covers(stack[x], Resumed(x), 11)
           /\ \A t \in Tasks \ {x} : Parked(t)
<1> DEFINE s == Resumed(current)
           n == Len(s.stack)
<1>1. Depth > 0 /\ AtSwitch(current, s, cpu, Here)
  BY AtPlace
<1>2. n \in Nat /\ current \in Contexts
  BY <1>1, CurrentTypes, ResumedType DEF StubInv, Depth
<1>3. /\ Len(stack[current]) = n + 13 /\ Covers(stack[current], s, 11)
      /\ Len(interrupted[current]) > 0
  BY <1>1 DEF AtSwitch, Here, Depth
<1>4. \A t \in Tasks \ {current} : Parked(t)
  BY DEF StubInv
<1>5. CASE cpu["eax"] = OwnPointer
  <2>1. Len(stack[current]) >= n + 11
    BY <1>2, <1>3
  <2>2. cpu["eax"] = Pointer(current, n + 11)
    BY <1>5 DEF OwnPointer
  <2> QED
    BY <1>2, <1>3, <1>4, <2>1, <2>2
<1>6. CASE cpu["eax"] # OwnPointer
  <2>1. /\ \E t \in Tasks \ {current} : cpu["eax"] = Pointer(t, saved[t])
        /\ current \in Tasks => saved[current] = n + 11
    BY <1>6 DEF StubInv, Answered
  <2>2. PICK t \in Tasks \ {current} : cpu["eax"] = Pointer(t, saved[t])
    BY <2>1
  <2>3. Parked(t) /\ t \in Contexts
    BY <1>4 DEF Contexts
  <2>4. current \in Tasks => Parked(current)
    BY <1>2, <1>3, <2>1 DEF Parked
  <2>5. \A u \in Tasks \ {t} : Parked(u)
    BY <1>4, <2>4
  <2>6. /\ Len(interrupted[t]) > 0 /\ saved[t] = Len(Resumed(t).stack) + 11
        /\ Len(stack[t]) >= Len(Resumed(t).stack) + 11
        /\ Covers(stack[t], Resumed(t), 11)
    BY <2>3 DEF Parked
  <2>7. cpu["eax"] = Pointer(t, Len(Resumed(t).stack) + 11)
    BY <2>2, <2>6
  <2> QED
    BY <2>3, <2>5, <2>6, <2>7
<1> QED
  BY <1>5, <1>6

(* The switch leads to the frame that the wrapper has answered.            *)
LEMMA SwitchKeeps ==
  ASSUME StubInv, SwitchStack
  PROVE  StubInv'
<1>1. /\ Place = "switch"
      /\ current' = cpu["eax"][1]
      /\ stack' = [stack EXCEPT ![cpu["eax"][1]] = SubSeq(@, 1, cpu["eax"][2])]
      /\ cpu' = [cpu EXCEPT !["eip"] = Address(cpu["eax"][1], "pop", Len(General))]
      /\ interrupt_number' = interrupt_number /\ saved' = saved
      /\ interrupted' = interrupted
  BY DEF SwitchStack
<1>2. PICK x \in Contexts :
           /\ Len(interrupted[x]) > 0
           /\ cpu["eax"] = Pointer(x, Len(Resumed(x).stack) + 11)
           /\ Len(stack[x]) >= Len(Resumed(x).stack) + 11
           /\ Covers(stack[x], Resumed(x), 11)
           /\ \A t \in Tasks \ {x} : Parked(t)
  BY <1>1, AnswerHeld
<1> DEFINE s == Resumed(x)
           n == Len(s.stack)
           st == SubSeq(stack[x], 1, n + 11)
           a == Address(x, "pop", 7)
<1>3. s \in Snapshot /\ n \in Nat /\ StubTypes
  BY <1>2, ResumedType DEF StubInv
<1>4. stack \in [Contexts -> Seq(AnyWord)] /\ stack[x] \in Seq(AnyWord)
  BY <1>3 DEF StubTypes
<1>5. /\ current' = x
      /\ stack' = [stack EXCEPT ![x] = st]
      /\ cpu' = [cpu EXCEPT !["eip"] = a]
  <2>1. cpu["eax"][1] = x /\ cpu["eax"][2] = n + 11
    <3> DEFINE eax == cpu["eax"]
    <3>1. eax = <<x, n + 11, "esp", "">>
      BY <1>2 DEF Pointer, Word
    <3> HIDE DEF eax, n
    <3>2. eax[1] = x /\ eax[2] = n + 11
      BY <3>1
    <3> QED
      BY <3>2 DEF eax
  <2> QED
    BY <1>1, <1>4, <2>1, StubFields
<1>6. st \in Seq(AnyWord) /\ Exactly(st, s, 11)
  <2> DEFINE k == 11
             len == n + 11
  <2>1. /\ k \in Nat /\ k <= k /\ len \in Int /\ len = n + k /\ n + k <= len
        /\ len <= Len(stack[x]) /\ Covers(stack[x], s, k)
    BY <1>2, <1>3
  <2> HIDE DEF k, len, s
  <2>2. /\ SubSeq(stack[x], 1, len) \in Seq(AnyWord)
        /\ Len(SubSeq(stack[x], 1, len)) = len
        /\ Covers(SubSeq(stack[x], 1, len), s, k)
    BY <1>3, <1>4, <2>1, CutCovers
  <2> QED
    BY <2>1, <2>2 DEF Exactly, k, len
<1>7. a \in AnyWord /\ a[4] = "pop" /\ a[2] = 7
  <2>1. a \in AnyWord
    BY AddressTypes
  <2> QED
    BY <2>1 DEF Address, Word
<1> HIDE DEF a, st
<1>8. cpu' \in [Fields -> AnyWord] /\ cpu'["eip"] = a
  BY <1>3, <1>5, <1>7, StubFields DEF StubTypes
<1>9. Popping(s, cpu', st)
  <2>1. PlaceOf(cpu') = "pop" /\ cpu'["eip"][2] = 7
    BY <1>7, <1>8 DEF PlaceOf
  <2>2. Restored(cpu', s, 7)
    BY DEF Restored
  <2> QED
    BY <1>6, <2>1, <2>2 DEF Popping
<1>10. /\ stack' \in [Contexts -> Seq(AnyWord)] /\ stack'[x] = st
       /\ \A y \in Contexts : y # x => stack'[y] = stack[y]
  BY <1>4, <1>5, <1>6
<1>11. StubTypes'
  BY <1>1, <1>3, <1>5, <1>8, <1>10 DEF StubTypes
<1>12. (\A y \in Contexts : Chained(y))'
  <2>1. \A y \in Contexts : Chained(y)
    BY DEF StubInv
  <2> QED
    BY <1>1, <2>1 DEF Chained
<1>13. Running'
  <2>1. Resumed(x)' = s
    BY <1>1 DEF Resumed
  <2>2. Depth' > 0 /\ Depth' # 0
    BY <1>1, <1>2, <1>5 DEF Depth
  <2>3. Stage(current', s, cpu', st)
    BY <1>9 DEF Stage
  <2> QED
    BY <1>5, <1>10, <2>1, <2>2, <2>3 DEF Running, Here, Resumed
<1>14. (\A t \in Tasks \ {current} : Parked(t))'
  BY <1>1, <1>2, <1>5, <1>10 DEF Parked, Resumed, Contexts
<1>15. Numbered' /\ Answered'
  BY <1>7, <1>8 DEF Numbered, Answered, Place
<1> QED
  BY <1>11, <1>12, <1>13, <1>14, <1>15 DEF StubInv

(* Each pop puts one register back.                                        *)
LEMMA PopKeeps ==
  ASSUME StubInv, PopRegister
  PROVE  StubInv'
<1> DEFINE s == Resumed(current)
           n == Operand
           len == Len(Here) - 1
           st == SubSeq(Here, 1, len)
           a == IF n > 1 THEN Address(current, "pop", n - 1) ELSE Address(current, "add", 0)
<1>1. /\ Place = "pop" /\ current' = current /\ saved' = saved
      /\ interrupted' = interrupted /\ interrupt_number' = interrupt_number
      /\ cpu' = [cpu EXCEPT ![General[n]] = Last(Here), !["eip"] = a]
  BY DEF PopRegister
<1>2. /\ current \in Contexts /\ cpu \in [Fields -> AnyWord] /\ Here \in Seq(AnyWord)
      /\ Len(Here) \in Nat
      /\ stack \in [Contexts -> Seq(AnyWord)] /\ interrupt_number \in Int
  BY CurrentTypes
<1>3. Depth > 0 /\ Popping(s, cpu, Here)
  BY <1>1, AtPlace
<1>4. /\ s \in Snapshot /\ s.cpu \in [Fields -> AnyWord] /\ Len(s.stack) \in Nat
  BY <1>2, <1>3, ResumedType DEF StubInv, Depth
<1>5. /\ n \in 1 .. 7 /\ Exactly(Here, s, 4 + n) /\ Restored(cpu, s, n)
  BY <1>3 DEF Popping, Operand
<1>6. stack' = [stack EXCEPT ![current] = st]
  <2>1. Pop(1)
    BY DEF PopRegister
  <2> QED
    BY <2>1, PopStep
<1>7. Last(Here) = s.cpu[General[n]]
  <2>1. Len(Here) = Len(s.stack) + (4 + n) /\ 4 + n \in 1 .. (4 + n)
    BY <1>4, <1>5 DEF Exactly
  <2>2. Here[Len(s.stack) + (4 + n)] = CPUState(s.cpu)[4 + n]
    BY <1>5, <2>1 DEF Exactly, Covers
  <2>3. CPUState(s.cpu)[4 + n] = s.cpu[General[n]]
    BY <1>4, <1>5, FrameWords
  <2> QED
    BY <2>1, <2>2, <2>3 DEF Last
<1>8. st \in Seq(AnyWord) /\ Exactly(st, s, 3 + n)
  <2> HIDE DEF s, n
  <2> DEFINE k == 4 + n
             j == 3 + n
  <2>1. /\ k \in Nat /\ j \in Nat /\ j <= k /\ Covers(Here, s, k)
        /\ len \in Int /\ len = Len(s.stack) + j /\ Len(s.stack) + j <= len /\ len <= Len(Here)
    <3>1. n \in Nat /\ Len(s.stack) \in Nat
      BY <1>4, <1>5
    <3>2. k \in Nat /\ j \in Nat /\ j <= k
      BY <3>1
    <3>3. Len(Here) = Len(s.stack) + (4 + n)
      BY <1>5 DEF Exactly
    <3>4. len \in Int /\ len = Len(s.stack) + j /\ Len(s.stack) + j <= len /\ len <= Len(Here)
      <4> DEFINE b == Len(s.stack)
                 l == Len(Here)
      <4>1. n \in Nat /\ b \in Nat /\ l = b + (4 + n) /\ len = l - 1 /\ j = 3 + n
        BY <3>1, <3>3
      <4> HIDE DEF b, l, len, j
      <4>2. len \in Int /\ len = b + j /\ b + j <= len /\ len <= l
        BY <4>1
      <4> QED
        BY <4>2 DEF b, l
    <3>5. Covers(Here, s, k)
      BY <1>5 DEF Exactly
    <3> QED
      BY <3>2, <3>4, <3>5
  <2>2. s \in Snapshot /\ Here \in Seq(AnyWord)
    BY <1>2, <1>4
  <2> HIDE DEF k, j, len
  <2>3. /\ SubSeq(Here, 1, len) \in Seq(AnyWord)
        /\ Len(SubSeq(Here, 1, len)) = len
        /\ Covers(SubSeq(Here, 1, len), s, j)
    BY <2>1, <2>2, CutCovers
  <2> QED
    BY <2>1, <2>3 DEF Exactly, j
<1>9. a \in AnyWord
  <2>1. n - 1 \in Int
    BY <1>5
  <2>2. Address(current, "pop", n - 1) \in AnyWord /\ Address(current, "add", 0) \in AnyWord
    BY <1>2, <2>1, AddressTypes
  <2> QED
    BY <2>2
<1>10. n > 1 => a[4] = "pop" /\ a[2] = n - 1
  BY DEF Address, Word
<1>11. ~(n > 1) => a[4] = "add" /\ n = 1
  BY <1>5 DEF Address, Word
<1> HIDE DEF a, st, len, n
<1>12. General[n] \in Fields /\ General[n] # "eip" /\ "eip" \in Fields
  BY <1>5, GeneralFields, StubFields
<1>13. /\ cpu' \in [Fields -> AnyWord] /\ cpu'["eip"] = a
       /\ cpu'[General[n]] = s.cpu[General[n]]
       /\ \A f \in Fields : f # "eip" /\ f # General[n] => cpu'[f] = cpu[f]
  <2>1. s.cpu[General[n]] \in AnyWord
    BY <1>4, <1>12
  <2> HIDE DEF s
  <2>2. cpu' = [cpu EXCEPT ![General[n]] = s.cpu[General[n]], !["eip"] = a]
    BY <1>1, <1>7
  <2> QED
    BY <1>2, <1>9, <1>12, <2>1, <2>2
<1>14. Restored(cpu', s, n - 1)
  <2> SUFFICES ASSUME NEW i \in (n - 1 + 1) .. 7
               PROVE  cpu'[General[i]] = s.cpu[General[i]]
    BY DEF Restored
  <2>1. i \in 1 .. 7 /\ (i = n \/ i \in (n + 1) .. 7)
    BY <1>5
  <2>2. CASE i = n
    BY <1>13, <2>2
  <2>3. CASE i \in (n + 1) .. 7
    <3>1. cpu[General[i]] = s.cpu[General[i]]
      BY <1>5, <2>3 DEF Restored
    <3>2. i # n
      BY <1>5, <2>3
    <3>3. General[i] # General[n] /\ General[i] \in Fields /\ General[i] # "eip"
      BY <1>5, <2>1, <3>2, GeneralFields
    <3> QED
      BY <1>13, <3>1, <3>3
  <2> QED
    BY <2>1, <2>2, <2>3
<1>15. Stage(current, Resumed(current), cpu', st)
  <2>1. CASE n > 1
    <3>1. n - 1 \in 1 .. 7 /\ 4 + (n - 1) = 3 + n
      BY <1>5, <2>1
    <3>2. Popping(s, cpu', st)
      BY <1>8, <1>10, <1>13, <1>14, <2>1, <3>1 DEF Popping, PlaceOf
    <3> QED
      BY <3>2 DEF Stage
  <2>2. CASE ~(n > 1)
    <3>1. n - 1 = 0 /\ 3 + n = 4
      BY <1>11, <2>2
    <3>2. AtAdd(s, cpu', st)
      BY <1>8, <1>11, <1>13, <1>14, <2>2, <3>1 DEF AtAdd, PlaceOf
    <3> QED
      BY <3>2 DEF Stage
  <2> QED
    BY <2>1, <2>2
<1>16. Numbered' /\ Answered'
  BY <1>10, <1>11, <1>13 DEF Numbered, Answered, Place
<1>17. saved' \in [Tasks -> Int] /\ \A t \in Tasks \ {current} : saved'[t] = saved[t]
  BY <1>1, SavedStays
<1> QED
  BY <1>1, <1>2, <1>3, <1>6, <1>8, <1>13, <1>15, <1>16, <1>17, StageStep

(* add $4, %esp drops the error code.                                      *)
LEMMA DropKeeps ==
  ASSUME StubInv, DropErrorCode
  PROVE  StubInv'
<1> DEFINE s == Resumed(current)
           len == Len(Here) - 1
           st == SubSeq(Here, 1, len)
<1>1. /\ Place = "add" /\ Jump("iret", 0) /\ current' = current /\ saved' = saved
      /\ interrupted' = interrupted /\ interrupt_number' = interrupt_number
  BY DEF DropErrorCode
<1>2. /\ current \in Contexts /\ cpu \in [Fields -> AnyWord] /\ Here \in Seq(AnyWord)
      /\ Len(Here) \in Nat
      /\ stack \in [Contexts -> Seq(AnyWord)] /\ interrupt_number \in Int
  BY CurrentTypes
<1>3. Depth > 0 /\ AtAdd(s, cpu, Here)
  BY <1>1, AtPlace
<1>4. /\ s \in Snapshot /\ s.cpu \in [Fields -> AnyWord] /\ Len(s.stack) \in Nat
  BY <1>2, <1>3, ResumedType DEF StubInv, Depth
<1>5. stack' = [stack EXCEPT ![current] = st]
  <2>1. Pop(Dropped)
    BY DEF DropErrorCode
  <2> QED
    BY <2>1, PopStep DEF Dropped
<1>6. st \in Seq(AnyWord) /\ Exactly(st, s, 3)
  <2> DEFINE k == 4
             j == 3
  <2>1. /\ k \in Nat /\ j \in Nat /\ j <= k /\ Covers(Here, s, k)
        /\ len \in Int /\ len = Len(s.stack) + j /\ Len(s.stack) + j <= len /\ len <= Len(Here)
    BY <1>2, <1>3, <1>4 DEF AtAdd, Exactly
  <2>2. s \in Snapshot /\ Here \in Seq(AnyWord)
    BY <1>2, <1>4
  <2> HIDE DEF s, k, j, len
  <2>3. /\ SubSeq(Here, 1, len) \in Seq(AnyWord)
        /\ Len(SubSeq(Here, 1, len)) = len
        /\ Covers(SubSeq(Here, 1, len), s, j)
    BY <2>1, <2>2, CutCovers
  <2> QED
    BY <2>1, <2>3 DEF Exactly, j
<1> HIDE DEF st, len
<1>7. /\ cpu' \in [Fields -> AnyWord] /\ PlaceOf(cpu') = "iret"
      /\ \A i \in 1 .. 7 : cpu'[General[i]] = cpu[General[i]]
  BY <1>1, JumpOnly
<1>8. AtIret(s, cpu', st)
  BY <1>3, <1>6, <1>7 DEF AtAdd, AtIret, Restored
<1>9. Stage(current, Resumed(current), cpu', st)
  BY <1>8 DEF Stage
<1>10. Numbered' /\ Answered'
  BY <1>7 DEF Numbered, Answered, Place, PlaceOf
<1>11. saved' \in [Tasks -> Int] /\ \A t \in Tasks \ {current} : saved'[t] = saved[t]
  BY <1>1, SavedStays
<1> QED
  BY <1>1, <1>2, <1>3, <1>5, <1>6, <1>7, <1>9, <1>10, <1>11, StageStep

(* The iret goes back to what was interrupted: the context's own code, or  *)
(* an earlier interrupt at the stage where this one found it.              *)
LEMMA IretResumes ==
  ASSUME StubInv, Iret
  PROVE  /\ Depth > 0
         /\ cpu' = Resumed(current).cpu
         /\ stack' = [stack EXCEPT ![current] = Resumed(current).stack]
<1> DEFINE s == Resumed(current)
           b == Len(s.stack)
           l == Len(Here)
<1>1. /\ Place = "iret"
      /\ cpu' = [cpu EXCEPT !["eflags"] = Here[Len(Here) - 2],
                            !["cs"]     = Here[Len(Here) - 1],
                            !["eip"]    = Here[Len(Here)]]
  BY DEF Iret
<1>2. /\ current \in Contexts /\ cpu \in [Fields -> AnyWord] /\ Here \in Seq(AnyWord)
      /\ l \in Nat
  BY CurrentTypes
<1>3. Depth > 0 /\ AtIret(s, cpu, Here)
  BY <1>1, AtPlace
<1>4. /\ s \in Snapshot /\ s.cpu \in [Fields -> AnyWord] /\ s.stack \in Seq(AnyWord)
      /\ b \in Nat
  BY <1>2, <1>3, ResumedType DEF StubInv, Depth
<1>5. /\ l = b + 3
      /\ \A i \in 1 .. b : Here[i] = s.stack[i]
      /\ \A i \in 1 .. 3 : Here[b + i] = CPUState(s.cpu)[i]
      /\ \A i \in 1 .. 7 : cpu[General[i]] = s.cpu[General[i]]
  BY <1>3 DEF AtIret, Exactly, Covers, Restored
<1>6. \A i \in 1 .. 3 : Here[b + i] = s.cpu[Special[i]]
  <2>1. \A i \in 1 .. 3 : CPUState(s.cpu)[i] = s.cpu[Special[i]]
    BY <1>4, FrameWords
  <2> QED
    BY <1>5, <2>1
<1>7. /\ Here[l - 2] = s.cpu["eflags"] /\ Here[l - 1] = s.cpu["cs"]
      /\ Here[l] = s.cpu["eip"]
  <2>1. l - 2 = b + 1 /\ l - 1 = b + 2 /\ l = b + 3
    <3> HIDE DEF l, b
    <3> QED
      BY <1>2, <1>4, <1>5
  <2>2. /\ Here[b + 1] = s.cpu[Special[1]] /\ Here[b + 2] = s.cpu[Special[2]]
        /\ Here[b + 3] = s.cpu[Special[3]]
    BY <1>6
  <2> QED
    BY <2>1, <2>2, GeneralFields
<1>8. cpu' = s.cpu
  <2> DEFINE c == s.cpu
  <2>1. cpu' = [cpu EXCEPT !["eflags"] = c["eflags"], !["cs"] = c["cs"], !["eip"] = c["eip"]]
    BY <1>1, <1>7
  <2>2. c \in [Fields -> AnyWord] /\ \A i \in 1 .. 7 : cpu[General[i]] = c[General[i]]
    BY <1>4, <1>5
  <2> HIDE DEF c
  <2>3. \A f \in Range(General) : cpu[f] = c[f]
    BY <2>2, GeneralFields
  <2>4. \A f \in Fields : f \in Range(General) \/ f \in {"eflags", "cs", "eip"}
    BY StubFields
  <2>5. cpu' \in [Fields -> AnyWord] /\ \A f \in Fields : cpu'[f] = c[f]
    BY <1>2, <2>1, <2>2, <2>3, <2>4, StubFields
  <2>6. cpu' = c
    BY <2>2, <2>5
  <2> QED
    BY <2>6 DEF c
<1>9. SubSeq(Here, 1, l - 3) = s.stack
  <2> DEFINE u == SubSeq(Here, 1, b)
             r == s.stack
  <2>1. 0 <= b /\ b <= Len(Here) /\ b \in Int /\ l - 3 = b
    <3> HIDE DEF b
    <3> QED
      BY <1>2, <1>4, <1>5
  <2>2. u \in Seq(AnyWord) /\ Len(u) = b /\ \A i \in 1 .. b : u[i] = Here[i]
    <3> HIDE DEF b
    <3> QED
      BY <1>2, <2>1, Cut
  <2>3. r \in Seq(AnyWord) /\ Len(r) = b /\ \A i \in 1 .. b : Here[i] = r[i]
    BY <1>4, <1>5
  <2> HIDE DEF u, r, b
  <2>4. Len(u) = Len(r) /\ \A i \in 1 .. Len(u) : u[i] = r[i]
    BY <2>2, <2>3
  <2>5. u = r
    BY <2>2, <2>3, <2>4, SeqEqual
  <2> QED
    BY <2>1, <2>5 DEF u, r
<1>10. stack' = [stack EXCEPT ![current] = SubSeq(Here, 1, l - 3)]
  <2>1. Pop(3)
    BY StubFields DEF Iret
  <2> QED
    BY <2>1, PopStep
<1> QED
  BY <1>3, <1>8, <1>9, <1>10

LEMMA IretKeeps ==
  ASSUME StubInv, Iret
  PROVE  StubInv'
<1> DEFINE s == Resumed(current)
           h == interrupted[current]
           d == Len(h)
           g == SubSeq(h, 1, d - 1)
<1>1. /\ current' = current /\ saved' = saved /\ interrupt_number' = interrupt_number
      /\ interrupted' = [interrupted EXCEPT ![current] = Front(@)]
  BY DEF Iret
<1>2. /\ Depth > 0 /\ cpu' = s.cpu /\ stack' = [stack EXCEPT ![current] = s.stack]
  BY IretResumes
<1>3. /\ current \in Contexts /\ StubTypes /\ stack \in [Contexts -> Seq(AnyWord)]
  BY CurrentTypes DEF StubInv
<1>4. /\ s = h[d] /\ s.cpu \in [Fields -> AnyWord] /\ s.stack \in Seq(AnyWord)
      /\ d \in Nat /\ d > 0
  BY <1>2, <1>3, ResumedType DEF Depth
<1>5. h \in Seq(Snapshot) /\ interrupted \in [Contexts -> Seq(Snapshot)]
  BY <1>3 DEF StubTypes
<1>6. g \in Seq(Snapshot) /\ Len(g) = d - 1 /\ \A i \in 1 .. (d - 1) : g[i] = h[i]
  <2>1. d - 1 \in Int /\ 0 <= d - 1 /\ d - 1 <= Len(h)
    BY <1>4
  <2> HIDE DEF h
  <2> QED
    BY <1>5, <2>1, Cut
<1>7. interrupted' = [interrupted EXCEPT ![current] = g]
  BY <1>1, <1>5 DEF Front
<1>8. \A i \in 1 .. d : Linked(current, h, i)
  BY <1>3 DEF StubInv, Chained
<1> HIDE DEF g, h, d
<1>9. /\ interrupted' \in [Contexts -> Seq(Snapshot)] /\ interrupted'[current] = g
      /\ \A x \in Contexts : x # current => interrupted'[x] = interrupted[x]
  BY <1>3, <1>5, <1>6, <1>7
<1> HIDE DEF s
<1>10. /\ stack' \in [Contexts -> Seq(AnyWord)] /\ stack'[current] = s.stack
       /\ \A x \in Contexts : x # current => stack'[x] = stack[x]
  BY <1>2, <1>3, <1>4
<1>11. StubTypes'
  BY <1>1, <1>2, <1>3, <1>4, <1>9, <1>10 DEF StubTypes
<1>12. (\A x \in Contexts : Chained(x))'
  <2> SUFFICES ASSUME NEW x \in Contexts
               PROVE  \A i \in 1 .. Len(interrupted'[x]) : Linked(x, interrupted'[x], i)
    BY DEF Chained, Contexts
  <2>1. CASE x # current
    BY <1>9, <2>1 DEF StubInv, Chained
  <2>2. CASE x = current
    <3> SUFFICES ASSUME NEW i \in 1 .. (d - 1)
                 PROVE  Linked(x, g, i)
      BY <1>6, <1>9, <2>2
    <3>1. i \in 1 .. d /\ g[i] = h[i] /\ (i # 1 => g[i - 1] = h[i - 1])
      BY <1>4, <1>6
    <3>2. Linked(x, h, i)
      BY <1>8, <2>2, <3>1
    <3> QED
      BY <3>1, <3>2 DEF Linked
  <2> QED
    BY <2>1, <2>2
<1>13. Linked(current, h, d)
  BY <1>4, <1>8
<1>14. CASE d = 1
  <2>1. s.cpu = OwnRegisters(current) /\ s.stack = Own(current)
    BY <1>4, <1>13, <1>14 DEF Linked
  <2>2. Depth' = 0
    BY <1>1, <1>6, <1>9, <1>14 DEF Depth
  <2>3. cpu' = OwnRegisters(current') /\ Here' = Own(current')
    BY <1>1, <1>2, <1>10, <2>1 DEF Here
  <2>4. Running'
    BY <2>2, <2>3 DEF Running, OwnRegisters, Registers, Own, Word
  <2>5. PlaceOf(OwnRegisters(current)) = "run"
    BY <1>3, OwnTypes
  <2>6. Place' = "run"
    BY <1>2, <2>1, <2>5 DEF Place, PlaceOf
  <2>7. Numbered' /\ Answered'
    BY <2>6 DEF Numbered, Answered
  <2>8. (\A t \in Tasks \ {current} : Parked(t))'
    BY <1>1, <1>9, <1>10 DEF StubInv, Parked, Resumed, Contexts
  <2> QED
    BY <1>11, <1>12, <2>4, <2>7, <2>8 DEF StubInv
<1>15. CASE d # 1
  <2> DEFINE r == h[d - 1]
  <2>1. Stage(current, r, s.cpu, s.stack) /\ Interruptible(s.cpu)
    BY <1>4, <1>13, <1>15 DEF Linked
  <2>2. Len(g) = d - 1 /\ Depth' = d - 1 /\ d - 1 # 0 /\ g[d - 1] = r
    BY <1>1, <1>4, <1>6, <1>9, <1>15 DEF Depth
  <2>3. Resumed(current)' = r
    BY <1>1, <1>9, <2>2 DEF Resumed, Last
  <2> HIDE DEF r
  <2>4. Running'
    BY <1>1, <1>2, <1>10, <2>1, <2>2, <2>3 DEF Running, Here
  <2>5. Numbered'
    <3>1. PlaceOf(s.cpu) # "bottom" /\ PlaceOf(s.cpu) # "call"
      BY <2>1 DEF Stage, Interruptible, AtStub, AtBottom, AtCall, InWrapper, AtSwitch,
                  Popping, AtAdd, AtIret
    <3> QED
      BY <1>2, <3>1 DEF Numbered, Place, PlaceOf
  <2>6. Answered'
    <3>1. PlaceOf(s.cpu) = "switch" => s.cpu["eax"] = Pointer(current, Len(r.stack) + 11)
      BY <2>1 DEF Stage, Interruptible, AtStub, AtBottom, AtCall, InWrapper, AtSwitch,
                  Popping, AtAdd, AtIret
    <3> QED
      BY <1>1, <1>2, <2>3, <3>1 DEF Answered, OwnPointer, Place, PlaceOf
  <2>7. (\A t \in Tasks \ {current} : Parked(t))'
    BY <1>1, <1>9, <1>10 DEF StubInv, Parked, Resumed, Contexts
  <2> QED
    BY <1>11, <1>12, <2>4, <2>5, <2>6, <2>7 DEF StubInv
<1> QED
  BY <1>14, <1>15

(* An interrupt leaves a snapshot and starts a stub on top of it.          *)
LEMMA InterruptPushes ==
  ASSUME StubInv, NEW v \in Vectors, Interrupt(v),
         NEW e, e = [cpu |-> cpu, stack |-> Here, vector |-> v]
  PROVE  /\ e \in Snapshot
         /\ stack' \in [Contexts -> Seq(AnyWord)]
         /\ \A x \in Contexts : x # current => stack'[x] = stack[x]
         /\ cpu' \in [Fields -> AnyWord]
         /\ Place' \in {"stub", "iret"}
         /\ Stage(current, e, cpu', stack'[current])
<1> DEFINE errors == IF HasErrorCode(v) THEN <<Error>> ELSE <<>>
           w == Saved(cpu, Special) \o errors
           st == Here \o w
           a == IF v \in Exceptions \cup Requests THEN Address(current, "stub", v)
                ELSE Address(current, "iret", 0)
           flags == Word(current, Depth + 1, "eflags", "off")
           j == IF HasErrorCode(v) THEN 4 ELSE 3
<1>1. cpu' = [cpu EXCEPT !["eflags"] = flags, !["eip"] = a]
  BY DEF Interrupt, FlagBehindGate
<1>2. /\ current \in Contexts /\ cpu \in [Fields -> AnyWord] /\ Here \in Seq(AnyWord)
      /\ stack \in [Contexts -> Seq(AnyWord)]
  BY CurrentTypes
<1>3. v \in Int /\ Depth \in Int /\ Depth + 1 \in Int
  <2>1. Depth \in Nat
    BY <1>2, LenProperties DEF StubInv, StubTypes, Depth
  <2>2. v \in 0 .. 255
    BY StubAssumption
  <2> QED
    BY <2>1, <2>2
<1>4. e \in Snapshot
  BY <1>2, <1>3 DEF Snapshot
<1>5. stack' = [stack EXCEPT ![current] = st]
  <2>1. Push(w)
    BY DEF Interrupt
  <2> HIDE DEF w
  <2> QED
    BY <2>1, PushStep
<1>6. w \in Seq(AnyWord) /\ Len(w) = j /\ \A i \in 1 .. j : w[i] = CPUState(cpu)[i]
  <2> DEFINE p == Saved(cpu, Special)
             q == <<Error>>
  <2>1. p \in Seq(AnyWord) /\ Len(p) = 3 /\ \A i \in 1 .. 3 : p[i] = CPUState(cpu)[i]
    BY <1>2, FrameWords
  <2>2. q \in Seq(AnyWord) /\ Len(q) = 1 /\ q[1] = CPUState(cpu)[4]
    BY <1>2, FrameWords
  <2>3. CASE HasErrorCode(v)
    <3>1. w = p \o q /\ j = 4
      BY <2>3
    <3> HIDE DEF p, q, w, j
    <3>2. /\ p \o q \in Seq(AnyWord) /\ Len(p \o q) = Len(p) + Len(q)
          /\ \A i \in 1 .. Len(p) : (p \o q)[i] = p[i]
          /\ \A i \in 1 .. Len(q) : (p \o q)[Len(p) + i] = q[i]
      <4>1. p \in Seq(AnyWord) /\ q \in Seq(AnyWord)
        BY <2>1, <2>2
      <4> QED
        BY <4>1, Pushed
    <3>3. \A i \in 1 .. 3 : w[i] = CPUState(cpu)[i]
      BY <2>1, <3>1, <3>2
    <3>4. w[4] = CPUState(cpu)[4]
      <4>1. w[3 + 1] = q[1]
        BY <2>1, <2>2, <3>1, <3>2
      <4> QED
        BY <2>2, <4>1
    <3>5. \A i \in 1 .. 4 : i \in 1 .. 3 \/ i = 4
      OBVIOUS
    <3>6. \A i \in 1 .. 4 : w[i] = CPUState(cpu)[i]
      BY <3>3, <3>4, <3>5
    <3>7. w \in Seq(AnyWord) /\ Len(w) = 4
      BY <2>1, <2>2, <3>1, <3>2
    <3> QED
      BY <3>1, <3>6, <3>7
  <2>4. CASE ~HasErrorCode(v)
    <3>1. w = p \o <<>> /\ j = 3
      BY <2>4
    <3>2. p \o <<>> = p
      <4> HIDE DEF p
      <4>1. p \in Seq(AnyWord)
        BY <2>1
      <4> QED
        BY <4>1, ConcatEmptySeq
    <3> HIDE DEF p, w, j
    <3> QED
      BY <2>1, <3>1, <3>2
  <2> QED
    BY <2>3, <2>4
<1>7. j \in Nat /\ (j = 3 \/ j = 4)
  OBVIOUS
<1>8. /\ e.cpu = cpu /\ e.stack = Here /\ e.vector = v
  OBVIOUS
<1> HIDE DEF w, st
<1>9. st \in Seq(AnyWord) /\ Exactly(st, e, j)
  <2> DEFINE z == 0
  <2>1. z \in Nat /\ j = z + j /\ j <= Len(w) /\ w \in Seq(AnyWord)
    BY <1>6, <1>7
  <2>2. Exactly(Here, e, z)
    <3>1. Len(Here) \in Nat
      BY <1>2, LenProperties
    <3>2. Len(Here) = Len(e.stack) + z
      BY <1>8, <3>1
    <3>3. \A i \in 1 .. Len(e.stack) : Here[i] = e.stack[i]
      BY <1>8
    <3> QED
      BY <3>2, <3>3 DEF Exactly, Covers
  <2>3. \A i \in 1 .. j : w[i] = CPUState(e.cpu)[z + i]
    <3> SUFFICES ASSUME NEW i \in 1 .. j
                 PROVE  w[i] = CPUState(e.cpu)[z + i]
      OBVIOUS
    <3>1. z + i = i
      BY <1>7
    <3>2. w[i] = CPUState(cpu)[i]
      BY <1>6
    <3>3. CPUState(e.cpu) = CPUState(cpu)
      BY <1>8
    <3> HIDE DEF z, j
    <3> QED
      BY <3>1, <3>2, <3>3
  <2> HIDE DEF z, j
  <2>4. Covers(Here \o w, e, j) /\ Len(Here \o w) = Len(e.stack) + z + Len(w)
    <3>1. /\ e \in Snapshot /\ Here \in Seq(AnyWord) /\ w \in Seq(AnyWord)
          /\ z \in Nat /\ j \in Nat /\ j = z + j /\ j <= Len(w)
      BY <1>2, <1>4, <1>7, <2>1
    <3> QED
      BY <3>1, <2>2, <2>3, CoversMore
  <2>5. Here \o w \in Seq(AnyWord)
    <3>1. Here \in Seq(AnyWord) /\ w \in Seq(AnyWord)
      BY <1>2, <2>1
    <3> QED
      BY <3>1, Pushed
  <2>6. Len(e.stack) \in Nat
    BY <1>2, <1>8, LenProperties
  <2>7. Len(Here \o w) = Len(e.stack) + j
    BY <1>6, <2>4, <2>6 DEF z
  <2> QED
    BY <2>4, <2>5, <2>7 DEF Exactly, st
<1>10. flags \in AnyWord /\ flags[4] = "off"
  <2>1. flags \in AnyWord
    BY <1>2, <1>3, WordTypes
  <2> QED
    BY <2>1 DEF Word
<1>11. a \in AnyWord
  <2>1. Address(current, "stub", v) \in AnyWord /\ Address(current, "iret", 0) \in AnyWord
    BY <1>2, <1>3, AddressTypes
  <2> QED
    BY <2>1
<1>12. /\ v \in Exceptions \cup Requests => a[4] = "stub" /\ a[2] = v
       /\ v \notin Exceptions \cup Requests => a[4] = "iret"
  BY DEF Address, Word
<1> HIDE DEF flags, a
<1>13. /\ cpu' \in [Fields -> AnyWord] /\ cpu'["eflags"] = flags /\ cpu'["eip"] = a
       /\ \A f \in Fields : f \notin {"eflags", "eip"} => cpu'[f] = cpu[f]
  BY <1>1, <1>2, <1>10, <1>11, StubFields
<1>14. Restored(cpu', e, 0)
  BY <1>8, <1>13, GeneralFields DEF Restored
<1>15. stack'[current] = st
  BY <1>2, <1>5
<1>16. Stage(current, e, cpu', st)
  <2>1. CASE v \in Exceptions \cup Requests
    <3>1. Exactly(st, e, IF HasErrorCode(e.vector) THEN 4 ELSE 3)
      BY <1>8, <1>9
    <3>2. PlaceOf(cpu') = "stub" /\ cpu'["eip"][2] = e.vector /\ FlagOf(cpu') = "off"
      BY <1>8, <1>10, <1>12, <1>13, <2>1 DEF PlaceOf, FlagOf
    <3>3. e.vector \in Vectors
      BY <1>8
    <3> HIDE DEF j
    <3>4. AtStub(e, cpu', st)
      BY <1>14, <3>1, <3>2, <3>3 DEF AtStub
    <3> QED
      BY <3>4 DEF Stage
  <2>2. CASE v \notin Exceptions \cup Requests
    <3>1. ~HasErrorCode(v)
      BY <2>2, SMT DEF HasErrorCode, Exceptions
    <3>2. j = 3
      BY <3>1
    <3>3. PlaceOf(cpu') = "iret"
      BY <1>12, <1>13, <2>2 DEF PlaceOf
    <3> HIDE DEF j
    <3>4. AtIret(e, cpu', st)
      BY <1>9, <1>14, <3>2, <3>3 DEF AtIret
    <3> QED
      BY <3>4 DEF Stage
  <2> QED
    BY <2>1, <2>2
<1>17. /\ stack' \in [Contexts -> Seq(AnyWord)]
       /\ \A x \in Contexts : x # current => stack'[x] = stack[x]
  BY <1>2, <1>5, <1>9
<1>18. Place' \in {"stub", "iret"}
  BY <1>12, <1>13 DEF Place
<1> QED
  BY <1>4, <1>13, <1>15, <1>16, <1>17, <1>18

LEMMA InterruptKeeps ==
  ASSUME StubInv, NEW v \in Vectors, Interrupt(v)
  PROVE  StubInv'
<1> DEFINE e == [cpu |-> cpu, stack |-> Here, vector |-> v]
           h == interrupted[current]
           g == Append(h, e)
<1>1. /\ current' = current /\ saved' = saved /\ interrupt_number' = interrupt_number
      /\ interrupted' = [interrupted EXCEPT ![current] = Append(@, e)]
      /\ IF v \in Requests THEN InterruptFlag = "on" ELSE Place \in {"run", "wrapper"}
  BY DEF Interrupt
<1>2. /\ e \in Snapshot
      /\ stack' \in [Contexts -> Seq(AnyWord)]
      /\ \A x \in Contexts : x # current => stack'[x] = stack[x]
      /\ cpu' \in [Fields -> AnyWord]
      /\ Place' \in {"stub", "iret"}
      /\ Stage(current, e, cpu', stack'[current])
  BY InterruptPushes
<1>3. e.cpu = cpu /\ e.stack = Here
  OBVIOUS
<1> HIDE DEF e
<1>4. /\ current \in Contexts /\ StubTypes
      /\ interrupted \in [Contexts -> Seq(Snapshot)] /\ h \in Seq(Snapshot)
  BY CurrentTypes DEF StubInv, StubTypes
<1>5. /\ g \in Seq(Snapshot) /\ Len(g) = Len(h) + 1 /\ Len(h) \in Nat
      /\ \A i \in 1 .. Len(h) : g[i] = h[i]
      /\ g[Len(h) + 1] = e
  <2> HIDE DEF h
  <2> QED
    BY <1>2, <1>4, AppendProperties, LenProperties
<1>6. interrupted' = [interrupted EXCEPT ![current] = g]
  BY <1>1, <1>4
<1>7. \A i \in 1 .. Len(h) : Linked(current, h, i)
  BY <1>4 DEF StubInv, Chained
<1>8. IF Len(h) = 0 THEN cpu = OwnRegisters(current) /\ Here = Own(current)
      ELSE Stage(current, h[Len(h)], cpu, Here)
  BY DEF StubInv, Running, Depth, Resumed, Last
<1> HIDE DEF g, h
<1>9. /\ interrupted' \in [Contexts -> Seq(Snapshot)] /\ interrupted'[current] = g
      /\ \A x \in Contexts : x # current => interrupted'[x] = interrupted[x]
  BY <1>4, <1>5, <1>6
<1>10. StubTypes'
  BY <1>1, <1>2, <1>4, <1>9 DEF StubTypes
<1>11. Linked(current, g, Len(h) + 1)
  <2>1. CASE Len(h) = 0
    BY <1>3, <1>5, <1>8, <2>1 DEF Linked
  <2>2. CASE Len(h) # 0
    <3>1. Stage(current, h[Len(h)], cpu, Here)
      BY <1>8, <2>2
    <3>2. Place # "run"
      BY <3>1 DEF Stage, AtStub, AtBottom, AtCall, InWrapper, AtSwitch, Popping, AtAdd, AtIret,
                  Place, PlaceOf
    <3>3. Interruptible(cpu)
      BY <1>1, <3>2 DEF Interruptible, InterruptFlag, Place, FlagOf, PlaceOf
    <3>4. /\ Len(h) + 1 # 1 /\ Len(h) + 1 - 1 = Len(h) /\ Len(h) \in 1 .. Len(h)
      BY <1>5, <2>2
    <3>5. g[Len(h) + 1 - 1] = h[Len(h)]
      BY <1>5, <3>4
    <3> QED
      BY <1>3, <1>5, <3>1, <3>3, <3>4, <3>5 DEF Linked
  <2> QED
    BY <2>1, <2>2
<1>12. (\A x \in Contexts : Chained(x))'
  <2> SUFFICES ASSUME NEW x \in Contexts
               PROVE  \A i \in 1 .. Len(interrupted'[x]) : Linked(x, interrupted'[x], i)
    BY DEF Chained, Contexts
  <2>1. CASE x # current
    BY <1>9, <2>1 DEF StubInv, Chained
  <2>2. CASE x = current
    <3> SUFFICES ASSUME NEW i \in 1 .. (Len(h) + 1)
                 PROVE  Linked(x, g, i)
      BY <1>5, <1>9, <2>2
    <3>1. CASE i = Len(h) + 1
      BY <1>11, <2>2, <3>1
    <3>2. CASE i # Len(h) + 1
      <4>1. i \in 1 .. Len(h) /\ g[i] = h[i] /\ (i # 1 => g[i - 1] = h[i - 1])
        BY <1>5, <3>2
      <4>2. Linked(x, h, i)
        BY <1>7, <2>2, <4>1
      <4> QED
        BY <4>1, <4>2 DEF Linked
    <3> QED
      BY <3>1, <3>2
  <2> QED
    BY <2>1, <2>2
<1>13. Running'
  <2>1. Depth' = Len(h) + 1 /\ Depth' # 0
    BY <1>1, <1>5, <1>9 DEF Depth
  <2>2. Resumed(current)' = e
    BY <1>1, <1>5, <1>9 DEF Resumed, Last
  <2> QED
    BY <1>1, <1>2, <2>1, <2>2 DEF Running, Here
<1>14. (\A t \in Tasks \ {current} : Parked(t))'
  BY <1>1, <1>2, <1>9 DEF StubInv, Parked, Resumed, Contexts
<1>15. Numbered' /\ Answered'
  BY <1>2 DEF Numbered, Answered
<1> QED
  BY <1>10, <1>12, <1>13, <1>14, <1>15 DEF StubInv

(* A Task that has never run holds the CPUState its constructor wrote.     *)
LEMMA OwnStack ==
  ASSUME NEW x \in Contexts
  PROVE  Own(x) \in Seq(AnyWord) /\ Len(Own(x)) = 2
<1>1. Word(x, 0, "ss", "") \in AnyWord /\ Word(x, 0, "esp", "") \in AnyWord
  <2>1. 0 \in Int /\ "ss" \in Names /\ "esp" \in Names /\ "" \in Texts
    BY DEF Names, Texts
  <2> QED
    BY <2>1 DEF Word, AnyWord
<1> DEFINE a == Word(x, 0, "ss", "")
           b == Word(x, 0, "esp", "")
<1> HIDE DEF a, b
<1>2. a \in AnyWord /\ b \in AnyWord
  BY <1>1 DEF a, b
<1>3. <<a, b>> \in Seq(AnyWord) /\ Len(<<a, b>>) = 2
  BY <1>2
<1> QED
  BY <1>3 DEF Own, a, b

LEMMA StubsBegin ==
  ASSUME Init
  PROVE  StubInv
<1> DEFINE first(x) == [cpu |-> OwnRegisters(x), stack |-> Own(x), vector |-> Timer]
           frame(x) == Own(x) \o CPUState(OwnRegisters(x))
<1>1. /\ current = Boot /\ cpu = OwnRegisters(Boot) /\ interrupt_number = 0
      /\ stack = [x \in Contexts |-> IF x = Boot THEN Own(x) ELSE frame(x)]
      /\ saved = [t \in Tasks |-> Len(stack[t])]
      /\ interrupted = [x \in Contexts |-> IF x = Boot THEN <<>> ELSE <<first(x)>>]
  BY DEF Init
<1>2. \A x \in Contexts : /\ OwnRegisters(x) \in [Fields -> AnyWord]
                          /\ PlaceOf(OwnRegisters(x)) = "run"
                          /\ Own(x) \in Seq(AnyWord) /\ Len(Own(x)) = 2
  BY OwnTypes, OwnStack
<1>3. \A x \in Contexts : /\ first(x) \in Snapshot
                          /\ first(x).cpu = OwnRegisters(x) /\ first(x).stack = Own(x)
  <2>1. Timer \in Int
    BY DEF Timer, IRQ_BASE
  <2> QED
    BY <1>2, <2>1 DEF Snapshot
<1>4. \A x \in Contexts : /\ frame(x) \in Seq(AnyWord) /\ Len(frame(x)) = 2 + 11
                          /\ Covers(frame(x), first(x), 11)
  <2> SUFFICES ASSUME NEW x \in Contexts
               PROVE  /\ frame(x) \in Seq(AnyWord) /\ Len(frame(x)) = 2 + 11
                      /\ Covers(frame(x), first(x), 11)
    OBVIOUS
  <2> DEFINE b == Own(x)
             w == CPUState(OwnRegisters(x))
  <2>1. b \in Seq(AnyWord) /\ w \in Seq(AnyWord) /\ Len(b) = 2 /\ Len(w) = 11
    BY <1>2, FrameWords
  <2>2. first(x).stack = b /\ CPUState(first(x).cpu) = w
    BY <1>3
  <2> HIDE DEF b, w, first
  <2>3. /\ b \o w \in Seq(AnyWord) /\ Len(b \o w) = Len(b) + Len(w)
        /\ \A i \in 1 .. Len(b) : (b \o w)[i] = b[i]
        /\ \A i \in 1 .. Len(w) : (b \o w)[Len(b) + i] = w[i]
    <3>1. b \in Seq(AnyWord) /\ w \in Seq(AnyWord)
      BY <2>1
    <3> QED
      BY <3>1, Pushed
  <2>4. Covers(b \o w, first(x), 11)
    BY <2>1, <2>2, <2>3 DEF Covers
  <2> QED
    BY <2>1, <2>3, <2>4 DEF b, w
<1> HIDE DEF first, frame
<1>5. /\ stack[Boot] = Own(Boot) /\ interrupted[Boot] = <<>> /\ Boot \in Contexts
      /\ \A t \in Tasks : /\ stack[t] = frame(t) /\ interrupted[t] = <<first(t)>>
                          /\ saved[t] = 2 + 11 /\ t \in Contexts
  BY <1>1, <1>4, StubAssumption DEF Contexts
<1>6. StubTypes
  <2>1. \A x \in Contexts : <<first(x)>> \in Seq(Snapshot)
    BY <1>3
  <2>2. <<>> \in Seq(Snapshot)
    OBVIOUS
  <2>3. stack \in [Contexts -> Seq(AnyWord)]
    BY <1>1, <1>2, <1>4
  <2>4. interrupted \in [Contexts -> Seq(Snapshot)]
    BY <1>1, <2>1, <2>2
  <2>5. saved \in [Tasks -> Int]
    <3>1. 2 + 11 \in Int
      OBVIOUS
    <3> QED
      BY <1>1, <1>5, <3>1
  <2> QED
    BY <1>1, <1>2, <1>5, <2>3, <2>4, <2>5 DEF StubTypes
<1>7. \A x \in Contexts : Chained(x)
  <2> SUFFICES ASSUME NEW x \in Contexts, NEW i \in 1 .. Len(interrupted[x])
               PROVE  Linked(x, interrupted[x], i)
    BY DEF Chained
  <2>1. x \in Tasks
    BY <1>5 DEF Contexts
  <2>2. interrupted[x] = <<first(x)>>
    BY <1>5, <2>1
  <2>3. Len(interrupted[x]) = 1 /\ interrupted[x][1] = first(x)
    BY <2>2
  <2>4. i = 1
    BY <2>3
  <2> QED
    BY <1>3, <2>3, <2>4 DEF Linked
<1>8. Running
  BY <1>1, <1>5 DEF Running, Depth, Here
<1>9. \A t \in Tasks : Parked(t)
  <2> SUFFICES ASSUME NEW t \in Tasks
               PROVE  Parked(t)
    OBVIOUS
  <2>1. t \in Contexts
    BY <1>5
  <2>2. Len(interrupted[t]) = 1 /\ Resumed(t) = first(t)
    <3>1. interrupted[t] = <<first(t)>>
      BY <1>5
    <3>2. Len(interrupted[t]) = 1 /\ interrupted[t][1] = first(t)
      BY <3>1
    <3> QED
      BY <3>2 DEF Resumed, Last
  <2>3. Len(Resumed(t).stack) = 2
    BY <1>2, <1>3, <2>1, <2>2
  <2>4. Len(stack[t]) = 2 + 11 /\ saved[t] = 2 + 11 /\ Covers(stack[t], Resumed(t), 11)
    BY <1>4, <1>5, <2>1, <2>2
  <2> QED
    BY <2>2, <2>3, <2>4 DEF Parked
<1>10. Place = "run"
  BY <1>1, <1>2, <1>5 DEF Place, PlaceOf
<1> QED
  BY <1>6, <1>7, <1>8, <1>9, <1>10 DEF StubInv, Numbered, Answered

LEMMA StubsStep ==
  ASSUME Balances, StubInv, [Next]_vars
  PROVE  StubInv'
<1>1. CASE UNCHANGED vars
  <2>1. /\ current' = current /\ stack' = stack /\ cpu' = cpu /\ saved' = saved
        /\ interrupt_number' = interrupt_number /\ interrupted' = interrupted
    BY <1>1 DEF vars
  <2>2. StubTypes'
    BY <2>1 DEF StubInv, StubTypes
  <2>3. (\A x \in Contexts : Chained(x))'
    BY <2>1 DEF StubInv, Chained, Contexts
  <2>4. Running'
    BY <2>1 DEF StubInv, Running, Depth, Here, Resumed
  <2>5. (\A t \in Tasks \ {current} : Parked(t))'
    BY <2>1 DEF StubInv, Parked, Resumed
  <2>6. Numbered' /\ Answered'
    BY <2>1 DEF StubInv, Numbered, Answered, OwnPointer, Place, Resumed
  <2> QED
    BY <2>2, <2>3, <2>4, <2>5, <2>6 DEF StubInv
<1>2. CASE \E v \in Vectors : Interrupt(v)
  BY <1>2, InterruptKeeps
<1>3. CASE HandleException
  BY <1>3, ExceptionKeeps
<1>4. CASE HandleInterruptRequest
  BY <1>4, RequestKeeps
<1>5. CASE SaveRegisters
  BY <1>5, SavingKeeps
<1>6. CASE CallWrapper
  BY <1>6, CallKeeps
<1>7. CASE Sti
  BY <1>7, StiKeeps
<1>8. CASE WrapperReturns
  BY <1>8, WrapperKeeps
<1>9. CASE Schedule
  BY <1>9, ScheduleKeeps
<1>10. CASE SwitchStack
  BY <1>10, SwitchKeeps
<1>11. CASE PopRegister
  BY <1>11, PopKeeps
<1>12. CASE DropErrorCode
  BY <1>12, DropKeeps
<1>13. CASE Iret
  BY <1>13, IretKeeps
<1> QED
  BY <1>1, <1>2, <1>3, <1>4, <1>5, <1>6, <1>7, <1>8, <1>9, <1>10, <1>11, <1>12, <1>13
  DEF Next

(* Every interrupt under way, however deep on whichever stack, has left on *)
(* it exactly what its stub has pushed so far over what it interrupted,    *)
(* and every task that is switched out can be switched to: in every state, *)
(* if each exception that occurs is one with an error code.                *)
THEOREM StubsBalance ==
  ASSUME Balances
  PROVE  Spec => []StubInv
<1>1. Init => StubInv
  BY StubsBegin
<1>2. StubInv /\ [Next]_vars => StubInv'
  BY StubsStep
<1> QED
  BY <1>1, <1>2, PTL DEF Spec

(* At its iret an interrupt has restored the registers and the stack of    *)
(* what it interrupted, were it another interrupt's stub or wrapper.       *)
LEMMA StubsRestore ==
  ASSUME StubInv
  PROVE  Transparent
<1> DEFINE s == Resumed(current)
<1>1. ASSUME Place = "iret"
      PROVE  /\ Here = s.stack \o Saved(s.cpu, Special)
             /\ \A f \in Range(General) : cpu[f] = s.cpu[f]
  <2>1. Depth > 0 /\ AtIret(s, cpu, Here)
    BY <1>1, AtPlace
  <2>2. s \in Snapshot /\ s.cpu \in [Fields -> AnyWord] /\ Here \in Seq(AnyWord)
    BY <2>1, CurrentTypes, ResumedType DEF StubInv, Depth
  <2> HIDE DEF s
  <2> DEFINE w == Saved(s.cpu, Special)
  <2>3. /\ w \in Seq(AnyWord) /\ Len(w) = 3
        /\ \A i \in 1 .. 3 : w[i] = s.cpu[Special[i]]
        /\ \A i \in 1 .. 3 : CPUState(s.cpu)[i] = s.cpu[Special[i]]
    BY <2>2, FrameWords
  <2> HIDE DEF w
  <2>4. Len(Here) = Len(s.stack) + Len(w)
    BY <2>1, <2>3 DEF AtIret, Exactly
  <2>5. \A i \in 1 .. Len(s.stack) : Here[i] = s.stack[i]
    BY <2>1 DEF AtIret, Exactly, Covers
  <2>6. \A i \in 1 .. Len(w) : Here[Len(s.stack) + i] = w[i]
    BY <2>1, <2>3 DEF AtIret, Exactly, Covers
  <2>7. Here = s.stack \o w
    BY <2>2, <2>3, <2>4, <2>5, <2>6, WholeFrame
  <2>8. \A f \in Range(General) : cpu[f] = s.cpu[f]
    <3>1. \A i \in 1 .. 7 : cpu[General[i]] = s.cpu[General[i]]
      BY <2>1 DEF AtIret, Restored
    <3> QED
      BY <3>1, GeneralFields
  <2> QED
    BY <2>7, <2>8 DEF w
<1>2. ASSUME Place = "run"
      PROVE  cpu = OwnRegisters(current) /\ Here = Own(current)
  <2>1. ~Stage(current, s, cpu, Here)
    BY <1>2 DEF Stage, AtStub, AtBottom, AtCall, InWrapper, AtSwitch, Popping, AtAdd, AtIret,
                Place, PlaceOf
  <2> QED
    BY <2>1 DEF StubInv, Running
<1> QED
  BY <1>1, <1>2 DEF Transparent

(* An interrupt is invisible to the code it interrupts: for any contexts,  *)
(* at any depth of nesting behind the ESC handler's sti, between any two   *)
(* instructions there, and however often the stacks are switched           *)
(* meanwhile; if each exception that occurs is one with an error code.     *)
THEOREM StubsAreTransparent ==
  ASSUME Balances
  PROVE  Spec => []Transparent
<1>1. StubInv => Transparent
  BY StubsRestore
<1> QED
  BY <1>1, StubsBalance, PTL

(* A stack that covers a CPUState begins with it.                          *)
LEMMA FrameCovered ==
  ASSUME StubInv, NEW x \in Contexts, Len(interrupted[x]) > 0,
         Covers(stack[x], Resumed(x), 11), Len(stack[x]) >= Len(Resumed(x).stack) + 11
  PROVE  /\ Len(Frame(x)) = Len(Resumed(x).stack) + 11
         /\ SubSeq(stack[x], 1, Len(Resumed(x).stack) + 11) = Frame(x)
<1> DEFINE s == Resumed(x)
           b == Len(s.stack)
           w == CPUState(s.cpu)
           st == stack[x]
           k == 11
           len == b + k
           u == SubSeq(st, 1, len)
<1>1. /\ s \in Snapshot /\ s.cpu \in [Fields -> AnyWord] /\ s.stack \in Seq(AnyWord)
      /\ b \in Nat
  BY ResumedType DEF StubInv
<1>2. st \in Seq(AnyWord) /\ Len(st) \in Nat
  BY LenProperties DEF StubInv, StubTypes
<1>3. w \in Seq(AnyWord) /\ Len(w) = k
  BY <1>1, FrameWords
<1>4. Covers(st, s, k) /\ k \in Nat /\ k <= k
  OBVIOUS
<1>5. len \in Int /\ b + k <= len /\ len <= Len(st)
  BY <1>1, <1>2
<1>6. Frame(x) = s.stack \o w
  BY DEF Frame
<1> HIDE DEF s, w, st, k, len
<1>7. u \in Seq(AnyWord) /\ Len(u) = len /\ Covers(u, s, k)
  BY <1>1, <1>2, <1>4, <1>5, CutCovers
<1> HIDE DEF u
<1>8. u = s.stack \o w
  <2>1. Len(u) = Len(s.stack) + Len(w)
    BY <1>3, <1>7 DEF len
  <2>2. /\ \A i \in 1 .. Len(s.stack) : u[i] = s.stack[i]
        /\ \A i \in 1 .. Len(w) : u[Len(s.stack) + i] = w[i]
    BY <1>3, <1>7 DEF Covers, w
  <2> QED
    BY <1>1, <1>3, <1>7, <2>1, <2>2, WholeFrame
<1>9. Len(Frame(x)) = len
  BY <1>6, <1>7, <1>8
<1> QED
  BY <1>6, <1>8, <1>9 DEF u, len, k, st, s

LEMMA FramesRead ==
  ASSUME StubInv
  PROVE  FrameIsCPUState
<1>1. ASSUME NEW t \in Tasks \ {current}
      PROVE  SubSeq(stack[t], 1, saved[t]) = Frame(t)
  <2>1. Parked(t) /\ t \in Contexts
    BY DEF StubInv, Contexts
  <2>2. /\ Len(interrupted[t]) > 0 /\ saved[t] = Len(Resumed(t).stack) + 11
        /\ Covers(stack[t], Resumed(t), 11) /\ Len(stack[t]) >= Len(Resumed(t).stack) + 11
    BY <2>1 DEF Parked
  <2> QED
    BY <2>1, <2>2, FrameCovered
<1>2. ASSUME Place = "wrapper"
      PROVE  /\ EspArgument = Pointer(current, Len(Frame(current)))
             /\ SubSeq(Here, 1, Len(Frame(current))) = Frame(current)
             /\ NumberArgument = Resumed(current).vector
  <2>1. /\ Depth > 0 /\ InWrapper(current, Resumed(current), cpu, Here)
        /\ EspArgument = OwnPointer /\ NumberArgument = Resumed(current).vector
    BY <1>2, ArgumentsHeld
  <2>2. /\ current \in Contexts /\ Len(interrupted[current]) > 0
        /\ Len(Resumed(current).stack) \in Nat
    BY <2>1, CurrentTypes, ResumedType DEF Depth, StubInv
  <2>3. /\ Covers(stack[current], Resumed(current), 11)
        /\ Len(stack[current]) >= Len(Resumed(current).stack) + 11
    BY <2>1, <2>2 DEF InWrapper, Here
  <2>4. /\ Len(Frame(current)) = Len(Resumed(current).stack) + 11
        /\ SubSeq(stack[current], 1, Len(Resumed(current).stack) + 11) = Frame(current)
    BY <2>2, <2>3, FrameCovered
  <2> QED
    BY <2>1, <2>4 DEF OwnPointer, Here
<1> QED
  BY <1>1, <1>2 DEF FrameIsCPUState

(* Under every stack pointer that the wrapper is given, or that schedule() *)
(* has stored in a task, lies the whole CPUState of what was interrupted   *)
(* there, whatever nested stubs have done on that stack since; and the     *)
(* wrapper is told the vector that occurred, though all stubs share one    *)
(* byte for it: if each exception that occurs is one with an error code.   *)
THEOREM FramesAreCPUStates ==
  ASSUME Balances
  PROVE  Spec => []FrameIsCPUState
<1>1. StubInv => FrameIsCPUState
  BY FramesRead
<1> QED
  BY <1>1, StubsBalance, PTL

=============================================================================
