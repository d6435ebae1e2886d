-------------------------------- MODULE Boot --------------------------------
(***************************************************************************)
(* The numbers kernel_main() computes before there is anything else: the   *)
(* descriptors of the segments, src/src/gdt.cpp, and the arguments of the  *)
(* heap's constructor, src/src/kernel.cpp.  Both are plain functions, so   *)
(* what is to be said of them is proved for every argument, in 32-bit      *)
(* arithmetic, in Machine_proofs, and not run.                             *)
(***************************************************************************)
EXTENDS Integers

KiB == 1024
MiB == 1048576

UInt32    == {n \in Nat : n < 4294967296}
Word32(n) == n % 4294967296

-----------------------------------------------------------------------------
(* SegmentDescriptor's constructor, and what it reads back.                *)

UsePages(limit) == limit > 64 * KiB

(* In pages: rounded down to a boundary, less one, unless it ends a page.  *)
Pages(limit) ==
  IF limit % 4096 = 4095 THEN limit \div 4096 ELSE (limit \div 4096) - 1

Scaled(limit) == IF UsePages(limit) THEN Pages(limit) ELSE limit

SegmentDescriptor(base, limit) ==
  [limit_bits_0_15  |-> Scaled(limit) % 65536,
   limit_bits_16_19 |-> (Scaled(limit) \div 65536) % 16,
   granularity_4kb  |-> UsePages(limit),
   base_bits_0_15   |-> base % 65536,
   base_bits_16_23  |-> (base \div 65536) % 256,
   base_bits_24_31  |-> (base \div 16777216) % 256]

GetLimit(d) ==
  LET limit == 65536 * d.limit_bits_16_19 + d.limit_bits_0_15
  IN  IF d.granularity_4kb THEN 4096 * limit + 4095 ELSE limit

GetBaseAddress(d) ==
  65536 * (256 * d.base_bits_24_31 + d.base_bits_16_23) + d.base_bits_0_15

-----------------------------------------------------------------------------
(* The heap: ten MiB up, to ten KiB short of what the loader reports as    *)
(* upper memory, which begins at one MiB and is counted in KiB.            *)

Heap == 10 * MiB

HeapSize(upper_memory) == Word32(upper_memory * KiB - Heap - 10 * KiB)

(* The heap is memory that the machine has.                                *)
InMemory(upper_memory) ==
  Heap + HeapSize(upper_memory) <= MiB + upper_memory * KiB
=============================================================================
