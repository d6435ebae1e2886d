------------------------------ MODULE MCKernel ------------------------------
(* Machines with no card, one, two and three, on lines of their own, on one *)
(* line, and on the keyboard's; behind a device of several functions; with  *)
(* and without an I/O address; next to bridges and other devices.           *)
EXTENDS Kernel

MCHandlerType ==
  [h \in EtherHandlers |-> CASE h = "arp" -> 2054 [] h = "twin" -> 1544
                             [] h = "palindrome" -> 2056]

MCLinesOf == [d \in Drivers |-> IF d \in {"keyboard", "a"} THEN {33} ELSE {43}]

Io(address) == [io |-> TRUE, address |-> address]

Bars(first, last) == [b \in 0 .. 5 |-> CASE b = 0 -> first [] b = 5 -> last [] OTHER -> Memory]

Card(d, interrupt, first) ==
  [vendor |-> 4130, device |-> 8192, multi |-> FALSE, header |-> 0,
   bars |-> Bars(first, Io(0)), interrupt |-> interrupt, card |-> d]

Other(header, multi) ==
  [vendor |-> 32902, device |-> 4660, multi |-> multi, header |-> header,
   bars |-> Bars(Io(4096), Io(8192)), interrupt |-> 255, card |-> NULL]

Alone(f) == [n \in 0 .. 1 |-> IF n = 0 THEN f ELSE Absent]
Pair(f, g) == [n \in 0 .. 1 |-> IF n = 0 THEN f ELSE g]
Empty == Alone(Absent)

MCBuses ==
  { <<>>, <<Empty, Alone(Other(0, FALSE))>>,
    <<Alone(Other(1, FALSE)), Alone(Card("a", 11, Io(49152)))>>,
    <<Pair(Other(0, TRUE), Card("a", 1, Io(49152)))>>,
    <<Pair(Other(0, FALSE), Card("a", 11, Io(49152)))>>,
    <<Alone(Card("a", 11, Io(49152))), Empty, Alone(Card("b", 11, Io(53248)))>>,
    <<Alone(Other(1, FALSE)), Alone(Card("a", 255, Memory)),
      Alone(Card("b", 11, Io(53248)))>>,
    <<Alone(Card("a", 11, Io(49152))), Alone(Card("b", 11, Memory)),
      Alone(Card("c", 1, Io(57344)))>> }

=============================================================================
