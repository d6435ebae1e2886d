--------------------------------- MODULE PCI ---------------------------------
(***************************************************************************)
(* The PCI controller, src/src/pci.cpp: the scan for cards.                *)
(*                                                                         *)
(* The bus is a sequence of the devices that select_drivers() visits, each *)
(* a function from function numbers to what is found there.  Reading the   *)
(* configuration of what does not exist gives ones in every bit.  Writing  *)
(* and what the scan prints are left out.                                  *)
(***************************************************************************)
EXTENDS DriverManager

CONSTANTS
  Functions,    (* functions a device may have: 8 in the code               *)
  Buses         (* the machines considered                                  *)

Cards  == Drivers \ {"keyboard"}
Memory == [io |-> FALSE, address |-> 0]
NoPort == -1             (* what an object holds before it is written        *)

IsCard(f) == f.vendor = 4130 /\ f.device = 8192     (* 0x1022, 0x2000       *)

(* The PIC's lines begin at 0x20; the sum is kept in 8 bits.               *)
InterruptNumber(f) == (f.interrupt + 32) % 256

ASSUME BusAssumption ==
  /\ Functions \in 1 .. 8
  /\ "keyboard" \in Drivers
  /\ \A b \in Buses :
       /\ Len(b) \in Nat /\ DOMAIN b = 1 .. Len(b)
       /\ \A n \in DOMAIN b :
            /\ DOMAIN b[n] = 0 .. (Functions - 1)
            /\ b[n][0].multi \in BOOLEAN
            /\ \A f \in 0 .. (Functions - 1) :                (* no bridge *)
                 IsCard(b[n][f]) => /\ b[n][f].card \in Cards
                                    /\ b[n][f].header = 0
                                    /\ InterruptNumber(b[n][f]) \in Lines

VARIABLES
  bus,
  device_number, function_number,
  port,         (* device_descriptor.port, of this iteration or the last    *)
  driver,       (* select_drivers()'s: constructed, not yet registered      *)
  room,         (* drivers that the heap has room for                       *)
  card_port     (* driver |-> the port it was constructed with              *)

pvars == <<bus, device_number, function_number, port, driver, room, card_port>>

Absent == [vendor |-> 65535, device |-> 65535, multi |-> TRUE, header |-> 127,
           bars |-> [b \in 0 .. 5 |-> Memory], interrupt |-> 255, card |-> NULL]

InitPCI ==
  /\ bus \in Buses
  /\ device_number = 1 /\ function_number = 0
  /\ port = NoPort /\ driver = NULL
  /\ room \in 0 .. Cardinality(Cards)
  /\ card_port = [d \in Drivers |-> NoPort]

DeviceHasFunctions == bus[device_number][0].multi

Described == bus[device_number][function_number]

(* A bridge has two base address registers, other headers have none.  The  *)
(* result for one that does not exist is not written.                      *)
BarNumbers(f) == {b \in 0 .. 5 : b < 6 - 4 * f.header}

IoBars(f) == {b \in BarNumbers(f) : f.bars[b].io /\ f.bars[b].address # 0}

(* The last I/O address wins.  Without one, and with results not written,  *)
(* the descriptor's port may be what lies on the stack: there lay the      *)
(* descriptor of the iteration before.                                     *)
Ports(f) ==
  {f.bars[b].address : b \in {Max(IoBars(f)) : o \in IoBars(f)}} \cup
  IF IoBars(f) = {} \/ BarNumbers(f) # 0 .. 5 THEN {port, NoPort} ELSE {}

Exists(f) == f.vendor \notin {0, 65535}

(* Mutant: the last function of a device is not visited.                   *)
NextFunctionShort ==
  LET last == IF DeviceHasFunctions THEN Functions - 2 ELSE 0
  IN  IF function_number < last
        THEN function_number' = function_number + 1 /\ UNCHANGED device_number
        ELSE function_number' = 0 /\ device_number' = device_number + 1

NextFunction ==
  LET last == IF DeviceHasFunctions THEN Functions - 1 ELSE 0
  IN  IF function_number < last
        THEN function_number' = function_number + 1 /\ UNCHANGED device_number
        ELSE function_number' = 0 /\ device_number' = device_number + 1

Scanning == device_number <= Len(bus)

(* There is nothing, or no driver for it, or no memory for the driver.     *)
SkipFunction ==
  /\ Scanning /\ driver = NULL /\ NextFunction
  /\ ~IsCard(Described) \/ room = 0
  /\ IF Exists(Described) THEN port' \in Ports(Described) ELSE UNCHANGED port
  /\ UNCHANGED <<bus, driver, room, card_port, dvars>>

(* get_driver() constructs the card's driver.                              *)
GetCardDriver ==
  /\ Scanning /\ driver = NULL
  /\ IsCard(Described) /\ room > 0 /\ room' = room - 1
  /\ port' \in Ports(Described)
  /\ driver' = Described.card
  /\ card_port' = [card_port EXCEPT ![driver'] = port']
  /\ Construct(driver', InterruptNumber(Described))
  /\ UNCHANGED <<bus, device_number, function_number, manager>>

(* A driver that cannot be registered stays where it is.                   *)
RegisterSelected ==
  /\ driver # NULL /\ driver' = NULL /\ NextFunction
  /\ RegisterDriver(driver)
  /\ UNCHANGED <<bus, port, room, card_port, is_active, objects>>

SelectDrivers == SkipFunction \/ GetCardDriver \/ RegisterSelected

=============================================================================
