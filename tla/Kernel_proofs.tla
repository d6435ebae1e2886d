---------------------------- MODULE Kernel_proofs ----------------------------
(***************************************************************************)
(* Proofs about Kernel: the scan of any bus, with any number of cards, in  *)
(* a manager with a table of any length up to 255; and the provider with   *)
(* any handlers and frames.                                                *)
(***************************************************************************)
EXTENDS Kernel, DriverManager_proofs, FiniteSetTheorems

-----------------------------------------------------------------------------
(* The bus and the scan.                                                   *)

FunctionAt(p) == bus[p[1]][p[2]]

(* In the order of the scan, p lies before the function it has come to.    *)
Before(p) == p[1] < device_number \/ (p[1] = device_number /\ p[2] < function_number)
Place     == <<device_number, function_number>>
Visited   == {p \in CardPlaces : Before(p)}

NotAfter(q, p) == q[1] < p[1] \/ (q[1] = p[1] /\ q[2] <= p[2])

ScanTypeOK ==
  /\ bus \in Buses
  /\ device_number \in Nat /\ function_number \in Nat
  /\ Scanning => Place \in Places
  /\ room \in Nat
  /\ DOMAIN card_port = Drivers

LEMMA BusFacts ==
  ASSUME bus \in Buses
  PROVE  /\ Len(bus) \in Nat /\ Functions \in 1 .. 8
         /\ \A p \in Places :
              /\ p[1] \in 1 .. Len(bus) /\ p[2] \in 0 .. (Functions - 1)
              /\ p = <<p[1], p[2]>> /\ bus[p[1]][0].multi \in BOOLEAN
              /\ p[2] = 0 \/ bus[p[1]][0].multi
         /\ CardPlaces \subseteq Places
         /\ \A p \in Places :
              /\ p \in CardPlaces <=> IsCard(FunctionAt(p))
              /\ IsCard(FunctionAt(p)) =>
                   /\ FunctionAt(p).card \in Cards /\ FunctionAt(p).header = 0
                   /\ InterruptNumber(FunctionAt(p)) \in Lines
         /\ IsFiniteSet(CardPlaces)
<1>1. /\ Len(bus) \in Nat /\ Functions \in 1 .. 8 /\ DOMAIN bus = 1 .. Len(bus)
  BY BusAssumption
<1>2. \A n \in DOMAIN bus : bus[n][0].multi \in BOOLEAN
  BY BusAssumption
<1>3. \A n \in DOMAIN bus, f \in 0 .. (Functions - 1) :
        IsCard(bus[n][f]) => /\ bus[n][f].card \in Cards /\ bus[n][f].header = 0
                             /\ InterruptNumber(bus[n][f]) \in Lines
  BY BusAssumption
<1>4. \A p \in Places :
        /\ p[1] \in 1 .. Len(bus) /\ p[2] \in 0 .. (Functions - 1)
        /\ p = <<p[1], p[2]>>
        /\ p[2] = 0 \/ bus[p[1]][0].multi
  BY <1>1 DEF Places
<1>5. CardPlaces \subseteq Places
  BY DEF CardPlaces
<1>6. \A p \in Places : p \in CardPlaces <=> IsCard(FunctionAt(p))
  BY DEF CardPlaces, FunctionAt
<1>7. \A p \in Places : IsCard(FunctionAt(p)) =>
        /\ FunctionAt(p).card \in Cards /\ FunctionAt(p).header = 0
        /\ InterruptNumber(FunctionAt(p)) \in Lines
  BY <1>1, <1>3, <1>4 DEF FunctionAt
<1>8. IsFiniteSet(CardPlaces)
  <2>1. IsFiniteSet(1 .. Len(bus)) /\ IsFiniteSet(0 .. (Functions - 1))
    BY <1>1, FS_Interval
  <2>2. IsFiniteSet((1 .. Len(bus)) \X (0 .. (Functions - 1)))
    BY <2>1, FS_Product
  <2>3. CardPlaces \subseteq (1 .. Len(bus)) \X (0 .. (Functions - 1))
    BY <1>1 DEF CardPlaces, Places
  <2> QED BY <2>2, <2>3, FS_Subset
<1> QED BY <1>1, <1>2, <1>4, <1>5, <1>6, <1>7, <1>8

LEMMA VisitedFacts ==
  ASSUME bus \in Buses
  PROVE  /\ IsFiniteSet(Visited) /\ Cardinality(Visited) \in Nat
         /\ Cardinality(CardPlaces) \in Nat /\ Visited \subseteq CardPlaces
<1>1. Visited \subseteq CardPlaces /\ IsFiniteSet(CardPlaces)
  BY BusFacts DEF Visited
<1> QED BY <1>1, FS_Subset, FS_CardinalityType

(* One step of the loops passes one function, and misses none.             *)
LEMMA ScanProceeds ==
  ASSUME ScanTypeOK, Scanning, NextFunction, bus' = bus
  PROVE  /\ device_number' \in Nat /\ function_number' \in Nat
         /\ Scanning' => Place' \in Places'
         /\ CardPlaces' = CardPlaces
         /\ ~ IsCard(Described) => Visited' = Visited
         /\ IsCard(Described) => /\ Visited' = Visited \cup {Place}
                                 /\ Place \in CardPlaces \ Visited
         /\ \A q \in Visited : NotAfter(q, Place)
<1> DEFINE n == device_number
           f == function_number
           last == IF DeviceHasFunctions THEN Functions - 1 ELSE 0
<1>1. /\ n \in 1 .. Len(bus) /\ f \in 0 .. (Functions - 1)
      /\ Len(bus) \in Nat /\ Functions \in 1 .. 8
      /\ f = 0 \/ DeviceHasFunctions
      /\ Place \in Places /\ Described = FunctionAt(Place)
  BY BusFacts DEF ScanTypeOK, Place, DeviceHasFunctions, FunctionAt, Described
<1>2. /\ f < last => function_number' = f + 1 /\ device_number' = n
      /\ ~ (f < last) => function_number' = 0 /\ device_number' = n + 1
  BY DEF NextFunction
<1>3. /\ DeviceHasFunctions => last = Functions - 1
      /\ ~ DeviceHasFunctions => last = 0
  OBVIOUS
<1>4. \A p \in Places : p[1] = n => p[2] <= last
  BY <1>1, <1>3, BusFacts DEF ScanTypeOK, DeviceHasFunctions
<1> HIDE DEF last
<1>5. Places' = Places /\ CardPlaces' = CardPlaces
  BY DEF Places, CardPlaces
<1>6. \A p \in Places : Before(p)' <=> Before(p) \/ p = Place
  <2> SUFFICES ASSUME NEW p \in Places PROVE Before(p)' <=> Before(p) \/ p = Place
    OBVIOUS
  <2>1. /\ p[1] \in Nat /\ p[2] \in Nat /\ p = <<p[1], p[2]>>
        /\ p[1] = n => p[2] <= last
    BY <1>4, BusFacts DEF ScanTypeOK
  <2>2. p = Place <=> (p[1] = n /\ p[2] = f)
    BY <2>1 DEF Place
  <2>3. CASE f < last
    BY <1>1, <1>2, <2>1, <2>2, <2>3 DEF Before
  <2>4. CASE ~ (f < last)
    <3>1. last \in Int
      BY <1>1, <1>3
    <3> QED BY <1>1, <1>2, <2>1, <2>2, <2>4, <3>1 DEF Before
  <2> QED BY <2>3, <2>4
<1>7. device_number' \in Nat /\ function_number' \in Nat
  BY <1>1, <1>2
<1>8. ASSUME Scanning' PROVE Place' \in Places'
  <2>1. DOMAIN bus = 1 .. Len(bus)
    BY BusAssumption DEF ScanTypeOK
  <2>2. device_number' \in 1 .. Len(bus)
    BY <1>1, <1>2, <1>8 DEF Scanning
  <2>3. function_number' \in 0 .. (Functions - 1)
    BY <1>1, <1>2, <1>3
  <2>4. function_number' = 0 \/ bus[device_number'][0].multi
    BY <1>1, <1>2, <1>3 DEF DeviceHasFunctions
  <2> DEFINE p == <<device_number', function_number'>>
  <2>5. p \in Places
    BY <2>1, <2>2, <2>3, <2>4 DEF Places
  <2> QED BY <1>5, <2>5 DEF Place
<1>9. \A q \in Visited : NotAfter(q, Place) /\ q # Place
  <2> SUFFICES ASSUME NEW q \in Visited PROVE NotAfter(q, Place) /\ q # Place
    OBVIOUS
  <2>1. Before(q) /\ q[1] \in Nat /\ q[2] \in Nat
    BY BusFacts DEF ScanTypeOK, Visited
  <2> QED BY <1>1, <2>1 DEF NotAfter, Before, Place
<1>10. CardPlaces \subseteq Places /\ (Place \in CardPlaces <=> IsCard(Described))
  BY <1>1, BusFacts DEF ScanTypeOK
<1>11. \A p : p \in Visited' <=> p \in CardPlaces /\ (Before(p) \/ p = Place)
  BY <1>5, <1>6, <1>10 DEF Visited
<1>12. ~ IsCard(Described) => Visited' = Visited
  BY <1>10, <1>11 DEF Visited
<1>13. IsCard(Described) => Visited' = Visited \cup {Place} /\ Place \in CardPlaces \ Visited
  BY <1>9, <1>10, <1>11 DEF Visited
<1> QED BY <1>5, <1>7, <1>8, <1>9, <1>12, <1>13

-----------------------------------------------------------------------------
(* What holds while kernel_main runs.                                      *)

Early == {"keyboard", "register"}
Late  == {"cast", "provider", "astray", "arp", "resolve"}

(* The driver whose card is at p was constructed with that card's port.    *)
PortIsOwn(p) ==
  LET f == FunctionAt(p)
  IN  IoBars(f) # {} => card_port[f.card] \in {f.bars[b].address : b \in IoBars(f)}

(* The driver between get_driver() and register_driver().                  *)
InHand ==
  driver # NULL =>
    /\ pc = "scan" /\ Scanning /\ driver \in Built \ Registered
    /\ \E p \in Places : /\ p = Place /\ IsCard(FunctionAt(p))
                         /\ driver = FunctionAt(p).card /\ PortIsOwn(p)

(* What was constructed is registered, or about to be, or was turned away. *)
Entered ==
  \A d \in Built \ Registered :
    d = driver \/ (pc = "register" /\ d = "keyboard") \/ driver_count = MAX_DRIVERS

(* There are at most as many drivers as the scan has passed cards, and the *)
(* keyboard's.                                                             *)
Counted ==
  /\ IsFiniteSet(Built \cap Cards)
  /\ Cardinality(Built \cap Cards) <= Cardinality(Visited) + (IF driver = NULL THEN 0 ELSE 1)
  /\ driver_count <= Cardinality(Visited) + (IF pc \in Early THEN 0 ELSE 1)

(* The heap and the table have room for the cards.  Constructing a driver  *)
(* does not change this: it takes away the room for one.                   *)
Enough ==
  /\ Cardinality(CardPlaces) < MAX_DRIVERS
  /\ room + Cardinality(Built \cap Cards) >= Cardinality(CardPlaces)

(* The last driver registered is that of the last card passed.             *)
LastRegistered ==
  Enough /\ Visited # {} =>
    \E p \in Visited :
      /\ \A q \in Visited : NotAfter(q, p)
      /\ driver_count > 0 /\ drivers[driver_count - 1] = FunctionAt(p).card
      /\ PortIsOwn(p)

Stages ==
  /\ pc \in Early => driver_count = 0 /\ device_number = 1 /\ function_number = 0
  /\ pc = "register" => "keyboard" \in Built
  /\ pc \in Early \cup {"scan"} \/ ~ Scanning
  /\ pc \in {"sti"} \cup Late => \A d \in Registered : phase[d] = "activate"
  /\ interrupts => pc \in Late
  /\ am79c973 # NULL => pc \in Late /\ am79c973 = LastDriver

MainInv == InHand /\ Entered /\ Counted /\ LastRegistered /\ Stages

KernelInv ==
  /\ IInv /\ ScanTypeOK
  /\ pc \in Early \cup Late \cup {"scan", "initialize", "activate", "sti"}
  /\ caller # "kernel_main" => am79c973 = NULL
  /\ caller = "kernel_main" => MainInv

LEMMA InitKernel == Init => KernelInv
<1> SUFFICES ASSUME Init PROVE KernelInv
  OBVIOUS
<1>1. IInv
  BY InitInv DEF Init
<1>2. /\ device_number = 1 /\ function_number = 0 /\ driver = NULL /\ pc = "keyboard"
      /\ interrupts = FALSE /\ am79c973 = NULL /\ bus \in Buses
      /\ driver_count = 0 /\ Built = {}
  BY DEF Init, InitPCI, InitDrivers, Built
<1>3. ScanTypeOK
  <2>1. Scanning => Place \in Places
    BY <1>2, BusAssumption DEF Scanning, Place, Places
  <2>2. room \in Nat /\ DOMAIN card_port = Drivers
    BY DEF Init, InitPCI
  <2> QED BY <1>2, <2>1, <2>2 DEF ScanTypeOK
<1>4. Visited = {}
  <2>1. \A p \in CardPlaces : ~ Before(p)
    BY <1>2, BusFacts DEF Before
  <2> QED BY <2>1 DEF Visited
<1>5. InHand /\ Entered /\ LastRegistered /\ Stages
  BY <1>2, <1>4 DEF InHand, Entered, LastRegistered, Stages, Early, Late
<1>6. Counted
  <2>1. Built \cap Cards = {}
    BY <1>2
  <2> QED BY <1>2, <1>4, <2>1, FS_EmptySet DEF Counted, Early
<1> QED BY <1>1, <1>2, <1>3, <1>5, <1>6 DEF KernelInv, MainInv, Early

(* kernel_main uses the driver manager by its rules.                       *)
LEMMA KernelUsesManager ==
  ASSUME KernelInv, [Next]_vars
  PROVE  [NextDrivers]_dvars
<1>1. CASE caller = "kernel_main" /\ KernelMain
  <2>1. CASE ConstructKeyboard
    BY <2>1, BusAssumption, KernelAssumption DEF ConstructKeyboard, NextDrivers
  <2>2. CASE RegisterKeyboard
    BY <1>1, <2>2, BusAssumption
    DEF RegisterKeyboard, NextDrivers, KernelInv, MainInv, Stages, At
  <2>3. CASE Scan
    <3>1. CASE GetCardDriver
      <4>1. Described.card \in Drivers /\ InterruptNumber(Described) \in Lines
        BY <3>1, BusFacts
        DEF KernelInv, ScanTypeOK, GetCardDriver, Place, FunctionAt, Described, Cards
      <4> QED BY <3>1, <4>1 DEF GetCardDriver, NextDrivers
    <3>2. CASE RegisterSelected
      BY <1>1, <3>2 DEF RegisterSelected, NextDrivers, KernelInv, MainInv, InHand, Built
    <3>3. CASE SkipFunction \/ UNCHANGED dvars
      BY <3>3 DEF SkipFunction
    <3> QED BY <2>3, <3>1, <3>2, <3>3 DEF Scan, SelectDrivers
  <2>4. CASE Initialize \/ Activate
    BY <2>4 DEF Initialize, Activate, NextDrivers
  <2>5. CASE EnableInterrupts \/ Cast \/ Provide \/ ConstructArp
    BY <2>5 DEF EnableInterrupts, Cast, Provide, ConstructArp
  <2> QED BY <1>1, <2>1, <2>2, <2>3, <2>4, <2>5 DEF KernelMain
<1>2. CASE CallManager
  BY <1>2 DEF CallManager
<1>3. CASE CallProvider \/ (\E f \in Frame : Receive(f)) \/ UNCHANGED vars
  BY <1>3 DEF CallProvider, Receive, vars
<1>4. KernelMain => caller = "kernel_main"
  BY DEF KernelMain, ConstructKeyboard, RegisterKeyboard, Scan, Initialize, Activate,
         EnableInterrupts, Cast, Provide, ConstructArp, At
<1> QED BY <1>1, <1>2, <1>3, <1>4 DEF Next

LEMMA Registering ==
  ASSUME IInv, NEW d \in Built, RegisterDriver(d)
  PROVE  /\ Registered \subseteq Registered'
         /\ d \in Registered' \/ driver_count = MAX_DRIVERS
         /\ driver_count = MAX_DRIVERS => driver_count' = MAX_DRIVERS
         /\ driver_count' \in {driver_count, driver_count + 1}
         /\ driver_count < MAX_DRIVERS /\ d \notin Registered =>
              /\ driver_count' = driver_count + 1
              /\ drivers'[driver_count] = d
<1>1. /\ driver_count \in Nat /\ driver_count <= MAX_DRIVERS /\ MAX_DRIVERS \in Nat
      /\ DOMAIN drivers = Slots
  BY DriverAssumption DEF IInv, DriversTypeOK
<1>2. CASE driver_count < MAX_DRIVERS /\ d \notin Registered
  <2>1. /\ driver_count' = driver_count + 1
        /\ drivers' = [drivers EXCEPT ![driver_count] = d]
        /\ driver_count \in Slots
    BY <1>1, <1>2 DEF RegisterDriver, Slots
  <2>2. drivers'[driver_count] = d /\ \A i \in 0 .. (driver_count - 1) : drivers'[i] = drivers[i]
    BY <1>1, <2>1 DEF Slots
  <2>3. Registered \subseteq Registered' /\ d \in Registered'
    BY <1>1, <2>1, <2>2 DEF Registered
  <2> QED BY <1>1, <1>2, <2>1, <2>2, <2>3
<1>3. CASE ~ (driver_count < MAX_DRIVERS /\ d \notin Registered)
  <2>1. drivers' = drivers /\ driver_count' = driver_count
    BY <1>3 DEF RegisterDriver
  <2>2. Registered' = Registered
    BY <2>1 DEF Registered
  <2> QED BY <1>1, <1>3, <2>1, <2>2
<1> QED BY <1>2, <1>3

LEMMA PortsAreOwn ==
  ASSUME bus \in Buses, NEW p \in Places, IsCard(FunctionAt(p)), IoBars(FunctionAt(p)) # {},
         NEW a \in Ports(FunctionAt(p))
  PROVE  a \in {FunctionAt(p).bars[b].address : b \in IoBars(FunctionAt(p))}
<1> DEFINE f == FunctionAt(p)
           S == IoBars(f)
<1>1. f.header = 0
  BY BusFacts
<1>2. BarNumbers(f) = 0 .. 5
  BY <1>1 DEF BarNumbers
<1>3. a \in {f.bars[b].address : b \in {Max(S) : o \in S}}
  BY <1>2 DEF Ports
<1>4. S \subseteq 0 .. 5
  BY <1>2 DEF IoBars
<1> HIDE DEF S, f
<1>5. \E x \in S : \A y \in S : x >= y
  <2>1. S # {}
    BY DEF S, f
  <2>2. \A y \in S : y \in {0, 1, 2, 3, 4, 5}
    BY <1>4
  <2>3. CASE 5 \in S
    BY <2>2, <2>3
  <2>4. CASE 5 \notin S /\ 4 \in S
    BY <2>2, <2>4
  <2>5. CASE 5 \notin S /\ 4 \notin S /\ 3 \in S
    BY <2>2, <2>5
  <2>6. CASE S \subseteq {0, 1, 2}
    <3>1. CASE 2 \in S
      BY <2>6, <3>1
    <3>2. CASE 2 \notin S /\ 1 \in S
      <4>1. \A y \in S : 1 >= y
        BY <2>6, <3>2
      <4> QED BY <3>2, <4>1
    <3>3. CASE 2 \notin S /\ 1 \notin S
      <4>1. \A y \in S : y = 0
        BY <2>6, <3>3
      <4> QED BY <2>1, <4>1
    <3> QED BY <3>1, <3>2, <3>3
  <2> QED BY <2>2, <2>3, <2>4, <2>5, <2>6
<1>6. Max(S) \in S
  BY <1>5 DEF Max
<1> QED BY <1>3, <1>6 DEF S, f


(* The scan passes a function for which no driver is constructed.          *)
LEMMA SkipMain ==
  ASSUME KernelInv, caller = "kernel_main", pc = "scan", SkipFunction,
         UNCHANGED <<interrupts, am79c973>>, pc' = "scan"
  PROVE  ScanTypeOK' /\ MainInv'
<1>1. /\ IInv /\ ScanTypeOK /\ InHand /\ Entered /\ Counted /\ LastRegistered /\ Stages
      /\ Scanning /\ NextFunction /\ driver = NULL /\ driver' = NULL
      /\ UNCHANGED <<bus, room, card_port, dvars>>
  BY DEF KernelInv, MainInv, SkipFunction
<1>2. /\ ScanTypeOK' /\ CardPlaces' = CardPlaces
      /\ ~ IsCard(Described) => Visited' = Visited
      /\ IsCard(Described) => /\ Visited' = Visited \cup {Place}
                              /\ Place \in CardPlaces \ Visited
  BY <1>1, ScanProceeds DEF ScanTypeOK
<1>3. /\ UNCHANGED <<drivers, driver_count, phase>>
      /\ Built' = Built /\ Registered' = Registered /\ Place \in Places
  BY <1>1 DEF dvars, manager, objects, Built, Registered, ScanTypeOK
<1>4. /\ IsFiniteSet(Visited) /\ Cardinality(Visited) \in Nat /\ Cardinality(CardPlaces) \in Nat
      /\ Cardinality(Built \cap Cards) \in Nat /\ room \in Nat
      /\ driver_count \in Nat
  BY <1>1, VisitedFacts, FS_CardinalityType DEF ScanTypeOK, Counted, IInv, DriversTypeOK
<1>5. Cardinality(Visited') \in Nat /\ Cardinality(Visited') >= Cardinality(Visited)
  BY <1>2, <1>4, FS_AddElement
<1>6. InHand' /\ Entered' /\ Counted'
  BY <1>1, <1>3, <1>4, <1>5 DEF InHand, Entered, Counted, Early
<1>7. Stages'
  BY <1>1, <1>3 DEF Stages, Early, Late
<1>8. LastRegistered'
  <2> SUFFICES ASSUME Enough, Visited' # {} PROVE LastRegistered'
    BY <1>1, <1>2, <1>3 DEF LastRegistered, Enough
  <2>1. ~ IsCard(Described)
    <3> SUFFICES ASSUME IsCard(Described) PROVE FALSE
      OBVIOUS
    <3>1. room = 0
      BY DEF SkipFunction
    <3>2. Visited \subseteq CardPlaces /\ IsFiniteSet(CardPlaces) /\ Visited # CardPlaces
      BY <1>1, <1>2, VisitedFacts, BusFacts DEF ScanTypeOK
    <3>3. Cardinality(Visited) < Cardinality(CardPlaces)
      BY <3>2, <1>4, FS_Subset
    <3> QED BY <1>1, <1>4, <3>1, <3>3 DEF Enough, Counted
  <2>2. Visited' = Visited
    BY <1>2, <2>1
  <2>3. PICK p \in Visited :
          /\ \A q \in Visited : NotAfter(q, p)
          /\ driver_count > 0 /\ drivers[driver_count - 1] = FunctionAt(p).card
          /\ PortIsOwn(p)
    BY <1>1, <2>2 DEF LastRegistered
  <2>4. /\ driver_count' > 0 /\ drivers'[driver_count' - 1] = FunctionAt(p)'.card
        /\ PortIsOwn(p)'
    BY <1>1, <1>3, <2>3 DEF PortIsOwn, FunctionAt
  <2> QED BY <2>2, <2>3, <2>4 DEF LastRegistered
<1> QED BY <1>2, <1>6, <1>7, <1>8 DEF MainInv

(* It constructs a driver for the card it has come to.                     *)
LEMMA GetMain ==
  ASSUME KernelInv, caller = "kernel_main", pc = "scan", GetCardDriver,
         UNCHANGED <<interrupts, am79c973>>, pc' = "scan"
  PROVE  ScanTypeOK' /\ MainInv'
<1> DEFINE d == Described.card
<1>1. /\ IInv /\ ScanTypeOK /\ InHand /\ Entered /\ Counted /\ LastRegistered /\ Stages
      /\ Scanning /\ driver = NULL /\ IsCard(Described) /\ room > 0 /\ room' = room - 1
      /\ driver' = d /\ Construct(d, InterruptNumber(Described))
      /\ UNCHANGED <<bus, device_number, function_number, manager>>
      /\ card_port' = [card_port EXCEPT ![d] = port']
      /\ port' \in Ports(Described)
  BY DEF KernelInv, MainInv, GetCardDriver
<1>2. /\ CardPlaces' = CardPlaces /\ Visited' = Visited /\ Scanning' /\ Place' = Place
      /\ Places' = Places /\ Place \in Places /\ Described = FunctionAt(Place)
  BY <1>1 DEF CardPlaces, Places, Visited, Before, Scanning, Place, ScanTypeOK, FunctionAt,
              Described
<1>3. d \in Cards /\ d \in Drivers /\ d # NULL /\ d # "keyboard"
  BY <1>1, <1>2, BusFacts, DriverAssumption DEF ScanTypeOK, Cards
<1>4. /\ d \notin Built /\ Built' = Built \cup {d} /\ Registered' = Registered
      /\ UNCHANGED <<drivers, driver_count>>
  BY <1>1, <1>3 DEF Construct, IInv, DriversTypeOK, Built, Registered, manager
<1>5. d \notin Registered
  BY <1>1, <1>4 DEF IInv, Living, Used, Registered
<1>6. ScanTypeOK'
  BY <1>1, <1>2 DEF ScanTypeOK
<1> HIDE DEF d
<1>7. (Built \cap Cards)' = (Built \cap Cards) \cup {d} /\ d \notin Built \cap Cards
  BY <1>3, <1>4
<1>8. /\ IsFiniteSet((Built \cap Cards)') /\ Cardinality(Built \cap Cards) \in Nat
      /\ Cardinality((Built \cap Cards)') = Cardinality(Built \cap Cards) + 1
  BY <1>1, <1>7, FS_AddElement, FS_CardinalityType DEF Counted
<1>9. /\ \A p : p # Place /\ p \in Visited /\ FunctionAt(p).card # d => PortIsOwn(p)' = PortIsOwn(p)
      /\ \A p : FunctionAt(p)' = FunctionAt(p)
  <2>1. \A p : FunctionAt(p)' = FunctionAt(p)
    BY <1>1 DEF FunctionAt
  <2>2. \A p \in Visited : FunctionAt(p).card \in Drivers
    BY <1>1, BusFacts DEF Visited, ScanTypeOK, Cards
  <2>3. \A e \in Drivers : e # d => card_port'[e] = card_port[e]
    BY <1>1 DEF ScanTypeOK
  <2> QED BY <2>1, <2>2, <2>3 DEF PortIsOwn
<1>10. InHand'
  <2>1. PICK p \in Places : p = Place
    BY <1>2
  <2>2. FunctionAt(p) = Described /\ FunctionAt(p)' = FunctionAt(p) /\ FunctionAt(p).card = d
    BY <1>2, <1>9, <2>1 DEF d
  <2>3. card_port'[d] = port' /\ port' \in Ports(FunctionAt(p)) /\ IsCard(FunctionAt(p))
    BY <1>1, <1>3, <2>2 DEF ScanTypeOK
  <2>4. IoBars(FunctionAt(p)) # {} =>
          port' \in {FunctionAt(p).bars[b].address : b \in IoBars(FunctionAt(p))}
    BY <1>1, <2>3, PortsAreOwn DEF ScanTypeOK
  <2>5. PortIsOwn(p)'
    BY <2>2, <2>3, <2>4 DEF PortIsOwn
  <2> QED BY <1>1, <1>2, <1>4, <1>5, <2>1, <2>2, <2>3, <2>5 DEF InHand
<1>11. Entered'
  BY <1>1, <1>4, DriverAssumption DEF Entered, Built, d
<1>12. Counted'
  BY <1>1, <1>2, <1>3, <1>4, <1>8, VisitedFacts DEF Counted, Early, d, ScanTypeOK
<1>13. Stages'
  BY <1>1, <1>2, <1>4 DEF Stages, Early, Late
<1>14. LastRegistered'
  <2> SUFFICES ASSUME Enough', Visited # {} PROVE LastRegistered'
    BY <1>2 DEF LastRegistered
  <2>1. Enough
    BY <1>1, <1>2, <1>8 DEF Enough, ScanTypeOK
  <2>2. PICK p \in Visited :
          /\ \A q \in Visited : NotAfter(q, p)
          /\ driver_count > 0 /\ drivers[driver_count - 1] = FunctionAt(p).card
          /\ PortIsOwn(p)
    BY <1>1, <2>1 DEF LastRegistered
  <2>3. FunctionAt(p).card \in Registered
    BY <1>1, <2>2 DEF Registered, IInv, DriversTypeOK
  <2>4. p # Place
    BY <1>1, <1>2, <1>5, <2>3 DEF d
  <2>5. PortIsOwn(p)'
    BY <1>5, <1>9, <2>2, <2>3, <2>4
  <2> QED BY <1>2, <1>4, <1>9, <2>2, <2>5 DEF LastRegistered
<1> QED BY <1>6, <1>10, <1>11, <1>12, <1>13, <1>14 DEF MainInv


(* It registers the driver it has constructed.                             *)
LEMMA RegisterMain ==
  ASSUME KernelInv, caller = "kernel_main", pc = "scan", RegisterSelected,
         UNCHANGED <<interrupts, am79c973>>, pc' = "scan"
  PROVE  ScanTypeOK' /\ MainInv'
<1>1. /\ IInv /\ ScanTypeOK /\ InHand /\ Entered /\ Counted /\ LastRegistered /\ Stages
      /\ driver # NULL /\ driver' = NULL /\ NextFunction /\ RegisterDriver(driver)
      /\ UNCHANGED <<bus, room, card_port, is_active, objects>>
  BY DEF KernelInv, MainInv, RegisterSelected
<1>2. PICK p \in Places : /\ p = Place /\ IsCard(FunctionAt(p))
                          /\ driver = FunctionAt(p).card /\ PortIsOwn(p)
  BY <1>1 DEF InHand
<1>3. Scanning /\ driver \in Built \ Registered /\ IsCard(Described)
  BY <1>1, <1>2 DEF InHand, FunctionAt, Described, Place
<1>4. /\ ScanTypeOK' /\ CardPlaces' = CardPlaces
      /\ Visited' = Visited \cup {p} /\ p \in CardPlaces \ Visited
      /\ \A q \in Visited : NotAfter(q, p)
  BY <1>1, <1>2, <1>3, ScanProceeds DEF ScanTypeOK
<1>5. /\ Built' = Built /\ (Built \cap Cards)' = Built \cap Cards
      /\ \A q : FunctionAt(q)' = FunctionAt(q) /\ PortIsOwn(q)' = PortIsOwn(q)
  BY <1>1 DEF Built, objects, FunctionAt, PortIsOwn
<1>6. /\ Registered \subseteq Registered'
      /\ driver \in Registered' \/ driver_count = MAX_DRIVERS
      /\ driver_count = MAX_DRIVERS => driver_count' = MAX_DRIVERS
      /\ driver_count' \in {driver_count, driver_count + 1}
      /\ driver_count < MAX_DRIVERS =>
           driver_count' = driver_count + 1 /\ drivers'[driver_count] = driver
  BY <1>1, <1>3, Registering
<1>7. /\ IsFiniteSet(Visited) /\ Cardinality(Visited) \in Nat /\ Cardinality(CardPlaces) \in Nat
      /\ Cardinality(Built \cap Cards) \in Nat /\ room \in Nat
      /\ driver_count \in Nat /\ MAX_DRIVERS \in Nat
  BY <1>1, VisitedFacts, FS_CardinalityType, DriverAssumption
  DEF ScanTypeOK, Counted, IInv, DriversTypeOK
<1>8. Cardinality(Visited') = Cardinality(Visited) + 1
  BY <1>4, <1>7, FS_AddElement
<1>9. InHand' /\ Entered'
  BY <1>1, <1>5, <1>6 DEF InHand, Entered
<1>10. Counted'
  BY <1>1, <1>5, <1>6, <1>7, <1>8 DEF Counted, Early
<1>11. Stages'
  BY <1>1 DEF Stages, Early, Late, KernelInv
<1>12. LastRegistered'
  <2> SUFFICES ASSUME Enough' PROVE LastRegistered'
    BY DEF LastRegistered
  <2>1. Cardinality(CardPlaces) < MAX_DRIVERS
    BY <1>4 DEF Enough
  <2>2. Cardinality(Visited) < Cardinality(CardPlaces)
    <3>1. Visited \subseteq CardPlaces /\ IsFiniteSet(CardPlaces) /\ Visited # CardPlaces
      BY <1>1, <1>4, VisitedFacts, BusFacts DEF ScanTypeOK
    <3> QED BY <1>7, <3>1, FS_Subset
  <2>3. driver_count < MAX_DRIVERS
    BY <1>1, <1>7, <2>1, <2>2 DEF Counted, Early
  <2>4. driver_count' = driver_count + 1 /\ drivers'[driver_count' - 1] = FunctionAt(p)'.card
    BY <1>2, <1>5, <1>6, <1>7, <2>3
  <2>5. p \in Visited' /\ PortIsOwn(p)' /\ driver_count' > 0
    BY <1>2, <1>4, <1>5, <1>7, <2>4
  <2>6. \A q \in Visited' : NotAfter(q, p)
    <3>1. NotAfter(p, p)
      BY <1>1, BusFacts DEF NotAfter, ScanTypeOK
    <3> QED BY <1>4, <3>1
  <2> QED BY <2>4, <2>5, <2>6 DEF LastRegistered
<1> QED BY <1>4, <1>9, <1>10, <1>11, <1>12 DEF MainInv

(* Steps that leave the bus and the list of drivers alone.                 *)
LEMMA SameScan ==
  ASSUME KernelInv, caller = "kernel_main", driver = NULL,
         UNCHANGED <<pvars, drivers, driver_count>>, Built' = Built,
         pc \notin Early, pc' \notin Early
  PROVE  ScanTypeOK' /\ InHand' /\ Entered' /\ Counted' /\ LastRegistered'
<1>1. /\ UNCHANGED <<bus, device_number, function_number, driver, room, card_port>>
      /\ InHand /\ Entered /\ Counted /\ LastRegistered /\ ScanTypeOK
  BY DEF pvars, KernelInv, MainInv
<1>2. /\ Registered' = Registered /\ CardPlaces' = CardPlaces /\ Visited' = Visited
      /\ Scanning' = Scanning /\ Place' = Place /\ Places' = Places
      /\ \A p : FunctionAt(p)' = FunctionAt(p) /\ PortIsOwn(p)' = PortIsOwn(p)
  BY <1>1 DEF Registered, CardPlaces, Places, Visited, Before, Scanning, Place, FunctionAt,
              PortIsOwn
<1>3. ScanTypeOK' /\ InHand'
  BY <1>1, <1>2 DEF ScanTypeOK, InHand
<1>4. Entered'
  BY <1>1, <1>2 DEF Entered, Early
<1>5. Counted'
  BY <1>1, <1>2 DEF Counted
<1>6. Enough' <=> Enough
  BY <1>1, <1>2 DEF Enough
<1>7. LastRegistered'
  BY <1>1, <1>2, <1>6 DEF LastRegistered
<1> QED BY <1>3, <1>4, <1>5, <1>7

LEMMA NothingVisited ==
  ASSUME bus \in Buses, device_number = 1, function_number = 0
  PROVE  Visited = {}
<1>1. \A p \in CardPlaces : ~ Before(p)
  BY BusFacts DEF Before
<1> QED BY <1>1 DEF Visited

(* The bus, and how far the scan has come, stay as they are.               *)
LEMMA SamePlaces ==
  ASSUME UNCHANGED pvars
  PROVE  /\ UNCHANGED <<bus, device_number, function_number, driver, room, card_port>>
         /\ CardPlaces' = CardPlaces /\ Visited' = Visited /\ Places' = Places
         /\ Scanning' = Scanning /\ Place' = Place
         /\ ScanTypeOK' = ScanTypeOK
BY DEF pvars, CardPlaces, Places, Visited, Before, Scanning, Place, ScanTypeOK

LEMMA ConstructMain ==
  ASSUME KernelInv, ConstructKeyboard
  PROVE  ScanTypeOK' /\ MainInv'
<1>1. /\ caller = "kernel_main" /\ pc = "keyboard" /\ pc' = "register"
      /\ Construct("keyboard", Keyboard)
      /\ UNCHANGED <<interrupts, am79c973, pvars, manager>>
      /\ IInv /\ ScanTypeOK /\ InHand /\ Entered /\ Counted /\ Stages
  BY DEF ConstructKeyboard, At, Then, KernelInv, MainInv
<1>2. ScanTypeOK' /\ Visited = {} /\ Visited' = {} /\ driver = NULL /\ driver' = NULL
  BY <1>1, SamePlaces, NothingVisited DEF Stages, Early, InHand, ScanTypeOK
<1>3. /\ Built' = Built \cup {"keyboard"} /\ Registered' = Registered
      /\ driver_count' = driver_count
  BY <1>1, BusAssumption DEF Construct, IInv, DriversTypeOK, Built, Registered, manager
<1>4. (Built \cap Cards)' = Built \cap Cards
  BY <1>3 DEF Cards
<1>5. InHand' /\ Entered'
  BY <1>1, <1>2, <1>3 DEF InHand, Entered
<1>6. Counted'
  BY <1>1, <1>2, <1>3, <1>4 DEF Counted, Early
<1>7. LastRegistered'
  BY <1>2 DEF LastRegistered
<1>8. Stages'
  BY <1>1, <1>3, SamePlaces DEF Stages, Early, Late
<1> QED BY <1>2, <1>5, <1>6, <1>7, <1>8 DEF MainInv

LEMMA RegisterKeyboardMain ==
  ASSUME KernelInv, RegisterKeyboard
  PROVE  ScanTypeOK' /\ MainInv'
<1>1. /\ caller = "kernel_main" /\ pc = "register" /\ pc' = "scan"
      /\ RegisterDriver("keyboard")
      /\ UNCHANGED <<interrupts, am79c973, pvars, is_active, objects>>
      /\ IInv /\ ScanTypeOK /\ InHand /\ Entered /\ Counted /\ Stages
  BY DEF RegisterKeyboard, At, Then, KernelInv, MainInv
<1>2. ScanTypeOK' /\ Visited = {} /\ Visited' = {} /\ driver = NULL /\ driver' = NULL
  BY <1>1, SamePlaces, NothingVisited DEF Stages, Early, InHand, ScanTypeOK
<1>3. Built' = Built /\ (Built \cap Cards)' = Built \cap Cards
  BY <1>1 DEF objects, Built
<1>4. /\ Registered \subseteq Registered'
      /\ "keyboard" \in Registered' \/ driver_count = MAX_DRIVERS
      /\ driver_count = MAX_DRIVERS => driver_count' = MAX_DRIVERS
      /\ driver_count' \in {driver_count, driver_count + 1}
  BY <1>1, Registering DEF Stages
<1>5. InHand' /\ Entered'
  BY <1>1, <1>2, <1>3, <1>4 DEF InHand, Entered
<1>6. Counted'
  BY <1>1, <1>2, <1>3, <1>4, FS_EmptySet DEF Counted, Stages, Early
<1>7. LastRegistered'
  BY <1>2 DEF LastRegistered
<1>8. Stages'
  BY <1>1, <1>3, SamePlaces DEF Stages, Early, Late
<1> QED BY <1>2, <1>5, <1>6, <1>7, <1>8 DEF MainInv

LEMMA ScanMain ==
  ASSUME KernelInv, Scan
  PROVE  ScanTypeOK' /\ MainInv'
<1>1. /\ caller = "kernel_main" /\ pc = "scan" /\ pc' = IF Scanning THEN "scan" ELSE "initialize"
      /\ IF Scanning THEN SelectDrivers ELSE UNCHANGED <<pvars, dvars>>
      /\ UNCHANGED <<interrupts, am79c973>>
  BY DEF Scan, At, Then
<1>2. CASE Scanning
  BY <1>1, <1>2, SkipMain, GetMain, RegisterMain DEF SelectDrivers
<1>3. CASE ~ Scanning
  <2>1. /\ UNCHANGED <<pvars, drivers, driver_count, phase>> /\ pc' = "initialize"
        /\ Built' = Built /\ driver = NULL /\ Stages
    BY <1>1, <1>3 DEF dvars, manager, objects, Built, KernelInv, MainInv, InHand
  <2>2. Stages'
    BY <1>1, <1>3, <2>1, SamePlaces DEF Stages, Early, Late
  <2> QED BY <1>1, <2>1, <2>2, SameScan DEF MainInv, Early
<1> QED BY <1>2, <1>3

LEMMA CallAllMain ==
  ASSUME KernelInv, Initialize \/ Activate
  PROVE  ScanTypeOK' /\ MainInv'
<1>1. /\ caller = "kernel_main" /\ UNCHANGED <<interrupts, am79c973, pvars>>
      /\ UNCHANGED <<drivers, driver_count>>
      /\ \/ pc = "initialize" /\ pc' = "activate" /\ CallAll("initialize")
         \/ pc = "activate" /\ pc' = "sti" /\ CallAll("activate")
  BY DEF Initialize, Activate, At, Then, InitializeAllDrivers, ActivateAllDrivers, Unmoved
<1>2. IInv /\ Stages /\ driver = NULL
  BY <1>1 DEF KernelInv, MainInv, InHand
<1>3. Registered' = Registered
  BY <1>1 DEF Registered
<1>4. Registered \subseteq Built
  BY <1>2 DEF IInv, Living, Used, Registered
<1>5. Built' = Built
  BY <1>1, <1>4 DEF CallAll, Built
<1>6. pc' = "sti" => \A d \in Registered' : phase'[d] = "activate"
  BY <1>1, <1>3, <1>4 DEF CallAll, Built
<1>7. Stages'
  BY <1>1, <1>2, <1>6, SamePlaces DEF Stages, Early, Late
<1> QED BY <1>1, <1>2, <1>5, <1>7, SameScan DEF MainInv, Early

(* From the point on at which interrupts are enabled, the drivers stay as  *)
(* they are.                                                               *)
LEMMA LateMain ==
  ASSUME KernelInv, caller = "kernel_main", pc \in {"sti"} \cup Late, pc' \in Late,
         UNCHANGED pvars, UNCHANGED dvars,
         am79c973' \in {NULL, LastDriver}
  PROVE  ScanTypeOK' /\ MainInv'
<1>1. /\ UNCHANGED <<drivers, driver_count, phase>> /\ Registered' = Registered
      /\ Built' = Built /\ LastDriver' = LastDriver
  BY DEF dvars, manager, objects, Registered, Built, LastDriver, GetDriver
<1>2. Stages /\ driver = NULL
  BY DEF KernelInv, MainInv, InHand, Late
<1>3. Stages'
  BY <1>1, <1>2, SamePlaces DEF Stages, Early, Late
<1> QED BY <1>1, <1>2, <1>3, SameScan DEF MainInv, Early, Late

LEMMA NextKernel ==
  ASSUME KernelInv, [Next]_vars
  PROVE  KernelInv'
<1>1. IInv'
  BY KernelUsesManager, NextInv DEF KernelInv
<1>2. caller' = caller
  BY DEF Next, KernelMain, ConstructKeyboard, RegisterKeyboard, Scan, Initialize, Activate,
         EnableInterrupts, Cast, Provide, ConstructArp, Then, Receive, CallManager,
         CallProvider, vars
<1>3. CASE KernelMain
  <2>1. caller = "kernel_main"
    BY <1>3 DEF KernelMain, ConstructKeyboard, RegisterKeyboard, Scan, Initialize, Activate,
           EnableInterrupts, Cast, Provide, ConstructArp, At
  <2>2. pc' \in Early \cup Late \cup {"scan", "initialize", "activate", "sti"}
    BY <1>3 DEF KernelMain, ConstructKeyboard, RegisterKeyboard, Scan, Initialize, Activate,
           EnableInterrupts, Cast, Provide, ConstructArp, Then, Early, Late
  <2>3. ASSUME EnableInterrupts \/ Cast \/ Provide \/ ConstructArp
        PROVE  ScanTypeOK' /\ MainInv'
    <3>1. CASE Cast
      <4>1. /\ pc = "cast" /\ pc' \in {"provider", "astray"}
            /\ UNCHANGED pvars /\ UNCHANGED dvars /\ am79c973' = LastDriver
        BY <3>1 DEF Cast, At, Then
      <4>2. pc \in {"sti"} \cup Late /\ pc' \in Late
        BY <4>1 DEF Late
      <4> QED BY <2>1, <4>1, <4>2, LateMain
    <3>2. CASE EnableInterrupts \/ Provide \/ ConstructArp
      <4>1. /\ UNCHANGED pvars /\ UNCHANGED dvars /\ am79c973' = am79c973
        BY <3>2 DEF EnableInterrupts, Provide, ConstructArp
      <4>2. pc \in {"sti", "provider", "arp"} /\ pc' \in {"cast", "provider", "arp", "resolve"}
        BY <3>2 DEF EnableInterrupts, Provide, ConstructArp, At, Then
      <4>3. pc \in {"sti"} \cup Late /\ pc' \in Late
        BY <4>2 DEF Late
      <4>4. am79c973' \in {NULL, LastDriver}
        BY <2>1, <4>1 DEF KernelInv, MainInv, Stages
      <4> QED BY <2>1, <4>1, <4>3, <4>4, LateMain
    <3> QED BY <2>3, <3>1, <3>2
  <2>4. ScanTypeOK' /\ MainInv'
    BY <1>3, <2>3, ConstructMain, RegisterKeyboardMain, ScanMain, CallAllMain DEF KernelMain
  <2> QED BY <1>1, <1>2, <2>1, <2>2, <2>4 DEF KernelInv
<1>4. CASE CallManager \/ CallProvider
  <2>1. caller # "kernel_main" /\ UNCHANGED <<kvars, pvars>>
    BY <1>4 DEF CallManager, CallProvider
  <2> QED BY <1>1, <1>2, <2>1, SamePlaces DEF KernelInv, kvars
<1>5. CASE (\E f \in Frame : Receive(f)) \/ UNCHANGED vars
  <2>1. UNCHANGED <<kvars, pvars, dvars>>
    BY <1>5 DEF Receive, vars
  <2>2. /\ UNCHANGED <<pc, interrupts, am79c973, drivers, driver_count, phase>>
        /\ Registered' = Registered /\ Built' = Built /\ LastDriver' = LastDriver
        /\ ScanTypeOK'
    BY <2>1, SamePlaces
    DEF kvars, dvars, manager, objects, Registered, Built, LastDriver, GetDriver, KernelInv
  <2>3. ASSUME caller = "kernel_main" PROVE MainInv'
    <3>1. \A p : FunctionAt(p)' = FunctionAt(p) /\ PortIsOwn(p)' = PortIsOwn(p)
      BY <2>1, SamePlaces DEF FunctionAt, PortIsOwn
    <3>2. Enough' = Enough
      BY <2>1, <2>2, SamePlaces DEF Enough
    <3>3. InHand' /\ Entered' /\ Counted'
      BY <2>1, <2>2, <2>3, <3>1, SamePlaces DEF KernelInv, MainInv, InHand, Entered, Counted
    <3>4. LastRegistered' /\ Stages'
      BY <2>1, <2>2, <2>3, <3>1, <3>2, SamePlaces DEF KernelInv, MainInv, LastRegistered, Stages
    <3> QED BY <3>3, <3>4 DEF MainInv
  <2> QED BY <1>1, <1>2, <2>2, <2>3 DEF KernelInv
<1> QED BY <1>3, <1>4, <1>5 DEF Next

-----------------------------------------------------------------------------
(* The theorems about kernel_main and the other callers of the manager.    *)

(* Every reachable state satisfies the invariant above.                    *)
THEOREM KernelInvariance == Spec => []KernelInv
  BY InitKernel, NextKernel, PTL DEF Spec

(* kernel_main's sequence of constructions, registrations and calls of the *)
(* manager is one of those that DriverManager allows: it registers nothing *)
(* it has not constructed and constructs no card's driver twice.           *)
THEOREM KernelKeepsTheRules == Spec => DriversSpec
<1>1. Init => InitDrivers
  BY DEF Init
<1>2. KernelInv /\ [Next]_vars => [NextDrivers]_dvars
  BY KernelUsesManager
<1> QED BY <1>1, <1>2, KernelInvariance, PTL DEF Spec, DriversSpec

(* So in kernel_main, as with any other caller, a line leads to the driver *)
(* last constructed for it while that one lives.                           *)
THEOREM LinesLeadInTheKernel == Spec => []LineHasLatest
  BY KernelKeepsTheRules, LinesLead, PTL

(* And the manager that kernel_main fills is a list of drivers.            *)
THEOREM KernelFillsAList == Spec => ImplementsDriverList
  BY KernelKeepsTheRules, Refinement, PTL

(* Once kernel_main has enabled interrupts, every line with a handler leads*)
(* to an active driver, or to one the manager had no room to register, on  *)
(* any bus and with any number of cards and lines.                         *)
THEOREM InterruptsFindActiveDrivers == Spec => []HandlersAreActive
<1>1. KernelInv => HandlersAreActive
  <2> SUFFICES ASSUME KernelInv, caller = "kernel_main", interrupts,
                      NEW v \in Lines, handlers[v] # NULL
               PROVE  \/ phase[handlers[v]] = "activate"
                      \/ handlers[v] \notin Registered /\ driver_count = MAX_DRIVERS
    BY DEF HandlersAreActive
  <2>1. IInv /\ InHand /\ Entered /\ Stages
    BY DEF KernelInv, MainInv
  <2>2. pc \in Late /\ driver = NULL
    BY <2>1 DEF Stages, InHand, Late
  <2>3. handlers[v] \in Built
    BY <2>1 DEF IInv, LineHasLatest
  <2>4. handlers[v] \in Registered => phase[handlers[v]] = "activate"
    BY <2>1, <2>2 DEF Stages
  <2>5. handlers[v] \notin Registered => driver_count = MAX_DRIVERS
    BY <2>1, <2>2, <2>3 DEF Entered, Late
  <2> QED BY <2>4, <2>5
<1> QED BY <1>1, KernelInvariance, PTL

(* The driver that kernel_main takes for the network's is that of the last *)
(* card on the bus, with that card's own port, wherever and behind whatever*)
(* other devices the cards are, if memory and table have room for them.    *)
THEOREM NetworkOnTheLastCard == Spec => []NetworkOnCard
<1>1. KernelInv => NetworkOnCard
  <2> DEFINE IsLast(p) == \A q \in CardPlaces : q[1] < p[1] \/ (q[1] = p[1] /\ q[2] <= p[2])
             last == CHOOSE p \in CardPlaces : IsLast(p)
  <2> SUFFICES ASSUME KernelInv, am79c973 # NULL, CardPlaces # {}, Enough
               PROVE  am79c973 = FunctionAt(last).card /\ PortIsOwn(last)
    BY DEF NetworkOnCard, Enough, FunctionAt, PortIsOwn
  <2>1. /\ IInv /\ ScanTypeOK /\ LastRegistered /\ Stages /\ pc \in Late
        /\ am79c973 = LastDriver
    BY DEF KernelInv, MainInv, Stages
  <2>2. ~ Scanning
    BY <2>1 DEF Stages, Early, Late
  <2>3. Visited = CardPlaces
    <3>1. device_number \in Nat /\ Len(bus) \in Nat /\ device_number > Len(bus)
      BY <2>1, <2>2, BusFacts DEF ScanTypeOK, Scanning
    <3>2. \A p \in CardPlaces : p[1] \in 1 .. Len(bus)
      BY <2>1, BusFacts DEF ScanTypeOK
    <3>3. \A p \in CardPlaces : Before(p)
      BY <3>1, <3>2 DEF Before
    <3> QED BY <3>3 DEF Visited
  <2>4. PICK p \in CardPlaces :
          /\ \A q \in CardPlaces : NotAfter(q, p)
          /\ driver_count > 0 /\ drivers[driver_count - 1] = FunctionAt(p).card
          /\ PortIsOwn(p)
    BY <2>1, <2>3 DEF LastRegistered
  <2>5. am79c973 = FunctionAt(p).card
    <3>1. driver_count \in Nat /\ driver_count <= MAX_DRIVERS /\ MAX_DRIVERS < 256
      BY <2>1, DriverAssumption, KernelAssumption DEF IInv, DriversTypeOK
    <3>2. MAX_DRIVERS \in Nat
      BY DriverAssumption
    <3>3. (driver_count - 1) % 256 = driver_count - 1 /\ driver_count - 1 < driver_count
      BY <2>4, <3>1, <3>2
    <3> QED BY <2>1, <2>4, <3>1, <3>3 DEF LastDriver, GetDriver
  <2>6. IsLast(p)
    BY <2>4 DEF NotAfter
  <2>7. last \in CardPlaces /\ IsLast(last)
    BY <2>6
  <2> HIDE DEF last
  <2>8. last = p
    <3>1. /\ p[1] \in Nat /\ p[2] \in Nat /\ last[1] \in Nat /\ last[2] \in Nat
          /\ p = <<p[1], p[2]>> /\ last = <<last[1], last[2]>>
      BY <2>1, <2>4, <2>7, BusFacts DEF ScanTypeOK
    <3>2. p[1] = last[1] /\ p[2] = last[2]
      BY <2>4, <2>6, <2>7, <3>1
    <3> QED BY <3>1, <3>2
  <2> QED BY <2>4, <2>5, <2>8
<1> QED BY <1>1, KernelInvariance, PTL

-----------------------------------------------------------------------------
(* The frame provider, whoever calls it.                                   *)

(* What an entry that was cleared may hold: nothing, or an object that was *)
(* constructed for the entry's number, and that, once it is gone, cleared  *)
(* another entry.                                                          *)
Settled(i) ==
  \/ table[i] = Nobody
  \/ /\ table[i] \in EtherHandlers /\ HandlerType[table[i]] = i
     /\ object[table[i]] = "gone" => Swap(i) # i

TableInv ==
  stage \in {"zeroing", "up"} =>
    \A i \in Indices : Settled(i) \/ (stage = "zeroing" /\ i >= index)

(* There are handlers only while there is a provider.                      *)
HandlersWithin ==
  stage # "up" => \A h \in EtherHandlers : object[h] \in {"absent", "gone"}

EtherInv == EtherTypeOK /\ HandlersWithin /\ TableInv /\ AnswersReturn

LEMMA IndexFacts ==
  /\ Indices \subseteq 0 .. (Entries - 1)
  /\ \A h \in EtherHandlers : HandlerType[h] \in Indices /\ Swap(HandlerType[h]) \in Indices
  /\ \A t \in WireTypes : Swap(t) < Entries => Swap(t) \in Indices
<1>0. Entries \in Nat
  BY DEF Entries
<1>1. \A t \in Nat : Swap(t) \in Nat
  BY DEF Swap
<1>2. \A h \in EtherHandlers : /\ HandlerType[h] \in 0 .. (Entries - 1)
                               /\ HandlerType[h] \in Range(HandlerType)
                               /\ Swap(HandlerType[h]) < Entries
  BY EtherAssumption DEF Range
<1>3. Range(HandlerType) \subseteq Nat
  BY <1>0, EtherAssumption DEF Range
<1>4. WireTypes \subseteq Nat
  BY <1>0, EtherAssumption
<1> DEFINE T == WireTypes \cup Range(HandlerType)
<1>5. T \subseteq Nat
  BY <1>3, <1>4
<1> HIDE DEF T
<1>6. \A i : i \in Indices <=> (\E t \in T : i \in {t, Swap(t)}) /\ i < Entries
  BY DEF Indices, T
<1>7. Indices \subseteq 0 .. (Entries - 1)
  BY <1>0, <1>1, <1>5, <1>6
<1>8. \A t \in T : (t < Entries => t \in Indices) /\ (Swap(t) < Entries => Swap(t) \in Indices)
  BY <1>6
<1>9. \A h \in EtherHandlers : HandlerType[h] \in T /\ HandlerType[h] < Entries
  BY <1>0, <1>2 DEF T
<1>10. WireTypes \subseteq T
  BY DEF T
<1> QED BY <1>2, <1>7, <1>8, <1>9, <1>10

LEMMA InitEtherInv ==
  ASSUME NEW storage \in {Nobody, Junk}, InitEther(storage)
  PROVE  EtherInv
<1>1. EtherTypeOK
  <2>1. Entries \in Nat
    BY DEF Entries
  <2>2. lost \in BOOLEAN
    BY Zenon DEF InitEther
  <2>3. index \in 0 .. (Entries + 1)
    BY <2>1 DEF InitEther
  <2>4. /\ table \in [Indices -> EtherHandlers \cup {Nobody, Junk}]
        /\ object \in [EtherHandlers -> {"absent", "base", "derived", "gone"}]
    BY DEF InitEther
  <2>5. stage = "absent" /\ answers = {}
    BY DEF InitEther
  <2> QED BY <2>2, <2>3, <2>4, <2>5 DEF EtherTypeOK
<1>2. HandlersWithin /\ TableInv /\ AnswersReturn
  BY DEF InitEther, HandlersWithin, TableInv, AnswersReturn
<1> QED BY <1>1, <1>2 DEF EtherInv

LEMMA ZeroInv ==
  ASSUME EtherInv, Zero
  PROVE  EtherInv'
<1>1. PICK next \in Indices \cup {Entries} :
        /\ stage = "zeroing" /\ ZeroNext(next)
        /\ index' = next + 1
        /\ table' = [i \in Indices |-> IF i = next THEN Nobody ELSE table[i]]
        /\ stage' = IF next < Entries THEN stage ELSE "up"
        /\ UNCHANGED <<object, answers, lost>>
  BY DEF Zero
<1>2. EtherTypeOK /\ HandlersWithin /\ TableInv /\ AnswersReturn
  BY DEF EtherInv
<1>3. next \in 0 .. Entries /\ Indices \subseteq 0 .. (Entries - 1) /\ Entries \in Nat
      /\ index \in Nat
  <2>1. Entries \in Nat
    BY DEF Entries
  <2> QED BY <1>2, <2>1, IndexFacts DEF EtherTypeOK
<1>4. EtherTypeOK'
  <2>1. stage' \in {"absent", "base", "zeroing", "up"} /\ index' \in 0 .. (Entries + 1)
    BY <1>1, <1>3
  <2>2. table' \in [Indices -> EtherHandlers \cup {Nobody, Junk}]
    BY <1>1, <1>2 DEF EtherTypeOK
  <2> QED BY <1>1, <1>2, <2>1, <2>2 DEF EtherTypeOK
<1>5. HandlersWithin' /\ AnswersReturn'
  BY <1>1, <1>2 DEF HandlersWithin, AnswersReturn
<1>6. TableInv'
  <2> SUFFICES ASSUME NEW i \in Indices
               PROVE  Settled(i)' \/ (stage' = "zeroing" /\ i >= index')
    BY DEF TableInv
  <2>1. CASE i = next
    BY <1>1, <2>1 DEF Settled
  <2>2. CASE i # next /\ i < index
    <3>1. Settled(i)
      BY <1>1, <1>2, <1>3, <2>2 DEF TableInv
    <3>2. table'[i] = table[i] /\ object' = object
      BY <1>1, <2>2
    <3> QED BY <3>1, <3>2 DEF Settled
  <2>3. CASE i # next /\ i >= index
    <3>1. i >= next /\ i < Entries
      BY <1>1, <1>3, <2>3 DEF ZeroNext
    <3>2. next < Entries /\ i >= next + 1
      BY <1>3, <2>3, <3>1
    <3> QED BY <1>1, <3>2
  <2> QED BY <1>3, <2>1, <2>2, <2>3
<1> QED BY <1>4, <1>5, <1>6 DEF EtherInv

LEMMA NextEtherInv ==
  ASSUME EtherInv, [NextEther]_evars
  PROVE  EtherInv'
<1>1. EtherTypeOK /\ HandlersWithin /\ TableInv /\ AnswersReturn
  BY DEF EtherInv
<1>2. CASE ConstructBase \/ ConstructDerived \/ DestroyProvider
  <2>1. EtherTypeOK'
    <3>1. Entries \in Nat
      BY DEF Entries
    <3> QED BY <1>1, <1>2, <3>1
            DEF EtherTypeOK, ConstructBase, ConstructDerived, DestroyProvider
  <2>2. HandlersWithin'
    BY <1>1, <1>2 DEF HandlersWithin, ConstructBase, ConstructDerived, DestroyProvider
  <2>3. TableInv'
    BY <1>2, IndexFacts DEF TableInv, ConstructBase, ConstructDerived, DestroyProvider
  <2>4. AnswersReturn'
    BY <1>1, <1>2 DEF AnswersReturn, ConstructBase, ConstructDerived, DestroyProvider
  <2> QED BY <2>1, <2>2, <2>3, <2>4 DEF EtherInv
<1>3. ASSUME NEW h \in EtherHandlers, HandlerBase(h)
      PROVE  EtherInv'
  <2>1. /\ stage = "up" /\ object' = [object EXCEPT ![h] = "base"]
        /\ table' = [table EXCEPT ![HandlerType[h]] = h]
        /\ UNCHANGED <<stage, index, answers, lost>>
    BY <1>3 DEF HandlerBase
  <2>2. EtherTypeOK'
    BY <1>1, <2>1 DEF EtherTypeOK
  <2>3. HandlersWithin' /\ AnswersReturn'
    BY <1>1, <2>1 DEF HandlersWithin, AnswersReturn
  <2>4. ASSUME NEW i \in Indices PROVE Settled(i)'
    <3>1. Settled(i)
      BY <1>1, <2>1 DEF TableInv
    <3>2. CASE i = HandlerType[h]
      <4>1. table'[i] = h /\ object'[h] = "base"
        BY <1>1, <2>1, <3>2 DEF EtherTypeOK
      <4> QED BY <3>2, <4>1 DEF Settled
    <3>3. CASE i # HandlerType[h]
      <4>1. table'[i] = table[i]
        BY <1>1, <2>1, <3>3 DEF EtherTypeOK
      <4>2. table[i] \in EtherHandlers => table[i] # h /\ object'[table[i]] = object[table[i]]
        BY <1>1, <2>1, <3>1, <3>3, EtherAssumption DEF Settled, EtherTypeOK
      <4> QED BY <3>1, <4>1, <4>2 DEF Settled
    <3> QED BY <3>2, <3>3
  <2>5. TableInv'
    BY <2>4 DEF TableInv
  <2> QED BY <2>2, <2>3, <2>5 DEF EtherInv
<1>4. ASSUME NEW h \in EtherHandlers, HandlerDerived(h)
      PROVE  EtherInv'
  <2>1. /\ object[h] = "base" /\ object' = [object EXCEPT ![h] = "derived"]
        /\ UNCHANGED <<stage, index, table, answers, lost>>
    BY <1>4 DEF HandlerDerived
  <2>2. stage = "up"
    BY <1>1, <2>1 DEF HandlersWithin
  <2>3. EtherTypeOK' /\ HandlersWithin' /\ AnswersReturn'
    BY <1>1, <2>1, <2>2 DEF EtherTypeOK, HandlersWithin, AnswersReturn
  <2>4. TableInv'
    BY <1>1, <2>1, <2>2 DEF TableInv, Settled, EtherTypeOK
  <2> QED BY <2>3, <2>4 DEF EtherInv
<1>5. ASSUME NEW h \in EtherHandlers, HandlerDestroy(h)
      PROVE  EtherInv'
  <2>1. /\ object[h] = "derived" /\ object' = [object EXCEPT ![h] = "gone"]
        /\ table' = [table EXCEPT ![Swap(HandlerType[h])] = Nobody]
        /\ UNCHANGED <<stage, index, answers, lost>>
    BY <1>5 DEF HandlerDestroy
  <2>2. stage = "up"
    BY <1>1, <2>1 DEF HandlersWithin
  <2>3. EtherTypeOK' /\ HandlersWithin' /\ AnswersReturn'
    BY <1>1, <2>1, <2>2 DEF EtherTypeOK, HandlersWithin, AnswersReturn
  <2>4. ASSUME NEW i \in Indices PROVE Settled(i)'
    <3>1. Settled(i)
      BY <1>1, <2>2 DEF TableInv
    <3>2. CASE i = Swap(HandlerType[h])
      BY <1>1, <2>1, <3>2 DEF EtherTypeOK, Settled
    <3>3. CASE i # Swap(HandlerType[h])
      <4>1. table'[i] = table[i]
        BY <1>1, <2>1, <3>3 DEF EtherTypeOK
      <4>2. CASE table[i] = h
        <5>1. HandlerType[h] = i /\ Swap(i) # i
          BY <3>1, <3>3, <4>2, EtherAssumption DEF Settled
        <5> QED BY <4>1, <4>2, <5>1 DEF Settled
      <4>3. CASE table[i] # h
        <5>1. table[i] \in EtherHandlers => object'[table[i]] = object[table[i]]
          BY <1>1, <2>1, <4>3 DEF EtherTypeOK
        <5> QED BY <3>1, <4>1, <5>1 DEF Settled
      <4> QED BY <4>2, <4>3
    <3> QED BY <3>2, <3>3
  <2>5. TableInv'
    BY <2>4 DEF TableInv
  <2> QED BY <2>3, <2>5 DEF EtherInv
<1>6. ASSUME NEW f \in Frame, SendBack(f)
      PROVE  EtherInv'
  <2>1. PICK h \in Lookup(f) \cap Answering : object[h] = "derived"
    BY <1>6 DEF SendBack
  <2>2. /\ answers' = answers \cup {Answer(f)}
        /\ UNCHANGED <<stage, index, table, object, lost>>
    BY <1>6 DEF SendBack
  <2>3. h \in EtherHandlers /\ stage = "up" /\ h # Nobody /\ h # Junk
    BY <1>1, <2>1, EtherAssumption DEF HandlersWithin
  <2>4. Swap(f.type) < Entries /\ h = table[Swap(f.type)]
    BY <2>1, <2>3 DEF Lookup
  <2>5. Swap(f.type) \in Indices
    BY <2>4, IndexFacts DEF Frame
  <2>6. HandlerType[h] = Swap(f.type)
    BY <1>1, <2>3, <2>4, <2>5 DEF TableInv, Settled
  <2>7. /\ Answer(f).destination = f.source /\ Answer(f).source = Us
        /\ Answer(f).type = f.type /\ f.source \in Peers
        /\ Answer(f) \in [destination : Peers, source : Peers \cup {Us, Everybody},
                          type : WireTypes]
    BY DEF Answer, Frame
  <2>8. EtherTypeOK'
    BY <1>1, <2>2, <2>7 DEF EtherTypeOK
  <2>9. AnswersReturn'
    BY <1>1, <2>1, <2>2, <2>6, <2>7 DEF AnswersReturn
  <2>10. HandlersWithin' /\ TableInv'
    BY <1>1, <2>2 DEF HandlersWithin, TableInv, Settled
  <2> QED BY <2>8, <2>9, <2>10 DEF EtherInv
<1>7. CASE (\E f \in Frame : Ignore(f) \/ Lose(f)) \/ UNCHANGED evars
  <2>1. UNCHANGED <<stage, index, table, object, answers>> /\ (lost' = TRUE \/ lost' = lost)
    BY <1>7 DEF Ignore, Lose, evars
  <2>2. EtherTypeOK' /\ HandlersWithin' /\ AnswersReturn' /\ TableInv'
    BY <1>1, <2>1 DEF EtherTypeOK, HandlersWithin, AnswersReturn, TableInv, Settled
  <2> QED BY <2>2 DEF EtherInv
<1> QED
  BY <1>2, <1>3, <1>4, <1>5, <1>6, <1>7, ZeroInv
  DEF NextEther, ConstructProvider, OnRawDataReceived

LEMMA KernelUsesProvider ==
  ASSUME [Next]_vars
  PROVE  [NextEther]_evars
<1>1. KernelMain => [NextEther]_evars
  BY KernelAssumption
  DEF KernelMain, ConstructKeyboard, RegisterKeyboard, Scan, Initialize, Activate,
      EnableInterrupts, Cast, Provide, ConstructArp, NextEther
<1>2. CallManager => UNCHANGED evars
  BY DEF CallManager
<1>3. CallProvider => NextEther
  BY DEF CallProvider, NextEther
<1>4. \A f \in Frame : Receive(f) => NextEther
  BY DEF Receive, NextEther
<1>5. UNCHANGED vars => UNCHANGED evars
  BY DEF vars
<1> QED BY <1>1, <1>2, <1>3, <1>4, <1>5 DEF Next

(* Every reachable state of the provider, constructed by kernel_main or in *)
(* memory that need not be clear, satisfies the invariant above.           *)
THEOREM ProviderInvariance == Spec => []EtherInv
<1>1. Init => EtherInv
  BY InitEtherInv DEF Init
<1>2. EtherInv /\ [Next]_vars => EtherInv'
  BY KernelUsesProvider, NextEtherInv
<1> QED BY <1>1, <1>2, PTL DEF Spec

(* At every instruction at which a frame may interrupt the constructors    *)
(* and destructors, on_raw_data_received() calls an object that was        *)
(* constructed for the type's number; CallsAreLive names the exceptions.   *)
THEOREM FramesReachTheirOwn == Spec => []CallsAreLive
<1>1. EtherInv => CallsAreLive
  <2> SUFFICES ASSUME EtherInv, NEW f \in Frame, Accepted(f), Swap(f.type) < Entries,
                      NEW h \in Lookup(f) \ {Nobody}
               PROVE  \/ stage = "zeroing" /\ Swap(f.type) >= index
                      \/ /\ h \in EtherHandlers /\ HandlerType[h] = Swap(f.type)
                         /\ object[h] = "gone" => Swap(f.type) # f.type
    BY DEF CallsAreLive
  <2> DEFINE i == Swap(f.type)
  <2>1. i \in Indices /\ h = table[i] /\ stage \in {"zeroing", "up"}
    BY IndexFacts DEF Frame, Lookup, Accepted
  <2>2. Settled(i) \/ (stage = "zeroing" /\ i >= index)
    BY <2>1 DEF EtherInv, TableInv
  <2> QED BY <2>1, <2>2 DEF Settled
<1> QED BY <1>1, ProviderInvariance, PTL

(* Every frame sent back is addressed to the station that asked, comes from*)
(* our address, and carries a type a handler was constructed for.          *)
THEOREM AnswersGoBack == Spec => []AnswersReturn
<1>1. EtherInv => AnswersReturn
  BY DEF EtherInv
<1> QED BY <1>1, ProviderInvariance, PTL

=============================================================================
