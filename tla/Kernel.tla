------------------------------- MODULE Kernel -------------------------------
(***************************************************************************)
(* kernel_main(), src/src/kernel.cpp, from the keyboard's registration on: *)
(* the driver manager, the PCI scan, the interrupts, and the frame         *)
(* provider with the address resolution protocol as its handler, composed  *)
(* in the order in which it calls them, while frames arrive.               *)
(*                                                                         *)
(* Two more callers use what the headers offer and kernel_main does not:   *)
(* "manager" calls the driver manager in any order, "provider" constructs  *)
(* and destroys frame providers and handlers, in memory that need not be   *)
(* clear.                                                                  *)
(***************************************************************************)
EXTENDS PCI, EthernetFrame

CONSTANTS
  LinesOf,      (* driver |-> the lines that "manager" constructs it for    *)
  Keyboard,     (* the keyboard's interrupt number: 0x21                    *)
  Arp           (* the address resolution protocol, constructed for 0x806   *)

ASSUME KernelAssumption ==
  /\ MAX_DRIVERS < 256                        (* driver_count is a uint8_t *)
  /\ LinesOf \in [Drivers -> SUBSET Lines]
  /\ Keyboard \in Lines
  /\ Arp \in EtherHandlers \ Answering
  /\ HandlerType[Arp] = 2054                          (* 0x806              *)

VARIABLES
  caller,       (* kernel_main, manager or provider                         *)
  pc,           (* where kernel_main is                                     *)
  interrupts,   (* enabled?                                                 *)
  am79c973      (* kernel_main's pointer to the card's driver               *)

kvars == <<pc, interrupts, am79c973>>
vars  == <<caller, kvars, pvars, dvars, evars>>

Init ==
  /\ caller \in {"kernel_main", "manager", "provider"}
  /\ pc = "keyboard" /\ interrupts = FALSE /\ am79c973 = NULL
  /\ InitDrivers /\ InitPCI
  /\ caller # "kernel_main" => bus = <<>> /\ room = 0
  /\ InitEther(IF caller = "provider" THEN Junk ELSE Nobody)

-----------------------------------------------------------------------------
(* kernel_main.                                                            *)

At(here)  == caller = "kernel_main" /\ pc = here
Then(there) == pc' = there /\ UNCHANGED caller

ConstructKeyboard ==
  /\ At("keyboard") /\ Then("register") /\ Construct("keyboard", Keyboard)
  /\ UNCHANGED <<interrupts, am79c973, pvars, evars, manager>>

RegisterKeyboard ==
  /\ At("register") /\ Then("scan") /\ RegisterDriver("keyboard")
  /\ UNCHANGED <<interrupts, am79c973, pvars, evars, is_active, objects>>

Scan ==
  /\ At("scan") /\ Then(IF Scanning THEN "scan" ELSE "initialize")
  /\ IF Scanning THEN SelectDrivers ELSE UNCHANGED <<pvars, dvars>>
  /\ UNCHANGED <<interrupts, am79c973, evars>>

Initialize ==
  /\ At("initialize") /\ Then("activate") /\ InitializeAllDrivers
  /\ UNCHANGED <<interrupts, am79c973, pvars, evars>>

Activate ==
  /\ At("activate") /\ Then("sti") /\ ActivateAllDrivers
  /\ UNCHANGED <<interrupts, am79c973, pvars, evars>>

EnableInterrupts ==
  /\ At("sti") /\ Then("cast") /\ interrupts' = TRUE
  /\ UNCHANGED <<am79c973, pvars, dvars, evars>>

LastDriver == GetDriver((driver_count - 1) % 256)

(* The last driver is taken for the card's, whatever it is.                *)
Cast ==
  /\ At("cast") /\ am79c973' = LastDriver
  /\ Then(IF am79c973' \in Cards THEN "provider" ELSE "astray")
  /\ UNCHANGED <<interrupts, pvars, dvars, evars>>

Provide ==
  /\ At("provider")
  /\ ConstructProvider
  /\ Then(IF stage' = "up" THEN "arp" ELSE "provider")
  /\ UNCHANGED <<interrupts, am79c973, pvars, dvars>>

ConstructArp ==
  /\ At("arp")
  /\ HandlerBase(Arp) \/ HandlerDerived(Arp)
  /\ Then(IF object'[Arp] = "derived" THEN "resolve" ELSE "arp")
  /\ UNCHANGED <<interrupts, am79c973, pvars, dvars>>

KernelMain ==
  \/ ConstructKeyboard \/ RegisterKeyboard \/ Scan
  \/ Initialize \/ Activate \/ EnableInterrupts
  \/ Cast \/ Provide \/ ConstructArp

-----------------------------------------------------------------------------
(* A frame for a card interrupts kernel_main.  Its driver reads it if the  *)
(* line's handler is that driver, and passes it on if a provider has       *)
(* announced itself to that driver.                                        *)

Hears(d) ==
  /\ interrupts /\ phase[d] = "activate"
  /\ handlers[interrupt_number[d]] = d
  /\ stage # "absent" /\ am79c973 = d

Receive(f) ==
  /\ \/ caller = "kernel_main" /\ \E d \in Cards : Hears(d)
     \/ caller = "provider"
  /\ OnRawDataReceived(f)
  /\ UNCHANGED <<caller, kvars, pvars, dvars>>

-----------------------------------------------------------------------------
(* The other callers.                                                      *)

CallManager ==
  /\ caller = "manager" /\ NextDrivers
  /\ \A d \in Built' \ Built : interrupt_number'[d] \in LinesOf[d]
  /\ UNCHANGED <<caller, kvars, pvars, evars>>

CallProvider ==
  /\ caller = "provider"
  /\ \/ ConstructProvider \/ DestroyProvider
     \/ \E h \in EtherHandlers : HandlerBase(h) \/ HandlerDerived(h) \/ HandlerDestroy(h)
  /\ UNCHANGED <<caller, kvars, pvars, dvars>>

Next ==
  /\ ~lost
  /\ KernelMain \/ CallManager \/ CallProvider \/ \E f \in Frame : Receive(f)

Spec == Init /\ [][Next]_vars

-----------------------------------------------------------------------------

(* When kernel_main enables interrupts, whatever an interrupt may call has *)
(* been initialised and activated, whatever cards the scan has found and   *)
(* whichever lines they are on; a driver that the manager had no room for  *)
(* is the only other thing a line may lead to.                             *)
HandlersAreActive ==
  caller = "kernel_main" /\ interrupts =>
    \A v \in Lines : handlers[v] # NULL =>
      \/ phase[handlers[v]] = "activate"
      \/ handlers[v] \notin Registered /\ driver_count = MAX_DRIVERS

(* Once the address resolution protocol is up, a frame of its type that is *)
(* meant for us reaches it.                                                *)
ResolutionHearsAnswers == caller = "kernel_main" => FramesReachTheirHandler

(* The functions of the bus in the order of the scan.                      *)
Places == {p \in (DOMAIN bus) \X (0 .. (Functions - 1)) :
             p[2] = 0 \/ bus[p[1]][0].multi}

CardPlaces == {p \in Places : IsCard(bus[p[1]][p[2]])}

(* The network runs on the last card of the bus, through that card's own   *)
(* port: if there is a card, if the heap and the manager had room for the  *)
(* cards, and if the card was given an I/O address.                        *)
NetworkOnCard ==
  /\ am79c973 # NULL
  /\ CardPlaces # {} /\ Cardinality(CardPlaces) < MAX_DRIVERS
  /\ room + Cardinality(Built \cap Cards) >= Cardinality(CardPlaces)
  =>
  LET last == CHOOSE p \in CardPlaces :
                \A q \in CardPlaces : q[1] < p[1] \/ (q[1] = p[1] /\ q[2] <= p[2])
      f == bus[last[1]][last[2]]
  IN  /\ am79c973 = f.card
      /\ IoBars(f) # {} => card_port[f.card] \in {f.bars[b].address : b \in IoBars(f)}

=============================================================================
