---------------------------- MODULE DriverManager ----------------------------
(***************************************************************************)
(* The driver manager, src/src/driver_manager.cpp, and the table of        *)
(* interrupt handlers that constructing and destroying a driver changes    *)
(* (InterruptHandler in src/src/interrupts.cpp).                           *)
(*                                                                         *)
(* Each function is one action: an interrupt between two of its steps      *)
(* reads the table of handlers, and nothing that the function changes.     *)
(* The lifecycle functions of a driver are its own affair; here it is only *)
(* remembered which of them was called last.  The caller destroys a driver *)
(* only when it is not registered: the manager keeps the pointer.          *)
(***************************************************************************)
EXTENDS Integers, FiniteSets, SequencesExt

CONSTANTS
  MAX_DRIVERS,  (* 16 in the code                                           *)
  Drivers,      (* the objects                                              *)
  Lines         (* the interrupt numbers in use                             *)

NULL == "nullptr"

ASSUME DriverAssumption ==
  /\ MAX_DRIVERS \in Nat \ {0}
  /\ NULL \notin Drivers
  /\ Lines \subseteq 0 .. 255

VARIABLES
  drivers, driver_count, is_active,
  handlers,         (* InterruptManager's, by interrupt number              *)
  interrupt_number, (* driver |-> InterruptHandler's                        *)
  phase,            (* driver |-> the last function called on it            *)
  latest            (* history: line |-> the driver last constructed for it *)

manager == <<drivers, driver_count, is_active>>
objects == <<handlers, interrupt_number, phase, latest>>
dvars   == <<manager, objects>>

Slots == 0 .. (MAX_DRIVERS - 1)

Built      == {d \in Drivers : phase[d] # "absent"}
Registered == {drivers[i] : i \in 0 .. (driver_count - 1)}

InitDrivers ==
  /\ drivers = [i \in Slots |-> NULL] /\ driver_count = 0 /\ is_active = FALSE
  /\ handlers = [v \in Lines |-> NULL] /\ latest = [v \in Lines |-> NULL]
  /\ interrupt_number = [d \in Drivers |-> 0]
  /\ phase = [d \in Drivers |-> "absent"]

-----------------------------------------------------------------------------
(* InterruptHandler's constructor and destructor, and what the drivers'    *)
(* own add to them.                                                        *)

Construct(d, v) ==
  /\ phase[d] = "absent"
  /\ phase' = [phase EXCEPT ![d] = "built"]
  /\ interrupt_number' = [interrupt_number EXCEPT ![d] = v]
  /\ handlers' = [handlers EXCEPT ![v] = d]
  /\ latest' = [latest EXCEPT ![v] = d]

(* Mutant: the entry is cleared, whoever's it is.                          *)
EntryCleared(d) == [handlers EXCEPT ![interrupt_number[d]] = NULL]

EntryLeft(d) ==
  [handlers EXCEPT ![interrupt_number[d]] = IF @ = d THEN NULL ELSE @]

Destroy(d) ==
  /\ phase[d] # "absent" /\ d \notin Registered
  /\ phase' = [phase EXCEPT ![d] = "absent"]
  /\ handlers' = EntryLeft(d)
  /\ UNCHANGED <<interrupt_number, latest>>

-----------------------------------------------------------------------------
(* The manager's functions.                                                *)

(* find_driver_index(d), where it is not -1.                               *)
Find(d) == CHOOSE i \in 0 .. (driver_count - 1) : drivers[i] = d

(* Neither the table is full nor the driver registered already; otherwise  *)
(* register_driver() returns false.                                        *)
RegisterDriver(d) ==
  IF driver_count < MAX_DRIVERS /\ d \notin Registered
    THEN /\ drivers' = [drivers EXCEPT ![driver_count] = d]
         /\ driver_count' = driver_count + 1
    ELSE UNCHANGED <<drivers, driver_count>>

(* Mutant: the last driver is moved into the gap.                          *)
ShiftSwapped(index) ==
  [i \in Slots |-> CASE i = driver_count - 1 -> NULL
                     [] i = index            -> drivers[driver_count - 1]
                     [] OTHER                -> drivers[i]]

Shift(index) ==
  [i \in Slots |-> CASE i = driver_count - 1              -> NULL
                     [] i \in index .. (driver_count - 2) -> drivers[i + 1]
                     [] OTHER                             -> drivers[i]]

UnregisterDriver(d) ==
  /\ d \in Registered
  /\ phase' = [phase EXCEPT ![d] = "deactivate"]
  /\ drivers' = Shift(Find(d))
  /\ driver_count' = driver_count - 1
  /\ UNCHANGED <<is_active, handlers, interrupt_number, latest>>

(* Mutant: the loop stops before the last driver.                          *)
CallAllButLast(f) ==
  phase' = [d \in Drivers |->
              IF \E i \in 0 .. (driver_count - 2) : drivers[i] = d
                THEN f ELSE phase[d]]

(* The loop that calls f on every driver in the table.                     *)
CallAll(f) ==
  phase' = [d \in Drivers |-> IF d \in Registered THEN f ELSE phase[d]]

Unmoved == UNCHANGED <<drivers, driver_count, handlers, interrupt_number, latest>>

InitializeAllDrivers == CallAll("initialize") /\ UNCHANGED is_active /\ Unmoved
ActivateAllDrivers   == CallAll("activate")   /\ is_active' = TRUE   /\ Unmoved
DeactivateAllDrivers == CallAll("deactivate") /\ is_active' = FALSE  /\ Unmoved
ResetAllDrivers      == CallAll("reset")      /\ UNCHANGED is_active /\ Unmoved

ShutdownAllDrivers ==
  /\ CallAll("deactivate")
  /\ drivers' = [i \in Slots |-> IF i < driver_count THEN NULL ELSE drivers[i]]
  /\ driver_count' = 0 /\ is_active' = FALSE
  /\ UNCHANGED <<handlers, interrupt_number, latest>>

SetActive(active) ==
  /\ is_active' = active
  /\ UNCHANGED <<drivers, driver_count, objects>>

(* get_driver(index)                                                       *)
GetDriver(index) == IF index >= driver_count THEN NULL ELSE drivers[index]

NextDrivers ==
  \/ \E d \in Drivers :
       \/ \E v \in Lines : Construct(d, v) /\ UNCHANGED manager
       \/ Destroy(d) /\ UNCHANGED manager
       \/ d \in Built /\ RegisterDriver(d) /\ UNCHANGED <<is_active, objects>>
       \/ UnregisterDriver(d)
  \/ InitializeAllDrivers \/ ActivateAllDrivers
  \/ DeactivateAllDrivers \/ ResetAllDrivers
  \/ ShutdownAllDrivers
  \/ \E active \in BOOLEAN : SetActive(active)

DriversSpec == InitDrivers /\ [][NextDrivers]_dvars

-----------------------------------------------------------------------------

DriversTypeOK ==
  /\ driver_count \in 0 .. MAX_DRIVERS
  /\ drivers \in [Slots -> Drivers \cup {NULL}]
  /\ is_active \in BOOLEAN
  /\ handlers \in [Lines -> Drivers \cup {NULL}]
  /\ latest \in [Lines -> Drivers \cup {NULL}]
  /\ interrupt_number \in [Drivers -> Lines \cup {0}]
  /\ phase \in [Drivers -> {"absent", "built", "initialize", "activate",
                            "deactivate", "reset"}]

(* The array and its count are the list of the drivers registered.         *)
List == [i \in 1 .. driver_count |-> drivers[i - 1]]

DL == INSTANCE DriverList WITH Capacity <- MAX_DRIVERS, list <- List, on <- is_active

(* However drivers are registered, taken off and shut down, the manager    *)
(* holds each driver once, in the order of registration, calls every       *)
(* function on exactly those it holds, and lets go of none that it has not *)
(* deactivated: it implements a list.                                      *)
ImplementsDriverList == DL!Spec

(* A line's handler is the driver last constructed for it, as long as that *)
(* one lives: an older driver that is destroyed, even one that shared the  *)
(* line, takes nobody's entry away, and no entry outlives its driver.      *)
LineHasLatest ==
  \A v \in Lines :
    handlers[v] = IF latest[v] \in Built /\ interrupt_number[latest[v]] = v
                    THEN latest[v] ELSE NULL

=============================================================================
