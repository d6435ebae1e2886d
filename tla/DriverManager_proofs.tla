------------------------ MODULE DriverManager_proofs ------------------------
(***************************************************************************)
(* Proofs about DriverManager, for every length of the table, every set of *)
(* drivers and of lines, and any order of calls.                           *)
(***************************************************************************)
EXTENDS DriverManager, TLAPS

Used == 0 .. (driver_count - 1)

(* What the used part of the table holds is alive, each driver once.       *)
Living   == \A i \in Used : drivers[i] \in Built
Distinct == \A i, j \in Used : i # j => drivers[i] # drivers[j]

(* A driver outside the table has not been started, or was deactivated.    *)
Quiet == \A d \in Drivers \ Registered : phase[d] \in {"absent", "built", "deactivate"}

IInv == DriversTypeOK /\ Living /\ Distinct /\ Quiet /\ LineHasLatest

Phases == {"absent", "built", "initialize", "activate", "deactivate", "reset"}

(***************************************************************************)
(* Each kind of step keeps the invariant.                                  *)
(***************************************************************************)

LEMMA InitInv == InitDrivers => IInv
<1> SUFFICES ASSUME InitDrivers PROVE IInv
  OBVIOUS
<1>1. DriversTypeOK
  <2>1. driver_count \in 0 .. MAX_DRIVERS
    BY DriverAssumption DEF InitDrivers
  <2> QED BY <2>1, Zenon DEF InitDrivers, DriversTypeOK
<1>2. Used = {}
  BY DEF InitDrivers, Used
<1>3. Quiet /\ LineHasLatest
  BY DriverAssumption DEF InitDrivers, Quiet, LineHasLatest, Built
<1> QED BY <1>1, <1>2, <1>3 DEF IInv, Living, Distinct

(* A step that leaves the objects alone leaves each line's handler.        *)
LEMMA ObjectsKept ==
  ASSUME IInv, UNCHANGED <<handlers, interrupt_number, latest>>, Built' = Built
  PROVE  LineHasLatest'
BY DEF IInv, LineHasLatest

LEMMA ConstructInv ==
  ASSUME IInv, NEW d \in Drivers, NEW v \in Lines, Construct(d, v), UNCHANGED manager
  PROVE  IInv'
<1> USE DEF IInv, Construct, manager
<1>1. DriversTypeOK'
  BY DEF DriversTypeOK
<1>2. Built' = Built \cup {d} /\ d \notin Built
  BY DEF DriversTypeOK, Built
<1>3. Used' = Used /\ Registered' = Registered
  BY DEF Used, Registered
<1>4. Living' /\ Distinct'
  BY <1>2, <1>3 DEF Living, Distinct
<1>5. Quiet'
  BY <1>3 DEF Quiet, DriversTypeOK
<1>6. LineHasLatest'
  BY <1>2 DEF LineHasLatest, DriversTypeOK
<1> QED BY <1>1, <1>4, <1>5, <1>6

LEMMA DestroyInv ==
  ASSUME IInv, NEW d \in Drivers, Destroy(d), UNCHANGED manager
  PROVE  IInv'
<1> USE DEF IInv, Destroy, EntryLeft, manager
<1>1. DriversTypeOK'
  BY DEF DriversTypeOK
<1>2. Built' = Built \ {d} /\ d \in Built
  BY DEF DriversTypeOK, Built
<1>3. Used' = Used /\ Registered' = Registered /\ d \notin Registered
  BY DEF Used, Registered
<1>4. Living' /\ Distinct'
  BY <1>2, <1>3 DEF Living, Distinct, Used, Registered
<1>5. Quiet'
  BY <1>3 DEF Quiet, DriversTypeOK
<1>6. NULL \notin Built
  BY DriverAssumption DEF Built
<1>7. ASSUME NEW v \in Lines
      PROVE  handlers'[v] = IF latest'[v] \in Built' /\ interrupt_number'[latest'[v]] = v
                              THEN latest'[v] ELSE NULL
  <2>1. handlers[v] = IF latest[v] \in Built /\ interrupt_number[latest[v]] = v
                        THEN latest[v] ELSE NULL
    BY DEF LineHasLatest
  <2>2. handlers'[v] = IF v = interrupt_number[d] /\ handlers[v] = d THEN NULL ELSE handlers[v]
    BY DEF DriversTypeOK
  <2> QED BY <1>2, <1>6, <2>1, <2>2
<1> QED BY <1>1, <1>4, <1>5, <1>7 DEF LineHasLatest

LEMMA RegisterInv ==
  ASSUME IInv, NEW d \in Built, RegisterDriver(d), UNCHANGED <<is_active, objects>>
  PROVE  IInv'
<1> USE DEF IInv, objects
<1>1. CASE driver_count < MAX_DRIVERS /\ d \notin Registered
  <2>1. /\ driver_count' = driver_count + 1
        /\ drivers' = [drivers EXCEPT ![driver_count] = d]
        /\ driver_count \in Nat /\ driver_count \in Slots /\ d \in Drivers
    BY <1>1, DriverAssumption DEF RegisterDriver, DriversTypeOK, Slots, Built
  <2>2. DriversTypeOK'
    BY <1>1, <2>1, DriverAssumption DEF DriversTypeOK
  <2>3. Used' = Used \cup {driver_count} /\ driver_count \notin Used /\ Used \subseteq Slots
    BY <1>1, <2>1, DriverAssumption DEF Used, Slots
  <2>4. /\ drivers'[driver_count] = d
        /\ \A i \in Used : drivers'[i] = drivers[i] /\ drivers[i] # d
    BY <1>1, <2>1, <2>3 DEF DriversTypeOK, Registered, Used
  <2>5. Built' = Built /\ Registered \subseteq Registered'
    BY <2>3, <2>4 DEF Built, Registered, Used
  <2>6. Living' /\ Distinct'
    BY <2>3, <2>4, <2>5 DEF Living, Distinct
  <2>7. Quiet'
    BY <2>5 DEF Quiet
  <2> QED BY <2>2, <2>5, <2>6, <2>7, ObjectsKept
<1>2. CASE ~(driver_count < MAX_DRIVERS /\ d \notin Registered)
  BY <1>2 DEF RegisterDriver, DriversTypeOK, Living, Distinct, Quiet, LineHasLatest,
              Built, Registered, Used
<1> QED BY <1>1, <1>2

(* What Shift does to the used part of the table.                          *)
LEMMA Shifted ==
  ASSUME DriversTypeOK, NEW n \in Used
  PROVE  /\ Shift(n) \in [Slots -> Drivers \cup {NULL}]
         /\ \A i \in 0 .. (driver_count - 2) :
              Shift(n)[i] = drivers[IF i < n THEN i ELSE i + 1]
<1>1. /\ driver_count \in Nat /\ driver_count <= MAX_DRIVERS
      /\ n \in Nat /\ n < driver_count /\ MAX_DRIVERS \in Nat
  BY DriverAssumption DEF DriversTypeOK, Used
<1>2. ASSUME NEW i \in Slots, i \in n .. (driver_count - 2) PROVE i + 1 \in Slots
  BY <1>1, <1>2 DEF Slots
<1>3. drivers \in [Slots -> Drivers \cup {NULL}]
  BY DEF DriversTypeOK
<1>4. Shift(n) \in [Slots -> Drivers \cup {NULL}]
  BY <1>2, <1>3 DEF Shift
<1>5. ASSUME NEW i \in 0 .. (driver_count - 2)
      PROVE  Shift(n)[i] = drivers[IF i < n THEN i ELSE i + 1]
  BY <1>1 DEF Shift, Slots
<1> QED BY <1>4, <1>5

LEMMA FindFinds ==
  ASSUME NEW d \in Registered
  PROVE  Find(d) \in Used /\ drivers[Find(d)] = d
BY DEF Registered, Find, Used

LEMMA UnregisterInv ==
  ASSUME IInv, NEW d \in Drivers, UnregisterDriver(d)
  PROVE  IInv'
<1> USE DEF IInv, UnregisterDriver
<1> DEFINE n == Find(d)
<1>1. n \in Used /\ drivers[n] = d
  BY FindFinds
<1> HIDE DEF n
<1>2. drivers' = Shift(n) /\ driver_count' = driver_count - 1
  BY DEF n
<1>3. /\ driver_count \in Nat /\ driver_count <= MAX_DRIVERS
      /\ n \in Nat /\ n < driver_count /\ MAX_DRIVERS \in Nat
  BY <1>1, DriverAssumption DEF DriversTypeOK, Used
<1>4. DriversTypeOK'
  BY <1>1, <1>2, <1>3, Shifted DEF DriversTypeOK
<1> DEFINE from(i) == IF i < n THEN i ELSE i + 1
<1>5. Used' = 0 .. (driver_count - 2)
  BY <1>2, <1>3 DEF Used
<1>6. ASSUME NEW i \in Used'
      PROVE  from(i) \in Used /\ from(i) # n /\ drivers'[i] = drivers[from(i)]
  BY <1>1, <1>2, <1>3, <1>5, Shifted DEF Used
<1>7. ASSUME NEW j \in Used, j # n PROVE \E i \in Used' : from(i) = j
  <2>1. CASE j < n
    <3>1. j \in Used' /\ from(j) = j
      BY <1>3, <1>5, <2>1 DEF Used
    <3> QED BY <3>1
  <2>2. CASE ~(j < n)
    <3>1. j - 1 \in Used' /\ from(j - 1) = j
      BY <1>3, <1>5, <1>7, <2>2 DEF Used
    <3> QED BY <3>1
  <2> QED BY <2>1, <2>2
<1>8. Distinct'
  <2> SUFFICES ASSUME NEW i \in Used', NEW j \in Used', i # j
               PROVE  drivers'[i] # drivers'[j]
    BY DEF Distinct
  <2>1. from(i) # from(j)
    BY <1>3, <1>5
  <2> QED BY <1>6, <2>1 DEF Distinct
<1>9. Registered' = Registered \ {d}
  <2>1. Registered' \subseteq Registered \ {d}
    BY <1>1, <1>6 DEF Registered, Used, Distinct
  <2>2. Registered \ {d} \subseteq Registered'
    <3> SUFFICES ASSUME NEW e \in Registered, e # d PROVE e \in Registered'
      OBVIOUS
    <3>1. PICK j \in Used : drivers[j] = e
      BY DEF Registered, Used
    <3>2. PICK i \in Used' : from(i) = j
      BY <1>1, <1>7, <3>1
    <3>3. drivers'[i] = e
      BY <1>6, <3>1, <3>2
    <3> QED BY <3>3 DEF Registered, Used
  <2> QED BY <2>1, <2>2
<1>10. phase' = [phase EXCEPT ![d] = "deactivate"] /\ d \in Built
  BY <1>1 DEF Living
<1>11. Built' = Built
  BY <1>10 DEF Built, DriversTypeOK
<1>12. Living'
  BY <1>6, <1>11 DEF Living
<1>13. Quiet'
  BY <1>9, <1>10 DEF Quiet, DriversTypeOK
<1>14. LineHasLatest'
  BY <1>11, ObjectsKept
<1> QED BY <1>4, <1>8, <1>12, <1>13, <1>14

(* The functions that call f on every registered driver.                   *)
LEMMA CallAllInv ==
  ASSUME IInv, NEW f \in Phases \ {"absent"}, CallAll(f), Unmoved, is_active' \in BOOLEAN
  PROVE  IInv'
<1> USE DEF IInv, CallAll, Unmoved
<1>1. DriversTypeOK'
  <2>1. phase' \in [Drivers -> Phases]
    BY DEF DriversTypeOK, Phases
  <2> QED BY <2>1 DEF DriversTypeOK, Phases
<1>2. Registered' = Registered /\ Used' = Used
  BY DEF Registered, Used
<1>3. Registered \subseteq Built
  BY DEF Living, Registered, Used
<1>4. Built' = Built
  BY <1>3 DEF Built, Phases
<1>5. Living' /\ Distinct' /\ Quiet'
  BY <1>2, <1>4 DEF Living, Distinct, Quiet
<1>6. LineHasLatest'
  BY <1>4, ObjectsKept
<1> QED BY <1>1, <1>5, <1>6

LEMMA ShutdownInv ==
  ASSUME IInv, ShutdownAllDrivers
  PROVE  IInv'
<1> USE DEF IInv, ShutdownAllDrivers, CallAll
<1>1. DriversTypeOK'
  <2>1. phase' \in [Drivers -> Phases]
    BY DEF DriversTypeOK, Phases
  <2>2. drivers' \in [Slots -> Drivers \cup {NULL}]
    BY DEF DriversTypeOK
  <2>3. driver_count' \in 0 .. MAX_DRIVERS
    BY DriverAssumption
  <2> QED BY <2>1, <2>2, <2>3, Zenon DEF DriversTypeOK, Phases
<1>2. Used' = {} /\ Registered' = {}
  BY DEF Used, Registered
<1>3. Registered \subseteq Built
  BY DEF Living, Registered, Used
<1>4. Built' = Built
  BY <1>3 DEF Built
<1>5. Living' /\ Distinct'
  BY <1>2 DEF Living, Distinct
<1>6. Quiet'
  BY DEF Quiet, DriversTypeOK
<1>7. LineHasLatest'
  BY <1>4, ObjectsKept
<1> QED BY <1>1, <1>5, <1>6, <1>7

(* A step that leaves all but is_active alone.                             *)
LEMMA SwitchInv ==
  ASSUME IInv, is_active' \in BOOLEAN, UNCHANGED <<drivers, driver_count, objects>>
  PROVE  IInv'
<1>1. Built' = Built /\ Used' = Used /\ Registered' = Registered
  BY DEF objects, Built, Used, Registered
<1> QED BY <1>1 DEF IInv, objects, DriversTypeOK, Living, Distinct, Quiet, LineHasLatest

LEMMA NextInv ==
  ASSUME IInv, [NextDrivers]_dvars
  PROVE  IInv'
<1>1. CASE UNCHANGED dvars
  <2>1. is_active' \in BOOLEAN
    BY <1>1, Zenon DEF IInv, DriversTypeOK, dvars, manager
  <2> QED BY <1>1, <2>1, SwitchInv DEF dvars, manager
<1>2. ASSUME NEW d \in Drivers, NEW v \in Lines, Construct(d, v), UNCHANGED manager
      PROVE  IInv'
  BY <1>2, ConstructInv
<1>3. ASSUME NEW d \in Drivers, Destroy(d), UNCHANGED manager
      PROVE  IInv'
  BY <1>3, DestroyInv
<1>4. ASSUME NEW d \in Built, RegisterDriver(d), UNCHANGED <<is_active, objects>>
      PROVE  IInv'
  BY <1>4, RegisterInv
<1>5. ASSUME NEW d \in Drivers, UnregisterDriver(d)
      PROVE  IInv'
  BY <1>5, UnregisterInv
<1>6. is_active \in BOOLEAN
  BY DEF IInv, DriversTypeOK
<1>7. CASE InitializeAllDrivers
  BY <1>6, <1>7, CallAllInv DEF InitializeAllDrivers, Phases
<1>8. CASE ActivateAllDrivers
  BY <1>8, CallAllInv DEF ActivateAllDrivers, Phases
<1>9. CASE DeactivateAllDrivers
  BY <1>9, CallAllInv DEF DeactivateAllDrivers, Phases
<1>10. CASE ResetAllDrivers
  BY <1>6, <1>10, CallAllInv DEF ResetAllDrivers, Phases
<1>11. CASE ShutdownAllDrivers
  BY <1>11, ShutdownInv
<1>12. ASSUME NEW active \in BOOLEAN, SetActive(active)
       PROVE  IInv'
  BY <1>12, SwitchInv DEF SetActive
<1> QED
  BY <1>1, <1>2, <1>3, <1>4, <1>5, <1>7, <1>8, <1>9, <1>10, <1>11, <1>12 DEF NextDrivers

(* However drivers are built, registered, taken off and destroyed, the     *)
(* table holds living drivers, each once, a driver outside it is not       *)
(* running, and each line's handler is the driver last built for it.       *)
THEOREM Invariance == DriversSpec => []IInv
  BY InitInv, NextInv, PTL DEF DriversSpec

(* The entry of a line in InterruptManager's table is the driver that was  *)
(* last constructed for it, while that one lives, and never a destroyed    *)
(* object: InterruptHandler's destructor takes nobody else's entry away.   *)
THEOREM LinesLead == DriversSpec => []LineHasLatest
<1>1. IInv => LineHasLatest
  BY DEF IInv
<1> QED BY <1>1, Invariance, PTL

(***************************************************************************)
(* The manager implements DriverList.                                      *)
(***************************************************************************)

LEMMA ListFacts ==
  ASSUME DriversTypeOK
  PROVE  /\ List \in Seq(Drivers \cup {NULL}) /\ Len(List) = driver_count
         /\ DOMAIN List = 1 .. driver_count
         /\ DL!Listed = Registered
<1>1. driver_count \in Nat /\ driver_count <= MAX_DRIVERS /\ MAX_DRIVERS \in Nat
  BY DriverAssumption DEF DriversTypeOK
<1>2. \A i \in 1 .. driver_count : i - 1 \in Slots
  BY <1>1 DEF Slots
<1>3. List \in [1 .. driver_count -> Drivers \cup {NULL}]
  BY <1>2 DEF List, DriversTypeOK
<1>4. DOMAIN List = 1 .. driver_count
  BY DEF List
<1>5. List \in Seq(Drivers \cup {NULL})
  BY <1>1, <1>3
<1> USE DEF DL!Listed, DL!ToSet
<1>6. DL!Listed \subseteq Registered
  BY <1>1, <1>4 DEF List, Registered
<1>7. ASSUME NEW i \in 0 .. (driver_count - 1) PROVE drivers[i] \in DL!Listed
  <2>1. i + 1 \in 1 .. driver_count /\ (i + 1) - 1 = i
    BY <1>1
  <2>2. List[i + 1] = drivers[i]
    BY <2>1 DEF List
  <2> QED BY <1>4, <2>1, <2>2
<1>8. DL!Listed = Registered
  BY <1>6, <1>7 DEF Registered
<1>9. Len(List) = driver_count
  BY <1>1, <1>4, <1>5
<1> QED BY <1>4, <1>5, <1>8, <1>9

LEMMA SameList ==
  ASSUME UNCHANGED <<drivers, driver_count>>
  PROVE  List' = List
BY DEF List

LEMMA InitRefines == InitDrivers => DL!Init
<1> SUFFICES ASSUME InitDrivers PROVE DL!Init
  OBVIOUS
<1>1. List = <<>>
  BY DEF InitDrivers, List
<1>2. is_active = FALSE
  BY Zenon DEF InitDrivers
<1>3. phase = [d \in Drivers |-> "absent"]
  BY DEF InitDrivers
<1> QED BY <1>1, <1>2, <1>3, Zenon DEF DL!Init

LEMMA ComeRefines ==
  ASSUME NEW d \in Drivers, NEW v \in Lines, Construct(d, v), UNCHANGED manager
  PROVE  DL!Come(d)
<1>1. List' = List
  BY SameList DEF manager
<1>2. is_active' = is_active
  BY Zenon DEF manager
<1> QED BY <1>1, <1>2, Zenon DEF Construct, DL!Come

LEMMA GoRefines ==
  ASSUME IInv, NEW d \in Drivers, Destroy(d), UNCHANGED manager
  PROVE  DL!Go(d)
<1>1. List' = List
  BY SameList DEF manager
<1>2. is_active' = is_active
  BY Zenon DEF manager
<1>3. d \notin DL!Listed
  BY ListFacts DEF IInv, Destroy
<1>4. phase[d] \in {"built", "deactivate"}
  BY DEF IInv, Quiet, Destroy
<1>5. phase' = [phase EXCEPT ![d] = "absent"]
  BY DEF Destroy
<1> QED BY <1>1, <1>2, <1>3, <1>4, <1>5, Zenon DEF DL!Go

LEMMA AddRefines ==
  ASSUME IInv, NEW d \in Built, RegisterDriver(d), UNCHANGED <<is_active, objects>>
  PROVE  DL!Add(d) \/ UNCHANGED <<List, phase, is_active>>
<1>1. is_active' = is_active /\ phase' = phase
  BY Zenon DEF objects
<1>2. CASE driver_count < MAX_DRIVERS /\ d \notin Registered
  <2>1. /\ driver_count' = driver_count + 1
        /\ drivers' = [drivers EXCEPT ![driver_count] = d]
        /\ driver_count \in Nat /\ driver_count \in Slots
    BY <1>2, DriverAssumption DEF IInv, RegisterDriver, DriversTypeOK, Slots
  <2>2. \A i \in 1 .. (driver_count + 1) :
          List'[i] = IF i = driver_count + 1 THEN d ELSE List[i]
    <3> SUFFICES ASSUME NEW i \in 1 .. (driver_count + 1)
                 PROVE  List'[i] = IF i = driver_count + 1 THEN d ELSE List[i]
      OBVIOUS
    <3>1. List'[i] = drivers'[i - 1]
      BY <2>1 DEF List
    <3>2. CASE i = driver_count + 1
      BY <2>1, <3>1, <3>2 DEF IInv, DriversTypeOK
    <3>3. CASE i # driver_count + 1
      <4>1. i \in 1 .. driver_count /\ i - 1 # driver_count /\ i - 1 \in Slots
        BY <1>2, <2>1, <3>3, DriverAssumption DEF Slots
      <4>2. drivers'[i - 1] = drivers[i - 1]
        BY <2>1, <4>1 DEF IInv, DriversTypeOK
      <4> QED BY <3>1, <3>3, <4>1, <4>2 DEF List
    <3> QED BY <3>2, <3>3
  <2>3. List' = [i \in 1 .. (driver_count + 1) |-> List'[i]]
    BY <2>1 DEF List
  <2>4. List' = Append(List, d)
    BY <2>1, <2>2, <2>3, ListFacts DEF IInv
  <2>5. d \notin DL!Listed /\ Len(List) < MAX_DRIVERS
    BY <1>2, ListFacts DEF IInv, DriversTypeOK
  <2>6. phase[d] # "absent"
    BY DEF Built
  <2>7. DL!Add(d)
    BY <1>1, <2>4, <2>5, <2>6, Zenon DEF DL!Add
  <2> QED BY <2>7
<1>3. CASE ~(driver_count < MAX_DRIVERS /\ d \notin Registered)
  <2>1. List' = List
    BY <1>3, SameList DEF RegisterDriver
  <2> QED BY <1>1, <2>1, Zenon
<1> QED BY <1>2, <1>3

LEMMA DropRefines ==
  ASSUME IInv, NEW d \in Drivers, UnregisterDriver(d)
  PROVE  DL!Drop(d)
<1> DEFINE n == Find(d)
<1>1. n \in Used /\ drivers[n] = d
  BY FindFinds DEF UnregisterDriver
<1>2. drivers' = Shift(n) /\ driver_count' = driver_count - 1
  BY DEF UnregisterDriver
<1> HIDE DEF n
<1>3. /\ driver_count \in Nat /\ driver_count <= MAX_DRIVERS
      /\ n \in Nat /\ n < driver_count
  BY <1>1, DriverAssumption DEF IInv, DriversTypeOK, Used
<1>4. n + 1 \in DOMAIN List /\ List[n + 1] = d
  BY <1>1, <1>3, ListFacts DEF IInv, List
<1>5. \A i \in 1 .. (driver_count - 1) :
        List'[i] = List[IF i < n + 1 THEN i ELSE i + 1]
  <2> SUFFICES ASSUME NEW i \in 1 .. (driver_count - 1)
               PROVE  List'[i] = List[IF i < n + 1 THEN i ELSE i + 1]
    OBVIOUS
  <2>1. List'[i] = drivers'[i - 1]
    BY <1>2, <1>3 DEF List
  <2>2. drivers'[i - 1] = drivers[IF i - 1 < n THEN i - 1 ELSE (i - 1) + 1]
    BY <1>1, <1>2, <1>3, Shifted DEF IInv
  <2>3. List[IF i < n + 1 THEN i ELSE i + 1] = drivers[IF i - 1 < n THEN i - 1 ELSE (i - 1) + 1]
    BY <1>3 DEF List
  <2> QED BY <2>1, <2>2, <2>3
<1>6. DOMAIN (List') = 1 .. (driver_count - 1)
  BY <1>2, <1>3 DEF List
<1>7. List' = DL!RemoveAt(List, n + 1)
  <2>1. List \in Seq(Drivers \cup {NULL}) /\ Len(List) = driver_count
    BY ListFacts DEF IInv
  <2> DEFINE R == SubSeq(List, 1, n) \o SubSeq(List, n + 2, driver_count)
  <2>2. R \in Seq(Drivers \cup {NULL}) /\ Len(R) = driver_count - 1
    BY <1>3, <2>1
  <2>3. \A i \in 1 .. (driver_count - 1) :
          R[i] = List[IF i < n + 1 THEN i ELSE i + 1]
    BY <1>3, <2>1
  <2>4. DL!RemoveAt(List, n + 1) = R
    BY <1>3, <2>1 DEF DL!RemoveAt
  <2>5. List' = [i \in 1 .. (driver_count - 1) |-> List'[i]]
    BY <1>2, <1>3 DEF List
  <2> HIDE DEF R
  <2>6. R = [i \in 1 .. (driver_count - 1) |-> R[i]]
    <3>1. R = [i \in 1 .. Len(R) |-> R[i]]
      BY <2>2
    <3> QED BY <2>2, <3>1
  <2>7. List' = R
    BY <1>5, <2>3, <2>5, <2>6
  <2> QED BY <2>4, <2>7
<1>8. phase' = [phase EXCEPT ![d] = "deactivate"]
  BY DEF UnregisterDriver
<1>9. is_active' = is_active
  BY Zenon DEF UnregisterDriver
<1> QED BY <1>4, <1>7, <1>8, <1>9, Zenon DEF DL!Drop

LEMMA CalledRefines ==
  ASSUME IInv, NEW f, CallAll(f)
  PROVE  DL!CallAll(f)
BY ListFacts DEF IInv, CallAll, DL!CallAll

LEMMA NextRefines ==
  ASSUME IInv, [NextDrivers]_dvars
  PROVE  [DL!Next]_<<List, phase, is_active>>
<1> DEFINE Done == [DL!Next]_<<List, phase, is_active>>
<1>1. CASE UNCHANGED dvars
  <2>1. List' = List
    BY <1>1, SameList DEF dvars, manager
  <2>2. phase' = phase /\ is_active' = is_active
    BY <1>1, Zenon DEF dvars, manager, objects
  <2> QED BY <2>1, <2>2, Zenon
<1>2. ASSUME NEW d \in Drivers, NEW v \in Lines, Construct(d, v), UNCHANGED manager
      PROVE  Done
  BY <1>2, ComeRefines, Zenon DEF DL!Next
<1>3. ASSUME NEW d \in Drivers, Destroy(d), UNCHANGED manager
      PROVE  Done
  BY <1>3, GoRefines, Zenon DEF DL!Next
<1>4. ASSUME NEW d \in Built, RegisterDriver(d), UNCHANGED <<is_active, objects>>
      PROVE  Done
  <2>1. d \in Drivers
    BY DEF Built
  <2> QED BY <1>4, <2>1, AddRefines, Zenon DEF DL!Next
<1>5. ASSUME NEW d \in Drivers, UnregisterDriver(d)
      PROVE  Done
  BY <1>5, DropRefines, Zenon DEF DL!Next
<1>6. ASSUME Unmoved PROVE List' = List
  BY <1>6, SameList DEF Unmoved
<1>7. CASE InitializeAllDrivers
  <2>1. is_active' = is_active
    BY <1>7, Zenon DEF InitializeAllDrivers
  <2>2. DL!CallAll("initialize") /\ List' = List
    BY <1>6, <1>7, CalledRefines DEF InitializeAllDrivers
  <2>3. DL!All("initialize")
    BY <2>1, <2>2, Zenon DEF DL!All
  <2> QED BY <2>3, Zenon DEF DL!Next
<1>8. CASE ActivateAllDrivers
  <2>1. is_active' = TRUE
    BY <1>8, Zenon DEF ActivateAllDrivers
  <2>2. DL!CallAll("activate") /\ List' = List
    BY <1>6, <1>8, CalledRefines DEF ActivateAllDrivers
  <2>3. DL!All("activate")
    BY <2>1, <2>2, Zenon DEF DL!All
  <2> QED BY <2>3, Zenon DEF DL!Next
<1>9. CASE DeactivateAllDrivers
  <2>1. is_active' = FALSE
    BY <1>9, Zenon DEF DeactivateAllDrivers
  <2>2. DL!CallAll("deactivate") /\ List' = List
    BY <1>6, <1>9, CalledRefines DEF DeactivateAllDrivers
  <2>3. DL!All("deactivate")
    BY <2>1, <2>2, Zenon DEF DL!All
  <2> QED BY <2>3, Zenon DEF DL!Next
<1>10. CASE ResetAllDrivers
  <2>1. is_active' = is_active
    BY <1>10, Zenon DEF ResetAllDrivers
  <2>2. DL!CallAll("reset") /\ List' = List
    BY <1>6, <1>10, CalledRefines DEF ResetAllDrivers
  <2>3. DL!All("reset")
    BY <2>1, <2>2, Zenon DEF DL!All
  <2> QED BY <2>3, Zenon DEF DL!Next
<1>11. CASE ShutdownAllDrivers
  <2>1. is_active' = FALSE
    BY <1>11, Zenon DEF ShutdownAllDrivers
  <2>2. List' = <<>>
    BY <1>11 DEF ShutdownAllDrivers, List
  <2>3. DL!CallAll("deactivate")
    BY <1>11, CalledRefines DEF ShutdownAllDrivers
  <2>4. DL!Shutdown
    BY <2>1, <2>2, <2>3, Zenon DEF DL!Shutdown
  <2> QED BY <2>4, Zenon DEF DL!Next
<1>12. ASSUME NEW active \in BOOLEAN, SetActive(active)
       PROVE  Done
  <2>1. List' = List /\ phase' = phase
    BY <1>12, SameList DEF SetActive, objects
  <2>2. DL!Switch(active)
    BY <1>12, <2>1, Zenon DEF SetActive, DL!Switch
  <2> QED BY <2>2, Zenon DEF DL!Next
<1> QED
  BY <1>1, <1>2, <1>3, <1>4, <1>5, <1>7, <1>8, <1>9, <1>10, <1>11, <1>12 DEF NextDrivers

(* Whatever order its functions are called in, the manager is a list of    *)
(* distinct drivers in the order of registration: unregister_driver() takes*)
(* off the driver it is given and no other, every lifecycle function       *)
(* reaches exactly the drivers listed, and a driver that is destroyed is   *)
(* not running.                                                            *)
THEOREM Refinement == DriversSpec => ImplementsDriverList
<1>1. IInv /\ [NextDrivers]_dvars => [DL!Next]_(DL!listvars)
  BY NextRefines DEF DL!listvars
<1> QED BY <1>1, InitRefines, Invariance, PTL DEF DriversSpec, ImplementsDriverList, DL!Spec

=============================================================================
