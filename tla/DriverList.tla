----------------------------- MODULE DriverList -----------------------------
(***************************************************************************)
(* What a user of the driver manager relies on: a list of distinct         *)
(* drivers, no longer than Capacity, in the order of their registration,   *)
(* and for each driver the last lifecycle function called on it.  A driver *)
(* that is taken off the list has been deactivated.                        *)
(***************************************************************************)
EXTENDS Naturals, Sequences, SequencesExt

CONSTANTS Drivers, Capacity

VARIABLES list, phase, on

listvars == <<list, phase, on>>

Listed == ToSet(list)

(* f is called on every driver of the list.                                *)
CallAll(f) ==
  phase' = [d \in Drivers |-> IF d \in Listed THEN f ELSE phase[d]]

Init ==
  /\ list = <<>> /\ on = FALSE
  /\ phase = [d \in Drivers |-> "absent"]

(* A driver comes into being, or goes, while it is not listed.             *)
Come(d) ==
  /\ phase[d] = "absent"
  /\ phase' = [phase EXCEPT ![d] = "built"]
  /\ UNCHANGED <<list, on>>

Go(d) ==
  /\ d \notin Listed /\ phase[d] \in {"built", "deactivate"}
  /\ phase' = [phase EXCEPT ![d] = "absent"]
  /\ UNCHANGED <<list, on>>

Add(d) ==
  /\ d \notin Listed /\ phase[d] # "absent" /\ Len(list) < Capacity
  /\ list' = Append(list, d)
  /\ UNCHANGED <<phase, on>>

Drop(d) ==
  /\ \E i \in DOMAIN list : list[i] = d /\ list' = RemoveAt(list, i)
  /\ phase' = [phase EXCEPT ![d] = "deactivate"]
  /\ UNCHANGED on

All(f) ==
  /\ CallAll(f)
  /\ on' = CASE f = "activate" -> TRUE [] f = "deactivate" -> FALSE [] OTHER -> on
  /\ UNCHANGED list

Shutdown ==
  /\ CallAll("deactivate")
  /\ list' = <<>> /\ on' = FALSE

Switch(b) == on' = b /\ UNCHANGED <<list, phase>>

Next ==
  \/ \E d \in Drivers : Come(d) \/ Go(d) \/ Add(d) \/ Drop(d)
  \/ \E f \in {"initialize", "activate", "deactivate", "reset"} : All(f)
  \/ Shutdown
  \/ \E b \in BOOLEAN : Switch(b)

Spec == Init /\ [][Next]_listvars

=============================================================================
