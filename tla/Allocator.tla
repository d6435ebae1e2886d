------------------------------ MODULE Allocator ------------------------------
(***************************************************************************)
(* What the kernel heap promises its callers, with no chunk list: a set of *)
(* live blocks inside an arena.  A successful allocation adds one block    *)
(* that is at least as large as the request and touches no other live      *)
(* block; a release removes exactly the block it names; a failed           *)
(* allocation changes nothing (it is a stuttering step here).              *)
(***************************************************************************)
EXTENDS Integers

CONSTANTS
  ArenaStart,   (* first byte that may be handed out          *)
  ArenaEnd,     (* first byte beyond the arena                *)
  Requests      (* the sizes that callers ask for             *)

VARIABLE live   (* address of a live block |-> its size       *)

Init == live = [a \in {} |-> 0]

Clear(a, s, b, t) == a + s <= b \/ b + t <= a

Allocate(n) ==
  \E a \in ArenaStart .. ArenaEnd, s \in 0 .. (ArenaEnd - ArenaStart) :
    /\ s >= n
    /\ a + s <= ArenaEnd
    /\ a \notin DOMAIN live
    /\ \A b \in DOMAIN live : Clear(a, s, b, live[b])
    /\ live' = [b \in DOMAIN live \cup {a} |-> IF b = a THEN s ELSE live[b]]

Release(a) ==
  /\ a \in DOMAIN live
  /\ live' = [b \in DOMAIN live \ {a} |-> live[b]]

Next ==
  \/ \E n \in Requests : Allocate(n)
  \/ \E a \in DOMAIN live : Release(a)

Spec == Init /\ [][Next]_live
=============================================================================
