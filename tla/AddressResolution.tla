-------------------------- MODULE AddressResolution --------------------------
(***************************************************************************)
(* The address resolution protocol, src/src/arp.cpp.                       *)
(*                                                                         *)
(* kernel_main calls resolve(), which searches the cache, asks once, and   *)
(* searches again until it finds an entry; the interrupt handler calls     *)
(* on_ether_frame_received() between any two of its steps, which fills the *)
(* cache and turns requests into answers.  The stations of the network may *)
(* be given another adapter; messages are lost, duplicated and reordered.  *)
(*                                                                         *)
(* The caller of on_ether_frame_received() is outside of this module, and  *)
(* at this commit outside of the program: the virtual function that the    *)
(* frame provider calls has another name.  It is taken to keep the         *)
(* provider's convention, that a message for which the handler answers     *)
(* true is sent back as the handler left it.                               *)
(***************************************************************************)
EXTENDS Integers, FiniteSets

CONSTANTS
  CacheSize,    (* the length of ip_cache and mac_cache: 128 in the code    *)
  Stations,     (* IP addresses of the other stations                       *)
  Adapters,     (* their MAC addresses                                      *)
  OurIp, OurMac, Broadcast,
  MaxResolves,  (* bound on the calls of resolve()                          *)
  MaxMessages   (* bound on the messages stations send                      *)

ASSUME AddressAssumption ==
  /\ CacheSize \in Nat \ {0}
  /\ OurIp \notin Stations
  /\ Broadcast \notin Adapters     (* the value that stands for "not found" *)
  /\ MaxResolves \in Nat /\ MaxMessages \in Nat

VARIABLES
  ip_cache, mac_cache, num_cache_entries,
  pc,           (* where resolve() is                                       *)
  ip,           (* its argument                                             *)
  i,            (* get_mac_from_cache()'s index                             *)
  result,       (* what the last call of resolve() returned                 *)
  mac,          (* station |-> the address of its adapter                   *)
  network,      (* the messages sent to us so far                           *)
  answers,      (* the answers we have sent                                 *)
  resolves, messages,
  claimed,      (* history: <<ip, mac>> of the answers sent to us           *)
  askers,       (* history: <<ip, mac>> of those who asked for our address  *)
  resolved      (* history: <<ip, mac>> that resolve() has returned         *)

cache    == <<ip_cache, mac_cache, num_cache_entries>>
resolver == <<pc, ip, i, result, resolves, resolved>>
others   == <<mac, messages, claimed, askers>>
vars     == <<cache, resolver, others, network, answers>>

Slots == 0 .. (CacheSize - 1)
Ips   == Stations \cup {OurIp}
Macs  == Adapters \cup {OurMac, Broadcast}
Junk  == "junk"     (* what an array holds before it is written             *)

Message == [command : {"request", "response"}, valid : BOOLEAN,
            source_ip : Ips, source_mac : Macs,
            destination_ip : Ips, destination_mac : Macs]

(* The constructor leaves both arrays as it finds them: an entry may look  *)
(* like an address.                                                        *)
Init ==
  /\ ip_cache \in [Slots -> Stations \cup {Junk}]
  /\ mac_cache = [s \in Slots |-> Junk]
  /\ num_cache_entries = 0
  /\ pc = "idle" /\ ip = OurIp /\ i = 0 /\ result = Broadcast
  /\ mac \in [Stations -> Adapters]
  /\ network = {} /\ answers = {}
  /\ resolves = 0 /\ messages = 0
  /\ claimed = {} /\ askers = {} /\ resolved = {}

-----------------------------------------------------------------------------
(* The other stations.                                                     *)

Send(m) ==
  /\ messages < MaxMessages /\ messages' = messages + 1
  /\ network' = network \cup {m}

From(s, command, valid, to) ==
  [command |-> command, valid |-> valid, source_ip |-> s, source_mac |-> mac[s],
   destination_ip |-> to, destination_mac |-> OurMac]

(* A station gives us its address: asked or not, and more than once, if it *)
(* pleases.  What our requests asked for makes no difference.              *)
Answer(s) ==
  /\ Send(From(s, "response", TRUE, OurIp))
  /\ claimed' = claimed \cup {<<s, mac[s]>>}
  /\ UNCHANGED <<cache, resolver, mac, askers, answers>>

(* A station asks for an address, or sends what is not for us or is no     *)
(* message of this protocol.                                               *)
Ask(s, to) ==
  /\ Send(From(s, "request", TRUE, to))
  /\ askers' = IF to = OurIp THEN askers \cup {<<s, mac[s]>>} ELSE askers
  /\ UNCHANGED <<cache, resolver, mac, claimed, answers>>

Stray(s, valid, to) ==
  /\ valid => to # OurIp
  /\ Send(From(s, "response", valid, to))
  /\ UNCHANGED <<cache, resolver, mac, claimed, askers, answers>>

ChangeAdapter(s, a) ==
  /\ messages < MaxMessages /\ messages' = messages + 1
  /\ mac' = [mac EXCEPT ![s] = a]
  /\ UNCHANGED <<cache, resolver, network, claimed, askers, answers>>

-----------------------------------------------------------------------------
(* on_ether_frame_received(): the interrupt handler's part.                *)

ForUs(m) == m.valid /\ m.destination_ip = OurIp

(* Mutant: the source is replaced before it is copied.                     *)
ReplyToSelf(m) ==
  [m EXCEPT !.command = "response",
            !.source_ip = OurIp, !.source_mac = OurMac,
            !.destination_ip = OurIp, !.destination_mac = OurMac]

Reply(m) ==
  [m EXCEPT !.command = "response",
            !.destination_ip = m.source_ip, !.destination_mac = m.source_mac,
            !.source_ip = OurIp, !.source_mac = OurMac]

(* Mutant: the newest entry for an address replaces the older ones.        *)
StoreOver(m) ==
  LET s == CHOOSE s \in 0 .. num_cache_entries :
             /\ s < num_cache_entries => ip_cache[s] = m.source_ip
             /\ \A t \in 0 .. (s - 1) : ip_cache[t] # m.source_ip
  IN  IF s < CacheSize
        THEN /\ ip_cache'  = [ip_cache EXCEPT ![s] = m.source_ip]
             /\ mac_cache' = [mac_cache EXCEPT ![s] = m.source_mac]
             /\ num_cache_entries' =
                  IF s = num_cache_entries THEN s + 1 ELSE num_cache_entries
        ELSE UNCHANGED cache

(* Mutant: the last entry is overwritten when the cache is full, and       *)
(* counted again.                                                          *)
StoreUnchecked(m) ==
  LET s == IF num_cache_entries < CacheSize THEN num_cache_entries ELSE CacheSize - 1
  IN  /\ ip_cache'  = [ip_cache EXCEPT ![s] = m.source_ip]
      /\ mac_cache' = [mac_cache EXCEPT ![s] = m.source_mac]
      /\ num_cache_entries' = num_cache_entries + 1

Store(m) ==
  IF num_cache_entries < CacheSize
    THEN /\ ip_cache'  = [ip_cache EXCEPT ![num_cache_entries] = m.source_ip]
         /\ mac_cache' = [mac_cache EXCEPT ![num_cache_entries] = m.source_mac]
         /\ num_cache_entries' = num_cache_entries + 1
    ELSE UNCHANGED cache

OnEtherFrameReceived(m) ==
  \/ ForUs(m) /\ m.command = "request"
       /\ answers' = answers \cup {Reply(m)} /\ UNCHANGED cache
  \/ ForUs(m) /\ m.command = "response" /\ Store(m) /\ UNCHANGED answers
  \/ ~ForUs(m) /\ UNCHANGED <<cache, answers>>

(* A message is delivered late, more than once or never: none is removed.  *)
Deliver(m) ==
  /\ OnEtherFrameReceived(m)
  /\ UNCHANGED <<resolver, others, network>>

-----------------------------------------------------------------------------
(* resolve(), in kernel_main.                                              *)

Call(s) ==
  /\ pc = "idle" /\ resolves < MaxResolves
  /\ ip' = s /\ i' = 0 /\ pc' = "first" /\ resolves' = resolves + 1
  /\ UNCHANGED <<cache, others, network, answers, result, resolved>>

(* Mutant: one entry too many is looked at.                                *)
MoreInclusive == i <= num_cache_entries /\ i \in Slots

More == i < num_cache_entries

Found == ip_cache[i] = ip

(* get_mac_from_cache() finds an entry, and resolve() returns it.          *)
Return ==
  /\ pc \in {"first", "again"} /\ More /\ Found
  /\ result' = mac_cache[i] /\ resolved' = resolved \cup {<<ip, mac_cache[i]>>}
  /\ pc' = "idle" /\ ip' = OurIp /\ i' = 0
  /\ UNCHANGED <<cache, others, network, answers, resolves>>

Advance ==
  /\ pc \in {"first", "again"} /\ More /\ ~Found
  /\ i' = i + 1
  /\ UNCHANGED <<cache, others, network, answers, pc, ip, result, resolves, resolved>>

(* Mutant: the search goes on where it left off.                           *)
NotFoundGoOn ==
  /\ pc \in {"first", "again"} /\ ~More
  /\ pc' = IF pc = "first" THEN "request" ELSE "again"
  /\ i' = num_cache_entries + 1
  /\ UNCHANGED <<cache, others, network, answers, ip, result, resolves, resolved>>

(* It does not: resolve() asks, once, and then searches again.             *)
NotFound ==
  /\ pc \in {"first", "again"} /\ ~More
  /\ pc' = IF pc = "first" THEN "request" ELSE "again"
  /\ i' = 0
  /\ UNCHANGED <<cache, others, network, answers, ip, result, resolves, resolved>>

RequestMacAddress ==
  /\ pc = "request"
  /\ pc' = "again" /\ i' = 0
  /\ UNCHANGED <<cache, others, network, answers, ip, result, resolves, resolved>>

Resolve == Return \/ Advance \/ NotFound \/ RequestMacAddress

Next ==
  \/ \E s \in Stations :
       \/ Answer(s) \/ Call(s)
       \/ \E to \in Ips : Ask(s, to) \/ \E valid \in BOOLEAN : Stray(s, valid, to)
       \/ \E a \in Adapters : ChangeAdapter(s, a)
  \/ \E m \in network : Deliver(m)
  \/ Resolve

Spec == Init /\ [][Next]_vars /\ WF_vars(Resolve)

-----------------------------------------------------------------------------

TypeOK ==
  /\ ip_cache \in [Slots -> Stations \cup {Junk}]
  /\ mac_cache \in [Slots -> Adapters \cup {Junk}]
  /\ num_cache_entries \in 0 .. CacheSize
  /\ pc \in {"idle", "first", "request", "again"}
  /\ ip \in Ips /\ i \in 0 .. CacheSize
  /\ result \in Macs
  /\ mac \in [Stations -> Adapters]
  /\ network \subseteq Message /\ answers \subseteq Message
  /\ claimed \subseteq Stations \X Adapters
  /\ askers \subseteq Stations \X Adapters
  /\ resolved \subseteq Stations \X Adapters
  /\ resolves \in 0 .. MaxResolves /\ messages \in 0 .. MaxMessages

Entries == {<<ip_cache[s], mac_cache[s]>> : s \in 0 .. (num_cache_entries - 1)}

Known(s) == \E e \in Entries : e[1] = s

(* resolve() returns what a station has answered to us for that address,   *)
(* never an entry that was not written, one of a message for somebody else *)
(* or one half written, although the handler writes while it searches.     *)
ResolvesWhatWasAnswered == resolved \subseteq claimed

(* Whatever is answered later, lost or sent twice, and although stations   *)
(* change adapters, two calls of resolve() for an address return the same. *)
ResolvesAgree ==
  \A r, q \in resolved : r[1] = q[1] => r[2] = q[2]

(* What is sent in answer goes to one that asked for our address, at the   *)
(* address it gave, and gives ours.                                        *)
AnswersGoToAskers ==
  \A m \in answers :
    /\ m.command = "response"
    /\ <<m.destination_ip, m.destination_mac>> \in askers
    /\ m.source_ip = OurIp /\ m.source_mac = OurMac

(* resolve() returns if an entry for its address is stored at any time, no *)
(* matter where its search was then.                                       *)
ResolveReturns ==
  \A s \in Stations : (pc # "idle" /\ ip = s /\ Known(s)) ~> pc = "idle"

=============================================================================
