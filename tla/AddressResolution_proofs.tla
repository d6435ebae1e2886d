---------------------- MODULE AddressResolution_proofs ----------------------
(***************************************************************************)
(* Proofs about AddressResolution, for every size of the cache, every set  *)
(* of stations and adapters, and any number of calls and messages.         *)
(***************************************************************************)
EXTENDS AddressResolution, TLAPS

(* What is under way to us was sent by one the history remembers.          *)
Honest ==
  \A m \in network : ForUs(m) =>
    /\ m.command = "response" => <<m.source_ip, m.source_mac>> \in claimed
    /\ m.command = "request"  => <<m.source_ip, m.source_mac>> \in askers

(* So was each entry of the cache that counts.                             *)
Written ==
  \A s \in 0 .. (num_cache_entries - 1) : <<ip_cache[s], mac_cache[s]>> \in claimed

(* The entries that a search has passed are not of its address.            *)
Searched ==
  /\ pc # "idle" => ip \in Stations
  /\ pc \in {"first", "again"} =>
       i <= num_cache_entries /\ \A s \in 0 .. (i - 1) : ip_cache[s] # ip

(* Entry s is the first of its address, and says what r says.              *)
IsFirst(r, s) ==
  /\ ip_cache[s] = r[1] /\ mac_cache[s] = r[2]
  /\ \A t \in 0 .. (s - 1) : ip_cache[t] # r[1]

(* What resolve() has returned is the first entry of its address.          *)
Remembered ==
  \A r \in resolved : \E s \in 0 .. (num_cache_entries - 1) : IsFirst(r, s)

IInv == TypeOK /\ Honest /\ Written /\ Searched /\ Remembered

(***************************************************************************)
(* The invariant is inductive.                                             *)
(***************************************************************************)

LEMMA InitInv == Init => IInv
  BY AddressAssumption
  DEF Init, IInv, TypeOK, Honest, Written, Searched, Remembered, Slots, Ips, Macs

(* A reply is a message to the source of what it replies to.               *)
LEMMA ReplyTyped ==
  ASSUME NEW m \in Message
  PROVE  /\ Reply(m) \in Message
         /\ Reply(m).command = "response"
         /\ Reply(m).destination_ip = m.source_ip
         /\ Reply(m).destination_mac = m.source_mac
         /\ Reply(m).source_ip = OurIp /\ Reply(m).source_mac = OurMac
  BY DEF Reply, Message, Ips, Macs

(* Steps that leave cache and resolver alone leave alone what only speaks  *)
(* of them, as long as the history of claims does not shrink.              *)
LEMMA CacheUntouched ==
  ASSUME IInv, UNCHANGED <<cache, resolver>>, claimed \subseteq claimed'
  PROVE  Written' /\ Searched' /\ Remembered'
  BY DEF IInv, Written, Searched, Remembered, IsFirst, cache, resolver

(* A response for us extends the cache at its end, or is dropped.          *)
LEMMA StoreKeeps ==
  ASSUME IInv, NEW m \in network, ForUs(m), m.command = "response",
         Store(m), UNCHANGED <<resolver, others, network, answers>>
  PROVE  IInv'
<1> USE DEF resolver, others
<1>1. CASE num_cache_entries < CacheSize
  <2>0. /\ ip_cache'  = [ip_cache EXCEPT ![num_cache_entries] = m.source_ip]
        /\ mac_cache' = [mac_cache EXCEPT ![num_cache_entries] = m.source_mac]
        /\ num_cache_entries' = num_cache_entries + 1
    BY <1>1 DEF Store
  <2>1. /\ num_cache_entries \in Nat /\ num_cache_entries \in Slots
        /\ ip_cache \in [Slots -> Stations \cup {Junk}]
        /\ mac_cache \in [Slots -> Adapters \cup {Junk}]
        /\ \A s \in 0 .. (num_cache_entries - 1) : s \in Slots
    BY <1>1, AddressAssumption DEF IInv, TypeOK, Slots
  <2>2. /\ <<m.source_ip, m.source_mac>> \in claimed
        /\ m.source_ip \in Stations /\ m.source_mac \in Adapters
    BY DEF IInv, Honest, TypeOK
  <2>3. \A s \in 0 .. (num_cache_entries - 1) :
           ip_cache'[s] = ip_cache[s] /\ mac_cache'[s] = mac_cache[s]
    BY <2>0, <2>1
  <2>4. /\ ip_cache'[num_cache_entries] = m.source_ip
        /\ mac_cache'[num_cache_entries] = m.source_mac
    BY <2>0, <2>1
  <2>5. TypeOK'
    BY <1>1, <2>0, <2>1, <2>2, AddressAssumption DEF IInv, TypeOK
  <2>6. Honest'
    BY DEF IInv, Honest, ForUs
  <2>7. Written'
    BY <2>0, <2>1, <2>2, <2>3, <2>4 DEF IInv, Written
  <2>8. Searched'
    BY <2>0, <2>1, <2>3 DEF IInv, Searched, TypeOK
  <2>9. Remembered'
    <3> SUFFICES ASSUME NEW r \in resolved
                 PROVE  \E s \in 0 .. (num_cache_entries' - 1) : IsFirst(r, s)'
      BY DEF Remembered
    <3>1. PICK s \in 0 .. (num_cache_entries - 1) : IsFirst(r, s)
      BY DEF IInv, Remembered
    <3>2. s \in 0 .. (num_cache_entries' - 1)
      BY <2>0, <2>1
    <3>3. IsFirst(r, s)'
      BY <3>1, <2>1, <2>3 DEF IsFirst
    <3> QED BY <3>2, <3>3
  <2> QED BY <2>5, <2>6, <2>7, <2>8, <2>9 DEF IInv
<1>2. CASE ~(num_cache_entries < CacheSize)
  <2>1. UNCHANGED cache
    BY <1>2 DEF Store
  <2>2. Written' /\ Searched' /\ Remembered'
    BY <2>1, CacheUntouched
  <2> QED BY <2>1, <2>2 DEF IInv, TypeOK, Honest, ForUs, cache
<1> QED BY <1>1, <1>2

(* resolve() returns the first entry of its address.                       *)
LEMMA ReturnKeeps == ASSUME IInv, Return PROVE IInv'
<1> USE DEF cache, others
<1>1. /\ i \in 0 .. (num_cache_entries - 1) /\ ip_cache[i] = ip /\ ip \in Stations
      /\ \A s \in 0 .. (i - 1) : ip_cache[s] # ip
      /\ <<ip, mac_cache[i]>> \in claimed
  BY DEF IInv, TypeOK, Searched, Written, Return, More, Found
<1>2. mac_cache[i] \in Adapters
  BY <1>1 DEF IInv, TypeOK
<1>3. TypeOK'
  BY <1>1, <1>2, AddressAssumption DEF IInv, TypeOK, Return, Macs, Ips
<1>4. Honest' /\ Written' /\ Searched'
  BY DEF IInv, Honest, Written, Searched, Return, ForUs
<1>5. Remembered'
  <2> SUFFICES ASSUME NEW r \in resolved'
               PROVE  \E s \in 0 .. (num_cache_entries' - 1) : IsFirst(r, s)'
    BY DEF Remembered
  <2>0. UNCHANGED <<ip_cache, mac_cache, num_cache_entries>>
    BY DEF Return
  <2>1. CASE r \in resolved
    BY <2>0, <2>1 DEF IInv, Remembered, IsFirst
  <2>2. CASE r = <<ip, mac_cache[i]>>
    <3>1. PICK s \in 0 .. (num_cache_entries - 1) : s = i
      BY <1>1
    <3>2. /\ ip_cache[s] = r[1] /\ mac_cache[s] = r[2]
          /\ \A q \in 0 .. (s - 1) : ip_cache[q] # r[1]
      BY <1>1, <2>2, <3>1
    <3> QED BY <2>0, <3>1, <3>2 DEF IsFirst
  <2> QED BY <2>1, <2>2 DEF Return
<1> QED BY <1>3, <1>4, <1>5 DEF IInv

LEMMA NextInv == ASSUME IInv, [Next]_vars PROVE IInv'
<1>1. ASSUME NEW s \in Stations, Answer(s) PROVE IInv'
  <2> DEFINE m == From(s, "response", TRUE, OurIp)
  <2>1. /\ m \in Message /\ m.command = "response" /\ m.source_ip = s
        /\ m.source_mac = mac[s] /\ mac[s] \in Adapters
    BY DEF IInv, TypeOK, From, Message, Ips, Macs
  <2> HIDE DEF m
  <2>2. /\ network' = network \cup {m} /\ claimed' = claimed \cup {<<s, mac[s]>>}
        /\ messages < MaxMessages /\ messages' = messages + 1
        /\ UNCHANGED <<cache, resolver, mac, askers, answers>>
    BY <1>1 DEF Answer, Send, m
  <2>3. TypeOK'
    BY <2>1, <2>2, AddressAssumption DEF IInv, TypeOK, cache, resolver
  <2>4. Honest'
    BY <2>1, <2>2 DEF IInv, Honest, ForUs
  <2> QED BY <2>2, <2>3, <2>4, CacheUntouched DEF IInv
<1>2. ASSUME NEW s \in Stations, NEW to \in Ips, Ask(s, to) PROVE IInv'
  <2> DEFINE m == From(s, "request", TRUE, to)
  <2>1. /\ m \in Message /\ m.command = "request" /\ m.source_ip = s
        /\ m.source_mac = mac[s] /\ m.destination_ip = to /\ mac[s] \in Adapters
    BY DEF IInv, TypeOK, From, Message, Ips, Macs
  <2> HIDE DEF m
  <2>2. /\ network' = network \cup {m}
        /\ askers' = IF to = OurIp THEN askers \cup {<<s, mac[s]>>} ELSE askers
        /\ messages < MaxMessages /\ messages' = messages + 1
        /\ UNCHANGED <<cache, resolver, mac, claimed, answers>>
    BY <1>2 DEF Ask, Send, m
  <2>3. TypeOK'
    BY <2>1, <2>2, AddressAssumption DEF IInv, TypeOK, cache, resolver
  <2>4. Honest'
    BY <2>1, <2>2 DEF IInv, Honest, ForUs
  <2> QED BY <2>2, <2>3, <2>4, CacheUntouched DEF IInv
<1>3. ASSUME NEW s \in Stations, NEW to \in Ips, NEW valid \in BOOLEAN,
             Stray(s, valid, to)
      PROVE  IInv'
  <2> DEFINE m == From(s, "response", valid, to)
  <2>1. /\ m \in Message /\ m.destination_ip = to /\ m.valid = valid
    BY DEF IInv, TypeOK, From, Message, Ips, Macs
  <2> HIDE DEF m
  <2>2. /\ network' = network \cup {m} /\ (valid => to # OurIp)
        /\ messages < MaxMessages /\ messages' = messages + 1
        /\ UNCHANGED <<cache, resolver, mac, claimed, askers, answers>>
    BY <1>3 DEF Stray, Send, m
  <2>3. TypeOK'
    BY <2>1, <2>2, AddressAssumption DEF IInv, TypeOK, cache, resolver
  <2>4. Honest'
    BY <2>1, <2>2 DEF IInv, Honest, ForUs
  <2> QED BY <2>2, <2>3, <2>4, CacheUntouched DEF IInv
<1>4. ASSUME NEW s \in Stations, NEW a \in Adapters, ChangeAdapter(s, a)
      PROVE  IInv'
  <2>1. TypeOK' /\ Honest'
    BY <1>4, AddressAssumption
    DEF IInv, TypeOK, Honest, ForUs, ChangeAdapter, cache, resolver
  <2> QED BY <1>4, <2>1, CacheUntouched DEF IInv, ChangeAdapter
<1>5. ASSUME NEW s \in Stations, Call(s) PROVE IInv'
  BY <1>5, AddressAssumption
  DEF IInv, TypeOK, Honest, Written, Searched, Remembered, IsFirst, ForUs, Call, Ips,
      cache, others
<1>6. ASSUME NEW m \in network, Deliver(m) PROVE IInv'
  <2>1. CASE ForUs(m) /\ m.command = "response" /\ Store(m) /\ UNCHANGED answers
    BY <1>6, <2>1, StoreKeeps DEF Deliver
  <2>2. CASE /\ ForUs(m) /\ m.command = "request"
             /\ answers' = answers \cup {Reply(m)} /\ UNCHANGED cache
    <3>1. m \in Message
      BY DEF IInv, TypeOK
    <3>2. TypeOK' /\ Honest'
      BY <1>6, <2>2, <3>1, ReplyTyped
      DEF IInv, TypeOK, Honest, ForUs, Deliver, cache, resolver, others
    <3> QED BY <1>6, <2>2, <3>2, CacheUntouched DEF IInv, Deliver, others
  <2>3. CASE UNCHANGED <<cache, answers>>
    <3>1. TypeOK' /\ Honest'
      BY <1>6, <2>3
      DEF IInv, TypeOK, Honest, ForUs, Deliver, cache, resolver, others
    <3> QED BY <1>6, <2>3, <3>1, CacheUntouched DEF IInv, Deliver, others
  <2> QED BY <1>6, <2>1, <2>2, <2>3 DEF Deliver, OnEtherFrameReceived
<1>7. CASE Return
  BY <1>7, ReturnKeeps
<1>8. CASE Advance
  <2>1. i \in Nat /\ num_cache_entries \in 0 .. CacheSize /\ CacheSize \in Nat
    BY AddressAssumption DEF IInv, TypeOK
  <2>2. TypeOK' /\ Searched'
    BY <1>8, <2>1
    DEF IInv, TypeOK, Searched, Advance, More, Found, cache, others
  <2>3. Honest' /\ Written' /\ Remembered'
    BY <1>8 DEF IInv, Honest, Written, Remembered, IsFirst, ForUs, Advance, cache, others
  <2> QED BY <2>2, <2>3 DEF IInv
<1>9. CASE NotFound
  BY <1>9, AddressAssumption
  DEF IInv, TypeOK, Honest, Written, Searched, Remembered, IsFirst, ForUs, NotFound,
      cache, others
<1>10. CASE RequestMacAddress
  BY <1>10, AddressAssumption
  DEF IInv, TypeOK, Honest, Written, Searched, Remembered, IsFirst, ForUs,
      RequestMacAddress, cache, others
<1>11. CASE UNCHANGED vars
  BY <1>11
  DEF IInv, TypeOK, Honest, Written, Searched, Remembered, IsFirst, ForUs, vars, cache,
      resolver, others
<1> QED
  BY <1>1, <1>2, <1>3, <1>4, <1>5, <1>6, <1>7, <1>8, <1>9, <1>10, <1>11
  DEF Next, Resolve

LEMMA Invariant == Spec => []IInv
  BY InitInv, NextInv, PTL DEF Spec

(***************************************************************************)
(* What follows from it.                                                   *)
(***************************************************************************)

(* Types, and with them: num_cache_entries stays within the arrays.        *)
THEOREM Types == Spec => []TypeOK
  BY Invariant, PTL DEF IInv

(* What resolve() returns was answered to us: an entry that it found was   *)
(* written for a response that the station sent.                           *)
THEOREM ResolvedWasAnswered == Spec => []ResolvesWhatWasAnswered
<1>1. IInv => ResolvesWhatWasAnswered
  <2> SUFFICES ASSUME IInv, NEW r \in resolved PROVE r \in claimed
    BY DEF ResolvesWhatWasAnswered
  <2>1. PICK s \in 0 .. (num_cache_entries - 1) : ip_cache[s] = r[1] /\ mac_cache[s] = r[2]
    BY DEF IInv, Remembered, IsFirst
  <2>2. <<r[1], r[2]>> \in claimed
    BY <2>1 DEF IInv, Written
  <2>3. r = <<r[1], r[2]>>
    BY DEF IInv, TypeOK
  <2> QED BY <2>2, <2>3
<1> QED BY <1>1, Invariant, PTL

(* All calls of resolve() for an address agree: they return its first      *)
(* entry, and the first entry of an address never changes.                 *)
THEOREM ResolvedAgree == Spec => []ResolvesAgree
<1>1. IInv => ResolvesAgree
  <2> SUFFICES ASSUME IInv, NEW r \in resolved, NEW q \in resolved, r[1] = q[1]
               PROVE  r[2] = q[2]
    BY DEF ResolvesAgree
  <2>1. PICK s \in 0 .. (num_cache_entries - 1) : IsFirst(r, s)
    BY DEF IInv, Remembered
  <2>2. PICK t \in 0 .. (num_cache_entries - 1) : IsFirst(q, t)
    BY DEF IInv, Remembered
  <2>3. s = t
    BY <2>1, <2>2 DEF IsFirst
  <2> QED BY <2>1, <2>2, <2>3 DEF IsFirst
<1> QED BY <1>1, Invariant, PTL

(* Answers go to those who asked for our address: only a request for it is *)
(* answered, and its source is remembered since it was sent.               *)
THEOREM AnswersAddressed == Spec => []AnswersGoToAskers
<1>1. Init => AnswersGoToAskers
  BY DEF Init, AnswersGoToAskers
<1>2. ASSUME IInv, AnswersGoToAskers, [Next]_vars PROVE AnswersGoToAskers'
  <2>1. CASE UNCHANGED answers
    <3>1. askers \subseteq askers'
      BY <1>2 DEF Next, Resolve, Answer, Call, Ask, Stray, ChangeAdapter, Deliver, Return,
                  Advance, NotFound, RequestMacAddress, vars, others
    <3> QED BY <1>2, <2>1, <3>1 DEF AnswersGoToAskers
  <2>2. ASSUME NEW m \in network, Deliver(m), ForUs(m), m.command = "request",
               answers' = answers \cup {Reply(m)}
        PROVE  AnswersGoToAskers'
    <3>1. <<m.source_ip, m.source_mac>> \in askers
      BY <1>2, <2>2 DEF IInv, Honest
    <3>2. m \in Message /\ UNCHANGED askers
      BY <1>2, <2>2 DEF IInv, TypeOK, Deliver, others
    <3> QED BY <1>2, <2>2, <3>1, <3>2, ReplyTyped DEF AnswersGoToAskers
  <2> QED
    BY <1>2, <2>1, <2>2
    DEF Next, Resolve, Answer, Call, Ask, Stray, ChangeAdapter, Deliver,
        OnEtherFrameReceived, Return, Advance, NotFound, RequestMacAddress, vars
<1> QED BY <1>1, <1>2, Invariant, PTL DEF Spec

=============================================================================
