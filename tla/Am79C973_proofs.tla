--------------------------- MODULE Am79C973_proofs ---------------------------
(***************************************************************************)
(* Proofs about Am79C973, for rings of any length, any number of frames    *)
(* and of calls of send(), and any geometry of the buffers.                *)
(***************************************************************************)
EXTENDS Am79C973, FiniteSetTheorems, TLAPS

(* Remainders of what the driver and the card count with.                  *)
LEMMA RemainderIs ==
  ASSUME NEW r \in Nat \ {0}, NEW n \in Nat, n < 2 * r
  PROVE  /\ n < r => n % r = n
         /\ ~ (n < r) => n % r = n - r
<1> DEFINE q == n \div r
           m == n % r
<1>1. m \in Int /\ 0 <= m /\ m < r /\ q \in Int /\ n = r * q + m
  OBVIOUS
<1> HIDE DEF q, m
<1>2. q >= 0
  <2>1. q < 0 => r * q <= - r
    BY <1>1
  <2> QED BY <1>1, <2>1
<1>3. q < 2
  <2>1. q >= 2 => r * q >= 2 * r
    BY <1>1
  <2> QED BY <1>1, <2>1
<1>4. CASE q = 0
  BY <1>1, <1>4 DEF m
<1>5. CASE q = 1
  BY <1>1, <1>5 DEF m
<1> QED BY <1>1, <1>2, <1>3, <1>4, <1>5

LEMMA AfterIs ==
  ASSUME NEW i \in Slots
  PROVE  /\ After(i) \in Slots
         /\ i = Ring - 1 => After(i) = 0
         /\ i # Ring - 1 => After(i) = i + 1
<1>1. Ring \in Nat \ {0} /\ i \in 0 .. (Ring - 1)
  BY CardAssumption DEF Slots
<1> DEFINE n == i + 1
<1>2. n \in Nat /\ n < 2 * Ring /\ After(i) = n % Ring
  BY <1>1 DEF After
<1> HIDE DEF n
<1>3. /\ n < Ring => n % Ring = n
      /\ ~ (n < Ring) => n % Ring = n - Ring
  BY <1>1, <1>2, RemainderIs
<1> QED BY <1>1, <1>2, <1>3 DEF n, Slots

LEMMA DistanceIs ==
  ASSUME NEW i \in Slots, NEW j \in Slots
  PROVE  /\ i <= j => Distance(i, j) = j - i
         /\ ~ (i <= j) => Distance(i, j) = j - i + Ring
<1>1. Ring \in Nat \ {0} /\ i \in 0 .. (Ring - 1) /\ j \in 0 .. (Ring - 1)
  BY CardAssumption DEF Slots
<1> DEFINE n == j - i + Ring
<1>2. n \in Nat /\ n < 2 * Ring /\ Distance(i, j) = n % Ring
  BY <1>1 DEF Distance
<1> HIDE DEF n
<1>3. /\ n < Ring => n % Ring = n
      /\ ~ (n < Ring) => n % Ring = n - Ring
  BY <1>1, <1>2, RemainderIs
<1> QED BY <1>1, <1>2, <1>3 DEF n

(* All that the proofs need to know of distances along a ring.             *)
LEMMA DistanceFacts ==
  /\ Ring \in Nat \ {0}
  /\ \A h \in Slots : After(h) \in Slots /\ (Ring > 1 => After(h) # h)
  /\ \A h, i \in Slots : Distance(h, i) \in 0 .. (Ring - 1) /\ (Distance(h, i) = 0 <=> h = i)
  /\ \A h, i, j \in Slots : Distance(h, i) = Distance(h, j) => i = j
  /\ \A h, i \in Slots :
       /\ Distance(h, i) = Ring - 1 => Distance(h, After(i)) = 0
       /\ Distance(h, i) # Ring - 1 => Distance(h, After(i)) = Distance(h, i) + 1
  /\ \A h, i \in Slots :
       /\ i = h => Distance(After(h), i) = Ring - 1
       /\ i # h => Distance(After(h), i) = Distance(h, i) - 1
<1>1. Ring \in Nat \ {0} /\ \A i \in Slots : i \in Int /\ 0 <= i /\ i < Ring
  BY CardAssumption DEF Slots
<1>2. ASSUME NEW h \in Slots, NEW i \in Slots
      PROVE  /\ Distance(h, i) \in 0 .. (Ring - 1)
             /\ Distance(h, i) = 0 <=> h = i
  <2>1. /\ h <= i => Distance(h, i) = i - h
        /\ ~ (h <= i) => Distance(h, i) = i - h + Ring
    BY DistanceIs
  <2> QED BY <1>1, <2>1
<1>3. ASSUME NEW h \in Slots
      PROVE  After(h) \in Slots /\ (Ring > 1 => After(h) # h)
  <2>1. /\ After(h) \in Slots
        /\ h = Ring - 1 => After(h) = 0
        /\ h # Ring - 1 => After(h) = h + 1
    BY AfterIs
  <2> QED BY <1>1, <2>1
<1>4. ASSUME NEW h \in Slots, NEW i \in Slots, NEW j \in Slots, Distance(h, i) = Distance(h, j)
      PROVE  i = j
  <2>1. /\ h <= i => Distance(h, i) = i - h
        /\ ~ (h <= i) => Distance(h, i) = i - h + Ring
    BY DistanceIs
  <2>2. /\ h <= j => Distance(h, j) = j - h
        /\ ~ (h <= j) => Distance(h, j) = j - h + Ring
    BY DistanceIs
  <2> QED BY <1>1, <1>4, <2>1, <2>2
<1>5. ASSUME NEW h \in Slots, NEW i \in Slots
      PROVE  /\ Distance(h, i) = Ring - 1 => Distance(h, After(i)) = 0
             /\ Distance(h, i) # Ring - 1 => Distance(h, After(i)) = Distance(h, i) + 1
  <2>1. /\ After(i) \in Slots
        /\ i = Ring - 1 => After(i) = 0
        /\ i # Ring - 1 => After(i) = i + 1
    BY AfterIs
  <2>2. /\ h <= i => Distance(h, i) = i - h
        /\ ~ (h <= i) => Distance(h, i) = i - h + Ring
    BY DistanceIs
  <2>3. /\ h <= After(i) => Distance(h, After(i)) = After(i) - h
        /\ ~ (h <= After(i)) => Distance(h, After(i)) = After(i) - h + Ring
    BY <2>1, DistanceIs
  <2> QED BY <1>1, <2>1, <2>2, <2>3
<1>6. ASSUME NEW h \in Slots, NEW i \in Slots
      PROVE  /\ i = h => Distance(After(h), i) = Ring - 1
             /\ i # h => Distance(After(h), i) = Distance(h, i) - 1
  <2>1. /\ After(h) \in Slots
        /\ h = Ring - 1 => After(h) = 0
        /\ h # Ring - 1 => After(h) = h + 1
    BY AfterIs
  <2>2. /\ h <= i => Distance(h, i) = i - h
        /\ ~ (h <= i) => Distance(h, i) = i - h + Ring
    BY DistanceIs
  <2>3. /\ After(h) <= i => Distance(After(h), i) = i - After(h)
        /\ ~ (After(h) <= i) => Distance(After(h), i) = i - After(h) + Ring
    BY <2>1, DistanceIs
  <2> QED BY <1>1, <2>1, <2>2, <2>3
<1> QED BY <1>1, <1>2, <1>3, <1>4, <1>5, <1>6

-----------------------------------------------------------------------------
(* Types.                                                                  *)

Descriptor == [own : {"card", "host"}, frame : Nat, ok : BOOLEAN]

TypeOK ==
  /\ rx \in [Slots -> Descriptor]
  /\ tx \in [Slots -> {"card", "host"}]
  /\ current_receive_buffer \in Slots /\ current_send_buffer \in Slots
  /\ card_rx \in Slots /\ card_tx \in Slots
  /\ hpc \in {"idle", "read", "receive", "recycle", "acknowledge"}
  /\ spc \in [Senders -> {"idle", "claim", "load", "store", "publish"}]
  /\ send_descriptor \in [Senders -> Slots] /\ next \in [Senders -> Slots]
  /\ arrived \in Nat /\ seen \in Nat
  /\ inTurn \in BOOLEAN

(* Only receive() answers, and it waits for its send() to end.             *)
AnswersInside == spc["irq"] # "idle" => hpc = "recycle"

LEMMA InitTypes ==
  Init => TypeOK /\ AnswersInside
BY AfterIs, CardAssumption DEF Init, TypeOK, AnswersInside, Slots, Descriptor, Senders, None

LEMMA SendTypes ==
  ASSUME TypeOK, AnswersInside, NEW p \in Senders, Send(p)
  PROVE  TypeOK' /\ AnswersInside'
<1>1. After(current_send_buffer) \in Slots
  BY DistanceFacts DEF TypeOK
<1>2. p = "irq" => spc["irq"] # "idle"
  BY DEF Send, SendClaim, SendAdvance, SendPublish, At
<1>3. /\ tx' \in [Slots -> {"card", "host"}]
      /\ spc' \in [Senders -> {"idle", "claim", "load", "store", "publish"}]
      /\ send_descriptor' \in [Senders -> Slots] /\ next' \in [Senders -> Slots]
      /\ current_send_buffer' \in Slots
      /\ inTurn' \in BOOLEAN
  <2>1. CASE SendClaim(p)
    BY <2>1 DEF TypeOK, SendClaim, Goto
  <2>2. CASE SendAdvance(p)
    BY <1>1, <2>2 DEF TypeOK, SendAdvance, Goto
  <2>3. CASE SendPublish(p)
    BY <2>3 DEF TypeOK, SendPublish, Goto
  <2> QED BY <2>1, <2>2, <2>3 DEF Send
<1>4. TypeOK'
  BY <1>3 DEF TypeOK, Send, rxvars, handler
<1>5. AnswersInside'
  <2>1. spc' = [spc EXCEPT ![p] = spc'[p]]
    BY DEF Send, SendClaim, SendAdvance, SendPublish, Goto, TypeOK
  <2> QED BY <1>2, <2>1 DEF AnswersInside, Send, handler, TypeOK, Senders
<1> QED BY <1>4, <1>5

LEMMA NextTypes ==
  TypeOK /\ AnswersInside /\ [Next]_vars => TypeOK' /\ AnswersInside'
<1> SUFFICES ASSUME TypeOK, AnswersInside, [Next]_vars PROVE TypeOK' /\ AnswersInside'
  OBVIOUS
<1>0. \A i \in Slots : After(i) \in Slots
  BY DistanceFacts
<1>1. CASE UNCHANGED vars
  BY <1>1 DEF TypeOK, AnswersInside, vars, rxvars, txvars, handler
<1>2. ASSUME NEW ok \in BOOLEAN, Arrive(ok) PROVE TypeOK' /\ AnswersInside'
  <2>1. arrived' \in Nat
    BY <1>2 DEF TypeOK, Arrive
  <2>2. rx' \in [Slots -> Descriptor] /\ card_rx' \in Slots
    BY <1>0, <1>2, <2>1 DEF TypeOK, Arrive, Descriptor
  <2> QED BY <1>2, <2>1, <2>2 DEF TypeOK, AnswersInside, Arrive, txvars, handler
<1>3. CASE Transmit
  BY <1>0, <1>3 DEF TypeOK, AnswersInside, Transmit, rxvars, handler
<1>4. CASE CallSend
  BY <1>4 DEF TypeOK, AnswersInside, CallSend, At, Goto, rxvars, handler, Senders
<1>5. ASSUME NEW p \in Senders, Send(p) PROVE TypeOK' /\ AnswersInside'
  BY <1>5, SendTypes
<1>6. CASE Interrupt \/ ReadStatus \/ ReceiveDone \/ Acknowledge
  BY <1>6 DEF TypeOK, AnswersInside, Interrupt, ReadStatus, ReceiveDone, Acknowledge,
              rxvars, txvars
<1>7. CASE ReceiveFrame
  <2>1. Received.frame \in Nat
    BY DEF TypeOK, Received, Descriptor
  <2>2. spc' \in [Senders -> {"idle", "claim", "load", "store", "publish"}] /\ hpc' = "recycle"
    BY <1>7 DEF TypeOK, ReceiveFrame, Goto
  <2> QED BY <1>7, <2>1, <2>2 DEF TypeOK, AnswersInside, ReceiveFrame, rxvars
<1>8. CASE Recycle
  <2>1. rx' \in [Slots -> Descriptor] /\ current_receive_buffer' \in Slots
    BY <1>0, <1>8 DEF TypeOK, Recycle, Descriptor
  <2> QED BY <1>8, <2>1 DEF TypeOK, AnswersInside, Recycle, txvars
<1> QED BY <1>1, <1>2, <1>3, <1>4, <1>5, <1>6, <1>7, <1>8 DEF Next, HandleInterrupt

-----------------------------------------------------------------------------
(* The receive ring.                                                       *)

Behind(i) == Distance(current_receive_buffer, i)
Host(i)   == rx[i].own = "host"

(* The host's descriptors are those from the driver's position up to the   *)
(* card's; where the two positions are the same they are none or all.      *)
Queue ==
  \/ \A i \in Slots : Host(i) <=> Behind(i) < Behind(card_rx)
  \/ card_rx = current_receive_buffer /\ \A i \in Slots : Host(i)

(* They hold ever later frames, and none that receive() has looked at but  *)
(* the one it is about to give back.                                       *)
Order ==
  /\ \A i \in Slots : Host(i) => rx[i].frame \in 1 .. arrived
  /\ \A i, j \in Slots : Host(i) /\ Host(j) /\ Behind(i) < Behind(j) => rx[i].frame < rx[j].frame
  /\ seen \in 0 .. arrived
  /\ hpc = "recycle" => Mine /\ Received.frame = seen
  /\ hpc # "recycle" => \A i \in Slots : Host(i) => rx[i].frame > seen

LEMMA ArriveQueue ==
  ASSUME TypeOK, Queue, Order, NEW ok \in BOOLEAN, Arrive(ok)
  PROVE  Queue' /\ Order'
<1>1. /\ card_rx \in Slots /\ current_receive_buffer \in Slots /\ arrived' = arrived + 1
      /\ UNCHANGED <<current_receive_buffer, hpc, seen>> /\ arrived \in Nat
      /\ \A i \in Slots : Behind(i)' = Behind(i)
  BY DEF TypeOK, Arrive, handler, Behind
<1>2. CASE rx[card_rx].own # "card"
  <2>1. UNCHANGED <<rx, card_rx>>
    BY <1>2 DEF Arrive
  <2> QED BY <1>1, <2>1 DEF Queue, Order, Host, Behind, Mine, Received
<1>3. CASE rx[card_rx].own = "card"
  <2> DEFINE f == [own |-> "host", frame |-> arrived + 1, ok |-> ok]
  <2>1. rx' = [rx EXCEPT ![card_rx] = f] /\ card_rx' = After(card_rx)
    BY <1>1, <1>3 DEF Arrive
  <2>2. f.own = "host" /\ f.frame = arrived + 1
    OBVIOUS
  <2> HIDE DEF f
  <2>3. \A i \in Slots : rx'[i] = IF i = card_rx THEN f ELSE rx[i]
    BY <2>1 DEF TypeOK
  <2>4. ~ Host(card_rx) /\ \A i \in Slots : Host(i)' <=> i = card_rx \/ Host(i)
    BY <1>3, <2>2, <2>3 DEF Host
  <2>5. \A i \in Slots : Host(i) <=> Behind(i) < Behind(card_rx)
    BY <1>1, <2>4 DEF Queue
  <2>6. Queue'
    <3>1. CASE Behind(card_rx) = Ring - 1
      <4>1. Behind(card_rx') = 0
        BY <1>1, <2>1, <3>1, DistanceFacts DEF Behind
      <4>2. card_rx' = current_receive_buffer
        BY <1>1, <2>1, <4>1, DistanceFacts DEF Behind
      <4>3. \A i \in Slots : Host(i)'
        <5>1. \A i \in Slots : Behind(i) = Behind(card_rx) \/ Behind(i) < Behind(card_rx)
          BY <1>1, <3>1, DistanceFacts DEF Behind
        <5>2. \A i \in Slots : Behind(i) = Behind(card_rx) => i = card_rx
          BY <1>1, DistanceFacts DEF Behind
        <5> QED BY <2>4, <2>5, <5>1, <5>2
      <4> QED BY <1>1, <4>2, <4>3 DEF Queue
    <3>2. CASE Behind(card_rx) # Ring - 1
      <4>1. Behind(card_rx') = Behind(card_rx) + 1
        BY <1>1, <2>1, <3>2, DistanceFacts DEF Behind
      <4>2. ASSUME NEW i \in Slots PROVE Host(i)' <=> Behind(i) < Behind(card_rx')
        <5>1. Behind(i) \in Int /\ Behind(card_rx) \in Int /\ (Behind(i) = Behind(card_rx) <=> i = card_rx)
          BY <1>1, DistanceFacts DEF Behind
        <5> QED BY <2>4, <2>5, <4>1, <5>1
      <4> QED BY <1>1, <4>2 DEF Queue, Behind
    <3> QED BY <3>1, <3>2
  <2>7. Order'
    <3>1. \A i \in Slots : Host(i)' => rx'[i].frame \in 1 .. arrived'
      BY <1>1, <2>2, <2>3, <2>4 DEF Order
    <3>2. ASSUME NEW i \in Slots, NEW j \in Slots, Host(i)', Host(j)', Behind(i) < Behind(j)
          PROVE  rx'[i].frame < rx'[j].frame
      <4>0. Behind(i) \in Int /\ Behind(j) \in Int
        BY <1>1, DistanceFacts DEF Behind
      <4>1. i # card_rx
        BY <2>4, <2>5, <3>2, <4>0
      <4>2. CASE j = card_rx
        BY <1>1, <2>2, <2>3, <2>4, <3>2, <4>1, <4>2 DEF Order
      <4>3. CASE j # card_rx
        BY <2>3, <2>4, <3>2, <4>1, <4>3 DEF Order
      <4> QED BY <4>2, <4>3
    <3>3. hpc = "recycle" => Mine' /\ Received'.frame = seen
      BY <1>1, <2>3, <2>4 DEF Order, Mine, Received, Host
    <3>4. hpc # "recycle" => \A i \in Slots : Host(i)' => rx'[i].frame > seen
      BY <1>1, <2>2, <2>3, <2>4 DEF Order
    <3> QED BY <1>1, <3>1, <3>2, <3>3, <3>4 DEF Order
  <2> QED BY <2>6, <2>7
<1> QED BY <1>2, <1>3

LEMMA RecycleQueue ==
  ASSUME TypeOK, Queue, Order, Recycle
  PROVE  Queue' /\ Order'
<1> DEFINE c == current_receive_buffer
<1>1. /\ card_rx \in Slots /\ c \in Slots /\ arrived \in Nat /\ card_rx' = card_rx
      /\ hpc = "recycle" /\ hpc' = "receive" /\ UNCHANGED <<arrived, seen>>
      /\ current_receive_buffer' = After(c)
      /\ rx' = [rx EXCEPT ![c].own = "card"]
  BY DEF TypeOK, Recycle
<1>2. Host(c) /\ rx[c].frame = seen
  BY <1>1 DEF Order, Mine, Received, Host
<1>3. \A i \in Slots : rx'[i] = IF i = c THEN [rx[c] EXCEPT !.own = "card"] ELSE rx[i]
  BY <1>1, Zenon DEF TypeOK
<1>4. [rx[c] EXCEPT !.own = "card"].own = "card"
  <2>1. rx[c] \in Descriptor
    BY <1>1 DEF TypeOK
  <2> QED BY <2>1 DEF Descriptor
<1>5. \A i \in Slots : /\ Host(i)' <=> Host(i) /\ i # c
                       /\ i # c => rx'[i] = rx[i]
  <2> DEFINE g == [rx[c] EXCEPT !.own = "card"]
  <2>1. g.own # "host" /\ \A i \in Slots : rx'[i] = IF i = c THEN g ELSE rx[i]
    BY <1>3, <1>4
  <2> HIDE DEF g
  <2> QED BY <2>1 DEF Host
<1>6. \A i \in Slots : /\ i = c => Behind(i)' = Ring - 1 /\ Behind(i) = 0
                       /\ i # c => Behind(i)' = Behind(i) - 1 /\ Behind(i) \in 1 .. (Ring - 1)
  BY <1>1, DistanceFacts DEF Behind
<1> HIDE DEF c
<1>7. Ring \in Nat \ {0}
  BY DistanceFacts
<1>8. Queue'
  <2>1. CASE card_rx = c /\ \A i \in Slots : Host(i)
    <3>1. \A i \in Slots : Host(i)' <=> Behind(i)' < Behind(card_rx)'
      BY <1>1, <1>5, <1>6, <1>7, <2>1
    <3> QED BY <3>1 DEF Queue
  <2>2. CASE \A i \in Slots : Host(i) <=> Behind(i) < Behind(card_rx)
    <3>1. card_rx # c
      BY <1>1, <1>2, <1>6, <2>2
    <3>2. \A i \in Slots : Host(i)' <=> Behind(i)' < Behind(card_rx)'
      BY <1>1, <1>5, <1>6, <1>7, <2>2, <3>1
    <3> QED BY <3>2 DEF Queue
  <2> QED BY <2>1, <2>2 DEF Queue, c
<1>9. Order'
  <2>1. \A i \in Slots : Host(i)' => rx'[i].frame \in 1 .. arrived'
    BY <1>1, <1>5 DEF Order
  <2>2. ASSUME NEW i \in Slots, NEW j \in Slots, Host(i)', Host(j)', Behind(i)' < Behind(j)'
        PROVE  rx'[i].frame < rx'[j].frame
    BY <1>5, <1>6, <2>2 DEF Order
  <2>3. \A i \in Slots : Host(i)' => rx'[i].frame > seen
    BY <1>1, <1>2, <1>5, <1>6 DEF Order
  <2> QED BY <1>1, <2>1, <2>2, <2>3 DEF Order
<1> QED BY <1>8, <1>9

RxInv == TypeOK /\ AnswersInside /\ Queue /\ Order

LEMMA InitRx ==
  Init => RxInv
<1> SUFFICES ASSUME Init PROVE RxInv
  OBVIOUS
<1>1. TypeOK /\ AnswersInside
  BY InitTypes
<1>2. /\ current_receive_buffer = card_rx /\ arrived = 0 /\ seen = 0 /\ hpc = "idle"
      /\ \A i \in Slots : ~ Host(i)
  BY DEF Init, Host, None
<1>3. Queue
  <2>1. \A i \in Slots : Behind(card_rx) = 0 /\ Behind(i) \in Nat
    BY <1>1, <1>2, DistanceFacts DEF Behind, TypeOK
  <2> QED BY <1>2, <2>1 DEF Queue
<1>4. Order
  BY <1>2 DEF Order
<1> QED BY <1>1, <1>3, <1>4 DEF RxInv

LEMMA NextRx ==
  RxInv /\ [Next]_vars => RxInv'
<1> SUFFICES ASSUME RxInv, [Next]_vars PROVE RxInv'
  OBVIOUS
<1>1. TypeOK' /\ AnswersInside'
  BY NextTypes DEF RxInv
<1>2. ASSUME UNCHANGED <<rx, current_receive_buffer, card_rx, arrived, seen>>,
             hpc' = hpc \/ (hpc # "recycle" /\ hpc' # "recycle")
      PROVE  Queue' /\ Order'
  BY <1>2 DEF RxInv, Queue, Order, Host, Behind, Mine, Received
<1>3. CASE UNCHANGED vars
  BY <1>1, <1>2, <1>3 DEF RxInv, vars, rxvars, handler
<1>4. ASSUME NEW ok \in BOOLEAN, Arrive(ok) PROVE RxInv'
  BY <1>1, <1>4, ArriveQueue DEF RxInv
<1>5. CASE Transmit \/ CallSend
  BY <1>1, <1>2, <1>5 DEF RxInv, Transmit, CallSend, rxvars, handler
<1>6. ASSUME NEW p \in Senders, Send(p) PROVE RxInv'
  BY <1>1, <1>2, <1>6 DEF RxInv, Send, rxvars, handler
<1>7. CASE Interrupt \/ ReadStatus \/ ReceiveDone \/ Acknowledge
  BY <1>1, <1>2, <1>7 DEF RxInv, Interrupt, ReadStatus, ReceiveDone, Acknowledge, rxvars
<1>8. CASE ReceiveFrame
  <2>1. /\ hpc = "receive" /\ hpc' = "recycle" /\ Mine /\ seen' = Received.frame
        /\ UNCHANGED <<rx, current_receive_buffer, card_rx, arrived>>
        /\ current_receive_buffer \in Slots
    BY <1>8 DEF ReceiveFrame, rxvars, RxInv, TypeOK
  <2>2. Queue'
    BY <2>1 DEF RxInv, Queue, Host, Behind
  <2>3. seen' \in 0 .. arrived /\ Mine' /\ Received'.frame = seen'
    BY <2>1 DEF RxInv, Order, Mine, Host, Received
  <2>4. Order'
    BY <2>1, <2>3 DEF RxInv, Order, Host, Behind
  <2> QED BY <1>1, <2>2, <2>4 DEF RxInv
<1>9. CASE Recycle
  BY <1>1, <1>9, RecycleQueue DEF RxInv
<1> QED BY <1>3, <1>4, <1>5, <1>6, <1>7, <1>8, <1>9 DEF Next, HandleInterrupt

THEOREM ReceiveInvariance == Spec => []RxInv
BY InitRx, NextRx, PTL DEF Spec

(* From any place of a ring on there are n descriptors nearer than n.      *)
LEMMA NearerThan ==
  ASSUME NEW c \in Slots, NEW n \in 0 .. Ring
  PROVE  /\ IsFiniteSet({i \in Slots : Distance(c, i) < n})
         /\ Cardinality({i \in Slots : Distance(c, i) < n}) = n
<1> DEFINE S == {i \in Slots : Distance(c, i) < n}
           place(d) == IF c + d < Ring THEN c + d ELSE c + d - Ring
           f == [d \in 0 .. (n - 1) |-> place(d)]
<1>1. /\ Ring \in Nat \ {0} /\ c \in 0 .. (Ring - 1) /\ n \in Nat /\ n <= Ring
      /\ Slots = 0 .. (Ring - 1)
  BY CardAssumption DEF Slots
<1>2. ASSUME NEW d \in 0 .. (Ring - 1)
      PROVE  place(d) \in Slots /\ Distance(c, place(d)) = d
  <2>1. place(d) \in Slots
    BY <1>1
  <2>2. /\ c <= place(d) => Distance(c, place(d)) = place(d) - c
        /\ ~ (c <= place(d)) => Distance(c, place(d)) = place(d) - c + Ring
    <3> HIDE DEF place
    <3> QED BY <2>1, DistanceIs
  <2> QED BY <1>1, <2>1, <2>2
<1> HIDE DEF place
<1>3. \A i \in S : Distance(c, i) \in 0 .. (n - 1) /\ place(Distance(c, i)) = i
  <2> SUFFICES ASSUME NEW i \in S
               PROVE  Distance(c, i) \in 0 .. (n - 1) /\ place(Distance(c, i)) = i
    OBVIOUS
  <2>1. Distance(c, i) \in 0 .. (Ring - 1) /\ Distance(c, i) < n
    BY DistanceFacts
  <2>2. place(Distance(c, i)) \in Slots /\ Distance(c, place(Distance(c, i))) = Distance(c, i)
    BY <1>2, <2>1
  <2>3. place(Distance(c, i)) = i
    BY <2>2, DistanceFacts
  <2> QED BY <1>1, <2>1, <2>3
<1>4. \A d \in 0 .. (n - 1) : d \in 0 .. (Ring - 1) /\ f[d] = place(d)
  BY <1>1
<1>5. f \in Bijection(0 .. (n - 1), S)
  <2>1. f \in [0 .. (n - 1) -> S]
    <3>1. ASSUME NEW d \in 0 .. (n - 1) PROVE f[d] \in S
      <4>1. d \in 0 .. (Ring - 1) /\ f[d] = place(d) /\ d < n
        BY <1>1, <1>4
      <4>2. f[d] \in Slots /\ Distance(c, f[d]) = d
        BY <1>2, <4>1
      <4> HIDE DEF f
      <4> QED BY <4>1, <4>2
    <3> QED BY <3>1
  <2>2. ASSUME NEW d \in 0 .. (n - 1), NEW e \in 0 .. (n - 1), f[d] = f[e]
        PROVE  d = e
    <3>1. d \in 0 .. (Ring - 1) /\ e \in 0 .. (Ring - 1) /\ place(d) = place(e)
      BY <1>4, <2>2
    <3>2. Distance(c, place(d)) = d /\ Distance(c, place(e)) = e
      BY <1>2, <3>1
    <3> QED BY <3>1, <3>2
  <2>3. \A i \in S : \E d \in 0 .. (n - 1) : f[d] = i
    BY <1>3, <1>4
  <2> HIDE DEF f, S
  <2> QED BY <2>1, <2>2, <2>3 DEF Bijection, Injection, Surjection, IsInjective
<1>6. IsFiniteSet(0 .. (n - 1)) /\ Cardinality(0 .. (n - 1)) = n
  <2> DEFINE b == n - 1
  <2>1. b \in Int /\ 0 \in Int /\ (IF 0 > b THEN 0 ELSE b - 0 + 1) = n
    BY <1>1
  <2> HIDE DEF b
  <2>2. IsFiniteSet(0 .. b) /\ Cardinality(0 .. b) = IF 0 > b THEN 0 ELSE b - 0 + 1
    BY <2>1, FS_Interval
  <2> QED BY <2>1, <2>2 DEF b
<1> HIDE DEF f, S
<1>7. ExistsBijection(0 .. (n - 1), S)
  BY <1>5 DEF ExistsBijection
<1>8. IsFiniteSet(S) /\ Cardinality(S) = n
  BY <1>6, <1>7, FS_Bijection
<1> QED BY <1>8 DEF S

(* Going round the ring by a distance.                                     *)
LEMMA GoBy ==
  ASSUME NEW h \in Slots
  PROVE  /\ (h + Ring) % Ring = h
         /\ \A i \in Slots : (h + Distance(h, i)) % Ring = i
<1>1. Ring \in Nat \ {0} /\ \A i \in Slots : i \in Int /\ 0 <= i /\ i < Ring
  BY CardAssumption DEF Slots
<1>2. ASSUME NEW n \in Nat, n < 2 * Ring
      PROVE  /\ n < Ring => n % Ring = n
             /\ ~ (n < Ring) => n % Ring = n - Ring
  BY <1>1, <1>2, RemainderIs
<1>3. (h + Ring) % Ring = h
  <2> DEFINE n == h + Ring
  <2>1. n \in Nat /\ n < 2 * Ring /\ ~ (n < Ring) /\ n - Ring = h
    BY <1>1
  <2> HIDE DEF n
  <2>2. n % Ring = h
    BY <1>2, <2>1
  <2> QED BY <2>2 DEF n
<1>4. ASSUME NEW i \in Slots PROVE (h + Distance(h, i)) % Ring = i
  <2> DEFINE n == h + Distance(h, i)
  <2>1. /\ h <= i => Distance(h, i) = i - h
        /\ ~ (h <= i) => Distance(h, i) = i - h + Ring
    BY DistanceIs
  <2>2. n \in Nat /\ n < 2 * Ring /\ (n < Ring => n = i) /\ (~ (n < Ring) => n - Ring = i)
    BY <1>1, <2>1
  <2> HIDE DEF n
  <2>3. n % Ring = i
    BY <1>2, <2>2
  <2> QED BY <2>3 DEF n
<1> QED BY <1>3, <1>4

LEMMA QueueIsInOrder ==
  RxInv => ReceiveInOrder
<1> SUFFICES ASSUME RxInv PROVE ReceiveInOrder
  OBVIOUS
<1> DEFINE mine == {i \in Slots : rx[i].own = "host"}
           n    == Cardinality(mine)
<1>1. /\ card_rx \in Slots /\ current_receive_buffer \in Slots /\ Ring \in Nat \ {0}
  BY DistanceFacts DEF RxInv, TypeOK
<1>2. \E k \in 0 .. Ring :
        /\ mine = {i \in Slots : Distance(current_receive_buffer, i) < k}
        /\ card_rx = (current_receive_buffer + k) % Ring
  <2>1. CASE \A i \in Slots : Host(i) <=> Behind(i) < Behind(card_rx)
    <3>1. mine = {i \in Slots : Distance(current_receive_buffer, i) < Behind(card_rx)}
      BY <2>1 DEF Host, Behind
    <3>2. Behind(card_rx) \in 0 .. Ring
      BY <1>1, DistanceFacts DEF Behind
    <3>3. card_rx = (current_receive_buffer + Behind(card_rx)) % Ring
      BY <1>1, GoBy DEF Behind
    <3> QED BY <3>1, <3>2, <3>3
  <2>2. CASE card_rx = current_receive_buffer /\ \A i \in Slots : Host(i)
    <3>1. mine = {i \in Slots : Distance(current_receive_buffer, i) < Ring}
      <4>1. \A i \in Slots : Distance(current_receive_buffer, i) < Ring
        BY <1>1, DistanceFacts
      <4> QED BY <2>2, <4>1 DEF Host
    <3>2. card_rx = (current_receive_buffer + Ring) % Ring
      BY <1>1, <2>2, GoBy
    <3>3. Ring \in 0 .. Ring
      BY <1>1
    <3> QED BY <3>1, <3>2, <3>3
  <2> QED BY <2>1, <2>2 DEF RxInv, Queue
<1>3. /\ mine = {i \in Slots : Distance(current_receive_buffer, i) < n}
      /\ card_rx = (current_receive_buffer + n) % Ring
  BY <1>1, <1>2, NearerThan
<1>4. \A i, j \in mine :
        Distance(current_receive_buffer, i) < Distance(current_receive_buffer, j)
          => rx[i].frame < rx[j].frame
  BY DEF RxInv, Order, Host, Behind
<1> HIDE DEF n
<1>5. \A i \in Slots : i \in mine <=> Distance(current_receive_buffer, i) < n
  BY <1>3
<1> QED BY <1>3, <1>4, <1>5 DEF ReceiveInOrder, n

(* Whenever frames arrive and however long the handler takes, the receive  *)
(* ring is a queue: the driver and the card agree on where it begins and   *)
(* ends, and it holds the frames in the order of their arrival.            *)
THEOREM ReceiveRingIsAQueue == Spec => []ReceiveInOrder
BY ReceiveInvariance, QueueIsInOrder, PTL

LEMMA EachFrameOnceStep ==
  ASSUME RxInv, [Next]_vars
  PROVE  /\ seen' # seen => seen' > seen
         /\ \A i \in Slots :
              rx[i].own = "host" /\ rx'[i].own = "card" => rx[i].frame = seen
<1>1. CASE ReceiveFrame
  <2>1. /\ hpc = "receive" /\ Host(current_receive_buffer) /\ seen' = Received.frame /\ rx' = rx
        /\ current_receive_buffer \in Slots
    BY <1>1 DEF ReceiveFrame, Mine, Received, Host, rxvars, RxInv, TypeOK
  <2>2. seen' > seen
    BY <2>1 DEF RxInv, Order, Received
  <2> QED BY <2>1, <2>2
<1>2. CASE Recycle
  <2>1. /\ seen' = seen /\ rx[current_receive_buffer].frame = seen
        /\ rx' = [rx EXCEPT ![current_receive_buffer].own = "card"]
    BY <1>2 DEF Recycle, RxInv, Order, Received
  <2>2. \A i \in Slots : i # current_receive_buffer => rx'[i] = rx[i]
    BY <2>1, Zenon DEF RxInv, TypeOK
  <2> QED BY <2>1, <2>2
<1>3. ASSUME NEW ok \in BOOLEAN, Arrive(ok)
      PROVE  seen' = seen /\ \A i \in Slots : rx[i].own = "host" => rx'[i] = rx[i]
  <2>1. seen' = seen
    BY <1>3 DEF Arrive, handler
  <2>2. CASE rx[card_rx].own # "card"
    BY <1>3, <2>1, <2>2 DEF Arrive
  <2>3. CASE rx[card_rx].own = "card"
    <3>1. rx' = [rx EXCEPT ![card_rx] = [own |-> "host", frame |-> arrived', ok |-> ok]]
      BY <1>3, <2>3 DEF Arrive
    <3>2. \A i \in Slots : i # card_rx => rx'[i] = rx[i]
      BY <3>1, Zenon DEF RxInv, TypeOK
    <3> QED BY <2>1, <2>3, <3>2
  <2> QED BY <2>2, <2>3
<1>4. CASE ~ (ReceiveFrame \/ Recycle \/ \E ok \in BOOLEAN : Arrive(ok))
  <2>1. UNCHANGED <<rx, seen>>
    BY <1>4 DEF Next, HandleInterrupt, vars, rxvars, handler, Transmit, CallSend, Send,
                Interrupt, ReadStatus, ReceiveDone, Acknowledge
  <2> QED BY <2>1
<1>5. ASSUME NEW ok \in BOOLEAN, Arrive(ok)
      PROVE  /\ seen' # seen => seen' > seen
             /\ \A i \in Slots :
                  rx[i].own = "host" /\ rx'[i].own = "card" => rx[i].frame = seen
  BY <1>3, <1>5
<1> QED BY <1>1, <1>2, <1>4, <1>5

(* receive() looks at every frame once, in order, and gives back to the    *)
(* card only the descriptor whose frame it has just looked at.             *)
THEOREM FramesAreTakenOnce == Spec => EachFrameOnce
<1>1. RxInv /\ [Next]_vars =>
        [ /\ seen' # seen => seen' > seen
          /\ \A i \in Slots :
               rx[i].own = "host" /\ rx'[i].own = "card" => rx[i].frame = seen ]_vars
  BY EachFrameOnceStep
<1> QED BY <1>1, ReceiveInvariance, PTL DEF Spec, EachFrameOnce

-----------------------------------------------------------------------------
(* The send ring.                                                          *)

(* A state of the send ring: the card is at h, current_send_buffer is b,   *)
(* the descriptors C are with the card, and the senders P are about to     *)
(* publish the descriptors that d gives.                                   *)
Promised(P, d)  == {d[p] : p \in P}
Filled(C, P, d) == C \cup Promised(P, d)
Full(C, P, d)   == Filled(C, P, d) = Slots

(* What is with the card or promised to it reaches from the card's place   *)
(* on without a gap, at least to current_send_buffer.                      *)
NoGap(h, b, C, P, d) ==
  /\ \A i \in Filled(C, P, d), j \in Slots :
       Distance(h, j) < Distance(h, i) => j \in Filled(C, P, d)
  /\ \A j \in Slots : Distance(h, j) < Distance(h, b) => j \in Filled(C, P, d)

(* If it reaches current_send_buffer itself the ring is full, and what     *)
(* lies before that is only promised.                                      *)
Overrun(h, b, C, P, d) ==
  b \in Filled(C, P, d) =>
    /\ Full(C, P, d)
    /\ \A j \in Slots : Distance(h, j) < Distance(h, b) => j \in Promised(P, d)

(* The handler's send() runs from kernel_main's point of view at once.     *)
LastCome(b, P, d) == "irq" \in P => b = After(d["irq"])

(* A descriptor is both with the card and promised again, or promised      *)
(* twice, only when the senders have come round a full ring to the card.   *)
Doubled(h, b, C, P, d) ==
  /\ "main" \in P /\ d["main"] \in C =>
       /\ Full(C, P, d) /\ d["main"] = h
       /\ "irq" \in P => d["irq"] \in C
       /\ "irq" \notin P => b = After(d["main"])
  /\ "irq" \in P /\ d["irq"] \in C =>
       /\ Full(C, P, d)
       /\ \A j \in Slots : Distance(h, j) <= Distance(h, d["irq"]) => j \in Promised(P, d)
  /\ P = Senders /\ d["main"] = d["irq"] =>
       Full(C, P, d) /\ d["main"] = h /\ d["main"] \notin C

(* With a promise to keep in a full ring, current_send_buffer is at the    *)
(* card's place.                                                           *)
Settled(h, b, C, P, d) ==
  /\ "irq" \in P /\ d["irq"] \notin C /\ Full(C, P, d) =>
       b = h \/ ("main" \in P /\ d["main"] = d["irq"])
  /\ "main" \in P /\ "irq" \notin P /\ d["main"] \notin C /\ Full(C, P, d) => b = h

Laid(h, b, C, P, d) ==
  /\ NoGap(h, b, C, P, d) /\ Overrun(h, b, C, P, d)
  /\ LastCome(b, P, d) /\ Doubled(h, b, C, P, d) /\ Settled(h, b, C, P, d)

LEMMA PromisedIs ==
  ASSUME NEW P \in SUBSET Senders, NEW d \in [Senders -> Slots]
  PROVE  /\ Promised(P, d) \in SUBSET Slots
         /\ \A i : i \in Promised(P, d) <=> \/ "main" \in P /\ d["main"] = i
                                            \/ "irq" \in P /\ d["irq"] = i
         /\ P = Senders <=> "main" \in P /\ "irq" \in P
         /\ d["main"] \in Slots /\ d["irq"] \in Slots
BY DEF Promised, Senders

(* The card transmits the descriptor at its place.                         *)
LEMMA TransmitLaid ==
  ASSUME NEW h \in Slots, NEW b \in Slots, NEW C \in SUBSET Slots,
         NEW P \in SUBSET Senders, NEW d \in [Senders -> Slots],
         Ring > 1, Laid(h, b, C, P, d), h \in C
  PROVE  Laid(After(h), b, C \ {h}, P, d)
<1> DEFINE k == After(h)
           D == C \ {h}
           Q == Promised(P, d)
           F == Filled(C, P, d)
           G == Filled(D, P, d)
<1>1. /\ k \in Slots /\ k # h /\ Ring \in Nat
      /\ \A i \in Slots : Distance(h, i) \in 0 .. (Ring - 1) /\ (Distance(h, i) = 0 <=> h = i)
      /\ \A i \in Slots : /\ i = h => Distance(k, i) = Ring - 1
                          /\ i # h => Distance(k, i) = Distance(h, i) - 1
  BY DistanceFacts
<1>2. /\ \A i \in Slots : i \in F <=> i \in C \/ i \in Q
      /\ \A i \in Slots : i \in G <=> i \in D \/ i \in Q
      /\ \A i : i \in D <=> i \in C /\ i # h
      /\ F \in SUBSET Slots /\ G \in SUBSET Slots
  BY PromisedIs DEF Filled
<1>3. /\ \A i : i \in Q <=> \/ "main" \in P /\ d["main"] = i
                            \/ "irq" \in P /\ d["irq"] = i
      /\ P = Senders <=> "main" \in P /\ "irq" \in P
      /\ d["main"] \in Slots /\ d["irq"] \in Slots
  BY PromisedIs
<1>4. /\ NoGap(h, b, C, P, d) /\ Overrun(h, b, C, P, d)
      /\ LastCome(b, P, d) /\ Doubled(h, b, C, P, d) /\ Settled(h, b, C, P, d)
  BY DEF Laid
<1> HIDE DEF k, D, Q, F, G
<1>5. h \in Q => F = Slots
  BY <1>1, <1>3, <1>4 DEF Doubled, Full, F
<1>6. h \in Q => G = Slots
  BY <1>2, <1>5
<1>7. G = Slots => F = Slots /\ h \in Q
  BY <1>2
<1>8. NoGap(k, b, D, P, d)
  <2>1. ASSUME NEW i \in G, NEW j \in Slots, Distance(k, j) < Distance(k, i)
        PROVE  j \in G
    <3>1. CASE i = h
      BY <1>2, <1>6, <2>1, <3>1
    <3>2. CASE i # h
      <4>1. i \in F /\ j # h /\ Distance(h, j) < Distance(h, i)
        BY <1>1, <1>2, <2>1, <3>2
      <4>2. j \in F
        BY <1>4, <4>1 DEF NoGap, F
      <4> QED BY <1>2, <4>1, <4>2
    <3> QED BY <3>1, <3>2
  <2>2. ASSUME NEW j \in Slots, Distance(k, j) < Distance(k, b)
        PROVE  j \in G
    <3>1. j # h
      BY <1>1, <2>2
    <3>2. CASE b = h
      BY <1>2, <1>4, <3>1, <3>2 DEF Overrun, Full, F
    <3>3. CASE b # h
      <4>1. Distance(h, j) < Distance(h, b)
        BY <1>1, <2>2, <3>1, <3>3
      <4> QED BY <1>2, <1>4, <3>1, <4>1 DEF NoGap, F
    <3> QED BY <3>2, <3>3
  <2> QED BY <2>1, <2>2 DEF NoGap, G
<1>9. ASSUME b \in G
      PROVE  G = Slots /\ \A j \in Slots : Distance(k, j) < Distance(k, b) => j \in Q
  <2>1. b \in F
    BY <1>2, <1>9
  <2>2. F = Slots /\ \A j \in Slots : Distance(h, j) < Distance(h, b) => j \in Q
    BY <1>4, <2>1 DEF Overrun, Full, F, Q
  <2>3. CASE b # h
    <3>1. h \in Q
      BY <1>1, <2>2, <2>3
    <3> QED BY <1>1, <1>6, <2>2, <2>3, <3>1
  <2>4. CASE b = h
    <3>1. h \in Q
      BY <1>2, <1>9, <2>4
    <3>2. "irq" \in P
      <4>1. CASE "main" \in P /\ d["main"] = h
        BY <1>1, <1>4, <2>4, <4>1 DEF Doubled, k
      <4> QED BY <1>3, <3>1, <4>1
    <3>3. d["irq"] # h /\ After(d["irq"]) = h
      BY <1>1, <1>4, <2>4, <3>2, DistanceFacts DEF LastCome
    <3>4. Distance(h, d["irq"]) = Ring - 1
      <4>1. Distance(h, d["irq"]) # Ring - 1 => Distance(h, h) = Distance(h, d["irq"]) + 1
        BY <1>3, <3>3, DistanceFacts
      <4> QED BY <1>1, <1>3, <4>1
    <3>5. "main" \in P /\ d["main"] = h
      BY <1>3, <3>1, <3>3
    <3>6. d["irq"] \in C
      BY <1>4, <3>2, <3>5 DEF Doubled
    <3>7. \A j \in Slots : j \in Q
      <4>1. \A j \in Slots : Distance(h, j) <= Distance(h, d["irq"])
        BY <1>1, <3>4
      <4> QED BY <1>4, <3>2, <3>6, <4>1 DEF Doubled, Q
    <3> QED BY <1>6, <3>1, <3>7
  <2> QED BY <2>3, <2>4
<1>10. Overrun(k, b, D, P, d)
  BY <1>9 DEF Overrun, Full, G, Q
<1>11. Doubled(k, b, D, P, d)
  <2>1. ~ ("main" \in P /\ d["main"] \in D)
    BY <1>2, <1>4 DEF Doubled
  <2>2. ~ (P = Senders /\ d["main"] = d["irq"])
    BY <1>4 DEF Doubled
  <2>3. ASSUME "irq" \in P, d["irq"] \in D
        PROVE  G = Slots /\ \A j \in Slots : Distance(k, j) <= Distance(k, d["irq"]) => j \in Q
    <3>1. d["irq"] \in C /\ d["irq"] # h
      BY <1>2, <2>3
    <3>2. \A j \in Slots : Distance(h, j) <= Distance(h, d["irq"]) => j \in Q
      BY <1>4, <2>3, <3>1 DEF Doubled, Q
    <3>3. h \in Q
      BY <1>1, <1>3, <3>2
    <3>4. ASSUME NEW j \in Slots, Distance(k, j) <= Distance(k, d["irq"]) PROVE j \in Q
      BY <1>1, <1>3, <3>1, <3>2, <3>3, <3>4
    <3> QED BY <1>6, <3>3, <3>4
  <2> QED BY <2>1, <2>2, <2>3 DEF Doubled, Full, G, Q
<1>12. Settled(k, b, D, P, d)
  <2>1. ASSUME "irq" \in P, d["irq"] \notin D, G = Slots
        PROVE  b = k
    <3>1. CASE d["irq"] = h
      BY <1>4, <2>1, <3>1 DEF LastCome, k
    <3>2. CASE d["irq"] # h
      <4>1. "main" \in P /\ d["main"] = h
        BY <1>3, <1>7, <2>1, <3>2
      <4> QED BY <1>2, <1>4, <2>1, <3>2, <4>1 DEF Doubled
    <3> QED BY <3>1, <3>2
  <2>2. ASSUME "main" \in P, "irq" \notin P, G = Slots
        PROVE  b = k
    <3>1. d["main"] = h
      BY <1>3, <1>7, <2>2
    <3> QED BY <1>4, <2>2, <3>1 DEF Doubled, k
  <2> QED BY <2>1, <2>2 DEF Settled, Full, G
<1> QED BY <1>4, <1>8, <1>10, <1>11, <1>12 DEF Laid, k, D

(* A send() takes the descriptor at current_send_buffer.                   *)
LEMMA ClaimLaid ==
  ASSUME NEW h \in Slots, NEW b \in Slots, NEW C \in SUBSET Slots,
         NEW P \in SUBSET Senders, NEW d \in [Senders -> Slots],
         NEW p \in Senders \ P, Laid(h, b, C, P, d)
  PROVE  Laid(h, b, C, P, [d EXCEPT ![p] = b])
<1> DEFINE e == [d EXCEPT ![p] = b]
<1>1. /\ P # Senders /\ e \in [Senders -> Slots]
      /\ "main" \in P => e["main"] = d["main"]
      /\ "irq" \in P => e["irq"] = d["irq"]
  BY DEF Senders
<1> HIDE DEF e
<1>2. Promised(P, e) = Promised(P, d)
  <2>1. \A q \in P : e[q] = d[q]
    BY <1>1 DEF Senders
  <2> QED BY <2>1 DEF Promised
<1>3. Filled(C, P, e) = Filled(C, P, d)
  BY <1>2 DEF Filled
<1>4. NoGap(h, b, C, P, e) /\ Overrun(h, b, C, P, e)
  BY <1>2, <1>3 DEF Laid, NoGap, Overrun, Full
<1>5. LastCome(b, P, e) /\ Doubled(h, b, C, P, e)
  BY <1>1, <1>2, <1>3 DEF Laid, LastCome, Doubled, Full
<1>6. Settled(h, b, C, P, e)
  <2>1. "irq" \in P /\ e["irq"] \notin C /\ Full(C, P, e) => b = h
    BY <1>1, <1>3, PromisedIs DEF Laid, Settled, Full
  <2>2. "main" \in P /\ "irq" \notin P /\ e["main"] \notin C /\ Full(C, P, e) => b = h
    BY <1>1, <1>3 DEF Laid, Settled, Full
  <2> QED BY <2>1, <2>2 DEF Settled
<1> QED BY <1>4, <1>5, <1>6 DEF Laid, e

(* A send() that took the descriptor at current_send_buffer advances it.   *)
LEMMA AdvanceLaid ==
  ASSUME NEW h \in Slots, NEW b \in Slots, NEW C \in SUBSET Slots,
         NEW P \in SUBSET Senders, NEW d \in [Senders -> Slots],
         NEW p \in Senders \ P, Ring > 1, Laid(h, b, C, P, d), d[p] = b,
         p = "main" => "irq" \notin P
  PROVE  Laid(h, After(b), C, P \cup {p}, d)
<1> DEFINE n == After(b)
           O == P \cup {p}
           Q == Promised(P, d)
           R == Promised(O, d)
           F == Filled(C, P, d)
           G == Filled(C, O, d)
<1>1. /\ n \in Slots /\ n # b /\ Ring \in Nat
      /\ \A i \in Slots : Distance(h, i) \in 0 .. (Ring - 1) /\ (Distance(h, i) = 0 <=> h = i)
      /\ \A i, j \in Slots : Distance(h, i) = Distance(h, j) => i = j
      /\ Distance(h, b) = Ring - 1 => Distance(h, n) = 0
      /\ Distance(h, b) # Ring - 1 => Distance(h, n) = Distance(h, b) + 1
  BY DistanceFacts
<1>2. /\ "main" \in O <=> "main" \in P \/ p = "main"
      /\ "irq" \in O <=> "irq" \in P \/ p = "irq"
      /\ O \in SUBSET Senders /\ p \in {"main", "irq"} /\ p \notin P
      /\ d["main"] \in Slots /\ d["irq"] \in Slots
      /\ O = Senders => p = "irq" /\ "main" \in P
  BY DEF Senders
<1> HIDE DEF O
<1>3. /\ \A i : i \in Q <=> \/ "main" \in P /\ d["main"] = i
                            \/ "irq" \in P /\ d["irq"] = i
      /\ \A i : i \in R <=> \/ "main" \in O /\ d["main"] = i
                            \/ "irq" \in O /\ d["irq"] = i
  BY <1>2, PromisedIs
<1>4. \A i : i \in R <=> i \in Q \/ i = b
  BY <1>2, <1>3
<1>5. /\ \A i : i \in F <=> i \in C \/ i \in Q
      /\ \A i : i \in G <=> i \in F \/ i = b
      /\ F \in SUBSET Slots /\ G \in SUBSET Slots
  BY <1>2, <1>4, PromisedIs DEF Filled
<1>6. /\ NoGap(h, b, C, P, d) /\ Overrun(h, b, C, P, d)
      /\ LastCome(b, P, d) /\ Doubled(h, b, C, P, d) /\ Settled(h, b, C, P, d)
  BY DEF Laid
<1> HIDE DEF n, Q, R, F, G
<1>7. F = Slots => G = Slots
  BY <1>5
<1>8. b \in F => F = Slots /\ \A j \in Slots : Distance(h, j) < Distance(h, b) => j \in Q
  BY <1>6 DEF Overrun, Full, F, Q
<1>9. b \notin F => \A j \in F : Distance(h, j) < Distance(h, b)
  <2> SUFFICES ASSUME b \notin F, NEW j \in F PROVE Distance(h, j) < Distance(h, b)
    OBVIOUS
  <2>1. ~ (Distance(h, b) < Distance(h, j))
    BY <1>6 DEF NoGap, F
  <2>2. j \in Slots /\ j # b
    BY <1>5
  <2> QED BY <1>1, <2>1, <2>2
<1>10. \A j \in Slots : Distance(h, j) < Distance(h, b) => j \in F
  BY <1>6 DEF NoGap, F
<1>11. NoGap(h, n, C, O, d)
  <2>1. ASSUME NEW i \in G, NEW j \in Slots, Distance(h, j) < Distance(h, i)
        PROVE  j \in G
    <3>1. CASE i = b
      BY <1>5, <1>10, <2>1, <3>1
    <3>2. CASE i # b
      BY <1>5, <1>6, <2>1, <3>2 DEF NoGap, F
    <3> QED BY <3>1, <3>2
  <2>2. ASSUME NEW j \in Slots, Distance(h, j) < Distance(h, n)
        PROVE  j \in G
    <3>1. j = b \/ Distance(h, j) < Distance(h, b)
      BY <1>1, <2>2
    <3> QED BY <1>5, <1>10, <3>1
  <2> QED BY <2>1, <2>2 DEF NoGap, G
<1>12. Overrun(h, n, C, O, d)
  <2> SUFFICES ASSUME n \in G
               PROVE  G = Slots /\ \A j \in Slots : Distance(h, j) < Distance(h, n) => j \in R
    BY DEF Overrun, Full, G, R
  <2>1. CASE b \in F
    <3>1. ASSUME NEW j \in Slots, Distance(h, j) < Distance(h, n) PROVE j \in R
      <4>1. j = b \/ Distance(h, j) < Distance(h, b)
        BY <1>1, <3>1
      <4> QED BY <1>4, <1>8, <2>1, <4>1
    <3> QED BY <1>7, <1>8, <2>1, <3>1
  <2>2. CASE b \notin F
    <3>1. Distance(h, n) < Distance(h, b)
      BY <1>1, <1>5, <1>9, <2>2
    <3>2. Distance(h, b) = Ring - 1 /\ Distance(h, n) = 0
      BY <1>1, <3>1
    <3>3. \A j \in Slots : j = b \/ Distance(h, j) < Distance(h, b)
      BY <1>1, <3>2
    <3>4. G = Slots
      BY <1>5, <1>10, <3>3
    <3> QED BY <1>1, <3>2, <3>4
  <2> QED BY <2>1, <2>2
<1>13. LastCome(n, O, d)
  BY <1>2 DEF LastCome, n
<1>14. Doubled(h, n, C, O, d)
  <2>1. ASSUME "main" \in O, d["main"] \in C
        PROVE  /\ G = Slots /\ d["main"] = h
               /\ "irq" \in O => d["irq"] \in C
               /\ "irq" \notin O => n = After(d["main"])
    <3>1. CASE p = "main"
      <4>1. b \in C /\ b \in F /\ "irq" \notin O
        BY <1>2, <1>5, <2>1, <3>1
      <4>2. \A j : j \notin Q
        BY <1>2, <1>3, <3>1
      <4>3. ~ (Distance(h, h) < Distance(h, b))
        BY <1>8, <4>1, <4>2
      <4>4. b = h
        BY <1>1, <4>3
      <4> QED BY <1>7, <1>8, <3>1, <4>1, <4>4 DEF n
    <3>2. CASE p = "irq"
      <4>1. "main" \in P /\ "irq" \notin P
        BY <1>2, <2>1, <3>2
      <4>2. F = Slots /\ d["main"] = h /\ b = After(h)
        BY <1>6, <2>1, <4>1 DEF Doubled, Full, F
      <4>3. b # h
        BY <4>2, DistanceFacts
      <4>4. b \notin Q
        BY <1>3, <4>1, <4>2, <4>3
      <4>5. b \in C
        BY <1>5, <4>2, <4>4
      <4> QED BY <1>2, <1>7, <3>2, <4>2, <4>5
    <3> QED BY <1>2, <3>1, <3>2
  <2>2. ASSUME "irq" \in O, d["irq"] \in C
        PROVE  G = Slots /\ \A j \in Slots : Distance(h, j) <= Distance(h, d["irq"]) => j \in R
    <3>1. p = "irq" /\ b \in C /\ b \in F
      BY <1>2, <1>5, <2>2
    <3>2. ASSUME NEW j \in Slots, Distance(h, j) <= Distance(h, b) PROVE j \in R
      <4>1. j = b \/ Distance(h, j) < Distance(h, b)
        BY <1>1, <3>2
      <4> QED BY <1>4, <1>8, <3>1, <4>1
    <3> QED BY <1>7, <1>8, <3>1, <3>2
  <2>3. ASSUME O = Senders, d["main"] = d["irq"]
        PROVE  G = Slots /\ d["main"] = h /\ d["main"] \notin C
    <3>1. p = "irq" /\ "main" \in P /\ "irq" \notin P /\ d["main"] = b
      BY <1>2, <2>3
    <3>2. d["main"] \notin C
      <4>1. d["main"] \in C => b = After(b)
        BY <1>6, <3>1 DEF Doubled
      <4> QED BY <1>1, <4>1 DEF n
    <3>3. b \in F
      BY <1>3, <1>5, <3>1
    <3>4. \A j \in Slots : j \in Q => j = b
      BY <1>3, <3>1
    <3>5. b = h
      <4>1. h \in Q \/ ~ (Distance(h, h) < Distance(h, b))
        BY <1>8, <3>3
      <4> QED BY <1>1, <3>4, <4>1
    <3> QED BY <1>7, <1>8, <3>1, <3>2, <3>3, <3>5
  <2> QED BY <2>1, <2>2, <2>3 DEF Doubled, Full, G, R
<1>15. Settled(h, n, C, O, d)
  <2>1. ASSUME b \notin C, b \notin Q, G = Slots
        PROVE  n = h
    <3>1. b \notin F
      BY <1>5, <2>1
    <3>2. Distance(h, n) < Distance(h, b)
      BY <1>1, <1>5, <1>9, <2>1, <3>1
    <3> QED BY <1>1, <3>2
  <2>2. ASSUME "irq" \in O, d["irq"] \notin C, G = Slots
        PROVE  n = h \/ ("main" \in O /\ d["main"] = d["irq"])
    <3>1. p = "irq"
      BY <1>2, <2>2
    <3>2. CASE b \in Q
      BY <1>2, <1>3, <3>1, <3>2
    <3>3. CASE b \notin Q
      BY <2>1, <2>2, <3>1, <3>3
    <3> QED BY <3>2, <3>3
  <2>3. ASSUME "main" \in O, "irq" \notin O, d["main"] \notin C, G = Slots
        PROVE  n = h
    <3>1. p = "main" /\ b \notin Q
      BY <1>2, <1>3, <2>3
    <3> QED BY <2>1, <2>3, <3>1
  <2> QED BY <2>2, <2>3 DEF Settled, Full, G
<1> QED BY <1>11, <1>12, <1>13, <1>14, <1>15 DEF Laid, n, O

(* A send() publishes its descriptor, which the card does not have.        *)
LEMMA PublishLaid ==
  ASSUME NEW h \in Slots, NEW b \in Slots, NEW C \in SUBSET Slots,
         NEW P \in SUBSET Senders, NEW d \in [Senders -> Slots],
         NEW p \in P, Ring > 1, Laid(h, b, C, P, d), d[p] \notin C,
         p = "main" => "irq" \notin P
  PROVE  Laid(h, b, C \cup {d[p]}, P \ {p}, d)
<1> DEFINE c == d[p]
           D == C \cup {c}
           O == P \ {p}
           Q == Promised(P, d)
           R == Promised(O, d)
           F == Filled(C, P, d)
           G == Filled(D, O, d)
<1>1. /\ c \in Slots /\ p \in {"main", "irq"} /\ O \in SUBSET Senders
      /\ "main" \in O <=> "main" \in P /\ p # "main"
      /\ "irq" \in O <=> "irq" \in P /\ p # "irq"
      /\ O # Senders /\ "irq" \notin O
      /\ d["main"] \in Slots /\ d["irq"] \in Slots
  BY DEF Senders
<1> HIDE DEF O, c
<1>2. /\ \A i : i \in Q <=> \/ "main" \in P /\ d["main"] = i
                            \/ "irq" \in P /\ d["irq"] = i
      /\ \A i : i \in R <=> "main" \in O /\ d["main"] = i
  BY <1>1, PromisedIs
<1>3. \A i : i \in Q <=> i \in R \/ i = c
  BY <1>1, <1>2 DEF c
<1>4. Ring \in Nat /\ h \in Slots
      /\ \A i \in Slots : Distance(h, i) \in 0 .. (Ring - 1) /\ (Distance(h, i) = 0 <=> h = i)
  BY DistanceFacts
<1>5. F = G /\ G \in SUBSET Slots
  BY <1>1, <1>3, PromisedIs DEF F, G, Filled, Q, R
<1>6. /\ NoGap(h, b, C, P, d) /\ Overrun(h, b, C, P, d)
      /\ LastCome(b, P, d) /\ Doubled(h, b, C, P, d) /\ Settled(h, b, C, P, d)
  BY DEF Laid
<1> HIDE DEF D, Q, R, F, G
<1>7. NoGap(h, b, D, O, d)
  BY <1>5, <1>6 DEF NoGap, F, G
<1>8. LastCome(b, O, d)
  BY <1>1 DEF LastCome
<1>9. Overrun(h, b, D, O, d)
  <2> SUFFICES ASSUME b \in G
               PROVE  G = Slots /\ \A j \in Slots : Distance(h, j) < Distance(h, b) => j \in R
    BY DEF Overrun, Full, G, R
  <2>1. G = Slots /\ \A j \in Slots : Distance(h, j) < Distance(h, b) => j \in Q
    BY <1>5, <1>6 DEF Overrun, Full, F, Q
  <2>2. CASE b = h
    BY <1>4, <2>1, <2>2
  <2>3. CASE b # h
    <3>1. p = "irq" /\ "main" \in P /\ d["main"] = c
      BY <1>1, <1>5, <1>6, <2>1, <2>3 DEF Settled, Full, F, c
    <3> QED BY <1>1, <1>2, <1>3, <2>1, <3>1
  <2> QED BY <2>2, <2>3
<1>10. Doubled(h, b, D, O, d)
  <2> SUFFICES ASSUME "main" \in O, d["main"] \in D
               PROVE  G = Slots /\ d["main"] = h /\ b = After(d["main"])
    BY <1>1 DEF Doubled, Full, G
  <2>1. p = "irq" /\ P = Senders /\ b = After(c)
    BY <1>1, <1>6 DEF LastCome, c, Senders
  <2>2. d["main"] \notin C
    BY <1>1, <1>6, <2>1 DEF Doubled, c
  <2>3. d["main"] = c
    BY <2>2 DEF D
  <2> QED BY <1>5, <1>6, <2>1, <2>3 DEF Doubled, Full, F, c
<1>11. Settled(h, b, D, O, d)
  <2> SUFFICES ASSUME "main" \in O, d["main"] \notin D, G = Slots
               PROVE  b = h
    BY <1>1 DEF Settled, Full, G
  <2>1. p = "irq" /\ d["main"] # c
    BY <1>1 DEF D
  <2> QED BY <1>5, <1>6, <2>1 DEF Settled, Full, F, c
<1> QED BY <1>7, <1>8, <1>9, <1>10, <1>11 DEF Laid, D, O, c

(* The module's states of the send ring.                                   *)
Carded   == {i \in Slots : tx[i] = "card"}
Filling  == {p \in Senders : spc[p] = "publish"}
SendRing == Laid(card_tx, current_send_buffer, Carded, Filling, send_descriptor)

(* A sender between claim and advance has the current descriptor and will  *)
(* go on from it, and the handler's send() does not begin while kernel_main*)
(* is between the two.                                                     *)
Advancing == {"load", "store"}

Turns ==
  /\ \A p \in Senders :
       /\ spc[p] \in Advancing => send_descriptor[p] = current_send_buffer
       /\ spc[p] = "store" => next[p] = After(current_send_buffer)
  /\ spc["irq"] \in Advancing \cup {"publish"} => spc["main"] \notin Advancing

(* In a ring of one descriptor there is nothing to be in order.            *)
TxInv == TypeOK /\ AnswersInside /\ (inTurn /\ Ring > 1 => Turns /\ SendRing)

LEMMA TxTypes ==
  ASSUME TypeOK
  PROVE  /\ card_tx \in Slots /\ current_send_buffer \in Slots
         /\ Carded \in SUBSET Slots /\ Filling \in SUBSET Senders
         /\ send_descriptor \in [Senders -> Slots]
         /\ tx \in [Slots -> {"card", "host"}]
         /\ DOMAIN spc = Senders
BY DEF TypeOK, Carded, Filling

LEMMA InitTx == Init => TxInv
<1> SUFFICES ASSUME Init, Ring > 1 PROVE Turns /\ SendRing
  BY InitTypes DEF TxInv, RxInv
<1>1. Turns
  BY DEF Init, Turns, Senders, Advancing
<1>2. Carded = {} /\ Filling = {}
  BY DEF Init, Carded, Filling
<1>3. Promised({}, send_descriptor) = {} /\ Filled({}, {}, send_descriptor) = {}
  BY DEF Promised, Filled
<1>4. 0 \in Slots /\ card_tx = 0 /\ current_send_buffer = 0
  BY CardAssumption DEF Init, Slots
<1>5. \A j \in Slots : Distance(0, j) \in 0 .. (Ring - 1) /\ Distance(0, 0) = 0 /\ Ring \in Nat
  BY <1>4, DistanceFacts
<1>6. NoGap(0, 0, {}, {}, send_descriptor)
  BY <1>3, <1>5 DEF NoGap
<1>7. Laid(0, 0, {}, {}, send_descriptor)
  BY <1>3, <1>6 DEF Laid, Overrun, LastCome, Doubled, Settled, Senders
<1> QED BY <1>1, <1>2, <1>4, <1>7 DEF SendRing

LEMMA TransmitTx ==
  ASSUME TypeOK, Ring > 1, Turns, SendRing, Transmit
  PROVE  Turns' /\ SendRing'
<1> DEFINE h == card_tx
           b == current_send_buffer
           C == Carded
           P == Filling
           d == send_descriptor
<1>1. /\ h \in Slots /\ b \in Slots /\ C \in SUBSET Slots
      /\ P \in SUBSET Senders /\ d \in [Senders -> Slots]
      /\ h \in C /\ Laid(h, b, C, P, d)
  BY TxTypes DEF Transmit, Carded, SendRing
<1>2. /\ card_tx' = After(h) /\ current_send_buffer' = b
      /\ Carded' = C \ {h} /\ Filling' = P /\ send_descriptor' = d
  BY TxTypes DEF Transmit, Carded, Filling
<1> HIDE DEF h, b, C, P, d
<1>3. Laid(After(h), b, C \ {h}, P, d)
  BY <1>1, TransmitLaid
<1>4. SendRing'
  BY <1>2, <1>3 DEF SendRing
<1>5. Turns'
  BY DEF Turns, Transmit, Advancing
<1> QED BY <1>4, <1>5

LEMMA ClaimTx ==
  ASSUME TypeOK, AnswersInside, Ring > 1, Turns, SendRing, inTurn',
         NEW p \in Senders, SendClaim(p), card_tx' = card_tx
  PROVE  Turns' /\ SendRing'
<1> DEFINE h == card_tx
           b == current_send_buffer
           C == Carded
           P == Filling
           d == send_descriptor
<1>1. /\ h \in Slots /\ b \in Slots /\ C \in SUBSET Slots
      /\ P \in SUBSET Senders /\ d \in [Senders -> Slots]
      /\ p \in Senders \ P /\ Laid(h, b, C, P, d)
  BY TxTypes DEF SendClaim, At, Filling, SendRing
<1>2. spc' = [spc EXCEPT ![p] = "load"] /\ DOMAIN spc = Senders
  BY TxTypes DEF SendClaim, Goto
<1>3. \A q \in Senders : spc'[q] = IF q = p THEN "load" ELSE spc[q]
  BY <1>2
<1>4. Filling' = P
  BY <1>1, <1>3 DEF Filling
<1>5. /\ card_tx' = h /\ current_send_buffer' = b /\ Carded' = C
      /\ send_descriptor' = [d EXCEPT ![p] = b]
  BY DEF SendClaim, Carded
<1>6. \A q \in Senders : spc[q] \notin Advancing
  BY DEF SendClaim, Exclusive, Advancing
<1>7. p = "main" => spc["irq"] = "idle"
  BY DEF SendClaim, At, MayRun, AnswersInside
<1> HIDE DEF h, b, C, P, d
<1>8. Laid(h, b, C, P, [d EXCEPT ![p] = b])
  BY <1>1, ClaimLaid
<1>9. SendRing'
  BY <1>4, <1>5, <1>8 DEF SendRing
<1>10. Turns'
  <2>1. \A q \in Senders : spc'[q] \in Advancing => /\ q = p /\ send_descriptor'[q] = b
                                                   /\ spc'[q] # "store"
    BY <1>1, <1>3, <1>5, <1>6 DEF Advancing
  <2>2. spc'["irq"] \in Advancing \cup {"publish"} => spc'["main"] \notin Advancing
    BY <1>3, <1>6, <1>7 DEF Senders, Advancing
  <2> QED BY <1>5, <2>1, <2>2 DEF Turns, Advancing
<1> QED BY <1>9, <1>10

LEMMA LoadTx ==
  ASSUME TypeOK, AnswersInside, Ring > 1, Turns, SendRing, card_tx' = card_tx,
         NEW p \in Senders, At(p, "load"), Goto(p, "store"),
         next' = [next EXCEPT ![p] = After(current_send_buffer)],
         UNCHANGED <<tx, current_send_buffer, send_descriptor>>
  PROVE  Turns' /\ SendRing'
<1>1. DOMAIN spc = Senders /\ next \in [Senders -> Slots] /\ spc[p] = "load"
  BY DEF TypeOK, At
<1>2. /\ \A q \in Senders : spc'[q] = IF q = p THEN "store" ELSE spc[q]
      /\ \A q \in Senders : next'[q] = IF q = p THEN After(current_send_buffer) ELSE next[q]
  BY <1>1 DEF Goto
<1>3. Filling' = Filling /\ Carded' = Carded
  BY <1>1, <1>2 DEF Filling, Carded
<1>4. SendRing'
  BY <1>3 DEF SendRing
<1>5. \A q \in Senders : spc'[q] \in Advancing <=> spc[q] \in Advancing
  BY <1>1, <1>2 DEF Advancing
<1>6. spc'["irq"] \in Advancing \cup {"publish"} => spc'["main"] \notin Advancing
  BY <1>1, <1>2, <1>5 DEF Turns, Senders, Advancing
<1>7. ASSUME NEW q \in Senders
      PROVE  /\ spc'[q] \in Advancing => send_descriptor'[q] = current_send_buffer'
             /\ spc'[q] = "store" => next'[q] = After(current_send_buffer')
  BY <1>2, <1>5 DEF Turns
<1> QED BY <1>4, <1>6, <1>7 DEF Turns, Advancing

LEMMA StoreTx ==
  ASSUME TypeOK, AnswersInside, Ring > 1, Turns, SendRing, card_tx' = card_tx,
         NEW p \in Senders, At(p, "store"), Goto(p, "publish"),
         current_send_buffer' = next[p], UNCHANGED <<tx, send_descriptor, next>>
  PROVE  Turns' /\ SendRing'
<1> DEFINE h == card_tx
           b == current_send_buffer
           C == Carded
           P == Filling
           d == send_descriptor
<1>1. /\ h \in Slots /\ b \in Slots /\ C \in SUBSET Slots
      /\ P \in SUBSET Senders /\ d \in [Senders -> Slots]
      /\ p \in Senders \ P /\ Laid(h, b, C, P, d)
  BY TxTypes DEF At, Filling, SendRing
<1>2. spc' = [spc EXCEPT ![p] = "publish"] /\ DOMAIN spc = Senders /\ spc[p] = "store"
  BY TxTypes DEF At, Goto
<1>3. \A q \in Senders : spc'[q] = IF q = p THEN "publish" ELSE spc[q]
  BY <1>2
<1>4. Filling' = P \cup {p}
  BY <1>3 DEF Filling
<1>5. /\ card_tx' = h /\ current_send_buffer' = After(b) /\ Carded' = C
      /\ send_descriptor' = d
  BY <1>2 DEF Carded, Turns
<1>6. d[p] = b
  BY <1>2 DEF Turns, Advancing
<1>7. p = "main" => spc["irq"] = "idle" /\ "irq" \notin P
  BY DEF At, MayRun, AnswersInside, Filling
<1>8. \A q \in Senders : q # p => spc[q] \notin Advancing
  BY <1>2, <1>7 DEF Turns, Senders, Advancing
<1> HIDE DEF h, b, C, P, d
<1>9. Laid(h, After(b), C, P \cup {p}, d)
  BY <1>1, <1>6, <1>7, AdvanceLaid
<1>10. SendRing'
  BY <1>4, <1>5, <1>9 DEF SendRing
<1>11. Turns'
  BY <1>3, <1>8 DEF Turns, Senders, Advancing
<1> QED BY <1>10, <1>11

LEMMA AdvanceTx ==
  ASSUME TypeOK, AnswersInside, Ring > 1, Turns, SendRing,
         NEW p \in Senders, SendAdvance(p), card_tx' = card_tx
  PROVE  Turns' /\ SendRing'
BY LoadTx, StoreTx DEF SendAdvance

LEMMA PublishTx ==
  ASSUME TypeOK, AnswersInside, Ring > 1, Turns, SendRing, inTurn',
         NEW p \in Senders, SendPublish(p), card_tx' = card_tx
  PROVE  Turns' /\ SendRing'
<1> DEFINE h == card_tx
           b == current_send_buffer
           C == Carded
           P == Filling
           d == send_descriptor
<1>1. /\ h \in Slots /\ b \in Slots /\ C \in SUBSET Slots
      /\ P \in SUBSET Senders /\ d \in [Senders -> Slots]
      /\ p \in P /\ Laid(h, b, C, P, d)
  BY TxTypes DEF SendPublish, At, Filling, SendRing
<1>2. spc' = [spc EXCEPT ![p] = "idle"] /\ DOMAIN spc = Senders
  BY TxTypes DEF SendPublish, Goto
<1>3. \A q \in Senders : spc'[q] = IF q = p THEN "idle" ELSE spc[q]
  BY <1>2
<1>4. Filling' = P \ {p}
  BY <1>3 DEF Filling
<1>5. /\ card_tx' = h /\ current_send_buffer' = b /\ send_descriptor' = d
      /\ tx' = [tx EXCEPT ![d[p]] = "card"]
  BY DEF SendPublish
<1>6. d[p] \notin C
  BY DEF SendPublish, Vacant, Carded
<1>7. Carded' = C \cup {d[p]}
  BY <1>1, <1>5, TxTypes DEF Carded
<1>8. p = "main" => "irq" \notin P
  BY DEF SendPublish, At, MayRun, AnswersInside, Filling
<1> HIDE DEF h, b, C, P, d
<1>9. Laid(h, b, C \cup {d[p]}, P \ {p}, d)
  BY <1>1, <1>6, <1>8, PublishLaid
<1>10. SendRing'
  BY <1>4, <1>5, <1>7, <1>9 DEF SendRing
<1>11. Turns'
  <2>1. \A q \in Senders : spc'[q] \in Advancing => spc[q] = spc'[q]
    BY <1>3 DEF Advancing
  <2>2. /\ spc'["irq"] \in Advancing \cup {"publish"}
              => spc["irq"] \in Advancing \cup {"publish"}
        /\ next' = next
    BY <1>3 DEF Senders, Advancing, SendPublish
  <2> QED BY <1>5, <2>1, <2>2 DEF Turns, d, b, Senders, Advancing
<1> QED BY <1>10, <1>11

(* The steps that begin a send() or do not touch the send ring.            *)
LEMMA OtherTx ==
  ASSUME TypeOK, Ring > 1, Turns, SendRing,
         tx' = tx, current_send_buffer' = current_send_buffer,
         send_descriptor' = send_descriptor, next' = next, card_tx' = card_tx,
         \A q \in Senders : spc'[q] = spc[q] \/ (spc[q] = "idle" /\ spc'[q] = "claim")
  PROVE  Turns' /\ SendRing'
<1>1. Carded' = Carded /\ Filling' = Filling
  BY DEF Carded, Filling
<1>2. Turns'
  BY DEF Turns, Senders, Advancing
<1> QED BY <1>1, <1>2 DEF SendRing

LEMMA NextTx == TxInv /\ [Next]_vars => TxInv'
<1> SUFFICES ASSUME TypeOK, AnswersInside, inTurn /\ Ring > 1 => Turns /\ SendRing,
                    [Next]_vars, inTurn', Ring > 1
             PROVE  Turns' /\ SendRing'
  BY NextTypes DEF TxInv
<1>1. inTurn \in BOOLEAN /\ DOMAIN spc = Senders
  BY DEF TypeOK
<1>2. inTurn /\ Turns /\ SendRing
  <2>1. inTurn
    BY DEF Next, Arrive, Transmit, CallSend, Send, SendClaim, SendAdvance, SendPublish,
           Interrupt, HandleInterrupt, ReadStatus, ReceiveFrame, Recycle, ReceiveDone,
           Acknowledge, vars, txvars
  <2> QED BY <2>1
<1>3. CASE Transmit
  BY <1>2, <1>3, TransmitTx
<1>4. CASE \E p \in Senders : Send(p)
  BY <1>2, <1>4, ClaimTx, AdvanceTx, PublishTx DEF Send
<1>5. CASE CallSend \/ ReceiveFrame
  <2>1. /\ tx' = tx /\ current_send_buffer' = current_send_buffer
        /\ send_descriptor' = send_descriptor /\ next' = next /\ card_tx' = card_tx
    BY <1>5 DEF CallSend, ReceiveFrame
  <2>2. \/ spc' = spc
        \/ \E p \in Senders : spc[p] = "idle" /\ spc' = [spc EXCEPT ![p] = "claim"]
    <3>1. CASE CallSend
      BY <3>1 DEF CallSend, At, Goto, Senders
    <3>2. CASE ReceiveFrame
      BY <3>2 DEF ReceiveFrame, Goto, AnswersInside, Senders
    <3> QED BY <1>5, <3>1, <3>2
  <2>3. \A q \in Senders : spc'[q] = spc[q] \/ (spc[q] = "idle" /\ spc'[q] = "claim")
    BY <1>1, <2>2
  <2> QED BY <1>2, <2>1, <2>3, OtherTx
<1>6. CASE \/ \E ok \in BOOLEAN : Arrive(ok)
           \/ Interrupt \/ ReadStatus \/ Recycle \/ ReceiveDone \/ Acknowledge
           \/ UNCHANGED vars
  <2>1. /\ tx' = tx /\ current_send_buffer' = current_send_buffer
        /\ send_descriptor' = send_descriptor /\ next' = next /\ card_tx' = card_tx
        /\ spc' = spc
    BY <1>6 DEF Arrive, Interrupt, ReadStatus, Recycle, ReceiveDone, Acknowledge, vars, txvars
  <2> QED BY <1>2, <2>1, OtherTx
<1> QED BY <1>3, <1>4, <1>5, <1>6 DEF Next, HandleInterrupt

LEMMA RingHasNoGap ==
  TxInv => SendRingHasNoGap
<1> SUFFICES ASSUME TypeOK, inTurn, Ring > 1 => SendRing,
                    NEW i \in Slots, tx[i] = "card", NEW j \in Slots,
                    Distance(card_tx, j) < Distance(card_tx, i)
             PROVE  tx[j] = "card" \/ j \in Claimed
  BY DEF TxInv, SendRingHasNoGap
<1>1. Ring > 1
  <2>1. /\ Ring \in Nat \ {0} /\ Distance(card_tx, i) \in 0 .. (Ring - 1)
        /\ Distance(card_tx, j) \in 0 .. (Ring - 1)
    BY TxTypes, DistanceFacts
  <2> QED BY <2>1
<1>2. i \in Filled(Carded, Filling, send_descriptor)
  BY DEF Filled, Carded
<1>3. j \in Filled(Carded, Filling, send_descriptor)
  BY <1>1, <1>2 DEF SendRing, Laid, NoGap
<1>4. j \in Carded \/ j \in Promised(Filling, send_descriptor)
  BY <1>3 DEF Filled
<1>5. Promised(Filling, send_descriptor) \subseteq Claimed
  BY DEF Promised, Filling, Claimed
<1> QED BY <1>4, <1>5 DEF Carded

(* As long as no send() begins between another's claim and its advance and *)
(* none publishes a descriptor the card has, the frames in the send ring   *)
(* lie without a gap from the card's place on: for any length of the ring. *)
THEOREM SendRingIsWithoutGap == Spec => []SendRingHasNoGap
<1>1. Spec => []TxInv
  BY InitTx, NextTx, PTL DEF Spec
<1> QED BY <1>1, RingHasNoGap, PTL

=============================================================================
