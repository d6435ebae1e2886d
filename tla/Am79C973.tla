------------------------------ MODULE Am79C973 ------------------------------
(***************************************************************************)
(* The network driver, src/src/am79c973.cpp, with the card it drives.      *)
(*                                                                         *)
(* Three parties share the two descriptor rings and the status bits of     *)
(* CSR0: kernel_main ("main") sends frames with interrupts enabled; the    *)
(* interrupt handler ("irq") preempts it at any point, runs to its end     *)
(* with interrupts disabled, receives frames and may send answers; the     *)
(* card stores and transmits frames at any time.  A descriptor belongs to  *)
(* whom its OWN bit says.  Each received frame is a number, in order of    *)
(* arrival; what the frames sent contain is not modelled.                  *)
(***************************************************************************)
EXTENDS Integers, FiniteSets

CONSTANTS
  Ring,         (* descriptors in each ring: 8 in the code                  *)
  MaxFrames,    (* bound on the frames that arrive                          *)
  MaxSends,     (* bound on the frames kernel_main sends                    *)
  Echo,         (* does on_raw_data_received() ask for an answer?           *)
  FrameSize,    (* bytes of a received frame                                *)
  Base          (* address of receive_buffers, modulo 16                    *)

ASSUME CardAssumption ==
  /\ Ring \in Nat \ {0}
  /\ MaxFrames \in Nat /\ MaxSends \in Nat
  /\ Echo \in BOOLEAN
  /\ FrameSize \in Nat \ {0}
  /\ Base \in 0 .. 15

VARIABLES
  rx,                       (* receive ring: [own, frame, ok]               *)
  tx,                       (* send ring: the owner of each descriptor      *)
  bytes,                    (* what is stored where in the receive buffers  *)
  status,                   (* the interrupt bits of CSR0                   *)
  current_receive_buffer,
  current_send_buffer,
  temp,                     (* handle_interrupt()'s copy of CSR0            *)
  hpc,                      (* where handle_interrupt() is                  *)
  spc,                      (* sender |-> where its send() is               *)
  send_descriptor,          (* sender |-> send()'s local                    *)
  next,                     (* sender |-> the current_send_buffer to store  *)
  card_rx, card_tx,         (* the card's own ring positions                *)
  arrived, sends,           (* frames stored; frames kernel_main has begun  *)
  inTurn,                   (* history: see SendClaim                       *)
  seen                      (* history: frame receive() last looked at      *)

rxvars   == <<rx, bytes, current_receive_buffer, card_rx, arrived>>
txvars   == <<tx, current_send_buffer, spc, send_descriptor, next, sends, inTurn>>
handler  == <<temp, hpc, seen>>
vars     == <<rxvars, txvars, handler, status, card_tx>>

Slots   == 0 .. (Ring - 1)
Senders == {"main", "irq"}
None    == 0

After(i) == (i + 1) % Ring

(* Mutant: the bit tested is that of a transmitted frame.                  *)
STATUS_TINT == "TINT"

STATUS_RINT == "RINT"

(* receive_buffers is declared as [2 * 1024 + 15][8], so element i starts  *)
(* eight bytes behind element i - 1; the constructor rounds up to 16.      *)
Align(a)   == 16 * ((a + 15) \div 16)
Address(i) == Align(Base + 8 * i)
Buffer(i)  == Address(i) .. (Address(i) + FrameSize - 1)

(* The bytes of a frame are told apart no further than at buffer starts.   *)
Cells(i) == {a \in {Address(j) : j \in Slots} : a \in Buffer(i)}

(* The constructor hands every receive descriptor to the card and keeps    *)
(* every send descriptor; activate() starts the card.                      *)
Init ==
  /\ rx = [i \in Slots |-> [own |-> "card", frame |-> None, ok |-> TRUE]]
  /\ tx = [i \in Slots |-> "host"]
  /\ bytes = [a \in {Address(j) : j \in Slots} |-> None]
  /\ status = {"IDON"}
  /\ current_receive_buffer = 0 /\ current_send_buffer = 0
  /\ temp = {} /\ hpc = "idle"
  /\ spc = [p \in Senders |-> "idle"]
  /\ send_descriptor = [p \in Senders |-> 0] /\ next = [p \in Senders |-> 0]
  /\ card_rx = 0 /\ card_tx = 0
  /\ arrived = 0 /\ sends = 0
  /\ inTurn = TRUE /\ seen = None

-----------------------------------------------------------------------------
(* The card.                                                               *)

(* A frame goes into the descriptor the card is at, damaged (ok = FALSE)   *)
(* or not; if the host owns that one, the frame is missed.                 *)
Arrive(ok) ==
  /\ arrived < MaxFrames
  /\ arrived' = arrived + 1
  /\ IF rx[card_rx].own = "card"
       THEN /\ rx' = [rx EXCEPT ![card_rx] =
                        [own |-> "host", frame |-> arrived', ok |-> ok]]
            /\ bytes' = [a \in DOMAIN bytes |->
                           IF a \in Cells(card_rx) THEN arrived' ELSE bytes[a]]
            /\ card_rx' = After(card_rx)
            /\ status' = status \cup {"RINT"}
       ELSE /\ status' = status \cup {"MISS"}
            /\ UNCHANGED <<rx, bytes, card_rx>>
  /\ UNCHANGED <<current_receive_buffer, txvars, handler, card_tx>>

Transmit ==
  /\ tx[card_tx] = "card"
  /\ tx' = [tx EXCEPT ![card_tx] = "host"]
  /\ card_tx' = After(card_tx)
  /\ status' = status \cup {"TINT"}
  /\ UNCHANGED <<rxvars, current_send_buffer, spc, send_descriptor, next, sends, inTurn,
                 handler>>

-----------------------------------------------------------------------------
(* send(), by either sender.                                               *)

(* While the handler runs, kernel_main does not.                           *)
MayRun(p) == p = "main" => hpc = "idle"

At(p, step)  == MayRun(p) /\ spc[p] = step
Goto(p, step) == spc' = [spc EXCEPT ![p] = step]

(* History: no send() has begun while another had read current_send_buffer *)
(* and not yet advanced it, nor published a descriptor the card still had. *)
Vacant(p) == tx[send_descriptor[p]] = "host"
Exclusive == \A p \in Senders : spc[p] \notin {"load", "store"}

(* Mutant: the descriptor after the current one is taken.                  *)
SendClaimNext(p) ==
  /\ At(p, "claim")
  /\ send_descriptor' = [send_descriptor EXCEPT ![p] = After(current_send_buffer)]
  /\ inTurn' = (inTurn /\ Exclusive)
  /\ Goto(p, "load")
  /\ UNCHANGED <<tx, current_send_buffer, next, sends>>

SendClaim(p) ==
  /\ At(p, "claim")
  /\ send_descriptor' = [send_descriptor EXCEPT ![p] = current_send_buffer]
  /\ inTurn' = (inTurn /\ Exclusive)
  /\ Goto(p, "load")
  /\ UNCHANGED <<tx, current_send_buffer, next, sends>>

(* current_send_buffer is read again, then written.                        *)
SendAdvance(p) ==
  \/ /\ At(p, "load")
     /\ next' = [next EXCEPT ![p] = After(current_send_buffer)]
     /\ Goto(p, "store")
     /\ UNCHANGED <<tx, current_send_buffer, send_descriptor, sends, inTurn>>
  \/ /\ At(p, "store")
     /\ current_send_buffer' = next[p]
     /\ Goto(p, "publish")
     /\ UNCHANGED <<tx, send_descriptor, next, sends, inTurn>>

(* Mutant: OWN is set in the descriptor of the next send().                *)
SendPublishCurrent(p) ==
  /\ At(p, "publish")
  /\ tx' = [tx EXCEPT ![current_send_buffer] = "card"]
  /\ inTurn' = (inTurn /\ Vacant(p))
  /\ Goto(p, "idle")
  /\ UNCHANGED <<current_send_buffer, send_descriptor, next, sends>>

(* The frame is copied; then the store that sets OWN, and the doorbell.    *)
SendPublish(p) ==
  /\ At(p, "publish")
  /\ tx' = [tx EXCEPT ![send_descriptor[p]] = "card"]
  /\ inTurn' = (inTurn /\ Vacant(p))
  /\ Goto(p, "idle")
  /\ UNCHANGED <<current_send_buffer, send_descriptor, next, sends>>

Send(p) ==
  /\ SendClaim(p) \/ SendAdvance(p) \/ SendPublish(p)
  /\ UNCHANGED <<rxvars, handler, status, card_tx>>

(* kernel_main calls send().                                               *)
CallSend ==
  /\ At("main", "idle")
  /\ sends < MaxSends
  /\ sends' = sends + 1
  /\ Goto("main", "claim")
  /\ UNCHANGED <<rxvars, tx, current_send_buffer, send_descriptor, next, inTurn, handler,
                 status, card_tx>>

-----------------------------------------------------------------------------
(* handle_interrupt().                                                     *)

(* The card's interrupt line is high as long as a status bit is set.       *)
Interrupt ==
  /\ hpc = "idle" /\ status # {}
  /\ hpc' = "read"
  /\ UNCHANGED <<rxvars, txvars, temp, seen, status, card_tx>>

ReadStatus ==
  /\ hpc = "read"
  /\ temp' = status
  /\ hpc' = IF STATUS_RINT \in status THEN "receive" ELSE "acknowledge"
  /\ UNCHANGED <<rxvars, txvars, seen, status, card_tx>>

Received == rx[current_receive_buffer]

(* Mutant: the loop does not test OWN.                                     *)
Always == TRUE

Mine == Received.own = "host"

(* receive(): the loop test, the filter and the handler's answer.          *)
ReceiveFrame ==
  /\ hpc = "receive"
  /\ Mine
  /\ seen' = Received.frame
  /\ hpc' = "recycle"
  /\ IF Received.ok /\ Echo THEN Goto("irq", "claim") ELSE UNCHANGED spc
  /\ UNCHANGED <<rxvars, tx, current_send_buffer, send_descriptor, next, sends, inTurn,
                 temp, status, card_tx>>

(* Mutant: the loop does not advance.                                      *)
RecycleOnly ==
  /\ hpc = "recycle"
  /\ spc["irq"] = "idle"
  /\ rx' = [rx EXCEPT ![current_receive_buffer].own = "card"]
  /\ hpc' = "receive"
  /\ UNCHANGED <<bytes, current_receive_buffer, card_rx, arrived, txvars, temp, seen,
                 status, card_tx>>

Recycle ==
  /\ hpc = "recycle"
  /\ spc["irq"] = "idle"
  /\ rx' = [rx EXCEPT ![current_receive_buffer].own = "card"]
  /\ current_receive_buffer' = After(current_receive_buffer)
  /\ hpc' = "receive"
  /\ UNCHANGED <<bytes, card_rx, arrived, txvars, temp, seen, status, card_tx>>

ReceiveDone ==
  /\ hpc = "receive"
  /\ ~ Mine
  /\ hpc' = "acknowledge"
  /\ UNCHANGED <<rxvars, txvars, temp, seen, status, card_tx>>

(* Writing a status bit back clears it.                                    *)
Acknowledge ==
  /\ hpc = "acknowledge"
  /\ status' = status \ temp
  /\ temp' = {}
  /\ hpc' = "idle"
  /\ UNCHANGED <<rxvars, txvars, seen, card_tx>>

-----------------------------------------------------------------------------

HandleInterrupt ==
  \/ ReadStatus \/ ReceiveFrame \/ Recycle \/ ReceiveDone \/ Acknowledge

Next ==
  \/ \E ok \in BOOLEAN : Arrive(ok)
  \/ Transmit
  \/ CallSend
  \/ \E p \in Senders : Send(p)
  \/ Interrupt
  \/ HandleInterrupt

Spec == Init /\ [][Next]_vars

(* The CPU executes what it has begun and takes the card's interrupt; the  *)
(* card polls its send ring.  Nothing makes a frame arrive.                *)
FairSpec ==
  /\ Spec
  /\ WF_vars(Interrupt) /\ WF_vars(HandleInterrupt)
  /\ \A p \in Senders : WF_vars(Send(p))
  /\ WF_vars(Transmit)

-----------------------------------------------------------------------------

Distance(i, j) == (j - i + Ring) % Ring

(* The receive ring is a queue: the host's descriptors are the ones from   *)
(* the driver's position up to the card's, and hold ever later frames.     *)
ReceiveInOrder ==
  LET mine == {i \in Slots : rx[i].own = "host"}
      n    == Cardinality(mine)
  IN  /\ \A i \in Slots : i \in mine <=> Distance(current_receive_buffer, i) < n
      /\ card_rx = (current_receive_buffer + n) % Ring
      /\ \A i, j \in mine :
           Distance(current_receive_buffer, i) < Distance(current_receive_buffer, j)
             => rx[i].frame < rx[j].frame

(* receive() takes the stored frames in the order of their arrival, each   *)
(* once, and gives no descriptor back to the card whose frame it has not   *)
(* looked at, whenever the card stores frames meanwhile.                   *)
EachFrameOnce ==
  [][ /\ seen' # seen => seen' > seen
      /\ \A i \in Slots :
           rx[i].own = "host" /\ rx'[i].own = "card" => rx[i].frame = seen ]_vars

Claimed ==
  {send_descriptor[p] : p \in {q \in Senders : spc[q] \in {"load", "store", "publish"}}}

(* No lasting gap in the send ring: in front of a frame the card has not   *)
(* transmitted there are such frames and descriptors a send() is filling,  *)
(* so that the card, which waits at the first descriptor that is not its   *)
(* own, comes to it.  This is what send() relies on as long as its callers *)
(* keep turns and the ring has room, which it does not look at.            *)
SendRingHasNoGap ==
  inTurn =>
    \A i \in Slots : tx[i] = "card" =>
      \A j \in Slots :
        Distance(card_tx, j) < Distance(card_tx, i) => tx[j] = "card" \/ j \in Claimed

(* Under the same condition every frame handed to the card is transmitted. *)
SendsComplete ==
  []inTurn => \A i \in Slots : (tx[i] = "card") ~> (tx[i] = "host")

Waiting(f) == \E i \in Slots : rx[i].own = "host" /\ rx[i].frame = f

(* A frame that is in the ring when the interrupt is signalled and not yet *)
(* being handled is taken out of it.                                       *)
SignalledFramesAreServed ==
  \A f \in 1 .. MaxFrames :
    (Waiting(f) /\ "RINT" \in status /\ hpc = "idle") ~> ~ Waiting(f)

(* "acknowledge interrupt": the driver acknowledges what it has served, so *)
(* that every frame in the ring is taken out of it.                        *)
EveryFrameIsServed ==
  \A f \in 1 .. MaxFrames : Waiting(f) ~> ~ Waiting(f)

(* The ring has eight buffers: the frame the driver passes on is the one   *)
(* the card stored for that descriptor.                                    *)
FramesArriveIntact ==
  (hpc = "recycle") =>
    \A a \in Cells(current_receive_buffer) : bytes[a] = Received.frame
=============================================================================
