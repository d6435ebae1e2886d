-------------------------------- MODULE Mouse --------------------------------
(***************************************************************************)
(* The mouse driver, src/src/mouse.cpp, with the mouse and the bytes it    *)
(* has under way.                                                          *)
(*                                                                         *)
(* The pointer is a cell of the screen whose two colours are exchanged; it *)
(* is moved by exchanging them again.  The mouse reports movements in      *)
(* packets of three bytes, one interrupt each, and answers commands with   *)
(* bytes that look like any other; the driver reads an answer where it     *)
(* does (data_port.read()) only if it has arrived by then.  The driver is  *)
(* set up in the order that kernel_main has in its comment, before         *)
(* interrupts are enabled; it may be reset later, when its handler may run *)
(* between any two steps of reset().                                       *)
(***************************************************************************)
EXTENDS Terminal

CONSTANT
  Movements     (* the bytes that report a movement, in either direction    *)

ASSUME MouseAssumption ==
  /\ Movements \subseteq 0 .. 255
  /\ \A s \in Sessions : s.moves \in Nat

VARIABLES
  mouse,            (* the driver: absent, built, initialized or active     *)
  resetting,        (* where kernel_main is in reset(); "no" if it is not   *)
  cell,             (* the starting cell, as initialize() has loaded it     *)
  px, py,           (* handle_interrupt()'s x and y                         *)
  buffer, offset,
  sent,             (* bytes under way: [part, value]                       *)
  moves,            (* packets and resets so far                            *)
  starts,           (* history: how often initialize() has turned the       *)
                    (* starting cell over                                   *)
  slip              (* history: modulo 3, the bytes taken for data since    *)
                    (* offset was reset that are part of no packet, less    *)
                    (* those of packets that were never taken               *)

mvars == <<mouse, resetting, cell, px, py, buffer, offset, sent, moves, starts, slip>>

Part  == 0 .. 2
Noise == 3              (* the part of a byte that is part of no packet     *)
None  == [part |-> Noise, value |-> 0]

Answer(value) == [part |-> Noise, value |-> value]
Ack     == Answer(250)
Outcome == <<Answer(170), Answer(0)>>       (* of the mouse's own test      *)

(* The conversion to int8_t.                                               *)
Int8(n) == ((n + 128) % 256) - 128

StartX == W \div 2
StartY == H \div 2
Start  == Cell(StartX, StartY)

(* The two halves of a cell's attribute are exchanged.                     *)
Toggle(s, i) ==
  [s EXCEPT !.inverted = IF i \in @ THEN @ \ {i} ELSE @ \cup {i}]

InitMouse ==
  /\ mouse = "absent"
  /\ resetting = "no" /\ cell = [mark |-> FALSE, inverted |-> FALSE]
  /\ px = StartX /\ py = StartY
  /\ buffer = [p \in Part |-> None] /\ offset = 0
  /\ sent = <<>> /\ moves = 0 /\ starts = 0 /\ slip = 0

-----------------------------------------------------------------------------
(* The bytes under way.  What is part of no packet lies between packets.   *)

(* The part that the next byte of a packet is.                             *)
NextPart(q) == IF q = <<>> THEN 0 ELSE Head(q).part % Noise

(* The driver starts counting, or goes on, without n bytes of a packet.    *)
Without(s, n) == (s + 2 * n) % 3

(* The slip once the first byte is gone and not taken for data.            *)
Missed == IF Head(sent).part = Noise THEN slip ELSE Without(slip, 1)

(* Of the bytes under way and the answers to a command, none, or the first *)
(* if there is one, is there in time for a data_port.read().               *)
Read(q) == {q} \cup {Tail(r) : r \in {q} \ {<<>>}}

-----------------------------------------------------------------------------
(* The driver's lifecycle, with interrupts disabled.                       *)

(* Mutant: the index is not reset.                                         *)
GoOn == UNCHANGED offset

Restart == offset' = 0

(* initialize(): the pointer is shown at the start, wherever it is. One    *)
(* byte is read for the controller's status, one for the acknowledgement.  *)
InitializeMouse(bytes) ==
  /\ screen' = Toggle(screen, Start)
  /\ starts' = starts + 1
  /\ sent' \in UNION {Read(Append(rest, Ack)) : rest \in Read(bytes)}

SetUp(from, to) ==
  /\ session.moves > 0 /\ pc = "idle"
  /\ mouse = from /\ mouse' = to
  /\ slip' = Without(0, NextPart(sent'))
  /\ UNCHANGED <<session, main, prints, begun, disturbed, resetting, cell, px, py, buffer,
                 moves>>

ConstructMouse ==
  /\ Restart
  /\ InitializeMouse(<<>>)
  /\ SetUp("absent", "built")

InitializeAgain ==
  /\ InitializeMouse(sent)
  /\ SetUp("built", "initialized")
  /\ UNCHANGED offset

(* The acknowledgement is left to the handler.                             *)
ActivateMouse ==
  /\ Restart
  /\ sent' = Append(sent, Ack)
  /\ SetUp("initialized", "active")
  /\ UNCHANGED <<screen, starts>>

-----------------------------------------------------------------------------
(* reset(), and initialize() behind it, with interrupts enabled.           *)

Reset(from, to) ==
  /\ resetting = from /\ resetting' = to
  /\ pc = "idle"
  /\ UNCHANGED <<session, main, prints, begun, disturbed, mouse, px, py, buffer>>

BeginReset ==
  /\ mouse = "active" /\ moves < session.moves /\ moves' = moves + 1
  /\ Restart
  /\ slip' = Without(0, NextPart(sent))
  /\ Reset("no", "command")
  /\ UNCHANGED <<screen, cell, sent, starts>>

(* The mouse forgets what it had not sent, and reports nothing until it is *)
(* enabled again.  A packet it was sending remains a stump.                *)
CommandReset ==
  /\ sent' = [i \in 1 .. Min({1, Len(sent)}) |-> Answer(sent[i].value)]
             \o <<Ack>> \o Outcome
  /\ slip' = (slip + NextPart(sent)) % 3
  /\ Reset("command", "load")
  /\ UNCHANGED <<screen, cell, offset, moves, starts>>

(* The build loads the cell once for each of its parts (two colours and    *)
(* the character); that a handler may change it in between is left out.    *)
LoadCell ==
  /\ cell' = [mark |-> Start \in screen.marks, inverted |-> Start \in screen.inverted]
  /\ Reset("load", "store")
  /\ UNCHANGED <<screen, offset, sent, moves, starts, slip>>

(* What the handlers have done to the cell since is undone.                *)
StoreCell ==
  /\ screen' = [screen EXCEPT
       !.marks    = IF cell.mark THEN @ \cup {Start} ELSE @ \ {Start},
       !.inverted = IF cell.inverted THEN @ \ {Start} ELSE @ \cup {Start}]
  /\ starts' = IF cell.inverted <=> Start \in screen.inverted THEN starts + 1 ELSE starts
  /\ Reset("store", "status")
  /\ UNCHANGED <<cell, offset, sent, moves, slip>>

ReadPort ==
  /\ \/ UNCHANGED <<sent, slip>>
     \/ sent # <<>> /\ sent' = Tail(sent) /\ slip' = Missed
  /\ UNCHANGED <<screen, cell, offset, moves, starts>>

ReadStatus == Reset("status", "enable") /\ ReadPort

Enable ==
  /\ sent' = Append(sent, Ack)
  /\ Reset("enable", "acknowledge")
  /\ UNCHANGED <<screen, cell, offset, moves, starts, slip>>

ReadAck == Reset("acknowledge", "no") /\ ReadPort

ResetMouse ==
  \/ BeginReset \/ CommandReset \/ LoadCell \/ StoreCell
  \/ ReadStatus \/ Enable \/ ReadAck

-----------------------------------------------------------------------------
(* The mouse.                                                              *)

Reporting == mouse # "absent" /\ resetting \in {"no", "command", "acknowledge"}

Move(dx, dy) ==
  /\ Reporting /\ moves < session.moves /\ moves' = moves + 1
  /\ sent' = sent \o <<[part |-> 0, value |-> 8], [part |-> 1, value |-> dx],
                       [part |-> 2, value |-> dy]>>
  /\ UNCHANGED <<tvars, mouse, resetting, cell, px, py, buffer, offset, starts, slip>>

(* A byte is lost, or read by the keyboard's driver.                       *)
LoseByte ==
  /\ sent # <<>> /\ sent' = Tail(sent)
  /\ slip' = Missed
  /\ UNCHANGED <<tvars, mouse, resetting, cell, px, py, buffer, offset, moves, starts>>

-----------------------------------------------------------------------------
(* handle_interrupt().                                                     *)

Clamp(n, most) == IF n < 0 THEN 0 ELSE IF n >= most THEN most - 1 ELSE n

Advance(n) == (n + 1) % 3

(* Mutant: the cell the pointer leaves keeps its colours.                  *)
PointerAdded(s, x, y) == Toggle(s, Cell(x, y))

PointerMoved(s, x, y) == Toggle(Toggle(s, Cell(px, py)), Cell(x, y))

(* The row is put back on the screen before the movement, not after.       *)
HandlePacket ==
  /\ px' = Clamp(Int8(px + buffer'[1].value), W)
  /\ py' = Int8(Clamp(py, H) - buffer'[2].value)
  /\ Interrupted(PointerMoved(screen, px', py'))

HandleByte ==
  /\ mouse = "active" /\ sent # <<>>
  /\ sent' = Tail(sent)
  /\ buffer' = [buffer EXCEPT ![offset] = Head(sent)]
  /\ offset' = Advance(offset)
  /\ slip' = IF Head(sent).part = Noise THEN (slip + 1) % 3 ELSE slip
  /\ IF offset' = 0 THEN HandlePacket ELSE UNCHANGED <<tvars, px, py>>
  /\ UNCHANGED <<mouse, resetting, cell, moves, starts>>

NextMouse ==
  \/ ConstructMouse \/ InitializeAgain \/ ActivateMouse \/ ResetMouse
  \/ \E dx, dy \in Movements : Move(dx, dy)
  \/ LoseByte
  \/ HandleByte

-----------------------------------------------------------------------------

MouseTypeOK ==
  /\ mouse \in {"absent", "built", "initialized", "active"}
  /\ resetting \in {"no", "command", "load", "store", "status", "enable", "acknowledge"}
  /\ cell \in [mark : BOOLEAN, inverted : BOOLEAN]
  /\ px \in Column /\ py \in -128 .. 127
  /\ offset \in Part /\ slip \in Part
  /\ DOMAIN buffer = Part
  /\ moves \in 0 .. session.moves

(* On a screen that nobody else writes, the pointer is one cell, however   *)
(* it moves, wherever it leaves the screen, and behind whichever action of *)
(* reset() the handler runs: no trail stays behind.  But each initialize() *)
(* that runs once more than it should turns the colours of the starting    *)
(* cell over, where the pointer no longer is.  The pointer is off the      *)
(* screen by at most the last packet's vertical movement.                  *)
PointerAlone ==
  mouse # "absent" /\ prints = 0 /\ session.keys = {} =>
    /\ screen.inverted =
         Toggle(IF starts % 2 = 1 THEN Blank ELSE Toggle(Blank, Start),
                Cell(px, py)).inverted
    /\ \E y \in Row : py \in {Int8(y), Int8(y - buffer[2].value)}

(* The driver takes the bytes of a packet for the parts they are only if   *)
(* the answers it has taken for data, less the bytes that went astray, are *)
(* a multiple of three; it never finds the start of a packet again by      *)
(* itself, nor does anything else put it out of step.  activate() leaves   *)
(* an acknowledgement to be taken for data: the first packet behind it,    *)
(* and every later one, is read a byte late, its first byte as the         *)
(* horizontal movement.                                                    *)
PacketsSlip ==
  mouse = "active" /\ sent # <<>> /\ Head(sent).part # Noise
    => offset = (Head(sent).part + slip) % 3

=============================================================================
