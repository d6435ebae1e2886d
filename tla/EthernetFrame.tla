---------------------------- MODULE EthernetFrame ----------------------------
(***************************************************************************)
(* The ethernet frame provider and its handlers, src/src/ethernet_frame.cpp*)
(*                                                                         *)
(* The provider is constructed while the card already receives frames: its *)
(* base class first announces it to the card, as an object that ignores    *)
(* every frame, and only then is its table of handlers cleared, entry by   *)
(* entry.  An interrupt falls between any two of these steps.  An          *)
(* ether_type is the number a host computes with; the two bytes of a frame *)
(* hold it in the network's order, and are loaded in the host's.           *)
(*                                                                         *)
(* The caller destroys the provider after its handlers, and none while an  *)
(* interrupt runs.                                                         *)
(***************************************************************************)
EXTENDS Integers, FiniteSets, Functions

CONSTANTS
  EtherHandlers,  (* objects of classes derived from EthernetFrameHandler   *)
  Answering,      (* those that override on_ethernet_frame_received()       *)
  HandlerType,    (* object |-> the ether_type it is constructed with       *)
  WireTypes,      (* the ether_types of the frames that arrive              *)
  Us, Peers,      (* MAC addresses                                          *)
  Everybody       (* the broadcast address                                  *)

Swap(t) == 256 * (t % 256) + t \div 256

(* The table's length: 2^16 - 1.                                           *)
Entries == 65535

Nobody == "0"       (* no handler                                           *)
Junk   == "junk"    (* no pointer to a handler                              *)

ASSUME EtherAssumption ==
  /\ Nobody \notin EtherHandlers /\ Junk \notin EtherHandlers
  /\ Answering \subseteq EtherHandlers
  /\ HandlerType \in [EtherHandlers -> 0 .. (Entries - 1)]
  /\ \A h \in EtherHandlers : Swap(HandlerType[h]) < Entries
  /\ WireTypes \subseteq 0 .. Entries
  /\ Us \notin Peers /\ Everybody \notin Peers \cup {Us}

Frame == [destination : {Us, Everybody, "somebody"}, source : Peers,
          type : WireTypes]

VARIABLES
  stage,        (* of the provider: absent, base, zeroing or up             *)
  index,        (* its constructor's i                                      *)
  table,        (* its handlers, at the indices of interest                 *)
  object,       (* handler |-> absent, base, derived or gone                *)
  answers,      (* the frames sent back                                     *)
  lost          (* a call went through no pointer: anything may follow      *)

evars == <<stage, index, table, object, answers, lost>>

(* The entries that handlers are entered at, looked up at, or clear.       *)
Indices ==
  {i \in UNION {{t, Swap(t)} : t \in WireTypes \cup Range(HandlerType)} :
     i < Entries}

InitEther(storage) ==
  /\ stage = "absent" /\ index = 0
  /\ table = [i \in Indices |-> storage]
  /\ object = [h \in EtherHandlers |-> "absent"]
  /\ answers = {} /\ lost = FALSE

-----------------------------------------------------------------------------
(* EthernetFrameProvider's constructor and destructor.                     *)

(* RawDataHandler(backend): the card's raw_data_handler is this object.    *)
ConstructBase ==
  /\ stage = "absent" /\ stage' = "base"
  /\ UNCHANGED <<index, table, object, answers, lost>>

ConstructDerived ==
  /\ stage = "base" /\ stage' = "zeroing" /\ index' = 0
  /\ UNCHANGED <<table, object, answers, lost>>

(* The next entry of interest that the loop comes to, or the table's end.  *)
ZeroNext(next) ==
  /\ next >= index
  /\ \A i \in Indices : i >= index => i >= next

(* Mutant: the loop ends at 32767.                                         *)
ZeroHalf ==
  \E next \in Indices \cup {Entries} :
    /\ stage = "zeroing" /\ ZeroNext(next)
    /\ index' = next + 1
    /\ table' = [i \in Indices |-> IF i = next /\ i < 32767 THEN Nobody ELSE table[i]]
    /\ stage' = IF next < Entries THEN stage ELSE "up"
    /\ UNCHANGED <<object, answers, lost>>

(* The loop, up to the next entry of interest and over it.                 *)
Zero ==
  \E next \in Indices \cup {Entries} :
    /\ stage = "zeroing" /\ ZeroNext(next)
    /\ index' = next + 1
    /\ table' = [i \in Indices |-> IF i = next THEN Nobody ELSE table[i]]
    /\ stage' = IF next < Entries THEN stage ELSE "up"
    /\ UNCHANGED <<object, answers, lost>>

ConstructProvider == ConstructBase \/ ConstructDerived \/ Zero

(* The table's bytes stay what they were.                                  *)
DestroyProvider ==
  /\ stage = "up"
  /\ \A h \in EtherHandlers : object[h] \in {"absent", "gone"}
  /\ stage' = "absent"
  /\ UNCHANGED <<index, table, object, answers, lost>>

-----------------------------------------------------------------------------
(* EthernetFrameHandler's constructor, before and after that of the class  *)
(* derived from it, and its destructor.                                    *)

HandlerBase(h) ==
  /\ stage = "up" /\ object[h] \in {"absent", "gone"}
  /\ object' = [object EXCEPT ![h] = "base"]
  /\ table' = [table EXCEPT ![HandlerType[h]] = h]
  /\ UNCHANGED <<stage, index, answers, lost>>

HandlerDerived(h) ==
  /\ object[h] = "base"
  /\ object' = [object EXCEPT ![h] = "derived"]
  /\ UNCHANGED <<stage, index, table, answers, lost>>

(* The object's ether_type has its bytes swapped.                          *)
HandlerDestroy(h) ==
  /\ object[h] = "derived"
  /\ object' = [object EXCEPT ![h] = "gone"]
  /\ table' = [table EXCEPT ![Swap(HandlerType[h])] = Nobody]
  /\ UNCHANGED <<stage, index, answers, lost>>

-----------------------------------------------------------------------------
(* on_raw_data_received(), in the card's interrupt.                        *)

Live(h) == h \in EtherHandlers /\ object[h] \in {"base", "derived"}

(* What the table holds for a frame.  One entry past its end is whatever   *)
(* follows the provider in memory.                                         *)
Lookup(f) ==
  IF Swap(f.type) < Entries THEN {table[Swap(f.type)]} ELSE {Nobody, Junk}

Accepted(f) ==
  stage \in {"zeroing", "up"} /\ f.destination \in {Us, Everybody}

(* Mutant: the addresses are exchanged.                                    *)
AnswerFromDestination(f) ==
  [f EXCEPT !.destination = f.source, !.source = f.destination]

Answer(f) == [f EXCEPT !.destination = f.source, !.source = Us]

(* The frame is not for us, has no handler, or its handler returns false,  *)
(* as that of the base class does.                                         *)
Ignore(f) ==
  /\ stage # "absent"
  /\ Accepted(f) => \E h \in Lookup(f) : h = Nobody \/ Live(h)
  /\ UNCHANGED evars

SendBack(f) ==
  /\ Accepted(f)
  /\ \E h \in Lookup(f) \cap Answering : object[h] = "derived"
  /\ answers' = answers \cup {Answer(f)}
  /\ UNCHANGED <<stage, index, table, object, lost>>

(* The pointer is stale, or is none.                                       *)
Lose(f) ==
  /\ Accepted(f)
  /\ \E h \in Lookup(f) : h # Nobody /\ ~Live(h)
  /\ lost' = TRUE
  /\ UNCHANGED <<stage, index, table, object, answers>>

OnRawDataReceived(f) == Ignore(f) \/ SendBack(f) \/ Lose(f)

NextEther ==
  \/ ConstructProvider \/ DestroyProvider
  \/ \E h \in EtherHandlers : HandlerBase(h) \/ HandlerDerived(h) \/ HandlerDestroy(h)
  \/ \E f \in Frame : OnRawDataReceived(f)

EtherSpec ==
  /\ \E storage \in {Nobody, Junk} : InitEther(storage)
  /\ [][NextEther]_evars

-----------------------------------------------------------------------------

EtherTypeOK ==
  /\ stage \in {"absent", "base", "zeroing", "up"}
  /\ index \in 0 .. (Entries + 1)
  /\ table \in [Indices -> EtherHandlers \cup {Nobody, Junk}]
  /\ object \in [EtherHandlers -> {"absent", "base", "derived", "gone"}]
  /\ answers \subseteq [destination : Peers, source : Peers \cup {Us, Everybody},
                       type : WireTypes]
  /\ lost \in BOOLEAN

(* Whenever a frame arrives, even while the table is being cleared, a call *)
(* goes to an object that was constructed for the number the type is       *)
(* loaded as, and to one that lives, except in three cases: the entry is   *)
(* yet to be cleared, the frame's type lies behind the table, or the       *)
(* object was destroyed and, its type being no palindrome, cleared another *)
(* entry than its own.                                                     *)
CallsAreLive ==
  \A f \in Frame :
    Accepted(f) /\ Swap(f.type) < Entries =>
      \A h \in Lookup(f) \ {Nobody} :
        \/ stage = "zeroing" /\ Swap(f.type) >= index
        \/ /\ h \in EtherHandlers /\ HandlerType[h] = Swap(f.type)
           /\ object[h] = "gone" => Swap(f.type) # f.type

(* What is sent back goes to the station that asked, comes from our        *)
(* address even if the question went to everybody, and carries a type for  *)
(* which a handler was constructed.                                        *)
AnswersReturn ==
  \A f \in answers :
    /\ f.destination \in Peers /\ f.source = Us
    /\ Swap(f.type) \in {HandlerType[h] : h \in Answering}

(* A frame of the type a handler was constructed for reaches that handler, *)
(* unless another was constructed for the type.                            *)
FramesReachTheirHandler ==
  \A h \in EtherHandlers, f \in Frame :
    /\ object[h] = "derived" /\ Accepted(f) /\ f.type = HandlerType[h]
    /\ \A g \in EtherHandlers \ {h} : HandlerType[g] # HandlerType[h]
    => Lookup(f) = {h}

=============================================================================
