------------------------------ MODULE Keyboard ------------------------------
(***************************************************************************)
(* The keyboard driver, src/src/keyboard.cpp, with the keys, the scan      *)
(* codes under way, and the terminal it prints on.                         *)
(*                                                                         *)
(* A key sends one byte, or the prefix E0 and one byte; the byte names the *)
(* key, and a right-hand key behind a prefix shares it with the left-hand  *)
(* one.  Bytes wait in the keyboard and its controller, one interrupt      *)
(* each.  handle_interrupt() is one action: its gate clears IF, and the    *)
(* ESC key sets it only after the last use of the terminal.                *)
(* Acknowledgements (FA), which the handler takes for the release of no    *)
(* key, are left out: the driver sends its commands with interrupts        *)
(* disabled, and a command makes the keyboard drop what it had not sent,   *)
(* so that the answer does not come between a prefix and the byte behind.  *)
(***************************************************************************)
EXTENDS Terminal

Shifts   == {"LeftShift", "RightShift"}
Tracked  == Shifts \cup {"LeftCtrl", "LeftAlt"}
Prefixed == {"RightCtrl", "RightAlt", "Delete", "Home", "End", "Arrow"}
Function == {"F1", "F4", "F5"}
AllKeys  == Tracked \cup Prefixed \cup Function \cup
            {"CapsLock", "a", "1", "Enter", "Space", "Tab", "Backspace",
             "Escape", "Keypad"}

ASSUME KeyboardAssumption ==
  \A s \in Sessions :
    s.keys \subseteq AllKeys /\ s.queue \in Nat /\ s.events \in Nat

VARIABLES
  pressed,            (* those of left_shift_pressed, ..., alt_pressed that *)
                      (* are true                                           *)
  caps_lock_active,
  extended_key_next,
  tasks_should_stop,
  activated,          (* interrupts are enabled and the driver is active    *)
  held,               (* the keys that are down                             *)
  last,               (* the key that repeats                               *)
  queue,              (* bytes under way: [code, released, key, shows]      *)
  events,             (* key events so far                                  *)
  missed,             (* history: keys whose press initialize() discarded   *)
  lock,               (* history: caps lock, by the presses not discarded   *)
  torn,               (* history: a prefix was discarded without its byte   *)
  capsRepeated        (* history: caps lock was held until it repeated      *)

driver  == <<pressed, caps_lock_active, extended_key_next, tasks_should_stop>>
device  == <<held, last, events>>
history == <<missed, lock, torn, capsRepeated>>
kvars   == <<driver, activated, device, queue, history>>

NoKey == "none"
E0    == "E0"

-----------------------------------------------------------------------------
(* The keys.                                                               *)

Code(k) ==
  CASE k = "RightCtrl" -> "LeftCtrl"
    [] k = "RightAlt"  -> "LeftAlt"
    [] OTHER           -> k

(* What a reader of the keys would expect a key to show.                   *)
Expected(k) ==
  LET shift == (held \ missed) \cap Shifts # {}
  IN  CASE k = "a" -> IF shift # lock THEN "A" ELSE "a"
        [] k = "1" -> IF shift THEN "!" ELSE "1"
        [] OTHER   -> NoKey

Send(k, released) ==
  LET byte == [code |-> Code(k), released |-> released, key |-> k,
               shows |-> IF activated /\ ~released THEN Expected(k) ELSE NoKey]
      prefix == [byte EXCEPT !.code = E0, !.shows = NoKey]
      bytes == IF k \in Prefixed THEN <<prefix, byte>> ELSE <<byte>>
  IN  /\ events < session.events /\ events' = events + 1
      /\ Len(queue \o bytes) <= session.queue
      /\ queue' = queue \o bytes

Press(k) ==
  /\ k \notin held
  /\ Send(k, FALSE)
  /\ held' = held \cup {k} /\ last' = k
  /\ missed' = missed \ {k}
  /\ lock' = IF k = "CapsLock" THEN ~lock ELSE lock
  /\ UNCHANGED <<tvars, driver, activated, torn, capsRepeated>>

(* The key struck last repeats until it is released.                       *)
Repeat(k) ==
  /\ k \in held /\ last = k
  /\ Send(k, FALSE)
  /\ missed' = missed \ {k}
  /\ capsRepeated' = (capsRepeated \/ k = "CapsLock")
  /\ UNCHANGED <<tvars, driver, activated, held, last, lock, torn>>

Release(k) ==
  /\ k \in held
  /\ Send(k, TRUE)
  /\ held' = held \ {k}
  /\ last' = IF last = k THEN NoKey ELSE last
  /\ missed' = missed \ {k}
  /\ UNCHANGED <<tvars, driver, activated, lock, torn, capsRepeated>>

-----------------------------------------------------------------------------
(* kernel_main sets the driver up, with interrupts disabled.               *)

(* initialize() reads and discards until the controller has nothing to     *)
(* read; the rest of what was struck is still on the wire then.            *)
Initialize(n) ==
  LET rest == SubSeq(queue, n + 1, Len(queue))
      presses == {i \in DOMAIN rest : rest[i].key = "CapsLock" /\ ~rest[i].released}
  IN  /\ ~activated /\ pc = "idle" /\ n \in 1 .. Len(queue)
      /\ queue' = rest
      /\ missed' = {k \in held : \A i \in DOMAIN rest : rest[i].key # k}
      /\ lock' = (Cardinality(presses) % 2 = 1)
      /\ torn' = (torn \/ queue[n].code = E0)
      /\ UNCHANGED <<tvars, driver, activated, device, capsRepeated>>

(* activate(), and InterruptManager::activate() behind it.                 *)
Activate ==
  /\ ~activated /\ pc = "idle"
  /\ activated' = TRUE
  /\ pressed' = {} /\ extended_key_next' = FALSE
  /\ UNCHANGED <<tvars, caps_lock_active, tasks_should_stop, device, queue,
                 history>>

-----------------------------------------------------------------------------
(* handle_interrupt().                                                     *)

IsShiftPressed == pressed \cap Shifts # {}

ShouldCapitalize(c) ==
  IF caps_lock_active /\ c = "a" THEN ~IsShiftPressed ELSE IsShiftPressed

(* Mutant: caps lock is taken for a shift key.                             *)
ApplyShiftAsShift(c) ==
  CASE c = "a" /\ (caps_lock_active \/ IsShiftPressed) -> "A"
    [] c = "1" /\ IsShiftPressed                       -> "!"
    [] OTHER                                           -> c

ApplyShift(c) ==
  CASE c = "a" /\ ShouldCapitalize(c) -> "A"
    [] c = "1" /\ IsShiftPressed      -> "!"
    [] OTHER                          -> c

Line(s) == Printf(s, "\n", "a", "\n")

(* handle_special_key(): a line of text; for F4 the cursor's position in   *)
(* it; for F5 on a screen that is then cleared, with a prompt below.       *)
SpecialKey(s, code) ==
  IF code = "F5" THEN PutChar(Printf(ClearScreen(Line(s)), "a", "\n", "a"), " ")
                 ELSE Line(s)

(* handle_extended_key(); an arrow is no printable character.              *)
ExtendedKey(s, code) ==
  CASE code = "Arrow"  -> Printf(s, " ", "other", " ")
    [] code = "Delete" -> HandleBackspace(s)
    [] code = "Home"   -> SetCursorPosition(s, 0, s.y)
    [] code = "End"    -> SetCursorPosition(s, W - 1, s.y)
    [] OTHER           -> s

Key(s, code) ==
  CASE code = "Backspace" -> HandleBackspace(s)
    [] code = "Enter"     -> PutChar(s, "\n")
    [] code = "Space"     -> PutChar(s, " ")
    [] code = "Tab"       -> PutChar(s, "\t")
    [] code = "Escape"    -> Line(s)
    [] code \in Function  -> SpecialKey(s, code)
    [] code \in {"a", "1"} -> PutChar(s, ApplyShift(code))
    [] OTHER              -> PutChar(PutChar(s, "a"), " ")

Receive(code, released) ==
  /\ activated /\ queue # <<>>
  /\ Head(queue).code = code /\ Head(queue).released = released
  /\ queue' = Tail(queue)
  /\ UNCHANGED <<activated, device, history>>

HandlePrefix ==
  /\ Receive(E0, Head(queue).released)
  /\ extended_key_next' = TRUE
  /\ UNCHANGED <<tvars, pressed, caps_lock_active, tasks_should_stop>>

(* Mutant: a released key leaves the prefix pending.                       *)
HandleExtendedSticky(code, released) ==
  /\ Receive(code, released)
  /\ code # E0 /\ extended_key_next
  /\ extended_key_next' = released
  /\ Interrupted(IF released THEN screen ELSE ExtendedKey(screen, code))
  /\ UNCHANGED <<pressed, caps_lock_active, tasks_should_stop>>

HandleExtended(code, released) ==
  /\ Receive(code, released)
  /\ code # E0 /\ extended_key_next
  /\ extended_key_next' = FALSE
  /\ Interrupted(IF released THEN screen ELSE ExtendedKey(screen, code))
  /\ UNCHANGED <<pressed, caps_lock_active, tasks_should_stop>>

(* Mutant: the driver keeps one flag for both shift keys.                  *)
HandleModifierShared(code, released) ==
  LET flags == IF code \in Shifts THEN Shifts ELSE {code}
  IN  /\ Receive(code, released)
      /\ ~extended_key_next /\ code \in Tracked
      /\ pressed' = IF released THEN pressed \ flags ELSE pressed \cup flags
      /\ UNCHANGED <<tvars, caps_lock_active, extended_key_next, tasks_should_stop>>

HandleModifier(code, released) ==
  /\ Receive(code, released)
  /\ ~extended_key_next /\ code \in Tracked
  /\ pressed' = IF released THEN pressed \ {code} ELSE pressed \cup {code}
  /\ UNCHANGED <<tvars, caps_lock_active, extended_key_next, tasks_should_stop>>

HandleCapsLock(released) ==
  /\ Receive("CapsLock", released)
  /\ ~extended_key_next
  /\ caps_lock_active' = IF released THEN caps_lock_active ELSE ~caps_lock_active
  /\ UNCHANGED <<tvars, pressed, extended_key_next, tasks_should_stop>>

HandleKey(code, released) ==
  /\ Receive(code, released)
  /\ ~extended_key_next /\ code \notin Tracked \cup {"CapsLock", E0}
  /\ Interrupted(IF released THEN screen ELSE Key(screen, code))
  /\ tasks_should_stop' = (tasks_should_stop \/ (code = "Escape" /\ ~released))
  /\ UNCHANGED <<pressed, caps_lock_active, extended_key_next>>

HandleInterrupt ==
  \/ HandlePrefix
  \/ \E code \in {Code(k) : k \in session.keys}, released \in BOOLEAN :
       \/ HandleExtended(code, released)
       \/ HandleModifier(code, released)
       \/ HandleKey(code, released)
  \/ \E released \in BOOLEAN : HandleCapsLock(released)

InitKeyboard ==
  /\ pressed = {} /\ caps_lock_active = FALSE /\ extended_key_next = FALSE
  /\ tasks_should_stop = FALSE /\ activated = FALSE
  /\ held = {} /\ last = NoKey /\ queue = <<>> /\ events = 0
  /\ missed = {} /\ lock = FALSE /\ torn = FALSE /\ capsRepeated = FALSE

NextKeyboard ==
  \/ \E k \in session.keys : Press(k) \/ Repeat(k) \/ Release(k)
  \/ \E n \in DOMAIN queue : Initialize(n)
  \/ Activate
  \/ HandleInterrupt

-----------------------------------------------------------------------------

KeyboardTypeOK ==
  /\ pressed \subseteq Tracked
  /\ {caps_lock_active, extended_key_next, tasks_should_stop, activated,
      lock, torn, capsRepeated} \subseteq BOOLEAN
  /\ missed \subseteq held /\ held \subseteq session.keys
  /\ last \in held \cup {NoKey}
  /\ Len(queue) <= session.queue
  /\ events \in 0 .. session.events

(* A modifier's flag is the state of its key as soon as no byte of that    *)
(* key is under way, whatever other keys (the one on the right that shares *)
(* its code) do, except for keys pressed before initialize() threw their   *)
(* byte away, and unless it threw away half a sequence.                    *)
ModifiersAgree ==
  activated /\ ~torn =>
    \A k \in Tracked :
      (\A i \in DOMAIN queue : queue[i].key # k)
        => (k \in pressed <=> k \in held \ missed)

(* handle_interrupt() takes a byte for an extended key's exactly when the  *)
(* key that sent it is one, however presses, repeats and releases mix.     *)
PrefixApplies ==
  activated /\ ~torn /\ queue # <<>> /\ Head(queue).code # E0
    => (extended_key_next <=> Head(queue).key \in Prefixed)

(* A key shows what shift and caps lock made of it when it was struck, not *)
(* what they are when its interrupt is served.  Caps lock must not have    *)
(* been held until it repeats: each repeat toggles it again.               *)
TypedAsHeld ==
  activated /\ ~torn /\ ~capsRepeated /\ queue # <<>> /\ Head(queue).shows # NoKey
    => ApplyShift(Head(queue).code) = Head(queue).shows

=============================================================================
