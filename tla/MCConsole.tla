------------------------------ MODULE MCConsole ------------------------------
(* Four sessions: every combination of shifts, controls and caps lock over  *)
(* keys that show them; kernel_main printing while keys of every kind that  *)
(* reach the terminal interrupt it; the mouse alone; the mouse under a      *)
(* kernel_main that prints.                                                 *)
EXTENDS Console

Session(text, n, keys, bytes, strokes, packets) ==
  [text |-> text, prints |-> n, keys |-> keys, queue |-> bytes,
   events |-> strokes, moves |-> packets]

MCSessions ==
  { Session({}, 0, {"LeftShift", "RightShift", "LeftCtrl", "RightCtrl", "CapsLock",
                    "a", "1"}, 3, 5, 0),
    Session({"a", "\n", "\t", "\r", "bs", "other"}, 3,
            {"a", "Enter", "Tab", "Backspace", "F5", "Keypad",
             "Home", "End"}, 2, 2, 0),
    Session({}, 0, {}, 0, 0, 2),
    Session({"a", "\n"}, 2, {}, 0, 0, 1) }

MCMovements == {127, 255}

=============================================================================
