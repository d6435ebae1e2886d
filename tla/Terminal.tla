------------------------------ MODULE Terminal ------------------------------
(***************************************************************************)
(* The text terminal, src/src/terminal.cpp.                                *)
(*                                                                         *)
(* The functions of the terminal are operators on a screen: the cursor and *)
(* the cells of video memory that do not show a space.  That is what a     *)
(* caller sees that nobody interrupts.  kernel_main is interrupted, by     *)
(* handlers that print as well, so its put_char_colored() is also given    *)
(* step by step: one load, store or test of the shared variables each, as  *)
(* the build (without optimisation) has them.  Colours and the hardware    *)
(* cursor are left out.                                                    *)
(***************************************************************************)
EXTENDS Integers, FiniteSetsExt, Sequences

CONSTANTS
  VGA_SCREEN_WIDTH, VGA_SCREEN_HEIGHT,
  Sessions      (* what may happen: text, the characters kernel_main prints,*)
                (* keys, the keys in use, and the bounds: prints, how many  *)
                (* characters; events, how many key events; queue, bytes of *)
                (* the keyboard under way; moves, packets of the mouse      *)

W == VGA_SCREEN_WIDTH
H == VGA_SCREEN_HEIGHT

Letters == {"a", "A", "1", "!"}
Chars   == Letters \cup {" ", "\n", "\t", "\r", "bs", "other"}

ASSUME ScreenAssumption ==
  /\ W \in Nat \ {0} /\ W % 4 = 0 /\ W <= 128
  /\ H \in Nat \ {0} /\ H < 256
  /\ \A s \in Sessions : s.text \subseteq Chars /\ s.prints \in Nat

VARIABLES
  session,      (* the one of Sessions that takes place                     *)
  screen,       (* [x, y: the cursor, marks: the cells that show something, *)
                (* inverted: those whose colours are exchanged]             *)
  pc,           (* where kernel_main's put_char_colored() is                *)
  character,    (* its argument                                             *)
  register,     (* the value it has loaded or computed                      *)
  prints,       (* the characters printed so far                            *)
  begun,        (* history: the screen when it was called                   *)
  disturbed     (* history: a handler has changed the screen since          *)

main  == <<pc, character, register>>
tvars == <<session, screen, main, prints, begun, disturbed>>

Column == 0 .. (W - 1)
Row    == 0 .. (H - 1)

Cell(x, y) == W * y + x
Cells      == 0 .. (W * H - 1)

Blank == [x |-> 0, y |-> 0, marks |-> {}, inverted |-> {}]

(* The cursor is kept in two uint8_t.                                      *)
Byte(n) == n % 256

(* (cursor_x + 4) & ~3                                                     *)
TabStop(x) == Byte(4 * ((x + 4) \div 4))

Wraps(x)  == x >= W

(* Mutant: the row below the last counts as part of the screen.            *)
BelowMutant(y) == y > H

Below(y) == y >= H

Visible(c) == c \in Letters \cup {" "}

Show(s, i, c) ==
  [s EXCEPT !.marks = IF c = " " THEN @ \ {i} ELSE @ \cup {i},
            !.inverted = @ \ {i}]

-----------------------------------------------------------------------------
(* The terminal's functions, run to their end.                             *)

ClearScreen(s) ==
  [x |-> 0, y |-> 0, marks |-> s.marks \ Cells, inverted |-> s.inverted \ Cells]

Fills(cells, i) ==
  IF i < W * (H - 1) /\ (i + W) \in cells THEN cells \cup {i} ELSE cells \ {i}

(* One iteration of scroll_screen()'s loops: the last row is blanked, any  *)
(* other is copied from below.                                             *)
Fill(s, i) ==
  [x |-> s.x, y |-> s.y, marks |-> Fills(s.marks, i), inverted |-> Fills(s.inverted, i)]

(* Mutant: the cursor stays below the screen.                              *)
StayBelow(s) == s

ToBottom(s) == [s EXCEPT !.y = H - 1]

Scrolled(cells) ==
  (cells \ Cells) \cup {i - W : i \in cells \cap (W .. (W * H - 1))}

ScrollScreen(s) ==
  ToBottom([s EXCEPT !.marks = Scrolled(@), !.inverted = Scrolled(@)])

SetCursorPosition(s, x, y) ==
  IF ~Wraps(x) /\ ~Below(y) THEN [s EXCEPT !.x = x, !.y = y] ELSE s

Glyph(s, c) ==
  CASE c = "\n" -> [s EXCEPT !.x = 0, !.y = Byte(@ + 1)]
    [] c = "\t" -> [s EXCEPT !.x = TabStop(@)]
    [] c = "\r" -> [s EXCEPT !.x = 0]
    [] c = "bs" -> IF s.x > 0 THEN [s EXCEPT !.x = @ - 1] ELSE s
    [] Visible(c) -> [Show(s, Cell(s.x, s.y), c) EXCEPT !.x = Byte(@ + 1)]
    [] OTHER    -> s

Wrap(s) == IF Wraps(s.x) THEN [s EXCEPT !.x = 0, !.y = Byte(@ + 1)] ELSE s

PutChar(s, c) ==
  LET t == Wrap(Glyph(s, c)) IN IF Below(t.y) THEN ScrollScreen(t) ELSE t

(* A text of three characters.                                             *)
Printf(s, c, d, e) == PutChar(PutChar(PutChar(s, c), d), e)

(* The last column of row y that shows something, or the first column.     *)
EndOfText(s, y) == Max({0} \cup {x \in Column : Cell(x, y) \in s.marks})

(* Mutant: the first row has a row above it.                               *)
HandleBackspaceUp(s) ==
  IF s.x > 0 THEN Show([s EXCEPT !.x = @ - 1], Cell(s.x - 1, s.y), " ")
             ELSE [s EXCEPT !.y = @ - 1, !.x = EndOfText(s, s.y - 1)]

HandleBackspace(s) ==
  LET t == IF s.x > 0 THEN [s EXCEPT !.x = @ - 1]
           ELSE IF s.y > 0
             THEN [s EXCEPT !.y = @ - 1, !.x = EndOfText(s, s.y - 1)]
             ELSE s
  IN  Show(t, Cell(t.x, t.y), " ")

-----------------------------------------------------------------------------
(* kernel_main's put_char_colored().                                       *)

InitTerminal ==
  /\ session \in Sessions /\ screen = Blank
  /\ pc = "idle" /\ character = "other" /\ register = 0
  /\ prints = 0 /\ begun = Blank /\ disturbed = FALSE

Begin(c) ==
  /\ pc = "idle" /\ prints < session.prints
  /\ character' = c /\ pc' = "switch" /\ prints' = prints + 1
  /\ begun' = screen /\ disturbed' = FALSE
  /\ UNCHANGED <<session, screen, register>>

Goto(from, to) ==
  /\ pc = from /\ pc' = to
  /\ UNCHANGED <<session, character, prints, begun, disturbed>>

Load(from, to, value) ==
  /\ Goto(from, to)
  /\ register' = value
  /\ UNCHANGED screen

Store(from, to, s) ==
  /\ Goto(from, to)
  /\ screen' = s
  /\ UNCHANGED register

Test(from, to) == Goto(from, to) /\ UNCHANGED <<session, screen, register>>

Switch ==
  \/ character = "\n" /\ Store("switch", "newline", [screen EXCEPT !.x = 0])
  \/ character = "\t" /\ Load("switch", "store x", TabStop(screen.x))
  \/ character = "\r" /\ Store("switch", "wrap", [screen EXCEPT !.x = 0])
  \/ character = "bs" /\ Test("switch", IF screen.x > 0 THEN "back" ELSE "wrap")
  \/ Visible(character) /\ Load("switch", "column", screen.y)
  \/ character = "other" /\ Test("switch", "wrap")

Newline ==
  \/ Load("newline", "store y", Byte(screen.y + 1))
  \/ Store("store y", "wrap", [screen EXCEPT !.y = register])

MoveCursor ==
  \/ Load("back", "store x", Byte(screen.x - 1))
  \/ Load("advance", "store x", Byte(screen.x + 1))
  \/ Store("store x", "wrap", [screen EXCEPT !.x = register])

WriteCell ==
  \/ Load("column", "write", Cell(screen.x, register))
  \/ Store("write", "advance", Show(screen, register, character))

WrapLine ==
  \/ Test("wrap", IF Wraps(screen.x) THEN "right" ELSE "bottom")
  \/ Store("right", "next", [screen EXCEPT !.x = 0])
  \/ Load("next", "store next", Byte(screen.y + 1))
  \/ Store("store next", "bottom", [screen EXCEPT !.y = register])

Finish(from) ==
  /\ pc = from /\ pc' = "idle"
  /\ character' = "other" /\ register' = 0
  /\ begun' = Blank /\ disturbed' = FALSE
  /\ UNCHANGED <<session, prints>>

(* Mutant: the copying stops a row early.                                  *)
ScrollShort ==
  \/ Below(screen.y) /\ Load("bottom", "scroll", 0)
  \/ ~Below(screen.y) /\ Finish("bottom") /\ UNCHANGED screen
  \/ /\ pc = "scroll" /\ register < W * (H - 1)
     /\ screen' = Fill(screen, register) /\ register' = register + 1
     /\ UNCHANGED <<session, pc, character, prints, begun, disturbed>>
  \/ register = W * (H - 1) /\ Finish("scroll") /\ screen' = ToBottom(screen)

(* The test for the bottom and scroll_screen(), cell by cell.              *)
Scroll ==
  \/ Below(screen.y) /\ Load("bottom", "scroll", 0)
  \/ ~Below(screen.y) /\ Finish("bottom") /\ UNCHANGED screen
  \/ /\ pc = "scroll" /\ register < W * H
     /\ screen' = Fill(screen, register) /\ register' = register + 1
     /\ UNCHANGED <<session, pc, character, prints, begun, disturbed>>
  \/ register = W * H /\ Finish("scroll") /\ screen' = ToBottom(screen)

Main ==
  \/ \E c \in session.text : Begin(c)
  \/ Switch \/ Newline \/ MoveCursor \/ WriteCell \/ WrapLine \/ Scroll

(* A function of the terminal, called by an interrupt handler, leaves the  *)
(* screen as s.                                                            *)
Interrupted(s) ==
  /\ screen' = s
  /\ IF pc # "idle" /\ s # screen
       THEN disturbed' = TRUE /\ begun' = Blank
       ELSE UNCHANGED <<disturbed, begun>>
  /\ UNCHANGED <<session, main, prints>>

-----------------------------------------------------------------------------

(* Video memory has room for more cells than the screen shows: what is     *)
(* written beyond the screen (a handler may run while the cursor is below  *)
(* it, or after cursor_x-- has gone below 0) stays within 256 cells of the *)
(* start of the last row.                                                  *)
TerminalTypeOK ==
  /\ session \in Sessions
  /\ screen.x \in 0 .. 255 /\ screen.y \in 0 .. 255
  /\ screen.marks \subseteq 0 .. (W * (H - 1) + 255)
  /\ screen.inverted \subseteq Int
  /\ pc \in {"idle", "switch", "newline", "store y", "back", "advance", "store x",
             "column", "write", "wrap", "right", "next", "store next", "bottom", "scroll"}
  /\ character \in Chars
  /\ register \in 0 .. (W * H + 255)
  /\ prints \in 0 .. session.prints
  /\ disturbed \in BOOLEAN

(* Whatever handlers print, erase, clear or move between any two steps of  *)
(* kernel_main's put_char_colored(), the cursor is on the screen again     *)
(* when it returns: its tests for the right edge and the bottom, which may *)
(* see a cursor it did not leave, still suffice.                           *)
CursorOnScreen == pc = "idle" => screen.x \in Column /\ screen.y \in Row

(* Where no handler interferes, the steps of put_char_colored() amount to  *)
(* what PutChar says: the right cell, the wrap, and a whole row scrolled.  *)
PrintsExactly ==
  [][pc # "idle" /\ pc' = "idle" /\ ~disturbed
       => screen' = PutChar(begun, character)]_tvars

=============================================================================
