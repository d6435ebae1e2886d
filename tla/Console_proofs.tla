---------------------------- MODULE Console_proofs ----------------------------
(***************************************************************************)
(* Proofs about Console: screens of any size, any number of characters     *)
(* printed, keys struck and packets received, in any order.                *)
(***************************************************************************)
EXTENDS Console, WellFoundedInduction, FiniteSetTheorems, SequenceTheorems, TLAPS

-----------------------------------------------------------------------------
(* Screens.                                                                *)

Octets  == {n \in Nat : n < 256}
LastRow == W * (H - 1)
Area    == {n \in Nat : n <= LastRow + 255}
Screens == [x : Octets, y : Octets, marks : SUBSET Area, inverted : SUBSET Int]

OnScreen(s) == s.x < W /\ s.y < H

(* Where the cursor may be while characters are printed.                   *)
NearScreen(s) == s.y < H \/ (s.x < W /\ s.y = H)

LEMMA WidthIs == W \in Nat /\ W >= 4 /\ W <= 128
BY ScreenAssumption DEF W

LEMMA HeightIs == H \in Nat /\ H >= 1 /\ H < 256
BY ScreenAssumption DEF H

LEMMA LastRowIs == LastRow \in Nat /\ W * H = LastRow + W
<1> HIDE DEF W, H
<1>1. H - 1 \in Nat
  BY HeightIs
<1>2. W * (H - 1) \in Nat
  BY <1>1, WidthIs
<1>3. W * H = W * (H - 1) + W
  BY WidthIs, HeightIs
<1> QED BY <1>2, <1>3 DEF LastRow

LEMMA OctetIs ==
  ASSUME NEW n \in Octets
  PROVE  /\ n \in Nat /\ n < 256 /\ n + 1 \in Nat
         /\ n > 0 => n - 1 \in Octets
BY DEF Octets

LEMMA ByteIs ==
  ASSUME NEW n \in Nat
  PROVE  Byte(n) \in Octets /\ TabStop(n) \in Octets
BY DEF Byte, TabStop, Octets

LEMMA ByteSame ==
  ASSUME NEW n \in Octets
  PROVE  Byte(n) = n
BY DEF Byte, Octets

LEMMA Bounds ==
  0 \in Octets /\ W \in Octets /\ H \in Octets /\ H - 1 \in Octets /\ W - 1 \in Octets
<1> HIDE DEF W, H
<1> QED BY WidthIs, HeightIs DEF Octets

LEMMA ColumnIs == \A x : x \in Column <=> x \in Octets /\ x < W
<1> HIDE DEF W, H
<1> QED BY WidthIs DEF Column, Octets

LEMMA RowIs == \A y : y \in Row <=> y \in Octets /\ y < H
<1> HIDE DEF W, H
<1> QED BY HeightIs DEF Row, Octets

LEMMA CellsAre == \A i : i \in Cells <=> i \in Nat /\ i < LastRow + W
<1> HIDE DEF W, H
<1>1. W * H - 1 = LastRow + W - 1
  BY LastRowIs, WidthIs, HeightIs
<1> QED BY <1>1, LastRowIs, WidthIs DEF Cells

LEMMA RowStart ==
  ASSUME NEW y \in Nat, y < H
  PROVE  W * y \in Nat /\ W * y <= LastRow
<1> HIDE DEF W, H
<1>1. H - 1 - y \in Nat
  BY HeightIs
<1>2. W * (H - 1 - y) \in Nat /\ W * y \in Nat
  BY <1>1, WidthIs
<1>3. W * (H - 1) = W * (H - 1 - y) + W * y
  BY <1>1, WidthIs, HeightIs
<1> QED BY <1>2, <1>3 DEF LastRow

LEMMA Places ==
  ASSUME NEW x \in Octets, NEW y \in Octets
  PROVE  /\ y < H /\ x < W => Cell(x, y) \in Cells
         /\ y < H \/ (x < W /\ y = H) => Cell(x, y) \in Area
<1> HIDE DEF W, H
<1>1. x \in Nat /\ x < 256 /\ y \in Nat
  BY OctetIs
<1>2. ASSUME y < H
      PROVE  Cell(x, y) \in Nat /\ Cell(x, y) <= LastRow + x
  <2>1. W * y \in Nat /\ W * y <= LastRow
    BY <1>1, <1>2, RowStart
  <2> QED BY <1>1, <2>1, LastRowIs DEF Cell
<1>3. y < H /\ x < W => Cell(x, y) \in Cells
  BY <1>1, <1>2, CellsAre, LastRowIs, WidthIs
<1>4. y < H => Cell(x, y) \in Area
  BY <1>1, <1>2, LastRowIs DEF Area
<1>5. x < W /\ y = H => Cell(x, y) \in Area
  BY <1>1, LastRowIs, WidthIs DEF Area, Cell
<1> QED BY <1>3, <1>4, <1>5

LEMMA ShowFacts ==
  ASSUME NEW s \in Screens, NEW i \in Area, NEW c
  PROVE  /\ Show(s, i, c) \in Screens
         /\ Show(s, i, c).x = s.x /\ Show(s, i, c).y = s.y
         /\ Show(s, i, c).marks = IF c = " " THEN s.marks \ {i} ELSE s.marks \cup {i}
         /\ Show(s, i, c).inverted = s.inverted \ {i}
<1> DEFINE m == IF c = " " THEN s.marks \ {i} ELSE s.marks \cup {i}
           v == s.inverted \ {i}
<1>1. m \in SUBSET Area /\ v \in SUBSET Int
  BY DEF Screens
<1>2. Show(s, i, c) = [s EXCEPT !.marks = m, !.inverted = v]
  BY DEF Show
<1> HIDE DEF m, v
<1> QED BY <1>1, <1>2 DEF Screens, m, v

LEMMA NearPlace ==
  ASSUME NEW s \in Screens, NearScreen(s)
  PROVE  Cell(s.x, s.y) \in Area
<1>1. PICK x, y \in Octets : s.x = x /\ s.y = y
  BY DEF Screens
<1>2. y < H \/ (x < W /\ y = H)
  BY <1>1 DEF NearScreen
<1>3. Cell(x, y) \in Area
  BY <1>2, Places
<1> QED BY <1>1, <1>3

LEMMA SetX ==
  ASSUME NEW s \in Screens, NEW n \in Octets
  PROVE  /\ [s EXCEPT !.x = n] \in Screens
         /\ [s EXCEPT !.x = n].x = n /\ [s EXCEPT !.x = n].y = s.y
BY DEF Screens

LEMMA SetY ==
  ASSUME NEW s \in Screens, NEW n \in Octets
  PROVE  /\ [s EXCEPT !.y = n] \in Screens
         /\ [s EXCEPT !.y = n].y = n /\ [s EXCEPT !.y = n].x = s.x
BY DEF Screens

LEMMA SetXY ==
  ASSUME NEW s \in Screens, NEW m \in Octets, NEW n \in Octets
  PROVE  /\ [s EXCEPT !.x = m, !.y = n] \in Screens
         /\ [s EXCEPT !.x = m, !.y = n].x = m /\ [s EXCEPT !.x = m, !.y = n].y = n
         /\ [s EXCEPT !.y = n, !.x = m] \in Screens
         /\ [s EXCEPT !.y = n, !.x = m].x = m /\ [s EXCEPT !.y = n, !.x = m].y = n
BY DEF Screens

LEMMA SameScreen ==
  ASSUME NEW s \in Screens, NEW t \in Screens,
         s.x = t.x, s.y = t.y, s.marks = t.marks, s.inverted = t.inverted
  PROVE  s = t
BY DEF Screens

LEMMA Least ==
  ASSUME NEW S, S \subseteq Nat, S # {}
  PROVE  \E n \in S : \A m \in S : n <= m
<1>1. PICK n \in S : \A m \in S : <<m, n>> \notin OpToRel(<, Nat)
  BY NatLessThanWellFounded, WFMin, Zenon
<1>2. \A m, k \in Nat : m < k => <<m, k>> \in OpToRel(<, Nat)
  BY DEF OpToRel
<1>3. \A m \in S : ~ (m < n)
  BY <1>1, <1>2
<1> QED BY <1>3

LEMMA Greatest ==
  ASSUME NEW S, NEW n \in Nat, S \subseteq 0 .. n, S # {}
  PROVE  Max(S) \in S /\ \A m \in S : Max(S) >= m
<1> DEFINE T == {n - m : m \in S}
<1>1. T \subseteq Nat /\ T # {}
  <2>1. PICK m \in S : TRUE
    OBVIOUS
  <2>2. n - m \in T /\ T \subseteq Nat
    BY <2>1
  <2> QED BY <2>2
<1>2. PICK k \in T : \A j \in T : k <= j
  BY <1>1, Least
<1>3. PICK m \in S : k = n - m
  OBVIOUS
<1>4. \A j \in S : m >= j
  BY <1>2, <1>3
<1> QED BY <1>4 DEF Max

LEMMA EndOfTextFacts ==
  ASSUME NEW s \in Screens, NEW y
  PROVE  EndOfText(s, y) \in Octets /\ EndOfText(s, y) < W
<1> DEFINE S == {0} \cup {x \in Column : Cell(x, y) \in s.marks}
<1>1. S \subseteq 0 .. (W - 1) /\ W - 1 \in Nat /\ S # {}
  BY WidthIs DEF Column
<1>2. \A m \in S : m \in Octets /\ m < W
  BY ColumnIs, Bounds, WidthIs
<1>3. EndOfText(s, y) = Max(S)
  BY DEF EndOfText
<1> HIDE DEF S
<1>4. Max(S) \in S
  BY <1>1, Greatest
<1> QED BY <1>2, <1>3, <1>4

-----------------------------------------------------------------------------
(* What the terminal's functions do to the cursor.                         *)

LEMMA GlyphFacts ==
  ASSUME NEW s \in Screens, NearScreen(s), NEW c
  PROVE  Glyph(s, c) \in Screens
<1>1. s.x \in Octets /\ s.y \in Octets
  BY DEF Screens
<1>2. /\ Byte(s.x + 1) \in Octets /\ Byte(s.y + 1) \in Octets
      /\ TabStop(s.x) \in Octets /\ (s.x > 0 => s.x - 1 \in Octets)
  BY <1>1, OctetIs, ByteIs
<1>3. [s EXCEPT !.x = 0, !.y = Byte(s.y + 1)] \in Screens
  BY <1>2, Bounds, SetXY
<1>4. [s EXCEPT !.x = TabStop(s.x)] \in Screens /\ [s EXCEPT !.x = 0] \in Screens
  BY <1>2, Bounds, SetX
<1>5. s.x > 0 => [s EXCEPT !.x = s.x - 1] \in Screens
  BY <1>2, SetX
<1>6. PICK i \in Area : i = Cell(s.x, s.y)
  BY NearPlace
<1> DEFINE t == Show(s, i, c)
<1>7. t \in Screens /\ t.x = s.x
  <2>1. Show(s, i, c) \in Screens
    BY ShowFacts
  <2>2. Show(s, i, c).x = s.x
    BY DEF Show, Screens
  <2> QED BY <2>1, <2>2
<1> HIDE DEF t
<1>8. [t EXCEPT !.x = Byte(t.x + 1)] \in Screens
  BY <1>2, <1>7, SetX
<1>9. \/ Glyph(s, c) = [s EXCEPT !.x = 0, !.y = Byte(s.y + 1)]
      \/ Glyph(s, c) = [s EXCEPT !.x = TabStop(s.x)]
      \/ Glyph(s, c) = [s EXCEPT !.x = 0]
      \/ s.x > 0 /\ Glyph(s, c) = [s EXCEPT !.x = s.x - 1]
      \/ Glyph(s, c) = s
      \/ Glyph(s, c) = [t EXCEPT !.x = Byte(t.x + 1)]
  BY <1>6 DEF Glyph, t
<1> QED BY <1>3, <1>4, <1>5, <1>8, <1>9

LEMMA WrapFacts ==
  ASSUME NEW s \in Screens
  PROVE  Wrap(s) \in Screens /\ Wrap(s).x < W
<1>1. s.x \in Octets /\ s.y \in Octets
  BY DEF Screens
<1>2. s.x \in Nat /\ Byte(s.y + 1) \in Octets
  BY <1>1, OctetIs, ByteIs
<1>3. [s EXCEPT !.x = 0, !.y = Byte(s.y + 1)] \in Screens
      /\ [s EXCEPT !.x = 0, !.y = Byte(s.y + 1)].x = 0
  BY <1>2, Bounds, SetXY, ZenonT(30)
<1>4. Wrap(s) = IF s.x >= W THEN [s EXCEPT !.x = 0, !.y = Byte(s.y + 1)] ELSE s
  BY DEF Wrap, Wraps
<1>5. CASE s.x >= W
  BY <1>3, <1>4, <1>5, WidthIs
<1>6. CASE ~ (s.x >= W)
  BY <1>2, <1>4, <1>6, WidthIs
<1> QED BY <1>5, <1>6

LEMMA ScrolledFacts ==
  /\ \A m \in SUBSET Area : Scrolled(m) \in SUBSET Area
  /\ \A m \in SUBSET Int : Scrolled(m) \in SUBSET Int
<1>1. W * H - 1 = LastRow + W - 1 /\ LastRow \in Nat /\ W \in Nat
  BY LastRowIs, WidthIs
<1>2. ASSUME NEW m, NEW i \in Scrolled(m)
      PROVE  i \in m \/ i \in Area
  <2>1. CASE i \in m
    BY <2>1
  <2>2. CASE \E j \in m \cap (W .. (W * H - 1)) : i = j - W
    <3>1. PICK j \in W .. (LastRow + W - 1) : i = j - W
      BY <1>1, <2>2
    <3>2. i \in Nat /\ i <= LastRow
      BY <1>1, <3>1
    <3> QED BY <1>1, <3>2 DEF Area
  <2> QED BY <1>2, <2>1, <2>2 DEF Scrolled
<1>3. Area \subseteq Int
  BY DEF Area
<1> QED BY <1>2, <1>3

LEMMA ScrollFacts ==
  ASSUME NEW s \in Screens
  PROVE  /\ ScrollScreen(s) \in Screens
         /\ ScrollScreen(s).x = s.x /\ ScrollScreen(s).y = H - 1
         /\ ScrollScreen(s).marks = Scrolled(s.marks)
         /\ ScrollScreen(s).inverted = Scrolled(s.inverted)
<1> DEFINE m == Scrolled(s.marks)
           v == Scrolled(s.inverted)
           t == [s EXCEPT !.marks = m, !.inverted = v]
<1>1. m \in SUBSET Area /\ v \in SUBSET Int
  BY ScrolledFacts DEF Screens
<1>2. ScrollScreen(s) = [t EXCEPT !.y = H - 1] /\ H - 1 \in Octets
  BY Bounds DEF ScrollScreen, ToBottom
<1> HIDE DEF m, v
<1>3. t \in Screens /\ t.x = s.x /\ t.y = s.y /\ t.marks = m /\ t.inverted = v
  BY <1>1 DEF Screens
<1> HIDE DEF t
<1>4. /\ [t EXCEPT !.y = H - 1] \in Screens
      /\ [t EXCEPT !.y = H - 1].x = t.x /\ [t EXCEPT !.y = H - 1].y = H - 1
      /\ [t EXCEPT !.y = H - 1].marks = t.marks
      /\ [t EXCEPT !.y = H - 1].inverted = t.inverted
  BY <1>2, <1>3 DEF Screens
<1> QED BY <1>2, <1>3, <1>4 DEF m, v

(* Wherever the cursor is, one character brings it back to the screen.     *)
LEMMA PutCharFacts ==
  ASSUME NEW s \in Screens, NearScreen(s), NEW c
  PROVE  PutChar(s, c) \in Screens /\ OnScreen(PutChar(s, c)) /\ NearScreen(PutChar(s, c))
<1> DEFINE t == Wrap(Glyph(s, c))
<1>1. t \in Screens /\ t.x < W
  BY GlyphFacts, WrapFacts
<1>2. PutChar(s, c) = IF t.y >= H THEN ScrollScreen(t) ELSE t
  BY DEF PutChar, Below
<1> HIDE DEF t
<1>3. /\ ScrollScreen(t) \in Screens
      /\ ScrollScreen(t).x = t.x /\ ScrollScreen(t).y = H - 1
  BY <1>1, ScrollFacts
<1>4. t.y \in Nat
  BY <1>1, OctetIs DEF Screens
<1>5. CASE t.y >= H
  BY <1>1, <1>2, <1>3, <1>5, HeightIs DEF OnScreen, NearScreen
<1>6. CASE ~ (t.y >= H)
  BY <1>1, <1>2, <1>4, <1>6, HeightIs DEF OnScreen, NearScreen
<1> QED BY <1>5, <1>6

(* What a handler may do to the cursor: put it on the screen, or move it   *)
(* towards the corner.                                                     *)
Tame(s, t) ==
  /\ t \in Screens
  /\ OnScreen(t) \/ ((t.x < W \/ t.x <= s.x) /\ t.y <= s.y)

LEMMA TameFacts ==
  ASSUME NEW s \in Screens, NEW t, Tame(s, t)
  PROVE  /\ OnScreen(s) => OnScreen(t)
         /\ s.x < W => t.x < W
         /\ s.y < H => t.y < H
         /\ s.y <= H => t.y <= H
         /\ NearScreen(s) => NearScreen(t)
<1>1. s.x \in Nat /\ s.y \in Nat /\ t.x \in Nat /\ t.y \in Nat
  BY OctetIs DEF Tame, Screens
<1> QED BY <1>1, WidthIs, HeightIs DEF Tame, OnScreen, NearScreen

LEMMA BackspaceTame ==
  ASSUME NEW s \in Screens, NearScreen(s)
  PROVE  Tame(s, HandleBackspace(s))
<1> DEFINE t == IF s.x > 0 THEN [s EXCEPT !.x = s.x - 1]
                ELSE IF s.y > 0
                  THEN [s EXCEPT !.y = s.y - 1, !.x = EndOfText(s, s.y - 1)]
                  ELSE s
<1>1. s.x \in Octets /\ s.y \in Octets /\ s.x \in Nat /\ s.y \in Nat
  BY OctetIs DEF Screens
<1>2. EndOfText(s, s.y - 1) \in Octets /\ EndOfText(s, s.y - 1) < W
  BY EndOfTextFacts
<1>3. t \in Screens /\ (t.x < W \/ t.x <= s.x) /\ t.y <= s.y
  <2>1. CASE s.x > 0
    <3>1. s.x - 1 \in Octets
      BY <1>1, <2>1, OctetIs
    <3>2. PICK n \in Octets : n = s.x - 1
      BY <3>1
    <3>3. t = [s EXCEPT !.x = n]
      BY <2>1, <3>2
    <3> HIDE DEF t
    <3>4. t \in Screens /\ t.x = n /\ t.y = s.y
      BY <3>3, SetX
    <3> QED BY <1>1, <3>2, <3>4
  <2>2. CASE ~ (s.x > 0) /\ s.y > 0
    <3>1. s.y - 1 \in Octets
      BY <1>1, <2>2, OctetIs
    <3>2. PICK m \in Octets, n \in Octets : m = EndOfText(s, s.y - 1) /\ n = s.y - 1
      BY <1>2, <3>1
    <3>3. t = [s EXCEPT !.y = n, !.x = m]
      BY <2>2, <3>2
    <3> HIDE DEF t
    <3>4. t \in Screens /\ t.x = m /\ t.y = n
      BY <3>3 DEF Screens
    <3> QED BY <1>1, <1>2, <3>2, <3>4
  <2>3. CASE ~ (s.x > 0) /\ ~ (s.y > 0)
    BY <1>1, <2>3
  <2> QED BY <2>1, <2>2, <2>3
<1>4. HandleBackspace(s) = Show(t, Cell(t.x, t.y), " ")
  BY DEF HandleBackspace
<1> HIDE DEF t
<1>5. t.x \in Octets /\ t.y \in Octets /\ t.x \in Nat /\ t.y \in Nat
  BY <1>3, OctetIs DEF Screens
<1>6. NearScreen(t)
  BY <1>1, <1>3, <1>5, WidthIs, HeightIs DEF NearScreen
<1>7. PICK i \in Area : i = Cell(t.x, t.y)
  BY <1>3, <1>6, NearPlace
<1>8. HandleBackspace(s) = Show(t, i, " ")
  BY <1>4, <1>7
<1>9. /\ Show(t, i, " ") \in Screens
      /\ Show(t, i, " ").x = t.x /\ Show(t, i, " ").y = t.y
  BY <1>3, ShowFacts
<1> QED BY <1>3, <1>8, <1>9 DEF Tame

LEMMA CharTame ==
  ASSUME NEW s \in Screens, NearScreen(s), NEW c
  PROVE  Tame(s, PutChar(s, c)) /\ NearScreen(PutChar(s, c))
BY PutCharFacts DEF Tame

LEMMA PrintfFacts ==
  ASSUME NEW s \in Screens, NearScreen(s), NEW c, NEW d, NEW e
  PROVE  /\ Printf(s, c, d, e) \in Screens /\ OnScreen(Printf(s, c, d, e))
         /\ NearScreen(Printf(s, c, d, e))
<1> DEFINE t == PutChar(s, c)
           u == PutChar(t, d)
<1>1. t \in Screens /\ NearScreen(t)
  BY PutCharFacts
<1> HIDE DEF t
<1>2. u \in Screens /\ NearScreen(u)
  BY <1>1, PutCharFacts
<1> HIDE DEF u
<1>3. PutChar(u, e) \in Screens /\ OnScreen(PutChar(u, e)) /\ NearScreen(PutChar(u, e))
  BY <1>2, PutCharFacts
<1> QED BY <1>3 DEF Printf, t, u

LEMMA ClearFacts ==
  ASSUME NEW s \in Screens
  PROVE  ClearScreen(s) \in Screens /\ OnScreen(ClearScreen(s)) /\ NearScreen(ClearScreen(s))
<1>1. s.marks \ Cells \in SUBSET Area /\ s.inverted \ Cells \in SUBSET Int
  BY DEF Screens
<1>2. ClearScreen(s) \in Screens /\ ClearScreen(s).x = 0 /\ ClearScreen(s).y = 0
  BY <1>1, Bounds DEF ClearScreen, Screens
<1> QED BY <1>2, WidthIs, HeightIs DEF OnScreen, NearScreen

LEMMA PositionTame ==
  ASSUME NEW s \in Screens, NEW x \in Octets, NEW y \in Octets
  PROVE  Tame(s, SetCursorPosition(s, x, y))
<1> DEFINE t == SetCursorPosition(s, x, y)
<1>1. s.x \in Nat /\ s.y \in Nat /\ x \in Nat /\ y \in Nat
  BY OctetIs DEF Screens
<1>2. CASE ~ (x >= W) /\ ~ (y >= H)
  <2>1. t = [s EXCEPT !.x = x, !.y = y]
    BY <1>2 DEF SetCursorPosition, Wraps, Below
  <2> HIDE DEF t
  <2>2. t \in Screens /\ t.x = x /\ t.y = y
    BY <2>1 DEF Screens
  <2>3. Tame(s, t)
    BY <1>1, <1>2, <2>2, WidthIs, HeightIs DEF Tame, OnScreen
  <2> QED BY <2>3 DEF t
<1>3. CASE ~ (~ (x >= W) /\ ~ (y >= H))
  <2>1. t = s
    BY <1>3 DEF SetCursorPosition, Wraps, Below
  <2> QED BY <1>1, <2>1 DEF Tame
<1> QED BY <1>2, <1>3

LEMMA SameTame ==
  ASSUME NEW s \in Screens, NEW t \in Screens, t.x = s.x, t.y = s.y
  PROVE  Tame(s, t)
<1>1. s.x \in Nat /\ s.y \in Nat
  BY OctetIs DEF Screens
<1> QED BY <1>1 DEF Tame

-----------------------------------------------------------------------------
(* What the handlers do to it.                                             *)

LEMMA LineTame ==
  ASSUME NEW s \in Screens, NearScreen(s)
  PROVE  /\ Line(s) \in Screens /\ NearScreen(Line(s))
         /\ Tame(s, Line(s))
BY PrintfFacts DEF Line, Tame

LEMMA SpecialTame ==
  ASSUME NEW s \in Screens, NearScreen(s), NEW code
  PROVE  Tame(s, SpecialKey(s, code))
<1> DEFINE t == ClearScreen(Line(s))
           u == Printf(t, "a", "\n", "a")
<1>1. Line(s) \in Screens /\ Tame(s, Line(s))
  BY LineTame
<1>2. t \in Screens /\ NearScreen(t)
  BY <1>1, ClearFacts
<1> HIDE DEF t
<1>3. u \in Screens /\ NearScreen(u)
  BY <1>2, PrintfFacts
<1> HIDE DEF u
<1>4. PutChar(u, " ") \in Screens /\ OnScreen(PutChar(u, " "))
  BY <1>3, PutCharFacts
<1>5. SpecialKey(s, code) = IF code = "F5" THEN PutChar(u, " ") ELSE Line(s)
  BY DEF SpecialKey, t, u
<1> QED BY <1>1, <1>4, <1>5 DEF Tame

LEMMA ExtendedTame ==
  ASSUME NEW s \in Screens, NearScreen(s), NEW code
  PROVE  Tame(s, ExtendedKey(s, code))
<1>1. Tame(s, s)
  BY SameTame
<1>2. Tame(s, HandleBackspace(s))
  BY BackspaceTame
<1>3. Tame(s, Printf(s, " ", "other", " "))
  BY PrintfFacts DEF Tame
<1>4. s.y \in Octets
  BY DEF Screens
<1>5. Tame(s, SetCursorPosition(s, 0, s.y))
  BY <1>4, Bounds, PositionTame
<1>6. Tame(s, SetCursorPosition(s, W - 1, s.y))
  BY <1>4, Bounds, PositionTame
<1> QED BY <1>1, <1>2, <1>3, <1>5, <1>6 DEF ExtendedKey

LEMMA KeyTame ==
  ASSUME NEW s \in Screens, NearScreen(s), NEW code
  PROVE  Tame(s, Key(s, code))
<1>1. Tame(s, HandleBackspace(s)) /\ Tame(s, Line(s)) /\ Tame(s, SpecialKey(s, code))
  BY BackspaceTame, LineTame, SpecialTame
<1>2. \A c : Tame(s, PutChar(s, c))
  BY CharTame
<1> DEFINE t == PutChar(s, "a")
<1>3. t \in Screens /\ NearScreen(t)
  BY PutCharFacts
<1> HIDE DEF t
<1>4. Tame(s, PutChar(t, " "))
  BY <1>3, PutCharFacts DEF Tame
<1> QED BY <1>1, <1>2, <1>4 DEF Key, t

(* The mouse leaves the cursor alone.                                      *)
LEMMA ToggleFacts ==
  ASSUME NEW s \in Screens, NEW i \in Int
  PROVE  /\ Toggle(s, i) \in Screens
         /\ Toggle(s, i).x = s.x /\ Toggle(s, i).y = s.y
         /\ Toggle(s, i).marks = s.marks
         /\ Toggle(s, i).inverted =
              IF i \in s.inverted THEN s.inverted \ {i} ELSE s.inverted \cup {i}
<1> DEFINE v == IF i \in s.inverted THEN s.inverted \ {i} ELSE s.inverted \cup {i}
<1>1. v \in SUBSET Int
  BY DEF Screens
<1>2. Toggle(s, i) = [s EXCEPT !.inverted = v]
  BY DEF Toggle
<1> HIDE DEF v
<1> QED BY <1>1, <1>2 DEF Screens, v

-----------------------------------------------------------------------------
(* The terminal.                                                           *)

Stage == {"idle", "switch", "newline", "store y", "back", "advance", "store x",
          "column", "write", "wrap", "right", "next", "store next", "bottom", "scroll"}

TerminalTypes ==
  /\ session \in Sessions /\ screen \in Screens /\ pc \in Stage
  /\ character \in Chars
  /\ prints \in Nat /\ prints <= session.prints
  /\ disturbed \in BOOLEAN

(* The cursor is below the screen only between the test for the right edge *)
(* and the test for the bottom, and to the right of it only until the      *)
(* first of them has set it back.                                          *)
CursorInv ==
  /\ NearScreen(screen)
  /\ pc \notin {"wrap", "right", "bottom", "scroll"} => OnScreen(screen)
  /\ pc = "right" => screen.y < H
  /\ pc \in {"bottom", "scroll"} => screen.x < W

RegisterInv ==
  /\ register \in Nat /\ register <= LastRow + W + 255
  /\ pc = "store x" => register \in Octets
  /\ pc \in {"store y", "store next"} => register \in Octets /\ register <= H
  /\ pc = "column" => register \in Octets /\ register < H
  /\ pc = "write" => register \in Cells
  /\ pc = "scroll" => register <= LastRow + W

TerminalInv == TerminalTypes /\ CursorInv /\ RegisterInv

LEMMA TerminalInit == InitTerminal => TerminalInv
<1> SUFFICES ASSUME InitTerminal PROVE TerminalInv
  OBVIOUS
<1>1. screen \in Screens /\ screen.x = 0 /\ screen.y = 0
  BY Bounds DEF InitTerminal, Blank, Screens
<1>2. TerminalTypes
  <2>1. session \in Sessions /\ pc \in Stage /\ character \in Chars /\ disturbed \in BOOLEAN
    BY DEF InitTerminal, Stage, Chars
  <2>2. session.prints \in Nat /\ prints = 0
    BY <2>1, ScreenAssumption DEF InitTerminal
  <2> QED BY <1>1, <2>1, <2>2 DEF TerminalTypes
<1>3. CursorInv
  BY <1>1, WidthIs, HeightIs DEF CursorInv, NearScreen, OnScreen
<1>4. RegisterInv
  BY LastRowIs, WidthIs DEF InitTerminal, RegisterInv
<1> QED BY <1>2, <1>3, <1>4 DEF TerminalInv

LEMMA TerminalTame ==
  ASSUME TerminalInv, Tame(screen, screen'), UNCHANGED <<session, main, prints>>,
         disturbed' \in BOOLEAN
  PROVE  TerminalInv'
<1> USE DEF main
<1>1. screen \in Screens /\ screen' \in Screens
  BY DEF TerminalInv, TerminalTypes, Tame
<1>2. /\ OnScreen(screen) => OnScreen(screen')
      /\ screen.x < W => screen'.x < W
      /\ screen.y < H => screen'.y < H
      /\ NearScreen(screen) => NearScreen(screen')
  BY <1>1, TameFacts
<1>3. TerminalTypes'
  BY <1>1 DEF TerminalInv, TerminalTypes
<1>4. CursorInv'
  <2>1. NearScreen(screen)'
    BY <1>2 DEF TerminalInv, CursorInv, NearScreen
  <2>2. (pc \notin {"wrap", "right", "bottom", "scroll"} => OnScreen(screen))'
    BY <1>2 DEF TerminalInv, CursorInv, OnScreen
  <2>3. (pc = "right" => screen.y < H)' /\ (pc \in {"bottom", "scroll"} => screen.x < W)'
    BY <1>2 DEF TerminalInv, CursorInv
  <2> QED BY <2>1, <2>2, <2>3 DEF CursorInv
<1>5. RegisterInv'
  BY DEF TerminalInv, RegisterInv
<1> QED BY <1>3, <1>4, <1>5 DEF TerminalInv

LEMMA TerminalSame ==
  ASSUME TerminalInv, UNCHANGED tvars
  PROVE  TerminalInv'
BY DEF TerminalInv, TerminalTypes, CursorInv, RegisterInv, tvars, main, NearScreen, OnScreen

(* What every step of put_char_colored() needs to know of where it starts. *)
LEMMA CursorFacts ==
  ASSUME TerminalInv
  PROVE  /\ screen \in Screens
         /\ screen.x \in Octets /\ screen.y \in Octets
         /\ screen.x \in Nat /\ screen.y \in Nat /\ screen.y <= H
         /\ Byte(screen.x + 1) \in Octets /\ TabStop(screen.x) \in Octets
         /\ screen.y < H => Byte(screen.y + 1) = screen.y + 1 /\ screen.y + 1 \in Octets
         /\ screen.x > 0 => Byte(screen.x - 1) = screen.x - 1 /\ screen.x - 1 \in Octets
<1>1. screen \in Screens /\ NearScreen(screen)
  BY DEF TerminalInv, TerminalTypes, CursorInv
<1>2. screen.x \in Octets /\ screen.y \in Octets
  BY <1>1 DEF Screens
<1>3. screen.x \in Nat /\ screen.y \in Nat
  BY <1>2, OctetIs
<1>4. screen.y <= H
  BY <1>1, <1>3, HeightIs DEF NearScreen
<1>5. Byte(screen.x + 1) \in Octets /\ TabStop(screen.x) \in Octets
  BY <1>2, <1>3, OctetIs, ByteIs
<1>6. screen.y < H => Byte(screen.y + 1) = screen.y + 1 /\ screen.y + 1 \in Octets
  <2>1. screen.y < H => screen.y + 1 \in Octets
    BY <1>3, HeightIs DEF Octets
  <2> QED BY <2>1, ByteSame
<1>7. screen.x > 0 => Byte(screen.x - 1) = screen.x - 1 /\ screen.x - 1 \in Octets
  BY <1>2, OctetIs, ByteSame
<1> QED BY <1>1, <1>2, <1>3, <1>4, <1>5, <1>6, <1>7

(* A step that goes on: where it leaves the cursor and the value.          *)
LEMMA GoesOn ==
  ASSUME TerminalInv, NEW from, NEW to \in Stage, Goto(from, to),
         screen' \in Screens,
         screen'.y < H \/ (screen'.x < W /\ screen'.y = H),
         to \in {"wrap", "right"} \/ screen'.x < W,
         to \in {"wrap", "bottom", "scroll"} \/ screen'.y < H,
         register' \in Nat, register' <= LastRow + W + 255,
         to = "store x" => register' \in Octets,
         to \in {"store y", "store next"} => register' \in Octets /\ register' <= H,
         to = "column" => register' \in Octets /\ register' < H,
         to = "write" => register' \in Cells,
         to = "scroll" => register' <= LastRow + W
  PROVE  TerminalInv'
<1>1. pc' = to
  BY DEF Goto
<1>2. TerminalTypes'
  BY <1>1 DEF TerminalInv, TerminalTypes, Goto
<1>3. CursorInv'
  BY <1>1 DEF CursorInv, NearScreen, OnScreen
<1>4. RegisterInv'
  BY <1>1 DEF RegisterInv
<1> QED BY <1>2, <1>3, <1>4 DEF TerminalInv

LEMMA RegisterIs ==
  ASSUME TerminalInv
  PROVE  register \in Nat /\ register <= LastRow + W + 255
BY DEF TerminalInv, RegisterInv

LEMMA OctetFits == \A n \in Octets : n \in Nat /\ n <= LastRow + W + 255
BY LastRowIs, WidthIs DEF Octets

LEMMA OnScreenAt ==
  ASSUME TerminalInv, pc \notin {"wrap", "right", "bottom", "scroll"}
  PROVE  screen.x < W /\ screen.y < H
BY DEF TerminalInv, CursorInv, OnScreen

LEMMA BeginStep ==
  ASSUME TerminalInv, NEW c \in session.text, Begin(c)
  PROVE  TerminalInv'
<1>1. session \in Sessions /\ session.prints \in Nat /\ c \in Chars
  <2>1. session \in Sessions
    BY DEF TerminalInv, TerminalTypes
  <2> QED BY <2>1, ScreenAssumption
<1>2. TerminalTypes'
  <2>1. prints \in Nat /\ prints + 1 \in Nat /\ prints + 1 <= session.prints
    BY <1>1 DEF TerminalInv, TerminalTypes, Begin
  <2>2. pc' \in Stage
    BY DEF Begin, Stage
  <2> QED BY <1>1, <2>1, <2>2 DEF TerminalInv, TerminalTypes, Begin
<1>3. CursorInv'
  BY DEF TerminalInv, CursorInv, Begin, NearScreen, OnScreen
<1>4. RegisterInv'
  BY DEF TerminalInv, RegisterInv, Begin
<1> QED BY <1>2, <1>3, <1>4 DEF TerminalInv

LEMMA SwitchStep ==
  ASSUME TerminalInv, Switch
  PROVE  TerminalInv'
<1> USE DEF Stage
<1>0. pc = "switch"
  BY DEF Switch, Store, Load, Test, Goto
<1>r. PICK r \in Nat : r = register /\ r <= LastRow + W + 255
  BY RegisterIs
<1>1. PICK x, y \in Octets : screen.x = x /\ screen.y = y /\ x < W /\ y < H
  BY <1>0, CursorFacts, OnScreenAt
<1>2. screen \in Screens /\ TabStop(x) \in Octets
  BY <1>1, CursorFacts
<1>3. ASSUME NEW to \in {"newline", "wrap"}, Store("switch", to, [screen EXCEPT !.x = 0])
      PROVE  TerminalInv'
  <2>1. /\ Goto("switch", to) /\ register' = r
        /\ screen' = [screen EXCEPT !.x = 0]
    BY <1>r, <1>3 DEF Store
  <2>2. screen' \in Screens /\ screen'.x = 0 /\ screen'.y = y
    BY <1>1, <1>2, <2>1, Bounds DEF Screens
  <2>3. 0 < W
    BY WidthIs
  <2> QED BY <1>r, <1>1, <2>1, <2>2, <2>3, GoesOn
<1>4. CASE Load("switch", "store x", TabStop(screen.x))
  <2>1. /\ Goto("switch", "store x") /\ register' = TabStop(x)
        /\ screen' = screen
    BY <1>1, <1>4 DEF Load
  <2>2. TabStop(x) \in Nat /\ TabStop(x) <= LastRow + W + 255
    BY <1>2, OctetFits
  <2> QED BY <1>1, <1>2, <2>1, <2>2, GoesOn
<1>5. ASSUME NEW to \in {"back", "wrap"}, Test("switch", to)
      PROVE  TerminalInv'
  <2>1. Goto("switch", to) /\ register' = r /\ screen' = screen
    BY <1>r, <1>5 DEF Test
  <2> QED BY <1>r, <1>1, <1>2, <2>1, GoesOn
<1>6. CASE Load("switch", "column", screen.y)
  <2>1. Goto("switch", "column") /\ register' = y /\ screen' = screen
    BY <1>1, <1>6 DEF Load
  <2>2. y \in Nat /\ y <= LastRow + W + 255
    BY OctetFits
  <2> QED BY <1>1, <1>2, <2>1, <2>2, GoesOn
<1> QED BY <1>3, <1>4, <1>5, <1>6 DEF Switch

LEMMA NewlineStep ==
  ASSUME TerminalInv, Newline
  PROVE  TerminalInv'
<1> USE DEF Stage
<1>1. pc \in {"newline", "store y"}
  BY DEF Newline, Store, Load, Goto
<1>2. PICK x, y \in Octets : screen.x = x /\ screen.y = y /\ x < W /\ y < H
  BY <1>1, CursorFacts, OnScreenAt
<1>3. screen \in Screens
  BY CursorFacts
<1>n. PICK n \in Octets : n = Byte(y + 1) /\ n <= H
  BY <1>2, CursorFacts, HeightIs
<1>4. CASE Load("newline", "store y", Byte(screen.y + 1))
  <2>1. Goto("newline", "store y") /\ register' = n /\ screen' = screen
    BY <1>2, <1>n, <1>4 DEF Load
  <2>2. n \in Nat /\ n <= LastRow + W + 255
    BY OctetFits
  <2> QED BY <1>2, <1>3, <1>n, <2>1, <2>2, GoesOn
<1>5. CASE Store("store y", "wrap", [screen EXCEPT !.y = register])
  <2>0. PICK r \in Octets : r = register /\ r <= H
    BY <1>5 DEF TerminalInv, RegisterInv, Store, Goto
  <2>1. /\ Goto("store y", "wrap") /\ register' = r
        /\ screen' = [screen EXCEPT !.y = r]
    BY <1>5, <2>0 DEF Store
  <2>2. r \in Nat /\ r <= LastRow + W + 255 /\ (r < H \/ r = H)
    BY <2>0, OctetFits, HeightIs
  <2>3. screen' \in Screens /\ screen'.x = x /\ screen'.y = r
    BY <1>2, <1>3, <2>1, <2>2 DEF Screens
  <2> QED BY <1>2, <2>1, <2>2, <2>3, GoesOn
<1> QED BY <1>4, <1>5 DEF Newline

LEMMA MoveCursorStep ==
  ASSUME TerminalInv, MoveCursor
  PROVE  TerminalInv'
<1> USE DEF Stage
<1>1. pc \in {"back", "advance", "store x"}
  BY DEF MoveCursor, Store, Load, Goto
<1>2. PICK x, y \in Octets : screen.x = x /\ screen.y = y /\ x < W /\ y < H
  BY <1>1, CursorFacts, OnScreenAt
<1>3. screen \in Screens /\ Byte(x + 1) \in Octets /\ Byte(x - 1) \in Octets
  <2>1. Byte(x - 1) \in Octets
    BY DEF Byte, Octets
  <2> QED BY <1>2, <2>1, CursorFacts
<1>4. ASSUME NEW from, NEW r \in Octets, Load(from, "store x", r)
      PROVE  TerminalInv'
  <2>1. Goto(from, "store x") /\ register' = r /\ screen' = screen
    BY <1>4 DEF Load
  <2>2. r \in Nat /\ r <= LastRow + W + 255
    BY OctetFits
  <2> QED BY <1>2, <1>3, <2>1, <2>2, GoesOn
<1>5. CASE Store("store x", "wrap", [screen EXCEPT !.x = register])
  <2>0. PICK r \in Octets : r = register
    BY <1>5 DEF TerminalInv, RegisterInv, Store, Goto
  <2>1. /\ Goto("store x", "wrap") /\ register' = r
        /\ screen' = [screen EXCEPT !.x = r]
    BY <1>5, <2>0 DEF Store
  <2>2. r \in Nat /\ r <= LastRow + W + 255
    BY OctetFits
  <2>3. screen' \in Screens /\ screen'.x = r /\ screen'.y = y
    BY <1>2, <1>3, <2>1, <2>2 DEF Screens
  <2> QED BY <1>2, <2>1, <2>2, <2>3, GoesOn
<1> QED BY <1>2, <1>3, <1>4, <1>5 DEF MoveCursor

LEMMA CellsFit == \A i \in Cells : i \in Nat /\ i < LastRow + W /\ i \in Area
BY CellsAre, LastRowIs, WidthIs DEF Area

LEMMA WriteCellStep ==
  ASSUME TerminalInv, WriteCell
  PROVE  TerminalInv'
<1> USE DEF Stage
<1>1. pc \in {"column", "write"}
  BY DEF WriteCell, Store, Load, Goto
<1>2. PICK x, y \in Octets : screen.x = x /\ screen.y = y /\ x < W /\ y < H
  BY <1>1, CursorFacts, OnScreenAt
<1>3. screen \in Screens
  BY CursorFacts
<1>4. CASE Load("column", "write", Cell(screen.x, register))
  <2>1. PICK r \in Octets : r = register /\ r < H
    BY <1>4 DEF TerminalInv, RegisterInv, Load, Goto
  <2>2. PICK i \in Cells : i = Cell(x, r)
    BY <1>2, <2>1, Places
  <2>3. Goto("column", "write") /\ register' = i /\ screen' = screen
    BY <1>2, <1>4, <2>1, <2>2 DEF Load
  <2>4. i \in Nat /\ i <= LastRow + W + 255
    BY CellsFit, LastRowIs, WidthIs
  <2> QED BY <1>2, <1>3, <2>3, <2>4, GoesOn
<1>5. CASE Store("write", "advance", Show(screen, register, character))
  <2>1. PICK i \in Cells : i = register
    BY <1>5 DEF TerminalInv, RegisterInv, Store, Goto
  <2>2. Goto("write", "advance") /\ register' = i
        /\ screen' = Show(screen, i, character)
    BY <1>5, <2>1 DEF Store
  <2>3. i \in Area /\ i \in Nat /\ i <= LastRow + W + 255
    BY CellsFit, LastRowIs, WidthIs
  <2>4. screen' \in Screens /\ screen'.x = x /\ screen'.y = y
    <3>1. Show(screen, i, character) \in Screens
      BY <1>3, <2>3, ShowFacts
    <3>2. Show(screen, i, character).x = x /\ Show(screen, i, character).y = y
      BY <1>2, <1>3 DEF Show, Screens
    <3> QED BY <2>2, <3>1, <3>2
  <2> QED BY <1>2, <2>2, <2>3, <2>4, GoesOn
<1> QED BY <1>4, <1>5 DEF WriteCell

LEMMA WrapLineStep ==
  ASSUME TerminalInv, WrapLine
  PROVE  TerminalInv'
<1> USE DEF Stage
<1>1. PICK x, y \in Octets : screen.x = x /\ screen.y = y
  BY CursorFacts
<1>2. screen \in Screens /\ x \in Nat /\ y \in Nat /\ (y < H \/ (x < W /\ y = H))
  BY <1>1, CursorFacts DEF TerminalInv, CursorInv, NearScreen
<1>r. PICK r \in Nat : r = register /\ r <= LastRow + W + 255
  BY RegisterIs
<1>w. 0 < W /\ W \in Nat
  BY WidthIs
<1>3. CASE Store("right", "next", [screen EXCEPT !.x = 0])
  <2>1. /\ Goto("right", "next") /\ register' = r /\ screen' = [screen EXCEPT !.x = 0]
        /\ pc = "right"
    BY <1>r, <1>3 DEF Store, Goto
  <2>2. screen' \in Screens /\ screen'.x = 0 /\ screen'.y = y
    BY <1>1, <1>2, <2>1, Bounds DEF Screens
  <2>3. y < H
    BY <1>1, <2>1 DEF TerminalInv, CursorInv
  <2> QED BY <1>r, <1>w, <2>1, <2>2, <2>3, GoesOn
<1>4. CASE Test("wrap", IF Wraps(screen.x) THEN "right" ELSE "bottom")
  <2>1. register' = r /\ screen' = screen
    BY <1>r, <1>4 DEF Test
  <2>2. CASE Wraps(screen.x)
    <3>1. Goto("wrap", "right")
      BY <1>4, <2>2 DEF Test
    <3>2. x >= W /\ y < H
      BY <1>1, <1>2, <1>w, <2>2 DEF Wraps
    <3> QED BY <1>1, <1>2, <1>r, <2>1, <3>1, <3>2, GoesOn
  <2>3. CASE ~Wraps(screen.x)
    <3>1. Goto("wrap", "bottom")
      BY <1>4, <2>3 DEF Test
    <3>2. x < W
      BY <1>1, <1>2, <1>w, <2>3 DEF Wraps
    <3> QED BY <1>1, <1>2, <1>r, <2>1, <3>1, <3>2, GoesOn
  <2> QED BY <2>2, <2>3
<1>5. CASE Load("next", "store next", Byte(screen.y + 1))
  <2>0. pc = "next"
    BY <1>5 DEF Load, Goto
  <2>1. x < W /\ y < H
    BY <1>1, <2>0, OnScreenAt
  <2>2. PICK n \in Octets : n = Byte(y + 1) /\ n <= H
    BY <1>1, <2>1, CursorFacts, HeightIs
  <2>3. Goto("next", "store next") /\ register' = n /\ screen' = screen
    BY <1>1, <1>5, <2>2 DEF Load
  <2>4. n \in Nat /\ n <= LastRow + W + 255
    BY OctetFits
  <2> QED BY <1>1, <1>2, <2>1, <2>2, <2>3, <2>4, GoesOn
<1>6. CASE Store("store next", "bottom", [screen EXCEPT !.y = register])
  <2>0. PICK n \in Octets : n = register /\ n <= H
    BY <1>6 DEF TerminalInv, RegisterInv, Store, Goto
  <2>1. /\ Goto("store next", "bottom") /\ register' = n
        /\ screen' = [screen EXCEPT !.y = n] /\ pc = "store next"
    BY <1>6, <2>0 DEF Store, Goto
  <2>2. n \in Nat /\ n <= LastRow + W + 255 /\ (n < H \/ n = H)
    BY <2>0, OctetFits, HeightIs
  <2>3. screen' \in Screens /\ screen'.x = x /\ screen'.y = n
    BY <1>1, <1>2, <2>1, <2>2 DEF Screens
  <2>4. x < W
    BY <1>1, <2>1, OnScreenAt
  <2> QED BY <2>1, <2>2, <2>3, <2>4, GoesOn
<1> QED BY <1>3, <1>4, <1>5, <1>6 DEF WrapLine

LEMMA FillFacts ==
  ASSUME NEW s \in Screens, NEW i \in Cells
  PROVE  /\ Fill(s, i) \in Screens
         /\ Fill(s, i).x = s.x /\ Fill(s, i).y = s.y
         /\ Fill(s, i).marks = Fills(s.marks, i)
         /\ Fill(s, i).inverted = Fills(s.inverted, i)
<1>1. i \in Area /\ i \in Int
  BY CellsFit
<1>2. Fills(s.marks, i) \in SUBSET Area /\ Fills(s.inverted, i) \in SUBSET Int
  BY <1>1 DEF Fills, Screens
<1> QED BY <1>2 DEF Fill, Screens

LEMMA FinishStep ==
  ASSUME TerminalInv, NEW from, Finish(from),
         screen' \in Screens, screen'.x < W, screen'.y < H
  PROVE  TerminalInv'
<1>1. pc' = "idle" /\ character' = "other" /\ register' = 0 /\ disturbed' = FALSE
      /\ session' = session /\ prints' = prints
  BY DEF Finish
<1>2. TerminalTypes'
  BY <1>1 DEF TerminalInv, TerminalTypes, Stage, Chars
<1>3. CursorInv'
  BY <1>1 DEF CursorInv, NearScreen, OnScreen
<1>4. RegisterInv'
  BY <1>1, LastRowIs, WidthIs DEF RegisterInv
<1> QED BY <1>2, <1>3, <1>4 DEF TerminalInv

LEMMA ScrollStep ==
  ASSUME TerminalInv, Scroll
  PROVE  TerminalInv'
<1> USE DEF Stage
<1>1. PICK x, y \in Octets : screen.x = x /\ screen.y = y
  BY CursorFacts
<1>2. screen \in Screens /\ x \in Nat /\ y \in Nat /\ (y < H \/ (x < W /\ y = H))
  BY <1>1, CursorFacts DEF TerminalInv, CursorInv, NearScreen
<1>3. pc \in {"bottom", "scroll"} => x < W
  BY <1>1 DEF TerminalInv, CursorInv
<1>4. CASE Below(screen.y) /\ Load("bottom", "scroll", 0)
  <2>1. Goto("bottom", "scroll") /\ register' = 0 /\ screen' = screen /\ pc = "bottom"
    BY <1>4 DEF Load, Goto
  <2>2. 0 <= LastRow + W + 255 /\ 0 <= LastRow + W
    BY LastRowIs, WidthIs
  <2> QED BY <1>1, <1>2, <1>3, <2>1, <2>2, GoesOn
<1>5. CASE ~Below(screen.y) /\ Finish("bottom") /\ UNCHANGED screen
  <2>1. y < H
    BY <1>1, <1>2, <1>5, HeightIs DEF Below
  <2>2. x < W
    BY <1>3, <1>5 DEF Finish
  <2> QED BY <1>1, <1>2, <1>5, <2>1, <2>2, FinishStep
<1>6. CASE /\ pc = "scroll" /\ register < W * H
           /\ screen' = Fill(screen, register) /\ register' = register + 1
           /\ UNCHANGED <<session, pc, character, prints, begun, disturbed>>
  <2>1. PICK i \in Cells : i = register
    <3>1. register \in Nat /\ register < LastRow + W
      BY <1>6, LastRowIs, RegisterIs
    <3> QED BY <3>1, CellsAre
  <2>2. i \in Nat /\ i < LastRow + W /\ LastRow + W \in Nat
    BY CellsFit, LastRowIs, WidthIs
  <2>3. screen' = Fill(screen, i) /\ register' = i + 1
    BY <1>6, <2>1
  <2>4. screen' \in Screens /\ screen'.x = x /\ screen'.y = y
    BY <1>1, <1>2, <2>3, FillFacts
  <2>5. i + 1 \in Nat /\ i + 1 <= LastRow + W /\ i + 1 <= LastRow + W + 255
    BY <2>2
  <2>6. Goto("scroll", "scroll")
    BY <1>6 DEF Goto
  <2> QED BY <1>2, <1>3, <1>6, <2>3, <2>4, <2>5, <2>6, GoesOn
<1>7. CASE register = W * H /\ Finish("scroll") /\ screen' = ToBottom(screen)
  <2>1. screen' = [screen EXCEPT !.y = H - 1] /\ H - 1 \in Octets /\ pc = "scroll"
    BY <1>7, Bounds DEF ToBottom, Finish
  <2>2. screen' \in Screens /\ screen'.x = x /\ screen'.y = H - 1
    BY <1>1, <1>2, <2>1 DEF Screens
  <2>3. H - 1 < H
    BY HeightIs
  <2> QED BY <1>3, <1>7, <2>1, <2>2, <2>3, FinishStep
<1> QED BY <1>4, <1>5, <1>6, <1>7 DEF Scroll

LEMMA TerminalMain ==
  ASSUME TerminalInv, Main
  PROVE  TerminalInv'
BY BeginStep, SwitchStep, NewlineStep, MoveCursorStep, WriteCellStep, WrapLineStep,
   ScrollStep DEF Main

-----------------------------------------------------------------------------
(* The bytes of the mouse.                                                 *)

MouseBytes == [part : 0 .. 3, value : Octets]

(* A byte of part b may come after one of part a.                          *)
Follows(a, b) == IF a < 2 THEN b = a + 1 ELSE b \in {0, Noise}

(* Packets, each whole but the first, which may have lost its beginning,   *)
(* and noise between them.                                                 *)
Packets(q) ==
  /\ \A i \in 1 .. (Len(q) - 1) : Follows(q[i].part, q[i + 1].part)
  /\ q # <<>> => q[Len(q)].part \in {2, Noise}

LEMMA AckIs == Ack \in MouseBytes /\ None \in MouseBytes
BY DEF Ack, Answer, None, Noise, MouseBytes, Octets

LEMMA PacketsNone == Packets(<<>>)
BY DEF Packets

LEMMA PacketsTail ==
  ASSUME NEW q \in Seq(MouseBytes), q # <<>>, Packets(q)
  PROVE  /\ Head(q) \in MouseBytes /\ Tail(q) \in Seq(MouseBytes) /\ Packets(Tail(q))
         /\ IF Tail(q) = <<>> THEN Head(q).part \in {2, Noise}
                              ELSE Follows(Head(q).part, Head(Tail(q)).part)
<1> DEFINE r == Tail(q)
<1>1. /\ Head(q) = q[1] /\ q[1] \in MouseBytes /\ r \in Seq(MouseBytes)
      /\ Len(r) = Len(q) - 1 /\ \A i \in 1 .. Len(r) : r[i] = q[i + 1]
  BY HeadTailProperties
<1>2. Len(q) \in Nat /\ Len(q) >= 1 /\ Len(r) \in Nat
  BY <1>1, LenProperties
<1>3. r = <<>> <=> Len(r) = 0
  BY <1>1, EmptySeq
<1> HIDE DEF r
<1>4. \A i \in 1 .. (Len(r) - 1) : Follows(r[i].part, r[i + 1].part)
  <2> SUFFICES ASSUME NEW i \in 1 .. (Len(r) - 1) PROVE Follows(r[i].part, r[i + 1].part)
    OBVIOUS
  <2>1. r[i] = q[i + 1] /\ r[i + 1] = q[i + 1 + 1] /\ i + 1 \in 1 .. (Len(q) - 1)
    BY <1>1, <1>2
  <2> QED BY <2>1 DEF Packets
<1>5. r # <<>> => r[Len(r)].part \in {2, Noise}
  <2> SUFFICES ASSUME r # <<>> PROVE r[Len(r)].part \in {2, Noise}
    OBVIOUS
  <2>1. r[Len(r)] = q[Len(q)]
    BY <1>1, <1>2, <1>3
  <2> QED BY <2>1 DEF Packets
<1>6. CASE r = <<>>
  <2>1. Len(q) = 1
    BY <1>1, <1>2, <1>3, <1>6
  <2> QED BY <1>1, <1>4, <1>5, <1>6, <2>1 DEF Packets, r
<1>7. CASE r # <<>>
  <2>1. Len(r) >= 1 /\ Head(r) = r[1]
    BY <1>1, <1>2, <1>3, <1>7, HeadTailProperties
  <2>2. r[1] = q[1 + 1] /\ 1 \in 1 .. (Len(q) - 1)
    BY <1>1, <1>2, <2>1
  <2>3. Follows(q[1].part, r[1].part)
    BY <2>2 DEF Packets
  <2> QED BY <1>1, <1>4, <1>5, <1>7, <2>1, <2>3 DEF Packets, r
<1> QED BY <1>6, <1>7

LEMMA PacketsAppend ==
  ASSUME NEW q \in Seq(MouseBytes), NEW b \in MouseBytes, 
         \A i \in 1 .. (Len(q) - 1) : Follows(q[i].part, q[i + 1].part),
         q # <<>> => Follows(q[Len(q)].part, b.part)
  PROVE  /\ Append(q, b) \in Seq(MouseBytes) /\ Append(q, b) # <<>>
         /\ Len(Append(q, b)) = Len(q) + 1 /\ Append(q, b)[Len(q) + 1] = b
         /\ Head(Append(q, b)) = IF q = <<>> THEN b ELSE Head(q)
         /\ \A i \in 1 .. (Len(Append(q, b)) - 1) :
              Follows(Append(q, b)[i].part, Append(q, b)[i + 1].part)
<1> DEFINE r == Append(q, b)
<1>1. /\ r \in Seq(MouseBytes) /\ r # <<>> /\ Len(r) = Len(q) + 1 /\ r[Len(q) + 1] = b
      /\ \A i \in 1 .. Len(q) : r[i] = q[i]
  BY AppendProperties
<1>2. Len(q) \in Nat /\ (q = <<>> <=> Len(q) = 0)
  BY LenProperties, EmptySeq
<1> HIDE DEF r
<1>3. Head(r) = IF q = <<>> THEN b ELSE Head(q)
  <2>1. Head(r) = r[1]
    BY <1>1, HeadTailProperties
  <2>2. q # <<>> => Head(q) = q[1]
    BY HeadTailProperties
  <2>3. q # <<>> => r[1] = q[1]
    BY <1>1, <1>2
  <2>4. q = <<>> => r[1] = b
    BY <1>1, <1>2
  <2> QED BY <2>1, <2>2, <2>3, <2>4
<1>4. ASSUME NEW i \in 1 .. (Len(r) - 1) PROVE Follows(r[i].part, r[i + 1].part)
  <2>1. CASE i = Len(q)
    <3>1. q # <<>> /\ r[i] = q[Len(q)] /\ r[i + 1] = b
      BY <1>1, <1>2, <1>4, <2>1
    <3> QED BY <3>1
  <2>2. CASE i # Len(q)
    <3>1. i \in 1 .. (Len(q) - 1) /\ r[i] = q[i] /\ r[i + 1] = q[i + 1]
      BY <1>1, <1>2, <1>4, <2>2
    <3> QED BY <3>1
  <2> QED BY <2>1, <2>2
<1> QED BY <1>1, <1>3, <1>4 DEF r

LEMMA PacketsAck ==
  ASSUME NEW q \in Seq(MouseBytes), Packets(q)
  PROVE  /\ Append(q, Ack) \in Seq(MouseBytes) /\ Packets(Append(q, Ack))
         /\ Append(q, Ack) # <<>>
         /\ Head(Append(q, Ack)) = IF q = <<>> THEN Ack ELSE Head(q)
<1>1. Ack.part = Noise /\ Ack.part \in {2, Noise}
  BY DEF Ack, Answer
<1>2. q # <<>> => Follows(q[Len(q)].part, Ack.part)
  BY <1>1 DEF Packets, Follows, Noise
<1>3. \A i \in 1 .. (Len(q) - 1) : Follows(q[i].part, q[i + 1].part)
  BY DEF Packets
<1> QED BY <1>1, <1>2, <1>3, AckIs, PacketsAppend DEF Packets

LEMMA JoinTwo ==
  ASSUME NEW x \in MouseBytes, NEW y \in MouseBytes
  PROVE  <<x>> \o <<y>> = <<x, y>>
<1>1. /\ <<x>> \in Seq(MouseBytes) /\ <<y>> \in Seq(MouseBytes)
      /\ <<x, y>> \in Seq(MouseBytes) /\ Len(<<x>>) = 1 /\ Len(<<y>>) = 1
      /\ Len(<<x, y>>) = 2
  OBVIOUS
<1> DEFINE p == <<x>> \o <<y>>
<1>2. /\ p \in Seq(MouseBytes) /\ Len(p) = 2
      /\ \A i \in 1 .. 2 : p[i] = IF i <= 1 THEN <<x>>[i] ELSE <<y>>[i - 1]
  BY <1>1, ConcatProperties
<1> HIDE DEF p
<1>3. \A i \in 1 .. Len(p) : p[i] = <<x, y>>[i]
  BY <1>2
<1>4. p = <<x, y>>
  BY <1>1, <1>2, <1>3, SeqEqual
<1> QED BY <1>4 DEF p

LEMMA JoinThree ==
  ASSUME NEW x \in MouseBytes, NEW y \in MouseBytes, NEW z \in MouseBytes
  PROVE  <<x>> \o <<y, z>> = <<x, y, z>>
<1>1. /\ <<x>> \in Seq(MouseBytes) /\ <<y, z>> \in Seq(MouseBytes)
      /\ <<x, y, z>> \in Seq(MouseBytes) /\ Len(<<x>>) = 1 /\ Len(<<y, z>>) = 2
      /\ Len(<<x, y, z>>) = 3
  OBVIOUS
<1> DEFINE p == <<x>> \o <<y, z>>
<1>2. /\ p \in Seq(MouseBytes) /\ Len(p) = 3
      /\ \A i \in 1 .. 3 : p[i] = IF i <= 1 THEN <<x>>[i] ELSE <<y, z>>[i - 1]
  BY <1>1, ConcatProperties
<1> HIDE DEF p
<1>3. \A i \in 1 .. Len(p) : p[i] = <<x, y, z>>[i]
  BY <1>2
<1>4. p = <<x, y, z>>
  BY <1>1, <1>2, <1>3, SeqEqual
<1> QED BY <1>4 DEF p

Report(a, b, c) ==
  <<[part |-> 0, value |-> a], [part |-> 1, value |-> b], [part |-> 2, value |-> c]>>

LEMMA PacketsMove ==
  ASSUME NEW q \in Seq(MouseBytes), Packets(q),
         NEW a \in Octets, NEW b \in Octets, NEW c \in Octets,
         NEW r, r = q \o Report(a, b, c)
  PROVE  /\ r \in Seq(MouseBytes) /\ Packets(r) /\ r # <<>>
         /\ q = <<>> => Head(r).part \in {0}
         /\ q # <<>> => Head(r).part = Head(q).part
<1> DEFINE x == [part |-> 0, value |-> a]
           y == [part |-> 1, value |-> b]
           z == [part |-> 2, value |-> c]
           s == Append(q, x)
           t == Append(s, y)
           u == Append(t, z)
<1>1. /\ x \in MouseBytes /\ y \in MouseBytes /\ z \in MouseBytes
      /\ x.part = 0 /\ y.part = 1 /\ z.part = 2
  BY DEF MouseBytes
<1>2. r = q \o <<x, y, z>>
  BY DEF Report
<1> HIDE DEF x, y, z
<1>3. /\ \A i \in 1 .. (Len(q) - 1) : Follows(q[i].part, q[i + 1].part)
      /\ q # <<>> => Follows(q[Len(q)].part, x.part)
  BY <1>1 DEF Packets, Follows, Noise
<1>4. /\ s \in Seq(MouseBytes) /\ s # <<>> /\ Len(s) = Len(q) + 1 /\ s[Len(q) + 1] = x
      /\ Head(s) = IF q = <<>> THEN x ELSE Head(q)
      /\ \A i \in 1 .. (Len(s) - 1) : Follows(s[i].part, s[i + 1].part)
  BY <1>1, <1>3, PacketsAppend
<1>5. r = s \o <<y, z>>
  <2>1. s = q \o <<x>>
    BY <1>1, AppendIsConcat
  <2>2. <<x>> \o <<y, z>> = <<x, y, z>>
    BY <1>1, JoinThree
  <2>3. (q \o <<x>>) \o <<y, z>> = q \o (<<x>> \o <<y, z>>)
    BY <1>1, ConcatAssociative
  <2> QED BY <1>2, <2>1, <2>2, <2>3
<1> HIDE DEF s
<1>6. Follows(s[Len(s)].part, y.part)
  BY <1>1, <1>4 DEF Follows
<1>7. /\ t \in Seq(MouseBytes) /\ t # <<>> /\ Len(t) = Len(s) + 1 /\ t[Len(s) + 1] = y
      /\ Head(t) = Head(s)
      /\ \A i \in 1 .. (Len(t) - 1) : Follows(t[i].part, t[i + 1].part)
  BY <1>1, <1>4, <1>6, PacketsAppend
<1>8. r = t \o <<z>>
  <2>1. t = s \o <<y>>
    BY <1>1, <1>4, AppendIsConcat
  <2>2. <<y>> \o <<z>> = <<y, z>>
    BY <1>1, JoinTwo
  <2>3. (s \o <<y>>) \o <<z>> = s \o (<<y>> \o <<z>>)
    BY <1>1, <1>4, ConcatAssociative
  <2> QED BY <1>5, <2>1, <2>2, <2>3
<1> HIDE DEF t
<1>9. Follows(t[Len(t)].part, z.part)
  BY <1>1, <1>7 DEF Follows
<1>10. /\ u \in Seq(MouseBytes) /\ u # <<>> /\ Len(u) = Len(t) + 1 /\ u[Len(t) + 1] = z
       /\ Head(u) = Head(t)
       /\ \A i \in 1 .. (Len(u) - 1) : Follows(u[i].part, u[i + 1].part)
  BY <1>1, <1>7, <1>9, PacketsAppend
<1>11. r = u
  BY <1>1, <1>7, <1>8, AppendIsConcat
<1> HIDE DEF u
<1>12. Packets(u)
  BY <1>1, <1>10 DEF Packets
<1> QED BY <1>1, <1>4, <1>7, <1>10, <1>11, <1>12

LEMMA ReadFacts ==
  ASSUME NEW q \in Seq(MouseBytes), Packets(q), NEW r \in Read(q)
  PROVE  r \in Seq(MouseBytes) /\ Packets(r)
<1>1. r = q \/ (q # <<>> /\ r = Tail(q))
  BY DEF Read
<1> QED BY <1>1, PacketsTail

(* Whatever initialize() finds there and reads, packets are under way.     *)
LEMMA InitializeFacts ==
  ASSUME NEW q \in Seq(MouseBytes), Packets(q), InitializeMouse(q)
  PROVE  sent' \in Seq(MouseBytes) /\ Packets(sent')
<1>1. PICK rest \in Read(q) : sent' \in Read(Append(rest, Ack))
  BY DEF InitializeMouse
<1>2. rest \in Seq(MouseBytes) /\ Packets(rest)
  BY ReadFacts
<1>3. Append(rest, Ack) \in Seq(MouseBytes) /\ Packets(Append(rest, Ack))
  BY <1>2, PacketsAck
<1> QED BY <1>1, <1>3, ReadFacts

(* The parts that come next.                                               *)
LEMMA NextPartIs ==
  ASSUME NEW q \in Seq(MouseBytes)
  PROVE  /\ NextPart(q) \in Part
         /\ q = <<>> \/ Head(q).part = Noise => NextPart(q) = 0
         /\ q # <<>> /\ Head(q).part # Noise => NextPart(q) = Head(q).part
<1>1. CASE q = <<>>
  BY <1>1 DEF NextPart, Part
<1>2. CASE q # <<>>
  <2>1. Head(q) \in MouseBytes
    BY <1>2, HeadTailProperties
  <2>2. PICK p \in 0 .. 3 : p = Head(q).part
    BY <2>1 DEF MouseBytes
  <2>3. NextPart(q) = p % 3
    BY <1>2, <2>2 DEF NextPart, Noise
  <2>4. p % 3 \in 0 .. 2 /\ (p = 3 => p % 3 = 0) /\ (p # 3 => p % 3 = p)
    OBVIOUS
  <2> QED BY <1>2, <2>2, <2>3, <2>4 DEF Part, Noise
<1> QED BY <1>1, <1>2

LEMMA NextPartTail ==
  ASSUME NEW q \in Seq(MouseBytes), q # <<>>, Packets(q)
  PROVE  NextPart(Tail(q)) = IF Head(q).part = Noise THEN 0 ELSE Advance(Head(q).part)
<1>1. /\ Head(q) \in MouseBytes /\ Tail(q) \in Seq(MouseBytes)
      /\ IF Tail(q) = <<>> THEN Head(q).part \in {2, Noise}
                           ELSE Follows(Head(q).part, Head(Tail(q)).part)
  BY PacketsTail
<1>2. PICK p \in 0 .. 3 : p = Head(q).part
  BY <1>1 DEF MouseBytes
<1>3. /\ Tail(q) = <<>> => NextPart(Tail(q)) = 0
      /\ Tail(q) # <<>> /\ Head(Tail(q)).part = Noise => NextPart(Tail(q)) = 0
      /\ Tail(q) # <<>> /\ Head(Tail(q)).part # Noise
           => NextPart(Tail(q)) = Head(Tail(q)).part
  BY <1>1, NextPartIs
<1>4. Advance(p) = IF p = 2 THEN 0 ELSE IF p < 2 THEN p + 1 ELSE 1
  BY DEF Advance
<1>5. CASE Tail(q) = <<>>
  BY <1>1, <1>2, <1>3, <1>4, <1>5 DEF Noise
<1>6. CASE Tail(q) # <<>>
  BY <1>1, <1>2, <1>3, <1>4, <1>6 DEF Follows, Noise
<1> QED BY <1>5, <1>6

LEMMA NextPartAck ==
  ASSUME NEW q \in Seq(MouseBytes), Packets(q)
  PROVE  NextPart(Append(q, Ack)) = NextPart(q)
<1>1. /\ Append(q, Ack) # <<>>
      /\ Head(Append(q, Ack)) = IF q = <<>> THEN Ack ELSE Head(q)
  BY PacketsAck
<1>2. Ack.part % Noise = 0
  BY DEF Ack, Answer, Noise
<1> QED BY <1>1, <1>2 DEF NextPart

(* What is under way once the mouse has taken the command to reset: a byte *)
(* it had sent, and its answers, none of them part of a packet.            *)
NoiseBytes == {b \in MouseBytes : b.part = Noise}

LEMMA NoiseFacts ==
  ASSUME NEW q \in Seq(NoiseBytes)
  PROVE  q \in Seq(MouseBytes) /\ Packets(q) /\ NextPart(q) = 0
<1>1. q \in Seq(MouseBytes) /\ \A i \in 1 .. Len(q) : q[i].part = Noise
  BY ElementOfSeq DEF NoiseBytes
<1>2. Len(q) \in Nat /\ (q # <<>> => Len(q) >= 1)
  BY LenProperties, EmptySeq
<1>3. \A i \in 1 .. (Len(q) - 1) : i \in 1 .. Len(q) /\ i + 1 \in 1 .. Len(q)
  BY <1>2
<1>4. q # <<>> => Len(q) \in 1 .. Len(q) /\ 1 \in 1 .. Len(q)
  BY <1>2
<1>5. Follows(Noise, Noise)
  BY DEF Follows, Noise
<1>6. Packets(q)
  BY <1>1, <1>3, <1>4, <1>5 DEF Packets
<1>7. q # <<>> => Head(q) = q[1]
  BY <1>1, HeadTailProperties
<1>8. q # <<>> => Head(q).part = Noise
  BY <1>1, <1>4, <1>7
<1> QED BY <1>1, <1>6, <1>8, NextPartIs

LEMMA ResetFacts ==
  ASSUME NEW q \in Seq(MouseBytes),
         NEW r, r = [i \in 1 .. Min({1, Len(q)}) |-> Answer(q[i].value)]
                    \o <<Ack>> \o Outcome
  PROVE  r \in Seq(NoiseBytes)
<1> DEFINE n == Min({1, Len(q)})
           p == [i \in 1 .. n |-> Answer(q[i].value)]
<1>1. Len(q) \in Nat
  BY LenProperties
<1>2. n \in Nat /\ n <= Len(q)
  <2>1. \A m \in {1, Len(q)} : (\A k \in {1, Len(q)} : m =< k)
                                 => m = IF Len(q) = 0 THEN 0 ELSE 1
    BY <1>1
  <2>2. \E m \in {1, Len(q)} : \A k \in {1, Len(q)} : m =< k
    BY <1>1
  <2>3. n = IF Len(q) = 0 THEN 0 ELSE 1
    BY <2>1, <2>2 DEF Min
  <2> QED BY <1>1, <2>3
<1>3. r = p \o <<Ack>> \o Outcome
  OBVIOUS
<1> HIDE DEF n
<1>4. \A v \in Octets : Answer(v) \in NoiseBytes
  BY DEF Answer, NoiseBytes, MouseBytes, Noise
<1>5. p \in Seq(NoiseBytes)
  <2>1. \A i \in 1 .. n : q[i] \in MouseBytes
    BY <1>1, <1>2, ElementOfSeq
  <2>2. \A i \in 1 .. n : Answer(q[i].value) \in NoiseBytes
    BY <1>4, <2>1 DEF MouseBytes
  <2> QED BY <1>2, <2>2
<1> HIDE DEF p
<1>6. /\ Ack \in NoiseBytes /\ Answer(170) \in NoiseBytes /\ Answer(0) \in NoiseBytes
  BY <1>4 DEF Ack, Octets
<1>7. <<Ack>> \in Seq(NoiseBytes) /\ Outcome \in Seq(NoiseBytes)
  BY <1>6 DEF Outcome
<1>8. p \o <<Ack>> \in Seq(NoiseBytes)
  BY <1>5, <1>7, ConcatProperties
<1> QED BY <1>3, <1>7, <1>8, ConcatProperties

-----------------------------------------------------------------------------
(* The mouse.                                                              *)

MouseTypes ==
  /\ session \in Sessions
  /\ mouse \in {"absent", "built", "initialized", "active"}
  /\ resetting \in {"no", "command", "load", "store", "status", "enable", "acknowledge"}
  /\ cell \in [mark : BOOLEAN, inverted : BOOLEAN]
  /\ px \in Column /\ py \in Int /\ -128 <= py /\ py <= 127
  /\ offset \in Part /\ buffer \in [Part -> MouseBytes]
  /\ sent \in Seq(MouseBytes)
  /\ moves \in Nat /\ moves <= session.moves
  /\ starts \in Nat /\ slip \in Part

(* The driver expects the byte that comes next, but for the slip.          *)
Lined == offset = (NextPart(sent) + slip) % 3

MouseInv ==
  /\ MouseTypes /\ Packets(sent) /\ Lined
  /\ mouse # "active" => offset = 0 /\ resetting = "no"

LEMMA Int8Is ==
  ASSUME NEW n \in Int
  PROVE  Int8(n) \in Int /\ -128 <= Int8(n) /\ Int8(n) <= 127
BY DEF Int8

LEMMA Int8Same ==
  ASSUME NEW n \in Int, -128 <= n, n <= 127
  PROVE  Int8(n) = n
BY DEF Int8

LEMMA ClampIs ==
  ASSUME NEW n \in Int, NEW most \in Nat, most >= 1
  PROVE  Clamp(n, most) \in Nat /\ Clamp(n, most) < most
BY DEF Clamp

LEMMA StartIs ==
  /\ StartX \in Column /\ StartY \in Row
  /\ StartX \in Int /\ StartY \in Int /\ -128 <= StartY /\ StartY <= 127
<1>1. StartX \in Nat /\ StartX < W
  BY WidthIs DEF StartX
<1>2. StartY \in Nat /\ StartY < H /\ StartY <= 127
  BY HeightIs DEF StartY
<1> QED BY <1>1, <1>2, WidthIs, HeightIs DEF Column, Row

LEMMA MouseInit == InitTerminal /\ InitMouse => MouseInv
<1> SUFFICES ASSUME InitTerminal, InitMouse PROVE MouseInv
  OBVIOUS
<1>1. session.moves \in Nat
  BY MouseAssumption DEF InitTerminal
<1>2. sent = <<>> /\ sent \in Seq(MouseBytes)
  BY EmptySeq DEF InitMouse
<1>3. buffer \in [Part -> MouseBytes]
  BY AckIs DEF InitMouse
<1>4. MouseTypes
  BY <1>1, <1>2, <1>3, StartIs DEF InitTerminal, InitMouse, MouseTypes, Part
<1>5. Lined
  BY <1>2 DEF InitMouse, Lined, NextPart
<1> QED BY <1>2, <1>4, <1>5, PacketsNone DEF MouseInv, InitMouse

LEMMA MouseSame ==
  ASSUME MouseInv, UNCHANGED <<session, mvars>>
  PROVE  MouseInv'
BY DEF MouseInv, MouseTypes, Lined, NextPart, mvars, Packets, Follows

(* What becomes of the slip.                                               *)
LEMMA SlipIs ==
  ASSUME NEW p \in Part, NEW s \in Part
  PROVE  /\ Without(0, p) \in Part /\ (p + Without(0, p)) % 3 = 0
         /\ Without(s, 1) \in Part
         /\ (Advance(p) + Without(s, 1)) % 3 = (p + s) % 3
         /\ (Advance(p) + s) % 3 = Advance((p + s) % 3)
         /\ (s + 1) % 3 \in Part /\ (0 + ((s + 1) % 3)) % 3 = Advance((0 + s) % 3)
         /\ (s + p) % 3 \in Part /\ (0 + ((s + p) % 3)) % 3 = (p + s) % 3
<1>1. p \in {0, 1, 2} /\ s \in {0, 1, 2}
  BY DEF Part
<1> QED BY <1>1 DEF Without, Advance, Part

(* However offset was set to 0, the slip is such that it is expected.      *)
LEMMA LinedAfresh ==
  ASSUME sent' \in Seq(MouseBytes), offset' = 0, slip' = Without(0, NextPart(sent'))
  PROVE  Lined' /\ slip' \in Part
<1>1. PICK p \in Part : p = NextPart(sent')
  BY NextPartIs
<1>2. Without(0, p) \in Part /\ (p + Without(0, p)) % 3 = 0
  BY SlipIs
<1>3. NextPart(sent)' = p
  BY <1>1 DEF NextPart
<1> QED BY <1>1, <1>2, <1>3 DEF Lined

LEMMA SetUpStep ==
  ASSUME MouseInv, NEW from, NEW to \in {"built", "initialized", "active"}, SetUp(from, to),
         mouse # "active", sent' \in Seq(MouseBytes), Packets(sent)', offset' = 0,
         starts' \in Nat
  PROVE  MouseInv'
<1>1. /\ UNCHANGED <<session, resetting, cell, px, py, buffer, moves>> /\ mouse' = to
      /\ slip' = Without(0, NextPart(sent'))
  BY DEF SetUp
<1>2. Lined' /\ slip' \in Part
  BY <1>1, LinedAfresh
<1>3. MouseTypes'
  BY <1>1, <1>2 DEF MouseInv, MouseTypes, Part
<1>4. resetting' = "no"
  BY <1>1 DEF MouseInv
<1> QED BY <1>2, <1>3, <1>4 DEF MouseInv

LEMMA MouseLifecycle ==
  ASSUME MouseInv, ConstructMouse \/ InitializeAgain \/ ActivateMouse
  PROVE  MouseInv'
<1>1. /\ sent \in Seq(MouseBytes) /\ Packets(sent) /\ starts \in Nat /\ starts + 1 \in Nat
      /\ mouse # "active" => offset = 0
  BY DEF MouseInv, MouseTypes
<1>2. CASE ConstructMouse
  <2>1. <<>> \in Seq(MouseBytes) /\ Packets(<<>>)
    BY PacketsNone
  <2>2. sent' \in Seq(MouseBytes) /\ Packets(sent')
    BY <1>2, <2>1, InitializeFacts DEF ConstructMouse
  <2>3. Packets(sent)'
    BY <2>2 DEF Packets, Follows
  <2>4. SetUp("absent", "built") /\ offset' = 0 /\ starts' = starts + 1
    BY <1>2 DEF ConstructMouse, Restart, InitializeMouse
  <2>5. mouse # "active"
    BY <2>4 DEF SetUp
  <2> QED BY <1>1, <2>2, <2>3, <2>4, <2>5, SetUpStep
<1>3. CASE InitializeAgain
  <2>1. sent' \in Seq(MouseBytes) /\ Packets(sent')
    BY <1>1, <1>3, InitializeFacts DEF InitializeAgain
  <2>2. Packets(sent)'
    BY <2>1 DEF Packets, Follows
  <2>3. SetUp("built", "initialized") /\ offset' = offset /\ starts' = starts + 1
    BY <1>3 DEF InitializeAgain, InitializeMouse
  <2>4. mouse # "active" /\ offset' = 0
    BY <1>1, <2>3 DEF SetUp
  <2> QED BY <1>1, <2>1, <2>2, <2>3, <2>4, SetUpStep
<1>4. CASE ActivateMouse
  <2>1. sent' \in Seq(MouseBytes) /\ Packets(sent')
    BY <1>1, <1>4, PacketsAck DEF ActivateMouse
  <2>2. Packets(sent)'
    BY <2>1 DEF Packets, Follows
  <2>3. SetUp("initialized", "active") /\ offset' = 0 /\ starts' = starts
    BY <1>4 DEF ActivateMouse, Restart
  <2>4. mouse # "active"
    BY <2>3 DEF SetUp
  <2> QED BY <1>1, <2>1, <2>2, <2>3, <2>4, SetUpStep
<1> QED BY <1>2, <1>3, <1>4

(* A byte that is gone and was not taken for data.                         *)
LEMMA MissedKeeps ==
  ASSUME MouseInv, sent # <<>>, sent' = Tail(sent), slip' = Missed, offset' = offset
  PROVE  sent' \in Seq(MouseBytes) /\ Packets(sent)' /\ Lined' /\ slip' \in Part
<1>1. sent \in Seq(MouseBytes) /\ Packets(sent) /\ slip \in Part
      /\ offset = (NextPart(sent) + slip) % 3
  BY DEF MouseInv, MouseTypes, Lined
<1>2. sent' \in Seq(MouseBytes) /\ Packets(sent') /\ Head(sent) \in MouseBytes
  BY <1>1, PacketsTail
<1>3. Packets(sent)' /\ NextPart(sent)' = NextPart(sent')
  BY <1>2 DEF Packets, Follows, NextPart
<1>4. NextPart(sent') = IF Head(sent).part = Noise THEN 0 ELSE Advance(Head(sent).part)
  BY <1>1, NextPartTail
<1>5. CASE Head(sent).part = Noise
  <2>1. slip' = slip /\ NextPart(sent) = 0 /\ NextPart(sent') = 0
    BY <1>1, <1>4, <1>5, NextPartIs DEF Missed
  <2> QED BY <1>1, <1>2, <1>3, <2>1 DEF Lined
<1>6. CASE Head(sent).part # Noise
  <2>1. PICK p \in Part : p = Head(sent).part /\ NextPart(sent) = p
    BY <1>1, <1>6, NextPartIs
  <2>2. slip' = Without(slip, 1) /\ NextPart(sent') = Advance(p)
    BY <1>4, <1>6, <2>1 DEF Missed
  <2>3. Without(slip, 1) \in Part /\ (Advance(p) + Without(slip, 1)) % 3 = (p + slip) % 3
    BY <1>1, SlipIs
  <2> QED BY <1>1, <1>2, <1>3, <2>1, <2>2, <2>3 DEF Lined
<1> QED BY <1>5, <1>6

(* Whatever step of reset() is taken.                                      *)
LEMMA ResetStep ==
  ASSUME MouseInv, NEW from,
         NEW to \in {"no", "command", "load", "store", "status", "enable", "acknowledge"},
         Reset(from, to), mouse = "active", cell' \in [mark : BOOLEAN, inverted : BOOLEAN],
         offset' \in Part, sent' \in Seq(MouseBytes), Packets(sent)', Lined', slip' \in Part,
         moves' \in Nat, moves' <= session.moves, starts' \in Nat
  PROVE  MouseInv'
<1>1. UNCHANGED <<session, mouse, px, py, buffer>> /\ resetting' = to
  BY DEF Reset
<1>2. MouseTypes'
  BY <1>1 DEF MouseInv, MouseTypes
<1> QED BY <1>1, <1>2 DEF MouseInv

LEMMA MouseReset ==
  ASSUME MouseInv, ResetMouse
  PROVE  MouseInv'
<1>1. /\ sent \in Seq(MouseBytes) /\ Packets(sent) /\ offset \in Part /\ slip \in Part
      /\ cell \in [mark : BOOLEAN, inverted : BOOLEAN]
      /\ moves \in Nat /\ moves <= session.moves /\ session.moves \in Nat
      /\ starts \in Nat /\ starts + 1 \in Nat
      /\ resetting # "no" => mouse = "active"
      /\ offset = (NextPart(sent) + slip) % 3
  BY MouseAssumption DEF MouseInv, MouseTypes, Lined
<1>2. UNCHANGED <<sent, offset, slip>> => /\ sent' \in Seq(MouseBytes) /\ Packets(sent)'
                                          /\ Lined' /\ offset' \in Part /\ slip' \in Part
  BY <1>1 DEF Packets, Follows, Lined, NextPart
<1>3. CASE BeginReset
  <2>1. /\ Reset("no", "command") /\ mouse = "active" /\ offset' = 0
        /\ moves < session.moves /\ moves' = moves + 1 /\ UNCHANGED <<cell, sent, starts>>
        /\ slip' = Without(0, NextPart(sent'))
    BY <1>3 DEF BeginReset, Restart
  <2>2. Packets(sent)' /\ sent' \in Seq(MouseBytes)
    BY <1>1, <2>1 DEF Packets, Follows
  <2>3. Lined' /\ slip' \in Part
    BY <2>1, <2>2, LinedAfresh
  <2>4. offset' \in Part /\ moves' \in Nat /\ moves' <= session.moves
    BY <1>1, <2>1 DEF Part
  <2> QED BY <1>1, <2>1, <2>2, <2>3, <2>4, ResetStep
<1>4. CASE CommandReset
  <2>1. /\ Reset("command", "load") /\ UNCHANGED <<cell, offset, moves, starts>>
        /\ slip' = (slip + NextPart(sent)) % 3
    BY <1>4 DEF CommandReset
  <2>2. mouse = "active"
    BY <1>1, <2>1 DEF Reset
  <2>3. sent' \in Seq(NoiseBytes)
    BY <1>1, <1>4, ResetFacts DEF CommandReset
  <2>4. sent' \in Seq(MouseBytes) /\ Packets(sent') /\ NextPart(sent') = 0
    BY <2>3, NoiseFacts
  <2>5. Packets(sent)' /\ NextPart(sent)' = 0
    BY <2>4 DEF Packets, Follows, NextPart
  <2>6. slip' \in Part /\ offset' = (0 + slip') % 3
    <3>1. PICK p \in Part : p = NextPart(sent)
      BY <1>1, NextPartIs
    <3>2. (slip + p) % 3 \in Part /\ (0 + ((slip + p) % 3)) % 3 = (p + slip) % 3
      BY <1>1, SlipIs
    <3> QED BY <1>1, <2>1, <3>1, <3>2
  <2>7. Lined'
    BY <2>5, <2>6 DEF Lined
  <2> QED BY <1>1, <2>1, <2>2, <2>4, <2>5, <2>6, <2>7, ResetStep
<1>5. CASE LoadCell
  <2>1. Reset("load", "store") /\ UNCHANGED <<sent, offset, slip, moves, starts>>
        /\ cell' \in [mark : BOOLEAN, inverted : BOOLEAN]
    BY <1>5 DEF LoadCell
  <2>2. mouse = "active"
    BY <1>1, <2>1 DEF Reset
  <2> QED BY <1>1, <1>2, <2>1, <2>2, ResetStep
<1>6. CASE StoreCell
  <2>1. Reset("store", "status") /\ UNCHANGED <<cell, sent, offset, slip, moves>>
        /\ starts' \in {starts, starts + 1}
    BY <1>6 DEF StoreCell
  <2>2. mouse = "active" /\ starts' \in Nat
    BY <1>1, <2>1 DEF Reset
  <2> QED BY <1>1, <1>2, <2>1, <2>2, ResetStep
<1>7. ASSUME NEW from, NEW to \in {"no", "enable"}, from # "no", Reset(from, to), ReadPort
      PROVE  MouseInv'
  <2>1. UNCHANGED <<cell, offset, moves, starts>>
    BY <1>7 DEF ReadPort
  <2>2. mouse = "active"
    BY <1>1, <1>7 DEF Reset
  <2>3. sent' \in Seq(MouseBytes) /\ Packets(sent)' /\ Lined' /\ slip' \in Part
    <3>1. CASE UNCHANGED <<sent, slip>>
      BY <1>2, <2>1, <3>1
    <3>2. CASE sent # <<>> /\ sent' = Tail(sent) /\ slip' = Missed
      BY <2>1, <3>2, MissedKeeps
    <3> QED BY <1>7, <3>1, <3>2 DEF ReadPort
  <2> QED BY <1>1, <1>7, <2>1, <2>2, <2>3, ResetStep
<1>8. CASE ReadStatus
  BY <1>7, <1>8 DEF ReadStatus
<1>9. CASE Enable
  <2>1. Reset("enable", "acknowledge") /\ UNCHANGED <<cell, offset, moves, starts, slip>>
        /\ sent' = Append(sent, Ack)
    BY <1>9 DEF Enable
  <2>2. mouse = "active"
    BY <1>1, <2>1 DEF Reset
  <2>3. sent' \in Seq(MouseBytes) /\ Packets(sent')
    BY <1>1, <2>1, PacketsAck
  <2>4. Packets(sent)' /\ NextPart(sent)' = NextPart(sent)
    BY <1>1, <2>1, <2>3, NextPartAck DEF Packets, Follows, NextPart
  <2>5. Lined'
    BY <1>1, <2>1, <2>4 DEF Lined
  <2> QED BY <1>1, <2>1, <2>2, <2>3, <2>4, <2>5, ResetStep
<1>10. CASE ReadAck
  BY <1>7, <1>10 DEF ReadAck
<1> QED BY <1>3, <1>4, <1>5, <1>6, <1>8, <1>9, <1>10 DEF ResetMouse

LEMMA MovementValues ==
  ASSUME NEW d \in Movements
  PROVE  d \in Octets
BY MouseAssumption DEF Octets

LEMMA MouseMove ==
  ASSUME MouseInv, NEW dx \in Movements, NEW dy \in Movements,
         Move(dx, dy)
  PROVE  MouseInv'
<1>1. /\ sent \in Seq(MouseBytes) /\ Packets(sent)
      /\ moves \in Nat /\ moves < session.moves /\ moves' = moves + 1
      /\ session' = session /\ session.moves \in Nat
  BY MouseAssumption DEF MouseInv, MouseTypes, Move, tvars
<1>2. /\ sent' \in Seq(MouseBytes) /\ Packets(sent') /\ sent' # <<>>
      /\ sent = <<>> => Head(sent').part = 0
      /\ sent # <<>> => Head(sent').part = Head(sent).part
  <2>0. PICK m \in Octets : m = 8
    BY DEF Octets
  <2>1. PICK r : r = sent \o Report(m, dx, dy)
    OBVIOUS
  <2>2. dx \in Octets /\ dy \in Octets
    BY MovementValues
  <2>3. /\ r \in Seq(MouseBytes) /\ Packets(r) /\ r # <<>>
        /\ sent = <<>> => Head(r).part = 0
        /\ sent # <<>> => Head(r).part = Head(sent).part
    <3>1. PICK q \in Seq(MouseBytes) : q = sent /\ Packets(q)
      BY <1>1
    <3>2. r = q \o Report(m, dx, dy)
      BY <2>1, <3>1
    <3>3. r \in Seq(MouseBytes) /\ Packets(r) /\ r # <<>>
      BY <2>2, <3>1, <3>2, PacketsMove
    <3>4. q = <<>> => Head(r).part \in {0}
      BY <2>2, <3>1, <3>2, PacketsMove
    <3>5. q # <<>> => Head(r).part = Head(q).part
      BY <2>2, <3>1, <3>2, PacketsMove
    <3> QED BY <3>1, <3>3, <3>4, <3>5
  <2>4. sent' = r
    BY <2>0, <2>1 DEF Move, Report
  <2> QED BY <2>3, <2>4
<1>3. UNCHANGED <<mouse, resetting, cell, px, py, buffer, offset, starts, slip>>
  BY DEF Move
<1>4. MouseTypes'
  BY <1>1, <1>2, <1>3 DEF MouseInv, MouseTypes
<1>5. Lined'
  <2>1. NextPart(sent') = NextPart(sent)
    <3>1. CASE sent = <<>>
      <4>1. NextPart(sent) = 0
        BY <3>1 DEF NextPart
      <4>2. Head(sent').part = 0 /\ Head(sent').part # Noise
        BY <1>2, <3>1 DEF Noise
      <4> QED BY <1>2, <4>1, <4>2, NextPartIs
    <3>2. CASE sent # <<>>
      BY <1>2, <3>2 DEF NextPart
    <3> QED BY <3>1, <3>2
  <2> QED BY <1>3, <2>1 DEF MouseInv, Lined, NextPart
<1>6. Packets(sent)'
  BY <1>2 DEF Packets, Follows
<1> QED BY <1>3, <1>4, <1>5, <1>6 DEF MouseInv

LEMMA MouseLoses ==
  ASSUME MouseInv, LoseByte
  PROVE  MouseInv'
<1>1. UNCHANGED <<session, mouse, resetting, cell, px, py, buffer, offset, moves, starts>>
  BY DEF LoseByte, tvars
<1>2. sent' \in Seq(MouseBytes) /\ Packets(sent)' /\ Lined' /\ slip' \in Part
  BY <1>1, MissedKeeps DEF LoseByte
<1>3. MouseTypes'
  BY <1>1, <1>2 DEF MouseInv, MouseTypes
<1> QED BY <1>1, <1>2, <1>3 DEF MouseInv

LEMMA AdvanceIs ==
  ASSUME NEW p \in Part
  PROVE  /\ Advance(p) \in Part
         /\ p = 2 => Advance(p) = 0
         /\ p # 2 => Advance(p) = p + 1
BY DEF Part, Advance

(* What a packet does to the pointer.                                      *)
LEMMA PacketMoves ==
  ASSUME MouseInv, buffer' \in [Part -> MouseBytes], HandlePacket
  PROVE  /\ px' \in Column /\ py' \in Int /\ -128 <= py' /\ py' <= 127
         /\ \E y \in Row : py' = Int8(y - buffer'[2].value)
         /\ Interrupted(PointerMoved(screen, px', py'))
<1>1. px \in Int /\ py \in Int
  BY WidthIs DEF MouseInv, MouseTypes, Column
<1>2. PICK u, v \in Octets : u = buffer'[1].value /\ v = buffer'[2].value
  BY DEF Part, MouseBytes
<1>3. u \in Int /\ v \in Int
  BY OctetIs
<1>4. px + u \in Int /\ Int8(px + u) \in Int
  BY <1>1, <1>3, Int8Is
<1>5. Clamp(Int8(px + u), W) \in Nat /\ Clamp(Int8(px + u), W) < W
  BY <1>4, WidthIs, ClampIs
<1>6. PICK y \in Nat : y = Clamp(py, H) /\ y < H
  BY <1>1, HeightIs, ClampIs
<1>7. y - v \in Int /\ y \in Row
  BY <1>3, <1>6, HeightIs DEF Row
<1>8. Int8(y - v) \in Int /\ -128 <= Int8(y - v) /\ Int8(y - v) <= 127
  BY <1>7, Int8Is
<1>9. /\ px' = Clamp(Int8(px + u), W) /\ py' = Int8(y - v)
      /\ Interrupted(PointerMoved(screen, px', py'))
  BY <1>2, <1>6 DEF HandlePacket
<1>10. px' \in Column
  BY <1>5, <1>9, WidthIs DEF Column
<1> QED BY <1>2, <1>7, <1>8, <1>9, <1>10

LEMMA HandleByteFacts ==
  ASSUME MouseInv, HandleByte
  PROVE  /\ Head(sent) \in MouseBytes /\ sent' \in Seq(MouseBytes) /\ Packets(sent')
         /\ buffer' \in [Part -> MouseBytes] /\ buffer'[offset] = Head(sent)
         /\ \A p \in Part : p # offset => buffer'[p] = buffer[p]
         /\ offset \in Part /\ offset' = Advance(offset) /\ offset' \in Part
         /\ IF sent' = <<>> THEN Head(sent).part \in {2, Noise}
                            ELSE Follows(Head(sent).part, Head(sent').part)
<1>1. sent \in Seq(MouseBytes) /\ sent # <<>> /\ Packets(sent) /\ offset \in Part
  BY DEF MouseInv, MouseTypes, HandleByte
<1>2. sent' = Tail(sent) /\ buffer' = [buffer EXCEPT ![offset] = Head(sent)]
      /\ offset' = Advance(offset)
  BY DEF HandleByte
<1>3. /\ Head(sent) \in MouseBytes /\ sent' \in Seq(MouseBytes) /\ Packets(sent')
      /\ IF sent' = <<>> THEN Head(sent).part \in {2, Noise}
                         ELSE Follows(Head(sent).part, Head(sent').part)
  BY <1>1, <1>2, PacketsTail
<1>4. /\ buffer' \in [Part -> MouseBytes] /\ buffer'[offset] = Head(sent)
      /\ \A p \in Part : p # offset => buffer'[p] = buffer[p]
  BY <1>1, <1>2, <1>3 DEF MouseInv, MouseTypes
<1> QED BY <1>1, <1>2, <1>3, <1>4, AdvanceIs

LEMMA MouseHandles ==
  ASSUME MouseInv, HandleByte
  PROVE  MouseInv'
<1>1. /\ Head(sent) \in MouseBytes /\ sent' \in Seq(MouseBytes) /\ Packets(sent')
      /\ buffer' \in [Part -> MouseBytes] /\ buffer'[offset] = Head(sent)
      /\ \A p \in Part : p # offset => buffer'[p] = buffer[p]
      /\ offset \in Part /\ offset' = Advance(offset) /\ offset' \in Part
      /\ IF sent' = <<>> THEN Head(sent).part \in {2, Noise}
                         ELSE Follows(Head(sent).part, Head(sent').part)
  BY HandleByteFacts
<1>2. UNCHANGED <<mouse, resetting, cell, moves, starts>>
      /\ mouse = "active" /\ sent # <<>> /\ sent' = Tail(sent)
      /\ slip' = IF Head(sent).part = Noise THEN (slip + 1) % 3 ELSE slip
  BY DEF HandleByte
<1>3. /\ px' \in Column /\ py' \in Int /\ -128 <= py' /\ py' <= 127
      /\ session' = session
  <2>1. CASE offset' = 0
    <3>1. HandlePacket
      BY <2>1 DEF HandleByte
    <3>2. px' \in Column /\ py' \in Int /\ -128 <= py' /\ py' <= 127
      BY <1>1, <3>1, PacketMoves
    <3>3. session' = session
      BY <3>1 DEF HandlePacket, Interrupted
    <3> QED BY <3>2, <3>3
  <2>2. CASE offset' # 0
    BY <2>2 DEF HandleByte, MouseInv, MouseTypes, tvars
  <2> QED BY <2>1, <2>2
<1>4. /\ sent \in Seq(MouseBytes) /\ Packets(sent) /\ slip \in Part
      /\ offset = (NextPart(sent) + slip) % 3
  BY DEF MouseInv, MouseTypes, Lined
<1>5. slip' \in Part /\ offset' = (NextPart(sent') + slip') % 3
  <2>1. PICK s \in Part : s = slip
    BY <1>4
  <2>2. NextPart(sent') = IF Head(sent).part = Noise THEN 0 ELSE Advance(Head(sent).part)
    BY <1>2, <1>4, NextPartTail
  <2>3. CASE Head(sent).part = Noise
    <3>1. NextPart(sent) = 0 /\ NextPart(sent') = 0 /\ slip' = (s + 1) % 3
      BY <1>2, <1>4, <2>1, <2>2, <2>3, NextPartIs
    <3>2. offset' = Advance((0 + s) % 3)
      BY <1>1, <1>4, <2>1, <3>1
    <3>3. (s + 1) % 3 \in Part /\ (0 + ((s + 1) % 3)) % 3 = Advance((0 + s) % 3)
      BY SlipIs
    <3>4. PICK t \in Part : t = (s + 1) % 3
      BY <3>3
    <3>5. NextPart(sent') = 0 /\ slip' = t /\ (0 + t) % 3 = offset'
      BY <3>1, <3>2, <3>3, <3>4
    <3> QED BY <3>4, <3>5
  <2>4. CASE Head(sent).part # Noise
    <3>1. PICK p \in Part : p = NextPart(sent) /\ Head(sent).part = p
      BY <1>2, <1>4, <2>4, NextPartIs
    <3>2. NextPart(sent') = Advance(p) /\ slip' = s /\ offset' = Advance((p + s) % 3)
      BY <1>1, <1>2, <1>4, <2>1, <2>2, <2>4, <3>1
    <3>3. (Advance(p) + s) % 3 = Advance((p + s) % 3)
      BY SlipIs
    <3> QED BY <2>1, <3>2, <3>3
  <2> QED BY <2>3, <2>4
<1>6. MouseTypes'
  BY <1>1, <1>2, <1>3, <1>5 DEF MouseInv, MouseTypes
<1>7. Packets(sent)' /\ NextPart(sent)' = NextPart(sent')
  BY <1>1 DEF Packets, Follows, NextPart
<1>8. Lined'
  BY <1>5, <1>7 DEF Lined
<1> QED BY <1>2, <1>6, <1>7, <1>8 DEF MouseInv

LEMMA MouseNext ==
  ASSUME MouseInv, NextMouse
  PROVE  MouseInv'
BY MouseLifecycle, MouseReset, MouseMove, MouseLoses, MouseHandles DEF NextMouse

-----------------------------------------------------------------------------
(* The pointer.                                                            *)

Flip(S, i) == IF i \in S THEN S \ {i} ELSE S \cup {i}

(* What initialize() has left of the starting cell, having run n times.    *)
Origin(n) == IF n % 2 = 1 THEN {} ELSE {Start}

(* Nobody but the mouse writes the screen.                                 *)
Undisputed == prints = 0 /\ session.keys = {}

PointerInv ==
  /\ \E y \in Row : py = Int8(y) \/ py = Int8(y - buffer[2].value)
  /\ mouse = "absent" => starts = 0 /\ px = StartX /\ py = StartY
  /\ prints = 0 => pc = "idle"
  /\ session.keys = {} => queue = <<>>
  /\ Undisputed =>
       screen.inverted = IF mouse = "absent" THEN {}
                                             ELSE Flip(Origin(starts), Cell(px, py))

LEMMA FlipTwice ==
  ASSUME NEW S, NEW i
  PROVE  Flip(Flip(S, i), i) = S
BY DEF Flip

LEMMA FlipBoth ==
  ASSUME NEW S, NEW i, NEW j
  PROVE  Flip(Flip(S, i), j) = Flip(Flip(S, j), i)
BY DEF Flip

LEMMA OriginNext ==
  ASSUME NEW n \in Nat
  PROVE  Flip(Origin(n), Start) = Origin(n + 1)
<1>1. (n + 1) % 2 = 1 <=> n % 2 # 1
  OBVIOUS
<1>2. CASE n % 2 = 1
  BY <1>1, <1>2 DEF Flip, Origin
<1>3. CASE n % 2 # 1
  BY <1>1, <1>3 DEF Flip, Origin
<1> QED BY <1>2, <1>3

LEMMA PlaceIs ==
  ASSUME NEW x \in Int, NEW y \in Int
  PROVE  Cell(x, y) \in Int
BY WidthIs DEF Cell

LEMMA ColumnInt == \A x \in Column : x \in Int
BY WidthIs DEF Column

LEMMA RowInt == \A y \in Row : y \in Int /\ -128 <= y - 128 /\ y >= 0
BY HeightIs DEF Row

LEMMA PointerInit == Init => PointerInv
<1> SUFFICES ASSUME Init PROVE PointerInv
  OBVIOUS
<1> USE DEF Init, InitTerminal, InitKeyboard, InitMouse
<1>1. Int8(StartY) = StartY /\ StartY \in Row
  BY StartIs, Int8Same
<1>2. screen.inverted = {}
  BY DEF Blank
<1> QED BY <1>1, <1>2 DEF PointerInv

LEMMA PointerSame ==
  ASSUME PointerInv, UNCHANGED <<session, screen, pc, prints, mvars>>,
         session.keys = {} => queue' = <<>>
  PROVE  PointerInv'
BY DEF PointerInv, Undisputed, mvars

(* Where others write the screen, nothing is said of it.                   *)
LEMMA PointerElsewhere ==
  ASSUME PointerInv, UNCHANGED <<session, mvars>>, ~Undisputed',
         prints' = 0 => pc' = "idle", session.keys = {} => queue' = <<>>
  PROVE  PointerInv'
BY DEF PointerInv, mvars

LEMMA PointerMain ==
  ASSUME TerminalInv, PointerInv, Main, UNCHANGED <<kvars, mvars>>
  PROVE  PointerInv'
<1>0. queue' = queue
  BY DEF kvars
<1>1. CASE \E c \in session.text : Begin(c)
  <2>1. prints \in Nat /\ prints' = prints + 1 /\ session' = session
    BY <1>1 DEF TerminalInv, TerminalTypes, Begin
  <2>2. prints' # 0
    BY <2>1
  <2> QED BY <1>0, <2>1, <2>2, PointerElsewhere DEF PointerInv, Undisputed
<1>2. CASE Switch \/ Newline \/ MoveCursor \/ WriteCell \/ WrapLine \/ Scroll
  <2>1. pc # "idle" /\ session' = session /\ prints' = prints
    BY <1>2 DEF Switch, Newline, MoveCursor, WriteCell, WrapLine, Scroll, Load, Store,
                Test, Goto, Finish
  <2>2. prints' # 0
    BY <2>1 DEF PointerInv
  <2> QED BY <1>0, <2>1, <2>2, PointerElsewhere DEF PointerInv, Undisputed
<1> QED BY <1>1, <1>2 DEF Main

LEMMA HandledWithKeys ==
  ASSUME PointerInv, HandleInterrupt
  PROVE  /\ session.keys # {} /\ queue # <<>> /\ activated
         /\ UNCHANGED <<session, main, prints>>
BY DEF PointerInv, HandleInterrupt, HandlePrefix, HandleExtended, HandleModifier, HandleKey,
       HandleCapsLock, Receive, Interrupted, tvars

LEMMA PointerKeyboard ==
  ASSUME PointerInv, NextKeyboard, UNCHANGED mvars
  PROVE  PointerInv'
<1>1. CASE \E k \in session.keys : Press(k) \/ Repeat(k) \/ Release(k)
  <2>1. UNCHANGED tvars /\ session.keys # {}
    BY <1>1 DEF Press, Repeat, Release
  <2> QED BY <2>1, PointerSame DEF tvars, main
<1>2. CASE \E n \in DOMAIN queue : Initialize(n)
  <2>1. UNCHANGED tvars /\ queue # <<>>
    BY <1>2 DEF Initialize
  <2> QED BY <2>1, PointerSame DEF PointerInv, tvars, main
<1>3. CASE Activate
  <2>1. UNCHANGED <<tvars, queue>>
    BY <1>3 DEF Activate
  <2> QED BY <2>1, PointerSame DEF PointerInv, tvars, main
<1>4. CASE HandleInterrupt
  <2>1. session.keys # {} /\ UNCHANGED <<session, main, prints>>
    BY <1>4, HandledWithKeys
  <2> QED BY <2>1, PointerElsewhere DEF PointerInv, Undisputed, main
<1> QED BY <1>1, <1>2, <1>3, <1>4 DEF NextKeyboard

(* initialize() turns the starting cell over once more.                    *)
LEMMA PointerInitialized ==
  ASSUME TerminalInv, MouseInv, PointerInv, NEW q, InitializeMouse(q), NEW from, NEW to,
         SetUp(from, to), to # "absent", UNCHANGED kvars
  PROVE  PointerInv'
<1>1. /\ mouse' # "absent" /\ queue' = queue
      /\ UNCHANGED <<session, pc, prints, px, py, buffer>>
      /\ starts' = starts + 1 /\ screen' = Toggle(screen, Start)
  BY DEF SetUp, InitializeMouse, main, kvars
<1>2. starts \in Nat /\ screen \in Screens /\ Start \in Int
  BY StartIs, PlaceIs DEF MouseInv, MouseTypes, TerminalInv, TerminalTypes, Start
<1>3. screen'.inverted = Flip(screen.inverted, Start)
  BY <1>1, <1>2 DEF Toggle, Flip, Screens
<1>4. ASSUME Undisputed
      PROVE  screen'.inverted = Flip(Origin(starts + 1), Cell(px, py))
  <2>1. CASE mouse = "absent"
    <3>1. screen.inverted = {} /\ px = StartX /\ py = StartY /\ starts = 0
      BY <1>4, <2>1 DEF PointerInv
    <3>2. Origin(1) = {} /\ starts + 1 = 1 /\ Cell(px, py) = Start
      BY <3>1 DEF Origin, Start
    <3> QED BY <1>3, <3>1, <3>2
  <2>2. CASE mouse # "absent"
    <3>1. screen.inverted = Flip(Origin(starts), Cell(px, py))
      BY <1>4, <2>2 DEF PointerInv
    <3>2. screen'.inverted
            = Flip(Flip(Origin(starts), Start), Cell(px, py))
      BY <1>3, <3>1, FlipBoth
    <3> QED BY <1>2, <3>2, OriginNext
  <2> QED BY <2>1, <2>2
<1> QED BY <1>1, <1>4 DEF PointerInv, Undisputed

(* initialize() within reset(): a cell that has changed under it is put    *)
(* back, and not turned over.                                              *)
LEMMA PointerStored ==
  ASSUME TerminalInv, MouseInv, PointerInv, StoreCell, UNCHANGED kvars
  PROVE  PointerInv'
<1>1. /\ queue' = queue /\ UNCHANGED <<session, pc, prints, px, py, buffer, mouse>>
      /\ mouse # "absent"
  BY DEF StoreCell, Reset, main, kvars, MouseInv
<1>2. starts \in Nat /\ screen \in Screens /\ cell.inverted \in BOOLEAN
  BY DEF MouseInv, MouseTypes, TerminalInv, TerminalTypes
<1>3. screen'.inverted = IF cell.inverted THEN screen.inverted \ {Start}
                                          ELSE screen.inverted \cup {Start}
  BY <1>2 DEF StoreCell, Screens
<1>4. ASSUME Undisputed
      PROVE  screen'.inverted = Flip(Origin(starts'), Cell(px, py))
  <2>1. screen.inverted = Flip(Origin(starts), Cell(px, py))
    BY <1>1, <1>4 DEF PointerInv
  <2>2. CASE cell.inverted <=> Start \in screen.inverted
    <3>1. starts' = starts + 1
      BY <2>2 DEF StoreCell
    <3>2. screen'.inverted = Flip(screen.inverted, Start)
      BY <1>2, <1>3, <2>2 DEF Flip
    <3>3. screen'.inverted = Flip(Flip(Origin(starts), Start), Cell(px, py))
      BY <2>1, <3>2, FlipBoth
    <3> QED BY <1>2, <3>1, <3>3, OriginNext
  <2>3. CASE ~ (cell.inverted <=> Start \in screen.inverted)
    <3>1. starts' = starts
      BY <2>3 DEF StoreCell
    <3>2. screen'.inverted = screen.inverted
      BY <1>2, <1>3, <2>3
    <3> QED BY <2>1, <3>1, <3>2
  <2> QED BY <2>2, <2>3
<1> QED BY <1>1, <1>4 DEF PointerInv, Undisputed

LEMMA PointerFollows ==
  ASSUME TerminalInv, MouseInv, PointerInv, HandleByte, UNCHANGED kvars
  PROVE  PointerInv'
<1>1. /\ buffer' \in [Part -> MouseBytes] /\ mouse = "active" /\ mouse' = mouse
      /\ starts' = starts /\ queue' = queue
      /\ \A p \in Part : p # offset => buffer'[p] = buffer[p]
      /\ offset \in Part /\ offset' = Advance(offset)
  BY HandleByteFacts DEF HandleByte, kvars
<1>2. CASE offset' = 0
  <2>0. HandlePacket
    BY <1>2 DEF HandleByte
  <2>1. /\ \E y \in Row : py' = Int8(y - buffer'[2].value)
        /\ Interrupted(PointerMoved(screen, px', py'))
        /\ px' \in Column /\ py' \in Int
    BY <1>1, <2>0, PacketMoves
  <2>2. UNCHANGED <<session, pc, prints>> /\ screen' = PointerMoved(screen, px', py')
    BY <2>1 DEF Interrupted, main
  <2>3. PICK i, j \in Int : i = Cell(px, py) /\ j = Cell(px', py')
    <3>1. px \in Int /\ py \in Int
      BY ColumnInt DEF MouseInv, MouseTypes
    <3>2. px' \in Int /\ py' \in Int
      BY <2>1, ColumnInt
    <3> QED BY <3>1, <3>2, PlaceIs
  <2>4. screen'.inverted = Flip(Flip(screen.inverted, i), j)
    <3>1. PICK s \in Screens : s = screen
      BY DEF TerminalInv, TerminalTypes
    <3>2. PICK t \in Screens : t = Toggle(s, i)
      BY ToggleFacts
    <3>3. t.inverted = Flip(s.inverted, i)
      BY <3>2, ToggleFacts DEF Flip
    <3>4. Toggle(t, j).inverted = Flip(t.inverted, j)
      BY ToggleFacts DEF Flip
    <3>5. screen' = Toggle(t, j)
      BY <2>2, <2>3, <3>1, <3>2 DEF PointerMoved
    <3> QED BY <3>1, <3>3, <3>4, <3>5
  <2>5. Undisputed => screen'.inverted = Flip(Origin(starts), Cell(px', py'))
    <3> SUFFICES ASSUME Undisputed PROVE screen'.inverted = Flip(Origin(starts), j)
      BY <2>3
    <3>1. screen.inverted = Flip(Origin(starts), i)
      BY <1>1, <2>3 DEF PointerInv
    <3> QED BY <2>4, <3>1, FlipTwice
  <2>6. Undisputed' => Undisputed
    BY <2>2 DEF Undisputed
  <2> QED BY <1>1, <2>1, <2>2, <2>5, <2>6 DEF PointerInv
<1>3. CASE offset' # 0
  <2>1. UNCHANGED <<tvars, px, py>>
    BY <1>3 DEF HandleByte
  <2>2. 2 \in Part /\ offset # 2
    BY <1>1, <1>3, AdvanceIs DEF Part
  <2>3. buffer'[2] = buffer[2]
    BY <1>1, <2>2
  <2> QED BY <1>1, <2>1, <2>3 DEF PointerInv, Undisputed, tvars, main
<1> QED BY <1>2, <1>3

LEMMA PointerMouse ==
  ASSUME TerminalInv, MouseInv, PointerInv, NextMouse, UNCHANGED kvars
  PROVE  PointerInv'
<1>1. CASE ConstructMouse
  BY <1>1, PointerInitialized DEF ConstructMouse
<1>2. CASE InitializeAgain
  BY <1>2, PointerInitialized DEF InitializeAgain
<1>3. CASE ActivateMouse
  BY <1>3 DEF PointerInv, Undisputed, ActivateMouse, SetUp, main, kvars
<1>4. CASE ResetMouse
  <2>1. CASE StoreCell
    BY <2>1, PointerStored
  <2>2. \A from, to : Reset(from, to) /\ UNCHANGED <<screen, starts>> => PointerInv'
    BY DEF PointerInv, Undisputed, Reset, main, kvars
  <2> QED
    BY <1>4, <2>1, <2>2 DEF ResetMouse, BeginReset, CommandReset, LoadCell, ReadStatus,
                            Enable, ReadAck, ReadPort
<1>5. CASE \E dx, dy \in Movements : Move(dx, dy)
  BY <1>5 DEF PointerInv, Undisputed, Move, tvars, main, kvars
<1>6. CASE LoseByte
  BY <1>6 DEF PointerInv, Undisputed, LoseByte, tvars, main, kvars
<1>7. CASE HandleByte
  BY <1>7, PointerFollows
<1> QED BY <1>1, <1>2, <1>3, <1>4, <1>5, <1>6, <1>7 DEF NextMouse

-----------------------------------------------------------------------------
(* The terminal under its handlers.                                        *)

LEMMA TerminalInterrupted ==
  ASSUME TerminalInv, NEW s, Tame(screen, s), Interrupted(s)
  PROVE  TerminalInv'
<1>1. Tame(screen, screen') /\ UNCHANGED <<session, main, prints>>
  BY DEF Interrupted
<1>2. disturbed' \in BOOLEAN
  BY DEF Interrupted, TerminalInv, TerminalTypes
<1> QED BY <1>1, <1>2, TerminalTame

LEMMA TerminalKeyboard ==
  ASSUME TerminalInv, NextKeyboard
  PROVE  TerminalInv'
<1>1. screen \in Screens /\ NearScreen(screen)
  BY DEF TerminalInv, TerminalTypes, CursorInv
<1>2. Tame(screen, screen) /\ \A code : Tame(screen, Key(screen, code))
                           /\ Tame(screen, ExtendedKey(screen, code))
  BY <1>1, SameTame, KeyTame, ExtendedTame
<1>3. CASE \E k \in session.keys : Press(k) \/ Repeat(k) \/ Release(k)
  BY <1>3, TerminalSame DEF Press, Repeat, Release
<1>4. CASE \E n \in DOMAIN queue : Initialize(n)
  BY <1>4, TerminalSame DEF Initialize
<1>5. CASE Activate
  BY <1>5, TerminalSame DEF Activate
<1>6. CASE HandlePrefix
  BY <1>6, TerminalSame DEF HandlePrefix
<1>7. ASSUME NEW code, NEW released, HandleExtended(code, released)
      PROVE  TerminalInv'
  <2>1. PICK s : s = IF released THEN screen ELSE ExtendedKey(screen, code)
    OBVIOUS
  <2>2. Tame(screen, s)
    BY <1>2, <2>1
  <2>3. Interrupted(s)
    BY <1>7, <2>1 DEF HandleExtended
  <2> QED BY <2>2, <2>3, TerminalInterrupted
<1>8. ASSUME NEW code, NEW released, HandleModifier(code, released)
      PROVE  TerminalInv'
  BY <1>8, TerminalSame DEF HandleModifier
<1>9. ASSUME NEW code, NEW released, HandleKey(code, released)
      PROVE  TerminalInv'
  <2>1. PICK s : s = IF released THEN screen ELSE Key(screen, code)
    OBVIOUS
  <2>2. Tame(screen, s)
    BY <1>2, <2>1
  <2>3. Interrupted(s)
    BY <1>9, <2>1 DEF HandleKey
  <2> QED BY <2>2, <2>3, TerminalInterrupted
<1>10. ASSUME NEW released, HandleCapsLock(released)
       PROVE  TerminalInv'
  BY <1>10, TerminalSame DEF HandleCapsLock
<1>11. CASE HandleInterrupt
  BY <1>6, <1>7, <1>8, <1>9, <1>10, <1>11 DEF HandleInterrupt
<1> QED BY <1>3, <1>4, <1>5, <1>11 DEF NextKeyboard

(* The pointer starts on the screen.                                       *)
LEMMA StartShown == Start \in Area
<1>1. /\ StartX \in Octets /\ StartX < W /\ StartY \in Octets /\ StartY < H
  BY StartIs, ColumnIs, RowIs
<1> HIDE DEF StartX, StartY
<1>2. Cell(StartX, StartY) \in Area
  BY <1>1, Places
<1> QED BY <1>2 DEF Start

LEMMA TerminalMouse ==
  ASSUME TerminalInv, MouseInv, NextMouse
  PROVE  TerminalInv'
<1>1. screen \in Screens
  BY DEF TerminalInv, TerminalTypes
<1>2. ASSUME NEW q, InitializeMouse(q), NEW from, NEW to, SetUp(from, to)
      PROVE  TerminalInv'
  <2>1. PICK i \in Int : i = Start
    BY StartIs, PlaceIs DEF Start
  <2>2. Toggle(screen, i) \in Screens
        /\ Toggle(screen, i).x = screen.x /\ Toggle(screen, i).y = screen.y
    BY <1>1, ToggleFacts
  <2>3. PICK s \in Screens : s = Toggle(screen, i) /\ s.x = screen.x /\ s.y = screen.y
    BY <2>2
  <2>4. Tame(screen, s)
    BY <1>1, <2>3, SameTame
  <2>5. screen' = s /\ UNCHANGED <<session, main, prints, disturbed>>
    BY <1>2, <2>1, <2>3 DEF InitializeMouse, SetUp
  <2>6. disturbed' \in BOOLEAN
    BY <2>5 DEF TerminalInv, TerminalTypes
  <2>7. Tame(screen, screen')
    BY <2>4, <2>5
  <2> QED BY <2>5, <2>6, <2>7, TerminalTame
<1>3. CASE ConstructMouse
  BY <1>2, <1>3 DEF ConstructMouse
<1>4. CASE InitializeAgain
  BY <1>2, <1>4 DEF InitializeAgain
<1>5. CASE ActivateMouse
  BY <1>5, TerminalSame DEF ActivateMouse, SetUp, tvars
<1>6. CASE ResetMouse
  <2>1. CASE StoreCell
    <3>1. UNCHANGED <<session, main, prints, disturbed>>
      BY <2>1 DEF StoreCell, Reset
    <3>2. disturbed' \in BOOLEAN
      BY <3>1 DEF TerminalInv, TerminalTypes
    <3>3. PICK u, v : /\ u = IF cell.mark THEN screen.marks \cup {Start}
                                          ELSE screen.marks \ {Start}
                      /\ v = IF cell.inverted THEN screen.inverted \ {Start}
                                              ELSE screen.inverted \cup {Start}
      OBVIOUS
    <3>4. u \subseteq Area /\ v \subseteq Int
      BY <1>1, <3>3, StartIs, PlaceIs, StartShown DEF Screens, Start
    <3>5. screen' = [screen EXCEPT !.marks = u, !.inverted = v]
      BY <2>1, <3>3 DEF StoreCell
    <3>6. screen' \in Screens /\ screen'.x = screen.x /\ screen'.y = screen.y
      BY <1>1, <3>4, <3>5 DEF Screens
    <3>7. Tame(screen, screen')
      BY <1>1, <3>6, SameTame
    <3> QED BY <3>1, <3>2, <3>7, TerminalTame
  <2>2. \A from, to : Reset(from, to) /\ UNCHANGED screen => UNCHANGED tvars
    BY DEF Reset, tvars
  <2> QED
    BY <1>6, <2>1, <2>2, TerminalSame DEF ResetMouse, BeginReset, CommandReset, LoadCell,
                                          ReadStatus, Enable, ReadAck, ReadPort
<1>7. CASE \E dx, dy \in Movements : Move(dx, dy)
  BY <1>7, TerminalSame DEF Move
<1>8. CASE LoseByte
  BY <1>8, TerminalSame DEF LoseByte
<1>9. CASE HandleByte
  <2>1. CASE offset' = 0
    <3>1. HandlePacket /\ buffer' \in [Part -> MouseBytes]
      BY <1>9, <2>1, HandleByteFacts DEF HandleByte
    <3>2. /\ Interrupted(PointerMoved(screen, px', py'))
          /\ px' \in Column /\ py' \in Int
      BY <3>1, PacketMoves
    <3>3. PICK i, j \in Int : i = Cell(px, py) /\ j = Cell(px', py')
      <4>1. px \in Int /\ py \in Int
        BY ColumnInt DEF MouseInv, MouseTypes
      <4>2. px' \in Int /\ py' \in Int
        BY <3>2, ColumnInt
      <4> QED BY <4>1, <4>2, PlaceIs
    <3>4. PICK s \in Screens : s = screen
      BY <1>1
    <3>5. PICK t \in Screens : t = Toggle(s, i)
      BY ToggleFacts
    <3>6. t.x = s.x /\ t.y = s.y
      BY <3>5, ToggleFacts
    <3>7. PICK u \in Screens : u = Toggle(t, j)
      BY ToggleFacts
    <3>8. u.x = t.x /\ u.y = t.y
      BY <3>7, ToggleFacts
    <3>9. Tame(screen, u)
      BY <3>4, <3>6, <3>8, SameTame
    <3>10. Interrupted(u)
      BY <3>2, <3>3, <3>4, <3>5, <3>7 DEF PointerMoved
    <3> QED BY <3>9, <3>10, TerminalInterrupted
  <2>2. CASE offset' # 0
    BY <1>9, <2>2, TerminalSame DEF HandleByte
  <2> QED BY <2>1, <2>2
<1> QED BY <1>3, <1>4, <1>5, <1>6, <1>7, <1>8, <1>9 DEF NextMouse

-----------------------------------------------------------------------------
(* The keyboard: the bytes under way.                                      *)

KeyBytes == [code : AllKeys \cup {E0}, released : BOOLEAN, key : AllKeys,
             shows : {"a", "A", "1", "!", NoKey}]

KeyboardTypes ==
  /\ session \in Sessions
  /\ pressed \subseteq Tracked
  /\ caps_lock_active \in BOOLEAN /\ extended_key_next \in BOOLEAN
  /\ tasks_should_stop \in BOOLEAN /\ activated \in BOOLEAN
  /\ lock \in BOOLEAN /\ torn \in BOOLEAN /\ capsRepeated \in BOOLEAN
  /\ missed \subseteq held /\ held \subseteq session.keys
  /\ last \in held \cup {NoKey}
  /\ queue \in Seq(KeyBytes) /\ Len(queue) <= session.queue
  /\ events \in Nat /\ events <= session.events

(* A byte behind a prefix, which is not the prefix itself.                 *)
Bare(b) == b.code # E0 /\ b.key \in Prefixed

(* A prefix is followed by the byte it belongs to, and only such a byte    *)
(* follows one.                                                            *)
Sequences(q) ==
  \A i \in 1 .. Len(q) :
    /\ q[i].code # E0 => q[i].code = Code(q[i].key)
    /\ q[i].code = E0 => q[i].key \in Prefixed /\ i < Len(q)
    /\ i < Len(q) => (q[i].code = E0 <=> Bare(q[i + 1]))

(* What a key's last byte says is what the key is.                         *)
LastWords(q, down) ==
  \A i \in 1 .. Len(q) :
    (\A j \in 1 .. Len(q) : j > i => q[j].key # q[i].key)
      => (q[i].released <=> q[i].key \notin down)

Unsent(q, k) == \A i \in 1 .. Len(q) : q[i].key # k

KeysInv ==
  /\ Sequences(queue)
  /\ LastWords(queue, held)
  /\ \A k \in missed : Unsent(queue, k)
  /\ ~activated => /\ pressed = {} /\ ~caps_lock_active
                   /\ \A k \in held \ missed : ~Unsent(queue, k)
                   /\ \A i \in 1 .. Len(queue) : queue[i].shows = NoKey
  /\ ~torn => IF queue # <<>> /\ Bare(queue[1]) THEN activated /\ extended_key_next
                                                ELSE ~activated \/ ~extended_key_next
  /\ activated /\ ~torn =>
       \A k \in Tracked : Unsent(queue, k) => (k \in pressed <=> k \in held \ missed)

LEMMA KeysAre ==
  /\ \A k \in AllKeys : Code(k) \in AllKeys /\ Code(k) # E0
  /\ \A k \in AllKeys : k \notin Prefixed => Code(k) = k
  /\ E0 \notin AllKeys /\ NoKey \notin AllKeys
  /\ Tracked \subseteq AllKeys /\ Prefixed \cap Tracked = {} /\ Prefixed \subseteq AllKeys
  /\ Shifts \subseteq Tracked /\ "CapsLock" \notin Tracked /\ "CapsLock" \notin Prefixed
  /\ "CapsLock" \in AllKeys
BY DEF AllKeys, Code, E0, NoKey, Tracked, Prefixed, Shifts, Function

(* What Send appends.                                                      *)
LEMMA SendFacts ==
  ASSUME KeyboardTypes, NEW k \in session.keys, NEW r \in BOOLEAN, Send(k, r)
  PROVE  \E n \in Nat, m \in Nat, b \in KeyBytes :
           /\ n = Len(queue) /\ m = Len(queue') /\ m <= session.queue
           /\ queue' \in Seq(KeyBytes) /\ events' \in Nat /\ events' <= session.events
           /\ b.code = Code(k) /\ b.released = r /\ b.key = k
           /\ b.shows = IF activated /\ ~r THEN Expected(k) ELSE NoKey
           /\ \A i \in 1 .. n : queue'[i] = queue[i]
           /\ queue'[m] = b
           /\ IF k \in Prefixed
                THEN /\ m = n + 2 /\ queue'[n + 1] \in KeyBytes
                     /\ queue'[n + 1].code = E0 /\ queue'[n + 1].key = k
                     /\ queue'[n + 1].released = r /\ queue'[n + 1].shows = NoKey
                ELSE m = n + 1
<1> DEFINE b == [code |-> Code(k), released |-> r, key |-> k,
                 shows |-> IF activated /\ ~r THEN Expected(k) ELSE NoKey]
           p == [b EXCEPT !.code = E0, !.shows = NoKey]
<1>1. k \in AllKeys /\ session.events \in Nat /\ session.queue \in Nat
  BY KeyboardAssumption DEF KeyboardTypes
<1>2. Expected(k) \in {"a", "A", "1", "!", NoKey}
  BY DEF Expected
<1>3. Code(k) \in AllKeys
  BY <1>1, KeysAre
<1>4. /\ b \in KeyBytes /\ b.code = Code(k) /\ b.released = r /\ b.key = k
      /\ b.shows = IF activated /\ ~r THEN Expected(k) ELSE NoKey
  BY <1>1, <1>2, <1>3 DEF KeyBytes
<1>5. p \in KeyBytes /\ p.code = E0 /\ p.key = k /\ p.released = r /\ p.shows = NoKey
  BY <1>1 DEF KeyBytes
<1>6. /\ queue' = queue \o (IF k \in Prefixed THEN <<p, b>> ELSE <<b>>)
      /\ events < session.events /\ events' = events + 1 /\ Len(queue') <= session.queue
  BY DEF Send
<1> HIDE DEF b, p
<1>7. events' \in Nat /\ events' <= session.events
  BY <1>1, <1>6 DEF KeyboardTypes
<1>8. queue \in Seq(KeyBytes) /\ Len(queue) \in Nat
  BY LenProperties DEF KeyboardTypes
<1>9. CASE k \in Prefixed
  <2>1. queue' = queue \o <<p, b>>
    BY <1>6, <1>9
  <2>2. <<p, b>> \in Seq(KeyBytes) /\ Len(<<p, b>>) = 2 /\ <<p, b>>[1] = p /\ <<p, b>>[2] = b
    BY <1>4, <1>5
  <2>3. /\ queue' \in Seq(KeyBytes) /\ Len(queue') = Len(queue) + 2
        /\ \A i \in 1 .. (Len(queue) + 2) :
             queue'[i] = IF i <= Len(queue) THEN queue[i] ELSE <<p, b>>[i - Len(queue)]
    BY <1>8, <2>1, <2>2, ConcatProperties
  <2>4. /\ \A i \in 1 .. Len(queue) : queue'[i] = queue[i]
        /\ queue'[Len(queue) + 1] = p /\ queue'[Len(queue) + 2] = b
    BY <1>8, <2>2, <2>3
  <2>5. Len(queue') \in Nat
    BY <1>8, <2>3
  <2> QED BY <1>4, <1>5, <1>6, <1>7, <1>8, <1>9, <2>3, <2>4, <2>5
<1>10. CASE k \notin Prefixed
  <2>1. queue' = queue \o <<b>>
    BY <1>6, <1>10
  <2>2. <<b>> \in Seq(KeyBytes) /\ Len(<<b>>) = 1 /\ <<b>>[1] = b
    BY <1>4
  <2>3. /\ queue' \in Seq(KeyBytes) /\ Len(queue') = Len(queue) + 1
        /\ \A i \in 1 .. (Len(queue) + 1) :
             queue'[i] = IF i <= Len(queue) THEN queue[i] ELSE <<b>>[i - Len(queue)]
    BY <1>8, <2>1, <2>2, ConcatProperties
  <2>4. /\ \A i \in 1 .. Len(queue) : queue'[i] = queue[i]
        /\ queue'[Len(queue) + 1] = b
    BY <1>8, <2>2, <2>3
  <2>5. Len(queue') \in Nat
    BY <1>8, <2>3
  <2> QED BY <1>4, <1>6, <1>7, <1>8, <1>10, <2>3, <2>4, <2>5
<1> QED BY <1>9, <1>10

(* What is left of the bytes under way once n of them are gone.            *)
Rest(q, r, n) ==
  /\ r \in Seq(KeyBytes) /\ Len(r) = Len(q) - n
  /\ \A i \in 1 .. Len(r) : r[i] = q[i + n]

LEMMA TailRests ==
  ASSUME NEW q \in Seq(KeyBytes), q # <<>>
  PROVE  /\ Rest(q, Tail(q), 1) /\ Head(q) = q[1] /\ q[1] \in KeyBytes
         /\ Len(q) \in Nat /\ Len(q) >= 1
<1>1. /\ Head(q) = q[1] /\ q[1] \in KeyBytes /\ Tail(q) \in Seq(KeyBytes)
      /\ Len(Tail(q)) = Len(q) - 1 /\ \A i \in 1 .. Len(Tail(q)) : Tail(q)[i] = q[i + 1]
  BY HeadTailProperties
<1>2. Len(q) \in Nat /\ Len(q) >= 1
  BY <1>1, LenProperties
<1> QED BY <1>1, <1>2 DEF Rest

LEMMA SuffixRests ==
  ASSUME NEW q \in Seq(KeyBytes), NEW n \in 1 .. Len(q)
  PROVE  Rest(q, SubSeq(q, n + 1, Len(q)), n)
<1>1. Len(q) \in Nat
  BY LenProperties
<1>2. \A i \in (n + 1) .. Len(q) : q[i] \in KeyBytes
  BY <1>1, ElementOfSeq
<1>3. n + 1 \in Int /\ Len(q) \in Int
  BY <1>1
<1> DEFINE r == SubSeq(q, n + 1, Len(q))
<1>4. /\ r \in Seq(KeyBytes)
      /\ Len(r) = IF n + 1 <= Len(q) THEN Len(q) - (n + 1) + 1 ELSE 0
      /\ \A i \in 1 .. (Len(q) - (n + 1) + 1) : r[i] = q[(n + 1) + i - 1]
  BY <1>2, <1>3, SubSeqProperties
<1> HIDE DEF r
<1>5. Len(r) = Len(q) - n
  BY <1>1, <1>4
<1>6. \A i \in 1 .. Len(r) : r[i] = q[i + n]
  <2> SUFFICES ASSUME NEW i \in 1 .. Len(r) PROVE r[i] = q[i + n]
    OBVIOUS
  <2>1. i \in 1 .. (Len(q) - (n + 1) + 1)
    BY <1>1, <1>5
  <2>2. r[i] = q[(n + 1) + i - 1]
    BY <1>4, <2>1
  <2>3. (n + 1) + i - 1 = i + n
    BY <1>1, <1>5
  <2> QED BY <2>2, <2>3
<1> QED BY <1>4, <1>5, <1>6 DEF Rest, r

LEMMA RestKeeps ==
  ASSUME NEW q, NEW r, NEW n \in Nat, NEW down, Len(q) \in Nat, Rest(q, r, n),
         Sequences(q), LastWords(q, down)
  PROVE  /\ Sequences(r) /\ LastWords(r, down)
         /\ \A k : Unsent(q, k) => Unsent(r, k)
         /\ n >= 1 /\ n <= Len(q) /\ q[n].code # E0 /\ Len(r) >= 1 => ~Bare(r[1])
         /\ n >= 1 /\ n <= Len(q) /\ q[n].code = E0 => Len(r) >= 1 /\ Bare(r[1])
<1>1. /\ Len(r) = Len(q) - n /\ Len(r) \in Nat
      /\ \A i \in 1 .. Len(r) : r[i] = q[i + n] /\ i + n \in 1 .. Len(q)
  <2>1. Len(r) = Len(q) - n /\ Len(r) \in Nat /\ \A i \in 1 .. Len(r) : r[i] = q[i + n]
    BY LenProperties DEF Rest
  <2>2. \A i \in 1 .. Len(r) : i + n \in 1 .. Len(q)
    BY <2>1
  <2> QED BY <2>1, <2>2
<1>2. Sequences(r)
  <2> SUFFICES ASSUME NEW i \in 1 .. Len(r)
               PROVE  /\ r[i].code # E0 => r[i].code = Code(r[i].key)
                      /\ r[i].code = E0 => r[i].key \in Prefixed /\ i < Len(r)
                      /\ i < Len(r) => (r[i].code = E0 <=> Bare(r[i + 1]))
    BY DEF Sequences
  <2>1. r[i] = q[i + n] /\ i + n \in 1 .. Len(q)
    BY <1>1
  <2>2. /\ q[i + n].code # E0 => q[i + n].code = Code(q[i + n].key)
        /\ q[i + n].code = E0 => q[i + n].key \in Prefixed /\ i + n < Len(q)
        /\ i + n < Len(q) => (q[i + n].code = E0 <=> Bare(q[i + n + 1]))
    BY <2>1 DEF Sequences
  <2>3. i < Len(r) <=> i + n < Len(q)
    BY <1>1
  <2>4. i < Len(r) => r[i + 1] = q[i + n + 1]
    <3>1. i < Len(r) => i + 1 \in 1 .. Len(r) /\ i + 1 + n = i + n + 1
      BY <1>1
    <3>2. i + 1 \in 1 .. Len(r) => r[i + 1] = q[i + 1 + n]
      BY <1>1
    <3> QED BY <3>1, <3>2
  <2> QED BY <2>1, <2>2, <2>3, <2>4
<1>3. LastWords(r, down)
  <2> SUFFICES ASSUME NEW i \in 1 .. Len(r),
                      \A j \in 1 .. Len(r) : j > i => r[j].key # r[i].key
               PROVE  r[i].released <=> r[i].key \notin down
    BY DEF LastWords
  <2>1. r[i] = q[i + n] /\ i + n \in 1 .. Len(q)
    BY <1>1
  <2>2. ASSUME NEW j \in 1 .. Len(q), j > i + n PROVE q[j].key # q[i + n].key
    <3>1. j - n \in 1 .. Len(r) /\ j - n > i /\ (j - n) + n = j
      BY <1>1, <2>2
    <3>2. r[j - n] = q[(j - n) + n]
      BY <1>1, <3>1
    <3> QED BY <2>1, <3>1, <3>2
  <2> QED BY <2>1, <2>2 DEF LastWords
<1>4. \A k : Unsent(q, k) => Unsent(r, k)
  BY <1>1 DEF Unsent
<1>5. ASSUME n >= 1, n <= Len(q)
      PROVE  /\ q[n].code # E0 /\ Len(r) >= 1 => ~Bare(r[1])
             /\ q[n].code = E0 => Len(r) >= 1 /\ Bare(r[1])
  <2>1. n \in 1 .. Len(q)
    BY <1>5
  <2>2. /\ n < Len(q) => (q[n].code = E0 <=> Bare(q[n + 1]))
        /\ q[n].code = E0 => n < Len(q)
    BY <2>1 DEF Sequences
  <2>3. Len(r) >= 1 <=> n < Len(q)
    BY <1>1
  <2>4. Len(r) >= 1 => r[1] = q[n + 1]
    <3>1. 1 + n = n + 1 /\ (Len(r) >= 1 => 1 \in 1 .. Len(r))
      BY <1>1
    <3> QED BY <1>1, <3>1
  <2> QED BY <2>2, <2>3, <2>4
<1> QED BY <1>2, <1>3, <1>4, <1>5

(* What a key sends keeps all this true.                                   *)
LEMMA SendKeeps ==
  ASSUME KeyboardTypes, KeysInv, NEW k \in session.keys, NEW r \in BOOLEAN, Send(k, r),
         held' = IF r THEN held \ {k} ELSE held \cup {k}, missed' = missed \ {k},
         UNCHANGED <<pressed, caps_lock_active, extended_key_next, activated, torn>>
  PROVE  KeysInv'
<1>1. k \in AllKeys /\ queue \in Seq(KeyBytes) /\ Len(queue) \in Nat
  BY KeyboardAssumption, LenProperties DEF KeyboardTypes
<1>2. PICK n \in Nat, m \in Nat, b \in KeyBytes :
           /\ n = Len(queue) /\ m = Len(queue') /\ m <= session.queue
           /\ queue' \in Seq(KeyBytes) /\ events' \in Nat /\ events' <= session.events
           /\ b.code = Code(k) /\ b.released = r /\ b.key = k
           /\ b.shows = IF activated /\ ~r THEN Expected(k) ELSE NoKey
           /\ \A i \in 1 .. n : queue'[i] = queue[i]
           /\ queue'[m] = b
           /\ IF k \in Prefixed
                THEN /\ m = n + 2 /\ queue'[n + 1] \in KeyBytes
                     /\ queue'[n + 1].code = E0 /\ queue'[n + 1].key = k
                     /\ queue'[n + 1].released = r /\ queue'[n + 1].shows = NoKey
                ELSE m = n + 1
  BY SendFacts, ZenonT(30)
<1>3. m \in 1 .. m /\ n < m /\ \A i \in 1 .. n : i \in 1 .. m
  BY <1>2
<1>4. ASSUME NEW i \in 1 .. m
      PROVE  i \in 1 .. n \/ i = m \/ (k \in Prefixed /\ i = n + 1 /\ m = n + 2)
  BY <1>2
<1>5. \A i \in 1 .. m : i > n => queue'[i].key = k /\ queue'[i].released = r
  BY <1>2
<1>6. b.code # E0 /\ (Bare(b) <=> k \in Prefixed)
  BY <1>1, <1>2, KeysAre DEF Bare
<1>7. ~Bare(queue'[n + 1])
  <2>1. CASE k \in Prefixed
    BY <1>2, <2>1 DEF Bare
  <2>2. CASE k \notin Prefixed
    BY <1>2, <1>6, <2>2
  <2> QED BY <2>1, <2>2
<1>8. Sequences(queue)'
  <2> SUFFICES ASSUME NEW i \in 1 .. m
               PROVE  /\ queue'[i].code # E0 => queue'[i].code = Code(queue'[i].key)
                      /\ queue'[i].code = E0 => queue'[i].key \in Prefixed /\ i < m
                      /\ i < m => (queue'[i].code = E0 <=> Bare(queue'[i + 1]))
    BY <1>2 DEF Sequences, Bare
  <2>1. CASE i \in 1 .. n
    <3>1. /\ queue'[i] = queue[i]
          /\ queue[i].code # E0 => queue[i].code = Code(queue[i].key)
          /\ queue[i].code = E0 => queue[i].key \in Prefixed /\ i < n
          /\ i < n => (queue[i].code = E0 <=> Bare(queue[i + 1]))
      BY <1>2, <2>1 DEF KeysInv, Sequences
    <3>2. i < n => queue'[i + 1] = queue[i + 1]
      BY <1>2, <2>1
    <3>3. i = n => queue'[i + 1] = queue'[n + 1]
      OBVIOUS
    <3>4. i < n \/ i = n
      BY <2>1
    <3>5. i = n => queue[i].code # E0
      BY <3>1
    <3> QED BY <1>2, <1>3, <1>7, <2>1, <3>1, <3>2, <3>3, <3>4, <3>5
  <2>2. CASE i = m
    <3>1. queue'[i] = b /\ ~(i < m)
      BY <1>2, <2>2
    <3> QED BY <1>2, <1>6, <3>1
  <2>3. CASE k \in Prefixed /\ i = n + 1 /\ m = n + 2
    <3>1. /\ queue'[i].code = E0 /\ queue'[i].key = k /\ i < m /\ i + 1 = m
          /\ queue'[i + 1] = b
      BY <1>2, <2>3
    <3> QED BY <1>6, <2>3, <3>1
  <2> QED BY <1>4, <2>1, <2>2, <2>3
<1>9. LastWords(queue, held)'
  <2> SUFFICES ASSUME NEW i \in 1 .. m,
                      \A j \in 1 .. m : j > i => queue'[j].key # queue'[i].key
               PROVE  queue'[i].released <=> queue'[i].key \notin held'
    BY <1>2 DEF LastWords
  <2>1. CASE i > n
    <3>1. queue'[i].key = k /\ queue'[i].released = r
      BY <1>5, <2>1
    <3> QED BY <3>1
  <2>2. CASE ~ (i > n)
    <3>1. i \in 1 .. n /\ queue'[i] = queue[i] /\ m > i
      BY <1>2, <2>2
    <3>2. queue[i].key # k
      BY <1>2, <1>3, <3>1
    <3>3. \A j \in 1 .. n : j > i => queue[j].key # queue[i].key
      BY <1>2, <1>3, <3>1
    <3>4. queue[i].released <=> queue[i].key \notin held
      BY <1>2, <3>1, <3>3 DEF KeysInv, LastWords
    <3> QED BY <3>1, <3>2, <3>4
  <2> QED BY <2>1, <2>2
<1>10. ASSUME NEW l, l # k, Unsent(queue, l) PROVE Unsent(queue', l)
  <2> SUFFICES ASSUME NEW i \in 1 .. m PROVE queue'[i].key # l
    BY <1>2 DEF Unsent
  <2>1. CASE i > n
    BY <1>5, <1>10, <2>1
  <2>2. CASE ~ (i > n)
    BY <1>2, <1>10, <2>2 DEF Unsent
  <2> QED BY <2>1, <2>2
<1>11. ASSUME NEW l, ~Unsent(queue, l) PROVE ~Unsent(queue', l)
  BY <1>2, <1>3, <1>11 DEF Unsent
<1>12. ~Unsent(queue', k)
  BY <1>2, <1>3 DEF Unsent
<1>13. (\A l \in missed : Unsent(queue, l))'
  BY <1>10 DEF KeysInv, Unsent
<1>14. ~activated => \A i \in 1 .. m : queue'[i].shows = NoKey
  <2> SUFFICES ASSUME ~activated, NEW i \in 1 .. m PROVE queue'[i].shows = NoKey
    OBVIOUS
  <2>1. CASE i \in 1 .. n
    BY <1>2, <2>1 DEF KeysInv
  <2>2. CASE i = m
    BY <1>2, <2>2
  <2>3. CASE k \in Prefixed /\ i = n + 1 /\ m = n + 2
    BY <1>2, <2>3
  <2> QED BY <1>4, <2>1, <2>2, <2>3
<1>15. ~activated => \A l \in held' \ missed' : ~Unsent(queue', l)
  <2> SUFFICES ASSUME ~activated, NEW l \in held' \ missed' PROVE ~Unsent(queue', l)
    OBVIOUS
  <2>1. CASE l = k
    BY <1>12, <2>1
  <2>2. CASE l # k
    <3>1. l \in held \ missed
      BY <2>2
    <3> QED BY <1>11, <3>1 DEF KeysInv
  <2> QED BY <2>1, <2>2
<1>16. Bare(queue'[1]) /\ queue' # <<>> <=> Bare(queue[1]) /\ queue # <<>>
  <2>1. queue' # <<>>
    BY <1>2, <1>3, EmptySeq
  <2>2. CASE n = 0
    <3>1. queue = <<>>
      BY <1>1, <1>2, <2>2, EmptySeq
    <3>2. n + 1 = 1
      BY <2>2
    <3>3. ~Bare(queue'[1])
      BY <1>7, <3>2
    <3> QED BY <3>1, <3>3
  <2>3. CASE n # 0
    <3>1. queue # <<>> /\ queue'[1] = queue[1]
      BY <1>1, <1>2, <2>3, EmptySeq
    <3> QED BY <2>1, <3>1
  <2> QED BY <2>2, <2>3
<1>17. (~torn => IF queue # <<>> /\ Bare(queue[1]) THEN activated /\ extended_key_next
                                                  ELSE ~activated \/ ~extended_key_next)'
  BY <1>16 DEF KeysInv, Bare
<1>18. activated /\ ~torn =>
         \A l \in Tracked : Unsent(queue', l) => (l \in pressed <=> l \in held' \ missed')
  <2> SUFFICES ASSUME activated, ~torn, NEW l \in Tracked, Unsent(queue', l)
               PROVE  l \in pressed <=> l \in held' \ missed'
    OBVIOUS
  <2>1. l # k
    BY <1>12
  <2>2. Unsent(queue, l)
    BY <1>11
  <2>3. l \in pressed <=> l \in held \ missed
    BY <2>2 DEF KeysInv
  <2> QED BY <2>1, <2>3
<1>19. (~activated => /\ pressed = {} /\ ~caps_lock_active
                      /\ \A l \in held \ missed : ~Unsent(queue, l)
                      /\ \A i \in 1 .. Len(queue) : queue[i].shows = NoKey)'
  BY <1>2, <1>14, <1>15 DEF KeysInv, Unsent
<1>20. (activated /\ ~torn =>
         \A l \in Tracked : Unsent(queue, l) => (l \in pressed <=> l \in held \ missed))'
  BY <1>18 DEF Unsent
<1> QED BY <1>8, <1>9, <1>13, <1>17, <1>19, <1>20 DEF KeysInv

-----------------------------------------------------------------------------
(* The keyboard's handler.                                                 *)

(* The byte served is the first under way.                                 *)
LEMMA ReceiveFacts ==
  ASSUME KeyboardTypes, NEW code, NEW r, Receive(code, r)
  PROVE  \E b \in KeyBytes :
           /\ b = queue[1] /\ b.code = code /\ b.released = r
           /\ queue # <<>> /\ Rest(queue, queue', 1) /\ Len(queue) \in Nat /\ Len(queue) >= 1
           /\ activated
           /\ UNCHANGED <<activated, held, last, events, missed, lock, torn, capsRepeated>>
<1>1. queue \in Seq(KeyBytes) /\ queue # <<>>
  BY DEF KeyboardTypes, Receive
<1>2. /\ Rest(queue, Tail(queue), 1) /\ Head(queue) = queue[1] /\ queue[1] \in KeyBytes
      /\ Len(queue) \in Nat /\ Len(queue) >= 1
  BY <1>1, TailRests
<1>3. Rest(queue, queue', 1)
  BY <1>2 DEF Receive
<1> QED BY <1>1, <1>2, <1>3 DEF Receive, device, history

(* What the handler makes of a byte b of any key, where no prefix was torn *)
(* from its byte: only a modifier's own byte changes its flag, only a      *)
(* press of caps lock toggles it.                                          *)
Served(b) ==
  /\ b = queue[1] /\ queue # <<>> /\ Rest(queue, queue', 1)
  /\ Len(queue) \in Nat /\ Len(queue) >= 1 /\ activated
  /\ UNCHANGED <<activated, session, held, last, events, missed, lock, torn, capsRepeated>>
  /\ extended_key_next' = (b.code = E0)
  /\ pressed' \subseteq Tracked /\ caps_lock_active' \in BOOLEAN
  /\ tasks_should_stop' \in BOOLEAN
  /\ ~torn => /\ \A k \in Tracked : k \in pressed' <=> IF k = b.key THEN ~b.released
                                                                   ELSE k \in pressed
              /\ caps_lock_active' = IF b.key = "CapsLock" /\ ~b.released
                                       THEN ~caps_lock_active ELSE caps_lock_active

LEMMA HandlerFacts ==
  ASSUME KeyboardTypes, KeysInv, HandleInterrupt
  PROVE  \E b \in KeyBytes : Served(b)
<1>1. /\ pressed \subseteq Tracked /\ caps_lock_active \in BOOLEAN
      /\ tasks_should_stop \in BOOLEAN /\ extended_key_next \in BOOLEAN
  BY DEF KeyboardTypes
<1>2. ASSUME NEW code, NEW r, Receive(code, r)
      PROVE  \E b \in KeyBytes :
               /\ b = queue[1] /\ b.code = code /\ b.released = r
               /\ queue # <<>> /\ Rest(queue, queue', 1) /\ Len(queue) \in Nat
               /\ Len(queue) >= 1 /\ activated
               /\ UNCHANGED <<activated, held, last, events, missed, lock, torn,
                              capsRepeated>>
               /\ b.key \in AllKeys
               /\ b.code # E0 => b.code = Code(b.key)
               /\ b.code = E0 => b.key \in Prefixed
               /\ ~torn => (Bare(b) <=> extended_key_next) \/ b.code = E0
  <2>1. PICK b \in KeyBytes :
           /\ b = queue[1] /\ b.code = code /\ b.released = r
           /\ queue # <<>> /\ Rest(queue, queue', 1) /\ Len(queue) \in Nat /\ Len(queue) >= 1
           /\ activated
           /\ UNCHANGED <<activated, held, last, events, missed, lock, torn, capsRepeated>>
    BY <1>2, ReceiveFacts
  <2>2. 1 \in 1 .. Len(queue)
    BY <2>1
  <2>3. /\ b.code # E0 => b.code = Code(b.key)
        /\ b.code = E0 => b.key \in Prefixed
    BY <2>1, <2>2 DEF KeysInv, Sequences
  <2>4. ~torn => (Bare(b) <=> extended_key_next)
    BY <2>1 DEF KeysInv
  <2>5. b.key \in AllKeys
    BY DEF KeyBytes
  <2> QED BY <2>1, <2>3, <2>4, <2>5
<1>3. CASE HandlePrefix
  <2>1. PICK b \in KeyBytes :
               /\ b = queue[1] /\ b.code = E0
               /\ queue # <<>> /\ Rest(queue, queue', 1) /\ Len(queue) \in Nat
               /\ Len(queue) >= 1 /\ activated
               /\ UNCHANGED <<activated, held, last, events, missed, lock, torn,
                              capsRepeated>>
               /\ b.key \in Prefixed
    BY <1>2, <1>3 DEF HandlePrefix
  <2>2. /\ extended_key_next' = TRUE
        /\ UNCHANGED <<session, pressed, caps_lock_active, tasks_should_stop>>
    BY <1>3 DEF HandlePrefix, tvars
  <2>3. b.key \notin Tracked /\ b.key # "CapsLock"
    BY <2>1, KeysAre
  <2> QED BY <1>1, <2>1, <2>2, <2>3 DEF Served
<1>4. ASSUME NEW code, NEW r, HandleExtended(code, r)
      PROVE  \E b \in KeyBytes : Served(b)
  <2>1. PICK b \in KeyBytes :
               /\ b = queue[1] /\ b.code = code /\ b.released = r
               /\ queue # <<>> /\ Rest(queue, queue', 1) /\ Len(queue) \in Nat
               /\ Len(queue) >= 1 /\ activated
               /\ UNCHANGED <<activated, held, last, events, missed, lock, torn,
                              capsRepeated>>
               /\ ~torn => (Bare(b) <=> extended_key_next) \/ b.code = E0
    BY <1>2, <1>4 DEF HandleExtended
  <2>2. /\ code # E0 /\ extended_key_next /\ extended_key_next' = FALSE
        /\ UNCHANGED <<session, pressed, caps_lock_active, tasks_should_stop>>
    BY <1>4 DEF HandleExtended, Interrupted
  <2>3. ~torn => b.key \notin Tracked /\ b.key # "CapsLock"
    BY <2>1, <2>2, KeysAre DEF Bare
  <2> QED BY <1>1, <2>1, <2>2, <2>3 DEF Served
<1>5. ASSUME NEW code, NEW r \in BOOLEAN, HandleModifier(code, r)
      PROVE  \E b \in KeyBytes : Served(b)
  <2>1. PICK b \in KeyBytes :
               /\ b = queue[1] /\ b.code = code /\ b.released = r
               /\ queue # <<>> /\ Rest(queue, queue', 1) /\ Len(queue) \in Nat
               /\ Len(queue) >= 1 /\ activated
               /\ UNCHANGED <<activated, held, last, events, missed, lock, torn,
                              capsRepeated>>
               /\ b.key \in AllKeys
               /\ b.code # E0 => b.code = Code(b.key)
               /\ ~torn => (Bare(b) <=> extended_key_next) \/ b.code = E0
    BY <1>2, <1>5 DEF HandleModifier
  <2>2. /\ ~extended_key_next /\ code \in Tracked
        /\ pressed' = IF r THEN pressed \ {code} ELSE pressed \cup {code}
        /\ UNCHANGED <<session, extended_key_next, caps_lock_active, tasks_should_stop>>
    BY <1>5 DEF HandleModifier, tvars
  <2>3. code # E0
    BY <2>2, KeysAre
  <2>4. ~torn => b.key = code /\ b.key # "CapsLock"
    <3>1. ~torn => b.key \notin Prefixed
      BY <2>1, <2>2, <2>3 DEF Bare
    <3>2. ~torn => b.key = code
      BY <2>1, <2>3, <3>1, KeysAre
    <3> QED BY <2>2, <3>2, KeysAre
  <2>5. pressed' \subseteq Tracked
    BY <1>1, <2>2
  <2>6. extended_key_next' = (b.code = E0)
    BY <1>1, <2>1, <2>2, <2>3
  <2>7. ~torn => \A k \in Tracked : k \in pressed' <=> IF k = b.key THEN ~b.released
                                                                   ELSE k \in pressed
    BY <2>1, <2>2, <2>4
  <2> QED BY <1>1, <2>1, <2>2, <2>4, <2>5, <2>6, <2>7 DEF Served
<1>6. ASSUME NEW code, NEW r \in BOOLEAN, HandleKey(code, r)
      PROVE  \E b \in KeyBytes : Served(b)
  <2>1. PICK b \in KeyBytes :
               /\ b = queue[1] /\ b.code = code /\ b.released = r
               /\ queue # <<>> /\ Rest(queue, queue', 1) /\ Len(queue) \in Nat
               /\ Len(queue) >= 1 /\ activated
               /\ UNCHANGED <<activated, held, last, events, missed, lock, torn,
                              capsRepeated>>
               /\ b.key \in AllKeys
               /\ b.code # E0 => b.code = Code(b.key)
    BY <1>2, <1>6 DEF HandleKey
  <2>2. /\ ~extended_key_next /\ code \notin Tracked \cup {"CapsLock", E0}
        /\ UNCHANGED <<session, extended_key_next, pressed, caps_lock_active>>
        /\ tasks_should_stop' = (tasks_should_stop \/ (code = "Escape" /\ ~r))
    BY <1>6 DEF HandleKey, Interrupted
  <2>3. b.key \notin Tracked /\ b.key # "CapsLock"
    BY <2>1, <2>2, KeysAre
  <2>4. tasks_should_stop' \in BOOLEAN
    BY <2>2
  <2>5. extended_key_next' = (b.code = E0)
    BY <1>1, <2>1, <2>2
  <2> QED BY <1>1, <2>1, <2>2, <2>3, <2>4, <2>5 DEF Served
<1>7. ASSUME NEW r \in BOOLEAN, HandleCapsLock(r)
      PROVE  \E b \in KeyBytes : Served(b)
  <2>1. PICK b \in KeyBytes :
               /\ b = queue[1] /\ b.code = "CapsLock" /\ b.released = r
               /\ queue # <<>> /\ Rest(queue, queue', 1) /\ Len(queue) \in Nat
               /\ Len(queue) >= 1 /\ activated
               /\ UNCHANGED <<activated, held, last, events, missed, lock, torn,
                              capsRepeated>>
               /\ b.key \in AllKeys
               /\ b.code # E0 => b.code = Code(b.key)
    BY <1>2, <1>7 DEF HandleCapsLock
  <2>2. /\ ~extended_key_next
        /\ UNCHANGED <<session, extended_key_next, pressed, tasks_should_stop>>
        /\ caps_lock_active' = IF r THEN caps_lock_active ELSE ~caps_lock_active
    BY <1>7 DEF HandleCapsLock, tvars
  <2>3. b.key = "CapsLock" /\ b.code # E0
    <3>1. b.code # E0
      BY <2>1 DEF E0
    <3>2. \A k \in AllKeys : Code(k) = "CapsLock" => k = "CapsLock"
      BY DEF Code
    <3> QED BY <2>1, <3>1, <3>2
  <2>4. caps_lock_active' \in BOOLEAN /\ b.key \notin Tracked
    BY <1>1, <2>2, <2>3, KeysAre
  <2>5. extended_key_next' = (b.code = E0)
    BY <1>1, <2>1, <2>2, <2>3
  <2> QED BY <1>1, <2>1, <2>2, <2>3, <2>4, <2>5 DEF Served
<1> QED BY <1>3, <1>4, <1>5, <1>6, <1>7 DEF HandleInterrupt

LEMMA ServedKeeps ==
  ASSUME KeyboardTypes, KeysInv, NEW b \in KeyBytes, Served(b)
  PROVE  KeysInv'
<1>1. /\ b = queue[1] /\ queue # <<>> /\ Rest(queue, queue', 1)
      /\ Len(queue) \in Nat /\ Len(queue) >= 1 /\ activated
      /\ UNCHANGED <<activated, session, held, missed, torn>>
      /\ extended_key_next' = (b.code = E0)
  BY DEF Served
<1>2. /\ Sequences(queue') /\ LastWords(queue', held)
      /\ \A k : Unsent(queue, k) => Unsent(queue', k)
      /\ b.code # E0 /\ Len(queue') >= 1 => ~Bare(queue'[1])
      /\ b.code = E0 => Len(queue') >= 1 /\ Bare(queue'[1])
  BY <1>1, RestKeeps DEF KeysInv
<1>3. Sequences(queue)' /\ LastWords(queue, held)'
  BY <1>1, <1>2 DEF Sequences, LastWords, Bare
<1>4. (\A k \in missed : Unsent(queue, k))'
  BY <1>1, <1>2 DEF KeysInv, Unsent
<1>5. queue' # <<>> <=> Len(queue') >= 1
  <2>1. queue' \in Seq(KeyBytes)
    BY <1>1 DEF Rest
  <2> QED BY <2>1, LenProperties, EmptySeq
<1>6. (~torn => IF queue # <<>> /\ Bare(queue[1]) THEN activated /\ extended_key_next
                                                 ELSE ~activated \/ ~extended_key_next)'
  BY <1>1, <1>2, <1>5 DEF Bare
<1>7. ASSUME ~torn, NEW k \in Tracked, Unsent(queue', k)
      PROVE  k \in pressed' <=> k \in held \ missed
  <2>1. k \in pressed' <=> IF k = b.key THEN ~b.released ELSE k \in pressed
    BY <1>7 DEF Served
  <2>2. \A j \in 2 .. Len(queue) : queue[j].key # k
    <3> SUFFICES ASSUME NEW j \in 2 .. Len(queue) PROVE queue[j].key # k
      OBVIOUS
    <3>1. j - 1 \in 1 .. Len(queue') /\ queue'[j - 1] = queue[(j - 1) + 1]
      BY <1>1 DEF Rest
    <3>2. (j - 1) + 1 = j
      BY <1>1
    <3> QED BY <1>7, <3>1, <3>2 DEF Unsent
  <2>3. CASE k = b.key
    <3>1. 1 \in 1 .. Len(queue) /\ \A j \in 1 .. Len(queue) : j > 1 => queue[j].key # k
      BY <1>1, <2>2
    <3>2. b.released <=> k \notin held
      BY <1>1, <2>3, <3>1 DEF KeysInv, LastWords
    <3>3. k \notin missed
      BY <1>1, <2>3, <3>1 DEF KeysInv, Unsent
    <3> QED BY <2>1, <2>3, <3>2, <3>3
  <2>4. CASE k # b.key
    <3>1. Unsent(queue, k)
      BY <1>1, <2>2, <2>4 DEF Unsent
    <3>2. k \in pressed <=> k \in held \ missed
      BY <1>1, <1>7, <3>1 DEF KeysInv
    <3> QED BY <2>1, <2>4, <3>2
  <2> QED BY <2>3, <2>4
<1>8. (activated /\ ~torn =>
         \A k \in Tracked : Unsent(queue, k) => (k \in pressed <=> k \in held \ missed))'
  BY <1>1, <1>7 DEF Unsent
<1> QED BY <1>1, <1>3, <1>4, <1>6, <1>8 DEF KeysInv

LEMMA ServedTypes ==
  ASSUME KeyboardTypes, NEW b \in KeyBytes, Served(b)
  PROVE  KeyboardTypes'
<1>1. Len(queue') = Len(queue) - 1 /\ queue' \in Seq(KeyBytes) /\ Len(queue) \in Nat
  BY DEF Served, Rest
<1>2. session.queue \in Nat /\ Len(queue) <= session.queue
  BY KeyboardAssumption DEF KeyboardTypes
<1>3. Len(queue') <= session.queue
  BY <1>1, <1>2
<1>4. extended_key_next' \in BOOLEAN
  BY DEF Served
<1> QED BY <1>1, <1>3, <1>4 DEF KeyboardTypes, Served

(* initialize(), before the driver is active.                              *)
LEMMA InitializeKeeps ==
  ASSUME KeyboardTypes, KeysInv, NEW n \in DOMAIN queue, Initialize(n)
  PROVE  KeyboardTypes' /\ KeysInv'
<1>1. queue \in Seq(KeyBytes) /\ Len(queue) \in Nat /\ DOMAIN queue = 1 .. Len(queue)
  BY LenProperties DEF KeyboardTypes
<1>2. /\ ~activated /\ queue' = SubSeq(queue, n + 1, Len(queue))
      /\ missed' = {k \in held : \A i \in DOMAIN queue' : queue'[i].key # k}
      /\ lock' \in BOOLEAN /\ torn' = (torn \/ queue[n].code = E0)
      /\ UNCHANGED <<tvars, driver, activated, device, capsRepeated>>
  BY DEF Initialize
<1>3. Rest(queue, queue', n)
  BY <1>1, <1>2, SuffixRests
<1>4. /\ queue' \in Seq(KeyBytes) /\ Len(queue') = Len(queue) - n /\ Len(queue') \in Nat
      /\ DOMAIN queue' = 1 .. Len(queue') /\ (queue' # <<>> <=> Len(queue') >= 1)
      /\ \A i \in 1 .. Len(queue') : queue'[i] = queue[i + n] /\ i + n \in 1 .. Len(queue)
  <2>1. /\ queue' \in Seq(KeyBytes) /\ Len(queue') = Len(queue) - n
        /\ \A i \in 1 .. Len(queue') : queue'[i] = queue[i + n]
    BY <1>3 DEF Rest
  <2>2. /\ Len(queue') \in Nat /\ DOMAIN queue' = 1 .. Len(queue')
        /\ (queue' # <<>> <=> Len(queue') >= 1)
    BY <2>1, LenProperties, EmptySeq
  <2>3. \A i \in 1 .. Len(queue') : i + n \in 1 .. Len(queue)
    BY <1>1, <2>1
  <2> QED BY <2>1, <2>2, <2>3
<1>5. KeyboardTypes'
  <2>1. Len(queue') <= session.queue
    <3>1. session.queue \in Nat /\ Len(queue) <= session.queue
      BY KeyboardAssumption DEF KeyboardTypes
    <3> QED BY <1>1, <1>4, <3>1
  <2>2. missed' \subseteq held /\ torn' \in BOOLEAN
    BY <1>2 DEF KeyboardTypes
  <2> QED BY <1>2, <1>4, <2>1, <2>2 DEF KeyboardTypes, tvars, driver, device
<1>6. /\ Sequences(queue') /\ LastWords(queue', held)
      /\ queue[n].code # E0 /\ Len(queue') >= 1 => ~Bare(queue'[1])
  <2>1. n \in Nat /\ n >= 1 /\ n <= Len(queue)
    BY <1>1
  <2> QED BY <1>1, <1>3, <2>1, RestKeeps DEF KeysInv
<1>7. Sequences(queue)' /\ LastWords(queue, held)'
  BY <1>2, <1>6 DEF Sequences, LastWords, Bare, device
<1>8. (\A k \in missed : Unsent(queue, k))'
  BY <1>2, <1>4 DEF Unsent
<1>9. (~activated => /\ pressed = {} /\ ~caps_lock_active
                     /\ \A k \in held \ missed : ~Unsent(queue, k)
                     /\ \A i \in 1 .. Len(queue) : queue[i].shows = NoKey)'
  <2>1. \A k \in held \ missed' : ~Unsent(queue', k)
    BY <1>2, <1>4 DEF Unsent
  <2>2. \A i \in 1 .. Len(queue') : queue'[i].shows = NoKey
    BY <1>2, <1>4 DEF KeysInv
  <2> QED BY <1>2, <2>1, <2>2 DEF KeysInv, Unsent, driver, device
<1>10. (~torn => IF queue # <<>> /\ Bare(queue[1]) THEN activated /\ extended_key_next
                                                  ELSE ~activated \/ ~extended_key_next)'
  BY <1>2, <1>4, <1>6 DEF Bare
<1> QED BY <1>2, <1>5, <1>7, <1>8, <1>9, <1>10 DEF KeysInv

LEMMA ActivateKeeps ==
  ASSUME KeyboardTypes, KeysInv, Activate
  PROVE  KeyboardTypes' /\ KeysInv'
<1>1. /\ ~activated /\ activated' = TRUE /\ pressed' = {} /\ extended_key_next' = FALSE
      /\ UNCHANGED <<session, caps_lock_active, tasks_should_stop, held, last, events, queue,
                     missed, lock, torn, capsRepeated>>
  BY DEF Activate, tvars, device, history
<1>2. KeyboardTypes'
  BY <1>1 DEF KeyboardTypes
<1>3. ~torn => ~(queue # <<>> /\ Bare(queue[1]))
  BY <1>1 DEF KeysInv
<1>4. \A k \in Tracked : Unsent(queue, k) => k \notin held \ missed
  BY <1>1 DEF KeysInv
<1>5. Sequences(queue)' /\ LastWords(queue, held)' /\ (\A k \in missed : Unsent(queue, k))'
  BY <1>1 DEF KeysInv, Sequences, LastWords, Bare, Unsent
<1>6. (~torn => IF queue # <<>> /\ Bare(queue[1]) THEN activated /\ extended_key_next
                                                 ELSE ~activated \/ ~extended_key_next)'
  BY <1>1, <1>3 DEF Bare
<1>7. (activated /\ ~torn =>
         \A k \in Tracked : Unsent(queue, k) => (k \in pressed <=> k \in held \ missed))'
  BY <1>1, <1>4 DEF Unsent
<1> QED BY <1>1, <1>2, <1>5, <1>6, <1>7 DEF KeysInv

LEMMA KeyEvents ==
  ASSUME KeyboardTypes, KeysInv, NEW k \in session.keys, Press(k) \/ Repeat(k) \/ Release(k)
  PROVE  KeyboardTypes' /\ KeysInv'
<1>1. PICK r \in BOOLEAN :
        /\ Send(k, r) /\ held' = IF r THEN held \ {k} ELSE held \cup {k}
        /\ missed' = missed \ {k} /\ last' \in held' \cup {NoKey}
        /\ lock' \in BOOLEAN /\ capsRepeated' \in BOOLEAN
        /\ UNCHANGED <<session, pressed, caps_lock_active, extended_key_next,
                       tasks_should_stop, activated, torn>>
  <2>1. CASE Press(k)
    BY <2>1 DEF Press, KeyboardTypes, tvars, driver
  <2>2. CASE Repeat(k)
    <3>1. held \cup {k} = held
      BY <2>2 DEF Repeat
    <3> QED BY <2>2, <3>1 DEF Repeat, KeyboardTypes, tvars, driver
  <2>3. CASE Release(k)
    BY <2>3 DEF Release, KeyboardTypes, tvars, driver
  <2> QED BY <2>1, <2>2, <2>3
<1>2. KeysInv'
  BY <1>1, SendKeeps
<1>3. /\ queue' \in Seq(KeyBytes) /\ Len(queue') <= session.queue
      /\ events' \in Nat /\ events' <= session.events
  BY <1>1, SendFacts
<1>4. missed' \subseteq held' /\ held' \subseteq session.keys
  BY <1>1 DEF KeyboardTypes
<1> QED BY <1>1, <1>2, <1>3, <1>4 DEF KeyboardTypes

LEMMA KeyboardInit == InitTerminal /\ InitKeyboard => KeyboardTypes /\ KeysInv
<1> SUFFICES ASSUME InitTerminal, InitKeyboard PROVE KeyboardTypes /\ KeysInv
  OBVIOUS
<1> USE DEF InitTerminal, InitKeyboard
<1>1. session.queue \in Nat /\ session.events \in Nat
  BY KeyboardAssumption
<1>2. queue = <<>> /\ queue \in Seq(KeyBytes) /\ Len(queue) = 0
  BY EmptySeq
<1>6. session \in Sessions /\ pressed \subseteq Tracked
  OBVIOUS
<1>7. missed \subseteq held /\ held \subseteq session.keys /\ last \in held \cup {NoKey}
  OBVIOUS
<1>8. Len(queue) <= session.queue /\ events \in Nat /\ events <= session.events
  BY <1>1, <1>2
<1>9. /\ caps_lock_active \in BOOLEAN /\ extended_key_next \in BOOLEAN
      /\ tasks_should_stop \in BOOLEAN /\ activated \in BOOLEAN
      /\ lock \in BOOLEAN /\ torn \in BOOLEAN /\ capsRepeated \in BOOLEAN
  BY Zenon
<1>3. KeyboardTypes
  BY <1>2, <1>6, <1>7, <1>8, <1>9, Zenon DEF KeyboardTypes
<1>4. \A i \in 1 .. Len(queue) : FALSE
  BY <1>2
<1>5. Sequences(queue) /\ LastWords(queue, held)
  BY <1>4 DEF Sequences, LastWords
<1> QED BY <1>2, <1>3, <1>4, <1>5 DEF KeysInv

LEMMA KeyboardNext ==
  ASSUME KeyboardTypes, KeysInv, NextKeyboard
  PROVE  KeyboardTypes' /\ KeysInv'
<1>1. CASE HandleInterrupt
  <2>1. PICK b \in KeyBytes : Served(b)
    BY <1>1, HandlerFacts
  <2> QED BY <2>1, ServedKeeps, ServedTypes
<1> QED BY <1>1, KeyEvents, InitializeKeeps, ActivateKeeps DEF NextKeyboard

LEMMA KeyboardSame ==
  ASSUME KeyboardTypes, KeysInv, UNCHANGED <<session, kvars>>
  PROVE  KeyboardTypes' /\ KeysInv'
BY DEF KeyboardTypes, KeysInv, kvars, driver, device, history, Sequences, LastWords,
       Unsent, Bare

-----------------------------------------------------------------------------
(* What a key shows: shift and caps lock, as the bytes under way leave     *)
(* them.                                                                   *)

Odd(S) == Cardinality(S) % 2 = 1

(* The presses of caps lock among the first i bytes of q.                  *)
Locks(q, i) == {j \in 1 .. i : q[j].key = "CapsLock" /\ ~q[j].released}

(* What caps lock is once the first i bytes of q are served.               *)
Locked(q, caps, i) == ~(caps <=> Odd(Locks(q, i)))

(* Whether the driver takes k to be down once they are.                    *)
Down(q, flags, k, i) ==
  IF \E j \in 1 .. i : q[j].key = k
    THEN \E j \in 1 .. i : /\ q[j].key = k /\ ~q[j].released
                           /\ \A l \in 1 .. i : l > j => q[l].key # k
    ELSE k \in flags

Tells(b, shift, locked) ==
  \/ b.code = "a" /\ b.shows = IF shift <=> locked THEN "a" ELSE "A"
  \/ b.code = "1" /\ b.shows = IF shift THEN "!" ELSE "1"

(* A byte shows what the bytes before it will make the driver show.        *)
Foretold(q, flags, caps) ==
  \A i \in 1 .. Len(q) :
    q[i].shows # NoKey =>
      Tells(q[i], \E k \in Shifts : Down(q, flags, k, i - 1), Locked(q, caps, i - 1))

TypedInv ==
  ~torn /\ ~capsRepeated =>
    /\ lock <=> Locked(queue, caps_lock_active, Len(queue))
    /\ Foretold(queue, pressed, caps_lock_active)

LEMMA OddAdd ==
  ASSUME NEW S, IsFiniteSet(S), NEW x, x \notin S
  PROVE  Odd(S \cup {x}) <=> ~Odd(S)
<1>1. Cardinality(S) \in Nat /\ Cardinality(S \cup {x}) = Cardinality(S) + 1
  BY FS_CardinalityType, FS_AddElement
<1> QED BY <1>1 DEF Odd

LEMMA OddShift ==
  ASSUME NEW S, IsFiniteSet(S), S \subseteq Nat
  PROVE  /\ IsFiniteSet({j + 1 : j \in S})
         /\ Odd({j + 1 : j \in S}) <=> Odd(S)
<1> DEFINE T == {j + 1 : j \in S}
           f == [j \in S |-> j + 1]
<1>1. f \in [S -> T]
  OBVIOUS
<1>2. \A i, j \in S : f[i] = f[j] => i = j
  OBVIOUS
<1>3. \A t \in T : \E j \in S : f[j] = t
  OBVIOUS
<1>4. ExistsBijection(S, T)
  <2> HIDE DEF T, f
  <2>1. f \in Bijection(S, T)
    BY <1>1, <1>2, <1>3 DEF Bijection, Injection, Surjection, IsInjective
  <2> QED BY <2>1 DEF ExistsBijection
<1>5. IsFiniteSet(T) /\ Cardinality(T) = Cardinality(S)
  BY <1>4, FS_Bijection
<1> QED BY <1>5 DEF Odd

LEMMA LocksFinite ==
  ASSUME NEW q, NEW i \in Nat
  PROVE  IsFiniteSet(Locks(q, i)) /\ Locks(q, i) \subseteq 1 .. i
<1>1. IsFiniteSet(1 .. i)
  BY FS_Interval
<1>2. Locks(q, i) \in SUBSET (1 .. i)
  BY DEF Locks
<1> QED BY <1>1, <1>2, FS_Subset

LEMMA LockedRest ==
  ASSUME NEW q, NEW r, Rest(q, r, 1), Len(q) \in Nat, Len(q) >= 1,
         NEW caps \in BOOLEAN, NEW now \in BOOLEAN,
         now <=> ~(caps <=> (q[1].key = "CapsLock" /\ ~q[1].released)),
         NEW i \in Nat, i <= Len(r)
  PROVE  Locked(r, now, i) <=> Locked(q, caps, i + 1)
<1> DEFINE S == Locks(r, i)
           T == {j + 1 : j \in S}
           U == Locks(q, i + 1)
<1>1. IsFiniteSet(S) /\ S \subseteq 1 .. i /\ S \subseteq Nat
  BY LocksFinite
<1>2. IsFiniteSet(T) /\ (Odd(T) <=> Odd(S))
  BY <1>1, OddShift
<1>3. \A j \in 1 .. i : r[j] = q[j + 1]
  BY DEF Rest
<1>4. 1 \notin T
  BY <1>1
<1>5. \A j \in 2 .. (i + 1) : j \in U <=> j \in T
  <2> SUFFICES ASSUME NEW j \in 2 .. (i + 1) PROVE j \in U <=> j \in T
    OBVIOUS
  <2>1. PICK l \in 1 .. i : j = l + 1
    <3>1. j - 1 \in 1 .. i /\ j = (j - 1) + 1
      OBVIOUS
    <3> QED BY <3>1
  <2>2. l \in S <=> j \in U
    BY <1>3, <2>1 DEF Locks
  <2>3. l \in S <=> j \in T
    BY <1>1, <2>1
  <2> QED BY <2>2, <2>3
<1>6. 1 \in U <=> q[1].key = "CapsLock" /\ ~q[1].released
  BY DEF Locks
<1>7. U \subseteq 1 .. (i + 1) /\ T \subseteq 1 .. (i + 1)
  BY <1>1 DEF Locks
<1>10. \A j \in 1 .. (i + 1) : j = 1 \/ j \in 2 .. (i + 1)
  OBVIOUS
<1>8. 1 \in T \cup {1} /\ 1 \in 1 .. (i + 1) /\ T \cup {1} \subseteq 1 .. (i + 1)
  BY <1>7
<1>9. /\ Locked(r, now, i) <=> ~(now <=> Odd(S))
      /\ Locked(q, caps, i + 1) <=> ~(caps <=> Odd(U))
  BY DEF Locked
<1>11. U = (IF 1 \in U THEN T \cup {1} ELSE T)
  <2> HIDE DEF S, T, U
  <2>1. \A j \in 1 .. (i + 1) : j \in U <=> j \in (IF 1 \in U THEN T \cup {1} ELSE T)
    BY <1>4, <1>5, <1>10
  <2> QED BY <1>7, <1>8, <2>1
<1> HIDE DEF S, T, U
<1>12. Odd(U) <=> ~(Odd(T) <=> 1 \in U)
  BY <1>2, <1>4, <1>11, OddAdd
<1> QED BY <1>2, <1>6, <1>9, <1>12

LEMMA DownRest ==
  ASSUME NEW q, NEW r, Rest(q, r, 1), Len(q) \in Nat, Len(q) >= 1,
         NEW k, NEW flags, NEW now,
         k \in now <=> IF k = q[1].key THEN ~q[1].released ELSE k \in flags,
         NEW i \in Nat, i <= Len(r)
  PROVE  Down(r, now, k, i) <=> Down(q, flags, k, i + 1)
<1>1. \A j \in 1 .. i : r[j] = q[j + 1] /\ j + 1 \in 1 .. (i + 1)
  BY DEF Rest
<1>2. \A j \in 2 .. (i + 1) : j - 1 \in 1 .. i /\ q[j] = r[j - 1]
  <2> SUFFICES ASSUME NEW j \in 2 .. (i + 1) PROVE j - 1 \in 1 .. i /\ q[j] = r[j - 1]
    OBVIOUS
  <2>1. j - 1 \in 1 .. i /\ (j - 1) + 1 = j
    OBVIOUS
  <2> QED BY <1>1, <2>1
<1>3. \A j \in 1 .. (i + 1) : j = 1 \/ j \in 2 .. (i + 1)
  OBVIOUS
<1>4. CASE \E j \in 1 .. i : r[j].key = k
  <2>1. \E j \in 1 .. (i + 1) : q[j].key = k
    BY <1>1, <1>4
  <2>2. PICK m \in 2 .. (i + 1) : q[m].key = k
    <3>1. PICK j \in 1 .. i : r[j].key = k
      BY <1>4
    <3>2. j + 1 \in 2 .. (i + 1) /\ q[j + 1].key = k
      BY <1>1, <3>1
    <3> QED BY <3>2
  <2>3. ASSUME NEW j \in 1 .. i, r[j].key = k, ~r[j].released,
               \A l \in 1 .. i : l > j => r[l].key # k
        PROVE  /\ j + 1 \in 1 .. (i + 1) /\ q[j + 1].key = k /\ ~q[j + 1].released
               /\ \A l \in 1 .. (i + 1) : l > j + 1 => q[l].key # k
    <3>1. j + 1 \in 1 .. (i + 1) /\ q[j + 1] = r[j]
      BY <1>1
    <3>2. ASSUME NEW l \in 1 .. (i + 1), l > j + 1 PROVE q[l].key # k
      <4>1. l \in 2 .. (i + 1) /\ l - 1 > j
        BY <3>2
      <4> QED BY <1>2, <2>3, <4>1
    <3> QED BY <2>3, <3>1, <3>2
  <2>4. ASSUME NEW j \in 1 .. (i + 1), q[j].key = k, ~q[j].released,
               \A l \in 1 .. (i + 1) : l > j => q[l].key # k
        PROVE  /\ j - 1 \in 1 .. i /\ r[j - 1].key = k /\ ~r[j - 1].released
               /\ \A l \in 1 .. i : l > j - 1 => r[l].key # k
    <3>1. j \in 2 .. (i + 1)
      <4>1. j # 1
        BY <2>2, <2>4
      <4> QED BY <1>3, <4>1
    <3>2. j - 1 \in 1 .. i /\ q[j] = r[j - 1]
      BY <1>2, <3>1
    <3>3. ASSUME NEW l \in 1 .. i, l > j - 1 PROVE r[l].key # k
      <4>1. l + 1 > j /\ r[l] = q[l + 1] /\ l + 1 \in 1 .. (i + 1)
        BY <1>1, <3>3
      <4> QED BY <2>4, <4>1
    <3> QED BY <2>4, <3>2, <3>3
  <2> QED BY <1>4, <2>1, <2>3, <2>4 DEF Down
<1>5. CASE \A j \in 1 .. i : r[j].key # k
  <2>1. \A j \in 2 .. (i + 1) : q[j].key # k
    BY <1>2, <1>5
  <2>2. Down(r, now, k, i) <=> k \in now
    BY <1>5 DEF Down
  <2>3. 1 \in 1 .. (i + 1)
    OBVIOUS
  <2>4. CASE q[1].key = k
    <3>1. \A l \in 1 .. (i + 1) : l > 1 => q[l].key # k
      BY <1>3, <2>1
    <3>2. Down(q, flags, k, i + 1) <=> ~q[1].released
      BY <1>3, <2>1, <2>3, <2>4, <3>1 DEF Down
    <3> QED BY <2>2, <2>4, <3>2
  <2>5. CASE q[1].key # k
    <3>1. \A j \in 1 .. (i + 1) : q[j].key # k
      BY <1>3, <2>1, <2>5
    <3>2. Down(q, flags, k, i + 1) <=> k \in flags
      BY <3>1 DEF Down
    <3> QED BY <2>2, <2>5, <3>2
  <2> QED BY <2>4, <2>5
<1> QED BY <1>4, <1>5

LEMMA SameStart ==
  ASSUME NEW q, NEW r, NEW i \in Nat, \A j \in 1 .. i : r[j] = q[j], NEW flags, NEW caps
  PROVE  /\ Locked(r, caps, i) <=> Locked(q, caps, i)
         /\ \A k : Down(r, flags, k, i) <=> Down(q, flags, k, i)
<1>1. Locks(r, i) = Locks(q, i)
  BY DEF Locks
<1> QED BY <1>1 DEF Locked, Down

(* The modifiers' state, once all the bytes under way are served.          *)
LEMMA DownNow ==
  ASSUME KeyboardTypes, KeysInv, activated, ~torn, NEW k \in Tracked
  PROVE  Down(queue, pressed, k, Len(queue)) <=> k \in held \ missed
<1>1. Len(queue) \in Nat
  BY LenProperties DEF KeyboardTypes
<1>2. CASE Unsent(queue, k)
  BY <1>2 DEF KeysInv, Unsent, Down
<1>3. CASE ~Unsent(queue, k)
  <2> DEFINE S == {j \in 1 .. Len(queue) : queue[j].key = k}
  <2>1. S \subseteq 0 .. Len(queue) /\ S # {}
    BY <1>1, <1>3 DEF Unsent
  <2>2. PICK m \in S : \A j \in S : m >= j
    BY <1>1, <2>1, Greatest
  <2>3. \A j \in 1 .. Len(queue) : j > m => queue[j].key # k
    BY <2>2
  <2>4. queue[m].released <=> k \notin held
    BY <2>3 DEF KeysInv, LastWords
  <2>5. k \notin missed
    BY <1>3 DEF KeysInv
  <2>6. Down(queue, pressed, k, Len(queue)) <=> ~queue[m].released
    <3>1. \E j \in 1 .. Len(queue) : queue[j].key = k
      BY <2>2
    <3>2. ~queue[m].released => Down(queue, pressed, k, Len(queue))
      BY <2>3, <3>1 DEF Down
    <3>3. ASSUME NEW j \in 1 .. Len(queue), queue[j].key = k,
                 \A l \in 1 .. Len(queue) : l > j => queue[l].key # k
          PROVE  j = m
      BY <2>2, <3>3
    <3>4. Down(queue, pressed, k, Len(queue)) => ~queue[m].released
      BY <3>1, <3>3 DEF Down
    <3> QED BY <3>2, <3>4
  <2> QED BY <2>4, <2>5, <2>6
<1> QED BY <1>2, <1>3

LEMMA LockedGrows ==
  ASSUME NEW q, NEW n \in Nat, NEW m \in Nat, n < m, NEW caps \in BOOLEAN,
         \A i \in (n + 1) .. (m - 1) : q[i].key # "CapsLock"
  PROVE  Locked(q, caps, m) <=>
           ~(Locked(q, caps, n) <=> (q[m].key = "CapsLock" /\ ~q[m].released))
<1> DEFINE S == Locks(q, n)
           T == Locks(q, m)
<1>1. IsFiniteSet(S) /\ m \notin S
  BY LocksFinite
<1>2. m \in T <=> q[m].key = "CapsLock" /\ ~q[m].released
  BY DEF Locks
<1>3. \A i : i \in T <=> (i \in S \/ (i = m /\ m \in T))
  <2> SUFFICES ASSUME NEW i PROVE i \in T <=> (i \in S \/ (i = m /\ m \in T))
    OBVIOUS
  <2>1. i \in 1 .. m <=> i \in 1 .. n \/ i \in (n + 1) .. (m - 1) \/ i = m
    OBVIOUS
  <2>2. i \in 1 .. n => (i \in T <=> i \in S)
    BY <2>1 DEF Locks
  <2>3. i \in S => i \in 1 .. n
    BY DEF Locks
  <2>4. i \in T => i \in 1 .. m /\ q[i].key = "CapsLock"
    BY DEF Locks
  <2> HIDE DEF S, T
  <2> QED BY <2>1, <2>2, <2>3, <2>4
<1>4. T = (IF m \in T THEN S \cup {m} ELSE S)
  <2> HIDE DEF S, T
  <2> QED BY <1>3
<1>5. /\ Locked(q, caps, n) <=> ~(caps <=> Odd(S))
      /\ Locked(q, caps, m) <=> ~(caps <=> Odd(T))
  BY DEF Locked
<1> HIDE DEF S, T
<1>6. Odd(T) <=> ~(Odd(S) <=> m \in T)
  BY <1>1, <1>4, OddAdd
<1> QED BY <1>2, <1>5, <1>6

(* What a key sends shows what the driver will make of it.                 *)
LEMMA SendTells ==
  ASSUME KeyboardTypes, KeysInv, TypedInv, NEW k \in session.keys, NEW r \in BOOLEAN,
         Send(k, r), lock' \in BOOLEAN,
         ~capsRepeated' => /\ ~capsRepeated
                           /\ lock' <=> ~(lock <=> (k = "CapsLock" /\ ~r)),
         UNCHANGED <<pressed, caps_lock_active, activated, torn>>
  PROVE  TypedInv'
<1> SUFFICES ASSUME ~torn, ~capsRepeated'
             PROVE  /\ lock' <=> Locked(queue', caps_lock_active, Len(queue'))
                    /\ Foretold(queue', pressed, caps_lock_active)
  BY DEF TypedInv, Foretold, Locked, Down, Locks
<1>1. /\ lock \in BOOLEAN /\ caps_lock_active \in BOOLEAN
      /\ lock' <=> ~(lock <=> (k = "CapsLock" /\ ~r))
      /\ lock <=> Locked(queue, caps_lock_active, Len(queue))
      /\ Foretold(queue, pressed, caps_lock_active)
  BY DEF TypedInv, KeyboardTypes
<1>2. PICK n \in Nat, m \in Nat, b \in KeyBytes :
           /\ n = Len(queue) /\ m = Len(queue') /\ m <= session.queue
           /\ queue' \in Seq(KeyBytes) /\ events' \in Nat /\ events' <= session.events
           /\ b.code = Code(k) /\ b.released = r /\ b.key = k
           /\ b.shows = IF activated /\ ~r THEN Expected(k) ELSE NoKey
           /\ \A i \in 1 .. n : queue'[i] = queue[i]
           /\ queue'[m] = b
           /\ IF k \in Prefixed
                THEN /\ m = n + 2 /\ queue'[n + 1] \in KeyBytes
                     /\ queue'[n + 1].code = E0 /\ queue'[n + 1].key = k
                     /\ queue'[n + 1].released = r /\ queue'[n + 1].shows = NoKey
                ELSE m = n + 1
  BY SendFacts
<1>3. \A i \in (n + 1) .. (m - 1) : i = n + 1 /\ k \in Prefixed /\ queue'[i].key # "CapsLock"
  BY <1>2, KeysAre
<1>4. \A i \in 0 .. n :
        /\ Locked(queue', caps_lock_active, i) <=> Locked(queue, caps_lock_active, i)
        /\ \A l : Down(queue', pressed, l, i) <=> Down(queue, pressed, l, i)
  <2> SUFFICES ASSUME NEW i \in 0 .. n
               PROVE  /\ Locked(queue', caps_lock_active, i) <=> Locked(queue, caps_lock_active, i)
                      /\ \A l : Down(queue', pressed, l, i) <=> Down(queue, pressed, l, i)
    OBVIOUS
  <2>1. i \in Nat /\ \A j \in 1 .. i : queue'[j] = queue[j]
    BY <1>2
  <2> QED BY <2>1, SameStart
<1>5. lock <=> Locked(queue', caps_lock_active, n)
  BY <1>1, <1>2, <1>4
<1>6. lock' <=> Locked(queue', caps_lock_active, m)
  <2>1. n < m
    BY <1>2
  <2>2. Locked(queue', caps_lock_active, m) <=>
          ~(Locked(queue', caps_lock_active, n) <=>
             (queue'[m].key = "CapsLock" /\ ~queue'[m].released))
    BY <1>1, <1>3, <2>1, LockedGrows
  <2> QED BY <1>1, <1>2, <1>5, <2>2
<1>7. ASSUME NEW i \in 1 .. m, queue'[i].shows # NoKey
      PROVE  Tells(queue'[i], \E l \in Shifts : Down(queue', pressed, l, i - 1),
                              Locked(queue', caps_lock_active, i - 1))
  <2>1. CASE i <= n
    <3>1. i \in 1 .. Len(queue) /\ i - 1 \in 0 .. n /\ queue'[i] = queue[i]
      BY <1>2, <2>1
    <3>2. Tells(queue[i], \E l \in Shifts : Down(queue, pressed, l, i - 1),
                          Locked(queue, caps_lock_active, i - 1))
      BY <1>1, <1>7, <3>1 DEF Foretold
    <3>3. /\ Locked(queue', caps_lock_active, i - 1) <=> Locked(queue, caps_lock_active, i - 1)
          /\ (\E l \in Shifts : Down(queue', pressed, l, i - 1)) <=>
               (\E l \in Shifts : Down(queue, pressed, l, i - 1))
      BY <1>4, <3>1
    <3> QED BY <3>1, <3>2, <3>3 DEF Tells
  <2>2. CASE i > n
    <3>1. i = m /\ queue'[i] = b
      BY <1>2, <1>7, <2>2
    <3>2. activated /\ ~r /\ b.shows = Expected(k) /\ Expected(k) # NoKey
      BY <1>2, <1>7, <3>1
    <3>3. k \in {"a", "1"}
      BY <3>2 DEF Expected
    <3>4. i - 1 = n /\ b.code = k
      BY <1>2, <3>1, <3>3 DEF Prefixed, Code
    <3>5. \A l \in Shifts : Down(queue', pressed, l, n) <=> l \in held \ missed
      <4> SUFFICES ASSUME NEW l \in Shifts
                   PROVE  Down(queue', pressed, l, n) <=> l \in held \ missed
        OBVIOUS
      <4>1. l \in Tracked
        BY KeysAre
      <4>2. Down(queue, pressed, l, n) <=> l \in held \ missed
        BY <1>2, <3>2, <4>1, DownNow
      <4> QED BY <1>2, <1>4, <4>2
    <3>6. (\E l \in Shifts : Down(queue', pressed, l, n)) <=> (held \ missed) \cap Shifts # {}
      BY <3>5
    <3>7. PICK s \in BOOLEAN : s <=> (held \ missed) \cap Shifts # {}
      OBVIOUS
    <3>8. /\ k = "a" => Expected(k) = IF s <=> lock THEN "a" ELSE "A"
          /\ k = "1" => Expected(k) = IF s THEN "!" ELSE "1"
      BY <1>1, <3>7 DEF Expected
    <3>9. Tells(b, s, lock)
      BY <3>2, <3>3, <3>4, <3>8 DEF Tells
    <3>10. s <=> \E l \in Shifts : Down(queue', pressed, l, n)
      BY <3>6, <3>7
    <3>11. s <=> \E l \in Shifts : Down(queue', pressed, l, i - 1)
      BY <3>4, <3>10
    <3>12. lock <=> Locked(queue', caps_lock_active, i - 1)
      BY <1>5, <3>4
    <3>13. queue'[i] = b
      BY <3>1
    <3> QED BY <3>9, <3>11, <3>12, <3>13 DEF Tells
  <2>3. i <= n \/ i > n
    OBVIOUS
  <2> QED BY <2>1, <2>2, <2>3, Zenon
<1> QED BY <1>2, <1>6, <1>7 DEF Foretold

LEMMA ServedTells ==
  ASSUME KeyboardTypes, TypedInv, NEW b \in KeyBytes, Served(b)
  PROVE  TypedInv'
<1> SUFFICES ASSUME ~torn, ~capsRepeated
             PROVE  /\ lock <=> Locked(queue', caps_lock_active', Len(queue'))
                    /\ Foretold(queue', pressed', caps_lock_active')
  BY DEF Served, TypedInv, Foretold, Locked, Down, Locks
<1>1. /\ b = queue[1] /\ Rest(queue, queue', 1)
      /\ Len(queue) \in Nat /\ Len(queue) >= 1
      /\ caps_lock_active \in BOOLEAN /\ caps_lock_active' \in BOOLEAN
      /\ caps_lock_active' <=> ~(caps_lock_active <=>
                                   (queue[1].key = "CapsLock" /\ ~queue[1].released))
      /\ \A k \in Tracked : k \in pressed' <=> IF k = queue[1].key THEN ~queue[1].released
                                                                 ELSE k \in pressed
  BY DEF Served, KeyboardTypes
<1>2. /\ lock <=> Locked(queue, caps_lock_active, Len(queue))
      /\ Foretold(queue, pressed, caps_lock_active)
  BY DEF TypedInv
<1>3. /\ Len(queue') = Len(queue) - 1 /\ Len(queue') \in Nat
      /\ \A i \in 1 .. Len(queue') : queue'[i] = queue[i + 1] /\ i + 1 \in 1 .. Len(queue)
  BY <1>1 DEF Rest
<1>4. ASSUME NEW i \in Nat, i <= Len(queue')
      PROVE  /\ Locked(queue', caps_lock_active', i) <=> Locked(queue, caps_lock_active, i + 1)
             /\ \A k \in Shifts : Down(queue', pressed', k, i) <=> Down(queue, pressed, k, i + 1)
  <2>1. Locked(queue', caps_lock_active', i) <=> Locked(queue, caps_lock_active, i + 1)
    BY <1>1, <1>4, LockedRest
  <2>2. ASSUME NEW k \in Shifts
        PROVE  Down(queue', pressed', k, i) <=> Down(queue, pressed, k, i + 1)
    <3>1. k \in pressed' <=> IF k = queue[1].key THEN ~queue[1].released ELSE k \in pressed
      BY <1>1, KeysAre
    <3> QED BY <1>1, <1>4, <3>1, DownRest
  <2> QED BY <2>1, <2>2
<1>5. lock <=> Locked(queue', caps_lock_active', Len(queue'))
  <2>1. Len(queue') + 1 = Len(queue) /\ Len(queue') <= Len(queue')
    BY <1>1, <1>3
  <2> QED BY <1>2, <1>3, <1>4, <2>1
<1>6. ASSUME NEW i \in 1 .. Len(queue'), queue'[i].shows # NoKey
      PROVE  Tells(queue'[i], \E k \in Shifts : Down(queue', pressed', k, i - 1),
                              Locked(queue', caps_lock_active', i - 1))
  <2>1. /\ i - 1 \in Nat /\ i - 1 <= Len(queue') /\ (i - 1) + 1 = i /\ (i + 1) - 1 = i
        /\ queue'[i] = queue[i + 1] /\ i + 1 \in 1 .. Len(queue)
    BY <1>3
  <2>2. Tells(queue[i + 1], \E k \in Shifts : Down(queue, pressed, k, i),
                            Locked(queue, caps_lock_active, i))
    BY <1>2, <1>6, <2>1 DEF Foretold
  <2>3. /\ Locked(queue', caps_lock_active', i - 1) <=> Locked(queue, caps_lock_active, i)
        /\ \A k \in Shifts : Down(queue', pressed', k, i - 1) <=> Down(queue, pressed, k, i)
    BY <1>4, <2>1
  <2>4. (\E k \in Shifts : Down(queue', pressed', k, i - 1)) <=>
          (\E k \in Shifts : Down(queue, pressed, k, i))
    BY <2>3
  <2> QED BY <2>1, <2>2, <2>3, <2>4 DEF Tells
<1> QED BY <1>5, <1>6 DEF Foretold

LEMMA TypedNext ==
  ASSUME KeyboardTypes, KeysInv, TypedInv, NextKeyboard
  PROVE  TypedInv'
<1>1. CASE HandleInterrupt
  <2>1. PICK b \in KeyBytes : Served(b)
    BY <1>1, HandlerFacts
  <2> QED BY <2>1, ServedTells
<1>2. ASSUME NEW k \in session.keys, Press(k) \/ Repeat(k) \/ Release(k)
      PROVE  TypedInv'
  <2>1. PICK r \in BOOLEAN :
          /\ Send(k, r) /\ lock' \in BOOLEAN
          /\ ~capsRepeated' => /\ ~capsRepeated
                               /\ lock' <=> ~(lock <=> (k = "CapsLock" /\ ~r))
          /\ UNCHANGED <<pressed, caps_lock_active, activated, torn>>
    <3>1. lock \in BOOLEAN /\ capsRepeated \in BOOLEAN
      BY DEF KeyboardTypes
    <3>2. CASE Press(k)
      BY <3>1, <3>2 DEF Press, driver
    <3>3. CASE Repeat(k)
      BY <3>1, <3>3 DEF Repeat, driver
    <3>4. CASE Release(k)
      BY <3>1, <3>4 DEF Release, driver
    <3> QED BY <1>2, <3>2, <3>3, <3>4
  <2> QED BY <2>1, SendTells
<1>3. ASSUME NEW n \in DOMAIN queue, Initialize(n)
      PROVE  TypedInv'
  <2>1. /\ ~activated /\ activated' = activated /\ caps_lock_active' = caps_lock_active
        /\ lock' = (Cardinality({i \in DOMAIN queue' : queue'[i].key = "CapsLock"
                                                       /\ ~queue'[i].released}) % 2 = 1)
    BY <1>3 DEF Initialize, driver
  <2>2. KeyboardTypes' /\ KeysInv'
    BY <1>3, InitializeKeeps
  <2>3. DOMAIN queue' = 1 .. Len(queue')
    BY <2>2 DEF KeyboardTypes
  <2>4. ~caps_lock_active' /\ \A i \in 1 .. Len(queue') : queue'[i].shows = NoKey
    BY <2>1, <2>2 DEF KeysInv
  <2>5. lock' <=> Locked(queue', caps_lock_active', Len(queue'))
    BY <2>1, <2>3, <2>4 DEF Locked, Odd, Locks
  <2>6. Foretold(queue', pressed', caps_lock_active')
    BY <2>4 DEF Foretold
  <2> QED BY <2>5, <2>6 DEF TypedInv, Foretold, Locked, Down, Locks
<1>4. CASE Activate
  <2>1. /\ ~activated
        /\ UNCHANGED <<caps_lock_active, queue, lock, torn, capsRepeated>>
    BY <1>4 DEF Activate, history
  <2>2. (Foretold(queue, pressed, caps_lock_active))'
    BY <2>1 DEF KeysInv, Foretold
  <2>3. torn' = torn /\ capsRepeated' = capsRepeated /\ lock' = lock
    BY <2>1
  <2>4. (Locked(queue, caps_lock_active, Len(queue)))' <=>
          Locked(queue, caps_lock_active, Len(queue))
    BY <2>1 DEF Locked, Locks
  <2> QED BY <2>2, <2>3, <2>4 DEF TypedInv
<1> QED BY <1>1, <1>2, <1>3, <1>4 DEF NextKeyboard

LEMMA TypedInit == InitKeyboard => TypedInv
<1> SUFFICES ASSUME InitKeyboard PROVE TypedInv
  OBVIOUS
<1>1. queue = <<>> /\ Len(queue) = 0 /\ caps_lock_active = FALSE /\ lock = FALSE
  BY DEF InitKeyboard
<1>2. Locks(queue, 0) = {}
  BY DEF Locks
<1>3. ~Odd({})
  BY FS_EmptySet DEF Odd
<1>4. lock <=> Locked(queue, caps_lock_active, Len(queue))
  BY <1>1, <1>2, <1>3 DEF Locked
<1>5. \A i \in 1 .. Len(queue) : FALSE
  BY <1>1
<1> QED BY <1>4, <1>5 DEF TypedInv, Foretold

LEMMA TypedSame ==
  ASSUME TypedInv, UNCHANGED kvars
  PROVE  TypedInv'
<1>1. UNCHANGED <<queue, pressed, caps_lock_active, lock, torn, capsRepeated>>
  BY DEF kvars, driver, history
<1>2. (Locked(queue, caps_lock_active, Len(queue)))' <=>
        Locked(queue, caps_lock_active, Len(queue))
  BY <1>1 DEF Locked, Locks
<1>3. (Foretold(queue, pressed, caps_lock_active))' <=>
        Foretold(queue, pressed, caps_lock_active)
  BY <1>1 DEF Foretold, Tells, Locked, Locks, Down
<1> QED BY <1>1, <1>2, <1>3 DEF TypedInv

-----------------------------------------------------------------------------
(* What put_char_colored() has done, as long as no handler interferes.     *)

(* scroll_screen() has come to cell n: what it has passed shows what was   *)
(* below, the rest is as it was.                                           *)
Moved(old, new, n) ==
  /\ \A i \in Int : i \notin Cells => (i \in new <=> i \in old)
  /\ \A i \in Cells : i \in new <=> IF i < n THEN i < LastRow /\ (i + W) \in old
                                             ELSE i \in old

(* Called with character c on screen b, it is at p, with r in the register *)
(* and the screen s.                                                       *)
Progress(p, s, b, c, r) ==
  /\ p = "switch" => s = b
  /\ p = "newline" => c = "\n" /\ s = [b EXCEPT !.x = 0]
  /\ p \in {"store y"} => [s EXCEPT !.y = r] = Glyph(b, c)
  /\ p = "back" => c = "bs" /\ b.x > 0 /\ s = b
  /\ p = "store x" => [s EXCEPT !.x = r] = Glyph(b, c)
  /\ p = "column" => Visible(c) /\ s = b /\ r = b.y
  /\ p = "write" => Visible(c) /\ s = b /\ r = Cell(b.x, b.y)
  /\ p = "advance" => Visible(c) /\ s = Show(b, Cell(b.x, b.y), c)
  /\ p = "wrap" => s = Glyph(b, c)
  /\ p = "right" => Wraps(Glyph(b, c).x) /\ s = Glyph(b, c)
  /\ p = "next" => Wraps(Glyph(b, c).x) /\ s = [Glyph(b, c) EXCEPT !.x = 0]
  /\ p = "store next" => [s EXCEPT !.y = r] = Wrap(Glyph(b, c))
  /\ p = "bottom" => s = Wrap(Glyph(b, c))
  /\ p = "scroll" =>
       LET t == Wrap(Glyph(b, c))
       IN  /\ Below(t.y) /\ s.x = t.x /\ s.y = t.y
           /\ Moved(t.marks, s.marks, r) /\ Moved(t.inverted, s.inverted, r)

PrintInv ==
  ~disturbed => /\ begun \in Screens /\ OnScreen(begun)
                /\ Progress(pc, screen, begun, character, register)

LEMMA MovedStart ==
  ASSUME NEW m
  PROVE  Moved(m, m, 0)
<1>1. \A i \in Cells : ~(i < 0)
  BY CellsAre
<1> QED BY <1>1 DEF Moved

LEMMA MovedFill ==
  ASSUME NEW old, NEW new, NEW n \in Cells, Moved(old, new, n)
  PROVE  Moved(old, Fills(new, n), n + 1)
<1>1. n \in Nat /\ n < LastRow + W /\ LastRow \in Nat /\ W \in Nat /\ W >= 4
  BY CellsFit, LastRowIs, WidthIs
<1>2. \A i : i # n => (i \in Fills(new, n) <=> i \in new)
  BY DEF Fills
<1>3. n \in Fills(new, n) <=> n < LastRow /\ (n + W) \in new
  BY DEF Fills, LastRow
<1>4. n < LastRow => ((n + W) \in new <=> (n + W) \in old)
  <2> SUFFICES ASSUME n < LastRow PROVE (n + W) \in new <=> (n + W) \in old
    OBVIOUS
  <2>1. n + W \in Cells /\ ~(n + W < n)
    BY <1>1, CellsAre
  <2> QED BY <2>1 DEF Moved
<1>5. ASSUME NEW i \in Int, i \notin Cells
      PROVE  i \in Fills(new, n) <=> i \in old
  BY <1>2, <1>5 DEF Moved
<1>6. ASSUME NEW i \in Cells
      PROVE  i \in Fills(new, n) <=> IF i < n + 1 THEN i < LastRow /\ (i + W) \in old
                                                  ELSE i \in old
  <2>1. CASE i = n
    BY <1>1, <1>3, <1>4, <2>1
  <2>2. CASE i # n
    <3>1. i < n + 1 <=> i < n
      BY <1>1, <2>2, CellsFit
    <3> QED BY <1>2, <2>2, <3>1 DEF Moved
  <2> QED BY <2>1, <2>2
<1> QED BY <1>5, <1>6 DEF Moved

LEMMA MovedEnd ==
  ASSUME NEW old \in SUBSET Int, NEW new \in SUBSET Int, Moved(old, new, LastRow + W)
  PROVE  new = Scrolled(old)
<1>1. W * H - 1 = LastRow + W - 1 /\ LastRow \in Nat /\ W \in Nat /\ W >= 4
  BY LastRowIs, WidthIs
<1>2. Scrolled(old) = (old \ Cells) \cup {j - W : j \in old \cap (W .. (LastRow + W - 1))}
  BY <1>1 DEF Scrolled
<1>3. \A j \in W .. (LastRow + W - 1) : j - W \in Cells /\ j - W < LastRow /\ (j - W) + W = j
  BY <1>1, CellsAre
<1>4. ASSUME NEW i \in Int, i \notin Cells
      PROVE  i \in new <=> i \in Scrolled(old)
  <2>1. i \in new <=> i \in old
    BY <1>4 DEF Moved
  <2>2. i \in Scrolled(old) <=> i \in old
    BY <1>2, <1>3, <1>4
  <2> QED BY <2>1, <2>2
<1>5. ASSUME NEW i \in Cells
      PROVE  i \in new <=> i \in Scrolled(old)
  <2>1. i \in Nat /\ i < LastRow + W
    BY CellsFit
  <2>2. i \in new <=> i < LastRow /\ (i + W) \in old
    BY <2>1 DEF Moved
  <2>3. i < LastRow => i + W \in W .. (LastRow + W - 1) /\ (i + W) - W = i
    BY <1>1, <2>1
  <2>4. i < LastRow /\ (i + W) \in old => i \in Scrolled(old)
    BY <1>2, <2>3
  <2>5. i \in Scrolled(old) => i < LastRow /\ (i + W) \in old
    <3> SUFFICES ASSUME i \in Scrolled(old) PROVE i < LastRow /\ (i + W) \in old
      OBVIOUS
    <3>1. PICK j \in old \cap (W .. (LastRow + W - 1)) : i = j - W
      BY <1>2
    <3> QED BY <1>3, <3>1
  <2> QED BY <2>2, <2>4, <2>5
<1>6. Scrolled(old) \subseteq Int
  BY ScrolledFacts
<1>7. \A i \in Int : i \in new <=> i \in Scrolled(old)
  BY <1>4, <1>5
<1> QED BY <1>6, <1>7

(* What the characters do.                                                 *)
LEMMA GlyphIs ==
  ASSUME NEW b \in Screens, NEW c
  PROVE  /\ c = "\n" => Glyph(b, c) = [b EXCEPT !.x = 0, !.y = Byte(b.y + 1)]
         /\ c = "\t" => Glyph(b, c) = [b EXCEPT !.x = TabStop(b.x)]
         /\ c = "\r" => Glyph(b, c) = [b EXCEPT !.x = 0]
         /\ c = "bs" => Glyph(b, c) = IF b.x > 0 THEN [b EXCEPT !.x = b.x - 1] ELSE b
         /\ c = "other" => Glyph(b, c) = b
BY DEF Glyph, Visible, Letters

LEMMA GlyphShows ==
  ASSUME NEW b \in Screens, OnScreen(b), NEW c, Visible(c)
  PROVE  LET t == Show(b, Cell(b.x, b.y), c)
         IN  t \in Screens /\ t.x = b.x /\ Glyph(b, c) = [t EXCEPT !.x = Byte(b.x + 1)]
<1>0. NearScreen(b)
  BY DEF OnScreen, NearScreen
<1>1. PICK i \in Area : i = Cell(b.x, b.y)
  BY <1>0, NearPlace
<1>2. Show(b, i, c) \in Screens
  BY ShowFacts
<1>4. Show(b, i, c).x = b.x
  BY DEF Show, Screens
<1>3. Glyph(b, c) = [Show(b, i, c) EXCEPT !.x = Byte(Show(b, i, c).x + 1)]
  BY <1>1 DEF Glyph, Visible, Letters
<1> QED BY <1>1, <1>2, <1>3, <1>4

LEMMA SetBoth ==
  ASSUME NEW s \in Screens, NEW m \in Octets, NEW n \in Octets
  PROVE  /\ [[s EXCEPT !.x = m] EXCEPT !.y = n] = [s EXCEPT !.x = m, !.y = n]
         /\ [[s EXCEPT !.x = m] EXCEPT !.x = n] = [s EXCEPT !.x = n]
         /\ [[s EXCEPT !.y = m] EXCEPT !.y = n] = [s EXCEPT !.y = n]
BY DEF Screens

(* A step that goes on.                                                    *)
LEMMA PrintGoes ==
  ASSUME PrintInv, NEW from, NEW to, Goto(from, to),
         ~disturbed => Progress(to, screen', begun, character, register')
  PROVE  PrintInv'
BY DEF PrintInv, Goto

LEMMA PrintSwitch ==
  ASSUME TerminalInv, PrintInv, Switch
  PROVE  PrintInv'
<1>0. pc = "switch"
  BY DEF Switch, Store, Load, Test, Goto
<1>1. ~disturbed => begun \in Screens /\ OnScreen(begun) /\ screen = begun
  BY <1>0 DEF PrintInv, Progress
<1>2. CASE character = "\n" /\ Store("switch", "newline", [screen EXCEPT !.x = 0])
  <2>1. ~disturbed => Progress("newline", screen', begun, character, register')
    BY <1>1, <1>2 DEF Store, Progress
  <2> QED BY <1>2, <2>1, PrintGoes DEF Store
<1>3. CASE character = "\t" /\ Load("switch", "store x", TabStop(screen.x))
  <2>1. ~disturbed => Progress("store x", screen', begun, character, register')
    BY <1>1, <1>3, GlyphIs, ZenonT(30) DEF Load, Progress
  <2> QED BY <1>3, <2>1, PrintGoes DEF Load
<1>4. CASE character = "\r" /\ Store("switch", "wrap", [screen EXCEPT !.x = 0])
  <2>1. ~disturbed => Progress("wrap", screen', begun, character, register')
    BY <1>1, <1>4, GlyphIs DEF Store, Progress
  <2> QED BY <1>4, <2>1, PrintGoes DEF Store
<1>5. CASE character = "bs" /\ screen.x > 0 /\ Test("switch", "back")
  <2>1. ~disturbed => Progress("back", screen', begun, character, register')
    BY <1>1, <1>5 DEF Test, Progress
  <2> QED BY <1>5, <2>1, PrintGoes DEF Test
<1>6. CASE character = "bs" /\ ~(screen.x > 0) /\ Test("switch", "wrap")
  <2>1. ~disturbed => Progress("wrap", screen', begun, character, register')
    BY <1>1, <1>6, GlyphIs DEF Test, Progress
  <2> QED BY <1>6, <2>1, PrintGoes DEF Test
<1>7. CASE Visible(character) /\ Load("switch", "column", screen.y)
  <2>1. ~disturbed => Progress("column", screen', begun, character, register')
    BY <1>1, <1>7 DEF Load, Progress
  <2> QED BY <1>7, <2>1, PrintGoes DEF Load
<1>8. CASE character = "other" /\ Test("switch", "wrap")
  <2>1. ~disturbed => Progress("wrap", screen', begun, character, register')
    BY <1>1, <1>8, GlyphIs DEF Test, Progress
  <2> QED BY <1>8, <2>1, PrintGoes DEF Test
<1> QED BY <1>2, <1>3, <1>4, <1>5, <1>6, <1>7, <1>8 DEF Switch

LEMMA PrintNewline ==
  ASSUME TerminalInv, PrintInv, Newline
  PROVE  PrintInv'
<1>1. CASE Load("newline", "store y", Byte(screen.y + 1))
  <2>1. Goto("newline", "store y") /\ screen' = screen /\ register' = Byte(screen.y + 1)
    BY <1>1 DEF Load
  <2>2. ASSUME ~disturbed
        PROVE  Progress("store y", screen', begun, character, register')
    <3>1. PICK b \in Screens : b = begun
      BY <2>2 DEF PrintInv
    <3>2. character = "\n" /\ screen = [b EXCEPT !.x = 0]
      BY <2>1, <2>2, <3>1 DEF PrintInv, Progress, Goto
    <3>3. PICK n \in Octets : n = Byte(b.y + 1)
      BY OctetIs, ByteIs DEF Screens
    <3>4. register' = n
      BY <2>1, <3>2, <3>3 DEF Screens
    <3>5. [[b EXCEPT !.x = 0] EXCEPT !.y = n] = [b EXCEPT !.x = 0, !.y = n]
      BY SetBoth, Bounds
    <3>6. Glyph(b, character) = [b EXCEPT !.x = 0, !.y = n]
      BY <3>2, <3>3, GlyphIs
    <3> QED BY <2>1, <3>1, <3>2, <3>4, <3>5, <3>6 DEF Progress
  <2> QED BY <2>1, <2>2, PrintGoes
<1>2. CASE Store("store y", "wrap", [screen EXCEPT !.y = register])
  <2>1. ~disturbed => Progress("wrap", screen', begun, character, register')
    BY <1>2 DEF PrintInv, Progress, Store, Goto
  <2> QED BY <1>2, <2>1, PrintGoes DEF Store
<1> QED BY <1>1, <1>2 DEF Newline

LEMMA PrintMove ==
  ASSUME TerminalInv, PrintInv, MoveCursor
  PROVE  PrintInv'
<1>1. CASE Load("back", "store x", Byte(screen.x - 1))
  <2>1. Goto("back", "store x") /\ screen' = screen /\ register' = Byte(screen.x - 1)
    BY <1>1 DEF Load
  <2>2. ASSUME ~disturbed
        PROVE  Progress("store x", screen', begun, character, register')
    <3>1. PICK b \in Screens : b = begun
      BY <2>2 DEF PrintInv
    <3>2. character = "bs" /\ b.x > 0 /\ screen = b
      BY <2>1, <2>2, <3>1 DEF PrintInv, Progress, Goto
    <3>3. b.x - 1 \in Octets
      BY <3>2, OctetIs DEF Screens
    <3>4. register' = b.x - 1
      BY <2>1, <3>2, <3>3, ByteSame
    <3>5. Glyph(b, character) = [b EXCEPT !.x = b.x - 1]
      BY <3>2, GlyphIs
    <3> QED BY <2>1, <3>1, <3>2, <3>4, <3>5 DEF Progress
  <2> QED BY <2>1, <2>2, PrintGoes
<1>2. CASE Load("advance", "store x", Byte(screen.x + 1))
  <2>1. Goto("advance", "store x") /\ screen' = screen /\ register' = Byte(screen.x + 1)
    BY <1>2 DEF Load
  <2>2. ASSUME ~disturbed
        PROVE  Progress("store x", screen', begun, character, register')
    <3>1. PICK b \in Screens : b = begun /\ OnScreen(b)
      BY <2>2 DEF PrintInv
    <3>2. Visible(character) /\ screen = Show(b, Cell(b.x, b.y), character)
      BY <2>1, <2>2, <3>1 DEF PrintInv, Progress, Goto
    <3>3. /\ screen.x = b.x
          /\ Glyph(b, character) = [screen EXCEPT !.x = Byte(b.x + 1)]
      BY <3>1, <3>2, GlyphShows
    <3> QED BY <2>1, <3>1, <3>3 DEF Progress
  <2> QED BY <2>1, <2>2, PrintGoes
<1>3. CASE Store("store x", "wrap", [screen EXCEPT !.x = register])
  <2>1. ~disturbed => Progress("wrap", screen', begun, character, register')
    BY <1>3 DEF PrintInv, Progress, Store, Goto
  <2> QED BY <1>3, <2>1, PrintGoes DEF Store
<1> QED BY <1>1, <1>2, <1>3 DEF MoveCursor

LEMMA PrintWrite ==
  ASSUME TerminalInv, PrintInv, WriteCell
  PROVE  PrintInv'
<1>1. CASE Load("column", "write", Cell(screen.x, register))
  <2>1. ~disturbed => Progress("write", screen', begun, character, register')
    BY <1>1 DEF PrintInv, Progress, Load, Goto
  <2> QED BY <1>1, <2>1, PrintGoes DEF Load
<1>2. CASE Store("write", "advance", Show(screen, register, character))
  <2>1. ~disturbed => Progress("advance", screen', begun, character, register')
    BY <1>2 DEF PrintInv, Progress, Store, Goto
  <2> QED BY <1>2, <2>1, PrintGoes DEF Store
<1> QED BY <1>1, <1>2 DEF WriteCell

LEMMA PrintWrap ==
  ASSUME TerminalInv, PrintInv, WrapLine
  PROVE  PrintInv'
<1>0. ASSUME ~disturbed
      PROVE  \E t \in Screens : t = Glyph(begun, character)
  <2>1. begun \in Screens /\ NearScreen(begun)
    BY <1>0 DEF PrintInv, OnScreen, NearScreen
  <2> QED BY <2>1, GlyphFacts
<1>1. CASE Store("right", "next", [screen EXCEPT !.x = 0])
  <2>1. ~disturbed => Progress("next", screen', begun, character, register')
    BY <1>1 DEF PrintInv, Progress, Store, Goto
  <2> QED BY <1>1, <2>1, PrintGoes DEF Store
<1>2. CASE Test("wrap", IF Wraps(screen.x) THEN "right" ELSE "bottom")
  <2>1. CASE Wraps(screen.x)
    <3>1. ~disturbed => Progress("right", screen', begun, character, register')
      BY <1>2, <2>1 DEF PrintInv, Progress, Test, Goto
    <3> QED BY <1>2, <2>1, <3>1, PrintGoes DEF Test
  <2>2. CASE ~Wraps(screen.x)
    <3>1. ~disturbed => Progress("bottom", screen', begun, character, register')
      BY <1>2, <2>2 DEF PrintInv, Progress, Test, Goto, Wrap
    <3> QED BY <1>2, <2>2, <3>1, PrintGoes DEF Test
  <2> QED BY <2>1, <2>2
<1>3. CASE Load("next", "store next", Byte(screen.y + 1))
  <2>1. Goto("next", "store next") /\ screen' = screen /\ register' = Byte(screen.y + 1)
    BY <1>3 DEF Load
  <2>2. ASSUME ~disturbed
        PROVE  Progress("store next", screen', begun, character, register')
    <3>1. PICK t \in Screens : t = Glyph(begun, character)
      BY <1>0, <2>2
    <3>2. Wraps(t.x) /\ screen = [t EXCEPT !.x = 0]
      BY <2>1, <2>2, <3>1 DEF PrintInv, Progress, Goto
    <3>3. PICK n \in Octets : n = Byte(t.y + 1)
      BY OctetIs, ByteIs DEF Screens
    <3>4. register' = n
      BY <2>1, <3>2, <3>3 DEF Screens
    <3>5. [[t EXCEPT !.x = 0] EXCEPT !.y = n] = [t EXCEPT !.x = 0, !.y = n]
      BY SetBoth, Bounds
    <3>6. Wrap(t) = [t EXCEPT !.x = 0, !.y = n]
      BY <3>2, <3>3 DEF Wrap
    <3> QED BY <2>1, <3>1, <3>2, <3>4, <3>5, <3>6 DEF Progress
  <2> QED BY <2>1, <2>2, PrintGoes
<1>4. CASE Store("store next", "bottom", [screen EXCEPT !.y = register])
  <2>1. ~disturbed => Progress("bottom", screen', begun, character, register')
    BY <1>4 DEF PrintInv, Progress, Store, Goto
  <2> QED BY <1>4, <2>1, PrintGoes DEF Store
<1> QED BY <1>1, <1>2, <1>3, <1>4 DEF WrapLine

LEMMA PrintIdle ==
  ASSUME pc' = "idle", begun' = Blank
  PROVE  PrintInv'
<1>1. Blank \in Screens /\ OnScreen(Blank)
  BY Bounds, WidthIs, HeightIs DEF Blank, Screens, OnScreen
<1> QED BY <1>1 DEF PrintInv, Progress

LEMMA PrintScroll ==
  ASSUME TerminalInv, PrintInv, Scroll
  PROVE  /\ PrintInv'
         /\ pc' = "idle" /\ ~disturbed => screen' = PutChar(begun, character)
<1>0. screen \in Screens
  BY CursorFacts
<1>1. ASSUME ~disturbed
      PROVE  \E t \in Screens : t = Wrap(Glyph(begun, character))
  <2>1. begun \in Screens /\ NearScreen(begun)
    BY <1>1 DEF PrintInv, OnScreen, NearScreen
  <2> QED BY <2>1, GlyphFacts, WrapFacts
<1>2. CASE Below(screen.y) /\ Load("bottom", "scroll", 0)
  <2>1. Goto("bottom", "scroll") /\ screen' = screen /\ register' = 0 /\ pc' # "idle"
    BY <1>2 DEF Load, Goto
  <2>2. ASSUME ~disturbed
        PROVE  Progress("scroll", screen', begun, character, register')
    <3>1. screen = Wrap(Glyph(begun, character))
      BY <2>1, <2>2 DEF PrintInv, Progress, Goto
    <3>2. Moved(screen.marks, screen.marks, 0) /\ Moved(screen.inverted, screen.inverted, 0)
      BY MovedStart
    <3> QED BY <1>2, <2>1, <3>1, <3>2 DEF Progress
  <2> QED BY <2>1, <2>2, PrintGoes
<1>3. CASE ~Below(screen.y) /\ Finish("bottom") /\ UNCHANGED screen
  <2>1. PrintInv'
    BY <1>3, PrintIdle DEF Finish
  <2>2. ~disturbed => screen' = PutChar(begun, character)
    BY <1>3 DEF PrintInv, Progress, PutChar, Finish
  <2> QED BY <2>1, <2>2
<1>4. CASE /\ pc = "scroll" /\ register < W * H
           /\ screen' = Fill(screen, register) /\ register' = register + 1
           /\ UNCHANGED <<session, pc, character, prints, begun, disturbed>>
  <2>1. PICK i \in Cells : i = register
    <3>1. register \in Nat /\ register < LastRow + W
      BY <1>4, LastRowIs, RegisterIs
    <3> QED BY <3>1, CellsAre
  <2>2. /\ screen'.x = screen.x /\ screen'.y = screen.y
        /\ screen'.marks = Fills(screen.marks, i)
        /\ screen'.inverted = Fills(screen.inverted, i)
        /\ register' = i + 1
    BY <1>0, <1>4, <2>1, FillFacts
  <2>3. ASSUME ~disturbed
        PROVE  Progress("scroll", screen', begun, character, register')
    <3>1. PICK t \in Screens : t = Wrap(Glyph(begun, character))
      BY <1>1, <2>3
    <3>2. /\ Below(t.y) /\ screen.x = t.x /\ screen.y = t.y
          /\ Moved(t.marks, screen.marks, i) /\ Moved(t.inverted, screen.inverted, i)
      BY <1>4, <2>1, <2>3, <3>1 DEF PrintInv, Progress
    <3>3. /\ Moved(t.marks, Fills(screen.marks, i), i + 1)
          /\ Moved(t.inverted, Fills(screen.inverted, i), i + 1)
      BY <3>2, MovedFill
    <3> QED BY <2>2, <3>1, <3>2, <3>3 DEF Progress
  <2>4. pc' = "scroll" /\ Goto("scroll", "scroll")
    BY <1>4 DEF Goto
  <2> QED BY <2>3, <2>4, PrintGoes
<1>5. CASE register = W * H /\ Finish("scroll") /\ screen' = ToBottom(screen)
  <2>1. PrintInv'
    BY <1>5, PrintIdle DEF Finish
  <2>2. ASSUME ~disturbed
        PROVE  screen' = PutChar(begun, character)
    <3>1. PICK t \in Screens : t = Wrap(Glyph(begun, character))
      BY <1>1, <2>2
    <3>2. /\ Below(t.y) /\ screen.x = t.x /\ screen.y = t.y
          /\ Moved(t.marks, screen.marks, LastRow + W)
          /\ Moved(t.inverted, screen.inverted, LastRow + W)
      BY <1>5, <2>2, <3>1, LastRowIs DEF PrintInv, Progress, Finish
    <3>3. t.marks \in SUBSET Int /\ screen.marks \in SUBSET Int
      BY <1>0 DEF Screens, Area
    <3>4. t.inverted \in SUBSET Int /\ screen.inverted \in SUBSET Int
      BY <1>0 DEF Screens
    <3>5. screen.marks = Scrolled(t.marks) /\ screen.inverted = Scrolled(t.inverted)
      BY <3>2, <3>3, <3>4, MovedEnd
    <3>6. screen' = [screen EXCEPT !.y = H - 1] /\ H - 1 \in Octets
      BY <1>5, Bounds DEF ToBottom
    <3>7. /\ screen' \in Screens /\ screen'.x = screen.x /\ screen'.y = H - 1
          /\ screen'.marks = screen.marks /\ screen'.inverted = screen.inverted
      BY <1>0, <3>6 DEF Screens
    <3>8. /\ ScrollScreen(t) \in Screens /\ ScrollScreen(t).x = t.x
          /\ ScrollScreen(t).y = H - 1 /\ ScrollScreen(t).marks = Scrolled(t.marks)
          /\ ScrollScreen(t).inverted = Scrolled(t.inverted)
      BY ScrollFacts
    <3>9. screen' = ScrollScreen(t)
      BY <3>2, <3>5, <3>7, <3>8, SameScreen
    <3> QED BY <3>1, <3>2, <3>9 DEF PutChar
  <2> QED BY <2>1, <2>2
<1> QED BY <1>2, <1>3, <1>4, <1>5 DEF Scroll

LEMMA PrintMain ==
  ASSUME TerminalInv, PrintInv, Main
  PROVE  /\ PrintInv'
         /\ pc # "idle" /\ pc' = "idle" /\ ~disturbed => screen' = PutChar(begun, character)
<1>1. ASSUME NEW c \in session.text, Begin(c)
      PROVE  PrintInv' /\ pc = "idle"
  <2>1. /\ pc = "idle" /\ pc' = "switch" /\ begun' = screen /\ screen' = screen
    BY <1>1 DEF Begin
  <2>2. screen \in Screens /\ OnScreen(screen)
    BY <2>1, CursorFacts DEF TerminalInv, CursorInv
  <2> QED BY <2>1, <2>2 DEF PrintInv, Progress
<1>2. \A from, to : to # "idle" /\ Goto(from, to) => pc' # "idle"
  BY DEF Goto
<1>3. Switch \/ Newline \/ MoveCursor \/ WriteCell \/ WrapLine => pc' # "idle"
  BY <1>2 DEF Switch, Newline, MoveCursor, WriteCell, WrapLine, Load, Store, Test
<1> QED
  BY <1>1, <1>3, PrintSwitch, PrintNewline, PrintMove, PrintWrite, PrintWrap, PrintScroll
  DEF Main

(* Handlers that leave the screen as it is, and steps elsewhere.           *)
LEMMA PrintSame ==
  ASSUME PrintInv, UNCHANGED <<main, begun, disturbed>>, screen' = screen \/ pc = "idle"
  PROVE  PrintInv' /\ pc' = pc
<1>1. pc' = pc /\ character' = character /\ register' = register
      /\ begun' = begun /\ disturbed' = disturbed
  BY DEF main
<1>2. CASE screen' = screen
  BY <1>1, <1>2 DEF PrintInv
<1>3. CASE pc = "idle"
  <2>1. Progress(pc', screen', begun', character', register')
    BY <1>1, <1>3 DEF Progress
  <2> QED BY <1>1, <2>1 DEF PrintInv
<1> QED BY <1>1, <1>2, <1>3

LEMMA PrintInterrupted ==
  ASSUME PrintInv, NEW s, Interrupted(s)
  PROVE  PrintInv' /\ pc' = pc
<1>1. CASE pc # "idle" /\ s # screen
  BY <1>1 DEF Interrupted, PrintInv, main
<1>2. CASE ~(pc # "idle" /\ s # screen)
  <2>1. UNCHANGED <<main, begun, disturbed>> /\ (screen' = screen \/ pc = "idle")
    BY <1>2 DEF Interrupted
  <2> QED BY <2>1, PrintSame
<1> QED BY <1>1, <1>2

LEMMA PrintKeyboard ==
  ASSUME PrintInv, NextKeyboard
  PROVE  PrintInv' /\ pc' = pc
<1>1. UNCHANGED tvars => PrintInv' /\ pc' = pc
  BY PrintSame DEF tvars
<1>2. CASE HandleInterrupt
  BY <1>1, <1>2, PrintInterrupted
  DEF HandleInterrupt, HandlePrefix, HandleExtended, HandleModifier, HandleKey,
      HandleCapsLock
<1> QED
  BY <1>1, <1>2 DEF NextKeyboard, Press, Repeat, Release, Initialize, Activate

LEMMA PrintMouse ==
  ASSUME PrintInv, NextMouse
  PROVE  PrintInv' /\ pc' = pc
<1>1. UNCHANGED tvars => PrintInv' /\ pc' = pc
  BY PrintSame DEF tvars
<1>2. \A from, to : SetUp(from, to) \/ Reset(from, to) => PrintInv' /\ pc' = pc
  BY PrintSame DEF SetUp, Reset
<1>3. CASE HandleByte
  BY <1>1, <1>3, PrintInterrupted DEF HandleByte, HandlePacket
<1>4. CASE ResetMouse
  BY <1>2, <1>4 DEF ResetMouse, BeginReset, CommandReset, LoadCell, StoreCell, ReadStatus,
                    Enable, ReadAck
<1> QED
  BY <1>1, <1>2, <1>3, <1>4 DEF NextMouse, ConstructMouse, InitializeAgain, ActivateMouse,
                                Move, LoseByte

-----------------------------------------------------------------------------
(* The screen and all those who write it.                                  *)

ConsoleInv ==
  TerminalInv /\ MouseInv /\ PointerInv /\ KeyboardTypes /\ KeysInv /\ TypedInv

LEMMA ConsoleInit == Init => ConsoleInv
BY TerminalInit, MouseInit, PointerInit, KeyboardInit, TypedInit DEF Init, ConsoleInv

LEMMA MainKeepsSession == Main => session' = session
BY DEF Main, Begin, Switch, Newline, MoveCursor, WriteCell, WrapLine, Scroll, Finish,
       Load, Store, Test, Goto

LEMMA KeyboardKeepsSession ==
  ASSUME NextKeyboard
  PROVE  session' = session
<1>1. UNCHANGED tvars => session' = session
  BY DEF tvars
<1>2. \A s : Interrupted(s) => session' = session
  BY DEF Interrupted
<1>3. CASE HandleInterrupt
  BY <1>1, <1>2, <1>3
  DEF HandleInterrupt, HandlePrefix, HandleExtended, HandleModifier, HandleKey,
      HandleCapsLock
<1> QED
  BY <1>1, <1>3 DEF NextKeyboard, Press, Repeat, Release, Initialize, Activate

LEMMA MouseKeepsSession ==
  ASSUME NextMouse
  PROVE  session' = session
<1>1. UNCHANGED tvars => session' = session
  BY DEF tvars
<1>2. HandleByte => session' = session
  BY <1>1 DEF HandleByte, HandlePacket, Interrupted
<1>3. ResetMouse => session' = session
  BY DEF ResetMouse, BeginReset, CommandReset, LoadCell, StoreCell, ReadStatus, Enable,
         ReadAck, Reset
<1> QED
  BY <1>1, <1>2, <1>3 DEF NextMouse, ConstructMouse, InitializeAgain, ActivateMouse,
                          SetUp, Move, LoseByte

LEMMA ConsoleNext ==
  ASSUME ConsoleInv, [Next]_vars
  PROVE  ConsoleInv'
<1> USE DEF ConsoleInv
<1>1. CASE Main /\ resetting = "no" /\ UNCHANGED <<kvars, mvars>>
  <2>1. session' = session /\ UNCHANGED kvars /\ UNCHANGED mvars
    BY <1>1, MainKeepsSession
  <2>2. TerminalInv'
    BY <1>1, TerminalMain
  <2>3. MouseInv'
    BY <2>1, MouseSame
  <2>4. PointerInv'
    BY <1>1, PointerMain
  <2>5. KeyboardTypes' /\ KeysInv' /\ TypedInv'
    BY <2>1, KeyboardSame, TypedSame
  <2> QED BY <2>2, <2>3, <2>4, <2>5
<1>2. CASE NextKeyboard /\ UNCHANGED mvars
  <2>1. session' = session
    BY <1>2, KeyboardKeepsSession
  <2>2. TerminalInv'
    BY <1>2, TerminalKeyboard
  <2>3. MouseInv'
    BY <1>2, <2>1, MouseSame
  <2>4. PointerInv'
    BY <1>2, PointerKeyboard
  <2>5. KeyboardTypes' /\ KeysInv' /\ TypedInv'
    BY <1>2, KeyboardNext, TypedNext
  <2> QED BY <2>2, <2>3, <2>4, <2>5
<1>3. CASE NextMouse /\ UNCHANGED kvars
  <2>1. session' = session
    BY <1>3, MouseKeepsSession
  <2>2. TerminalInv'
    BY <1>3, TerminalMouse
  <2>3. MouseInv'
    BY <1>3, MouseNext
  <2>4. PointerInv'
    BY <1>3, PointerMouse
  <2>5. KeyboardTypes' /\ KeysInv' /\ TypedInv'
    BY <1>3, <2>1, KeyboardSame, TypedSame
  <2> QED BY <2>2, <2>3, <2>4, <2>5
<1>4. CASE UNCHANGED vars
  <2>1. UNCHANGED tvars /\ UNCHANGED kvars /\ UNCHANGED mvars
    BY <1>4 DEF vars
  <2>2. UNCHANGED <<session, screen, pc, prints>> /\ queue' = queue
    BY <2>1 DEF tvars, main, kvars
  <2>3. TerminalInv'
    BY <2>1, TerminalSame
  <2>4. MouseInv'
    BY <2>1, <2>2, MouseSame
  <2>5. PointerInv'
    BY <2>1, <2>2, PointerSame DEF PointerInv
  <2>6. KeyboardTypes' /\ KeysInv' /\ TypedInv'
    BY <2>1, <2>2, KeyboardSame, TypedSame
  <2> QED BY <2>3, <2>4, <2>5, <2>6
<1> QED BY <1>1, <1>2, <1>3, <1>4 DEF Next

(* Whatever kernel_main prints, whatever keys are struck and whatever the  *)
(* mouse reports, at any of its instructions, every reachable state        *)
(* satisfies the invariants of the terminal and of the two drivers.        *)
THEOREM ConsoleInvariance == Spec => []ConsoleInv
<1>1. Init => ConsoleInv
  BY ConsoleInit
<1>2. ConsoleInv /\ [Next]_vars => ConsoleInv'
  BY ConsoleNext
<1> QED BY <1>1, <1>2, PTL DEF Spec

(* Cursor, registers and driver state stay within their types, and what is *)
(* written beyond the screen stays within 256 cells of its last row.       *)
THEOREM ConsoleTypes == Spec => []TypeOK
<1>1. ConsoleInv => TypeOK
  <2> SUFFICES ASSUME ConsoleInv PROVE TypeOK
    OBVIOUS
  <2> USE DEF ConsoleInv
  <2>1. screen \in Screens /\ W * H = LastRow + W /\ LastRow \in Nat /\ W \in Nat
    BY LastRowIs, WidthIs DEF TerminalInv, TerminalTypes
  <2>2. /\ screen.x \in 0 .. 255 /\ screen.y \in 0 .. 255
        /\ screen.marks \subseteq 0 .. (W * (H - 1) + 255)
        /\ screen.inverted \subseteq Int
    <3>1. \A n : n \in Octets => n \in 0 .. 255
      BY DEF Octets
    <3>2. \A n : n \in Area => n \in 0 .. (LastRow + 255)
      BY <2>1 DEF Area
    <3> HIDE DEF W, H
    <3> QED BY <2>1, <3>1, <3>2 DEF Screens, LastRow
  <2>3. register \in 0 .. (W * H + 255)
    <3> HIDE DEF W, H
    <3>1. register \in Nat /\ register <= LastRow + W + 255
      BY DEF TerminalInv, RegisterInv
    <3>2. PICK n \in Int : n = W * H
      BY <2>1
    <3>3. register <= n + 255
      BY <2>1, <3>1, <3>2
    <3>4. register \in 0 .. (n + 255)
      BY <3>1, <3>3
    <3> QED BY <3>2, <3>4
  <2>4. prints \in 0 .. session.prints
    <3>1. session.prints \in Nat
      BY ScreenAssumption DEF TerminalInv, TerminalTypes
    <3> QED BY <3>1 DEF TerminalInv, TerminalTypes
  <2>5. TerminalTypeOK
    BY <2>2, <2>3, <2>4 DEF TerminalTypeOK, TerminalInv, TerminalTypes, Stage
  <2>6. KeyboardTypeOK
    <3>1. session.events \in Nat
      BY KeyboardAssumption DEF KeyboardTypes
    <3>2. events \in 0 .. session.events
      BY <3>1 DEF KeyboardTypes
    <3> QED BY <3>2 DEF KeyboardTypeOK, KeyboardTypes
  <2>7. MouseTypeOK
    <3>1. session.moves \in Nat
      BY MouseAssumption DEF MouseInv, MouseTypes
    <3>2. moves \in 0 .. session.moves /\ py \in -128 .. 127
      BY <3>1 DEF MouseInv, MouseTypes
    <3> QED BY <3>2 DEF MouseTypeOK, MouseInv, MouseTypes
  <2> QED BY <2>5, <2>6, <2>7 DEF TypeOK
<1> QED BY <1>1, ConsoleInvariance, PTL

(* The cursor is on the screen whenever kernel_main's put_char_colored()   *)
(* has returned, whatever handlers did to it between any two of its steps. *)
THEOREM CursorComesBack == Spec => []CursorOnScreen
<1>1. ConsoleInv => CursorOnScreen
  <2> SUFFICES ASSUME ConsoleInv, pc = "idle"
               PROVE  screen.x \in Column /\ screen.y \in Row
    BY DEF CursorOnScreen
  <2>1. screen.x < W /\ screen.y < H /\ screen.x \in Octets /\ screen.y \in Octets
    BY DEF ConsoleInv, TerminalInv, TerminalTypes, CursorInv, OnScreen, Screens
  <2> QED BY <2>1, ColumnIs, RowIs
<1> QED BY <1>1, ConsoleInvariance, PTL

(* However packets, answers, losses, reads and resets come together, the   *)
(* driver takes a byte of a packet for the part that the slip says: it is  *)
(* in step again only when the slip is 0, and never gets there by itself.  *)
THEOREM PacketsKeepSlip == Spec => []PacketsSlip
<1>1. ConsoleInv => PacketsSlip
  <2> SUFFICES ASSUME ConsoleInv, sent # <<>>, Head(sent).part # Noise
               PROVE  offset = (Head(sent).part + slip) % 3
    BY DEF PacketsSlip
  <2>1. sent \in Seq(MouseBytes) /\ offset = (NextPart(sent) + slip) % 3
    BY DEF ConsoleInv, MouseInv, MouseTypes, Lined
  <2> QED BY <2>1, NextPartIs
<1> QED BY <1>1, ConsoleInvariance, PTL

(* On a screen that nobody else writes, one cell shows the pointer, besides*)
(* the cell that initialize() may have left turned over.                   *)
THEOREM PointerLeavesNoTrail == Spec => []PointerAlone
<1>1. ConsoleInv => PointerAlone
  <2> SUFFICES ASSUME ConsoleInv, mouse # "absent", prints = 0, session.keys = {}
               PROVE  /\ screen.inverted =
                           Toggle(IF starts % 2 = 1 THEN Blank ELSE Toggle(Blank, Start),
                                  Cell(px, py)).inverted
                      /\ \E y \in Row : py \in {Int8(y), Int8(y - buffer[2].value)}
    BY DEF PointerAlone
  <2>1. \A i : Toggle(Blank, i).inverted = {i}
    BY DEF Toggle, Blank
  <2>2. \A i, j : Toggle(Toggle(Blank, i), j).inverted = Flip({i}, j)
    BY DEF Toggle, Blank, Flip
  <2>3. \A j : Toggle(Blank, j).inverted = Flip({}, j)
    BY DEF Toggle, Blank, Flip
  <2>4. screen.inverted = Flip(Origin(starts), Cell(px, py))
    BY DEF ConsoleInv, PointerInv, Undisputed
  <2>5. \E y \in Row : py \in {Int8(y), Int8(y - buffer[2].value)}
    BY DEF ConsoleInv, PointerInv
  <2> QED BY <2>2, <2>3, <2>4, <2>5 DEF Origin
<1> QED BY <1>1, ConsoleInvariance, PTL

(* The driver's modifier flags are the state of the modifier keys as soon  *)
(* as no byte of theirs is under way.                                      *)
THEOREM ModifiersComeToAgree == Spec => []ModifiersAgree
<1>1. ConsoleInv => ModifiersAgree
  <2>1. KeyboardTypes => DOMAIN queue = 1 .. Len(queue)
    BY DEF KeyboardTypes
  <2> QED BY <2>1 DEF ConsoleInv, KeysInv, ModifiersAgree, Unsent
<1> QED BY <1>1, ConsoleInvariance, PTL

(* handle_interrupt() takes a byte for an extended key's exactly when the  *)
(* key that sent it is one.                                                *)
THEOREM PrefixBelongsToKey == Spec => []PrefixApplies
<1>1. ConsoleInv => PrefixApplies
  <2>1. KeyboardTypes /\ queue # <<>> => queue[1] = Head(queue)
    BY DEF KeyboardTypes
  <2> QED BY <2>1 DEF ConsoleInv, KeysInv, PrefixApplies, Bare
<1> QED BY <1>1, ConsoleInvariance, PTL

(* A key shows what shift and caps lock made of it when it was struck.     *)
THEOREM KeysShowWhatWasHeld == Spec => []TypedAsHeld
<1>1. ConsoleInv => TypedAsHeld
  <2> SUFFICES ASSUME ConsoleInv, activated, ~torn, ~capsRepeated, queue # <<>>,
                      Head(queue).shows # NoKey
               PROVE  ApplyShift(Head(queue).code) = Head(queue).shows
    BY DEF TypedAsHeld
  <2>1. queue \in Seq(KeyBytes) /\ caps_lock_active \in BOOLEAN
    BY DEF ConsoleInv, KeyboardTypes
  <2>2. Head(queue) = queue[1] /\ 1 \in 1 .. Len(queue) /\ 1 - 1 = 0
    BY <2>1, TailRests
  <2>3. Tells(queue[1], \E k \in Shifts : Down(queue, pressed, k, 0),
                        Locked(queue, caps_lock_active, 0))
    BY <2>2 DEF ConsoleInv, TypedInv, Foretold
  <2>4. (\E k \in Shifts : Down(queue, pressed, k, 0)) <=> IsShiftPressed
    BY DEF Down, IsShiftPressed
  <2>5. Locked(queue, caps_lock_active, 0) <=> caps_lock_active
    <3>1. Locks(queue, 0) = {}
      BY DEF Locks
    <3>2. ~Odd({})
      BY FS_EmptySet DEF Odd
    <3> QED BY <2>1, <3>1, <3>2, Zenon DEF Locked
  <2>6. Tells(queue[1], IsShiftPressed, caps_lock_active)
    BY <2>3, <2>4, <2>5 DEF Tells
  <2>7. ShouldCapitalize("a") <=> ~(IsShiftPressed <=> caps_lock_active)
    BY <2>1 DEF ShouldCapitalize
  <2> QED BY <2>2, <2>6, <2>7 DEF ApplyShift, Tells
<1> QED BY <1>1, ConsoleInvariance, PTL

(* Where no handler interferes, each call of put_char_colored() does what  *)
(* PutChar says; steps of the drivers never end one.                       *)
THEOREM PrintingIsExact == Spec => PrintsExactly
<1>1. Init => PrintInv
  <2>1. Init => Blank \in Screens /\ OnScreen(Blank)
    BY Bounds, WidthIs, HeightIs DEF Blank, Screens, OnScreen
  <2> QED BY <2>1 DEF Init, InitTerminal, PrintInv, Progress
<1>2. ConsoleInv /\ PrintInv /\ [Next]_vars
        => /\ PrintInv'
           /\ [pc # "idle" /\ pc' = "idle" /\ ~disturbed
                 => screen' = PutChar(begun, character)]_tvars
  <2> SUFFICES ASSUME ConsoleInv, PrintInv, [Next]_vars
               PROVE  /\ PrintInv'
                      /\ pc # "idle" /\ pc' = "idle" /\ ~disturbed
                           => screen' = PutChar(begun, character)
    OBVIOUS
  <2>1. TerminalInv
    BY DEF ConsoleInv
  <2>2. CASE Main
    BY <2>1, <2>2, PrintMain
  <2>3. CASE NextKeyboard
    BY <2>3, PrintKeyboard
  <2>4. CASE NextMouse
    BY <2>4, PrintMouse
  <2>5. CASE UNCHANGED vars
    BY <2>5, PrintSame DEF vars, tvars
  <2> QED BY <2>2, <2>3, <2>4, <2>5 DEF Next
<1> QED BY <1>1, <1>2, ConsoleInvariance, PTL DEF Spec, PrintsExactly

=============================================================================
