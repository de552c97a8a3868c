---------------------------- MODULE PanelKeyboard ----------------------------
(***************************************************************************)
(* The modal keyboard (src/src/keyboard.cpp): layout, buffer, commit and   *)
(* cancel.  Its only caller opens it unmasked, so the show/hide button of  *)
(* a password field is never there.                                        *)
(***************************************************************************)
EXTENDS PanelLayout

CONSTANT MaxLen   \* characters the field takes (17 for a MAC address)

ASSUME MaxLenAssumption == MaxLen \in Nat \ {0}

Layouts == {"LOWER", "UPPER", "SYM"}

Rows(layout) ==
  CASE layout = "LOWER" -> << <<"q", "w", "e", "r", "t", "y", "u", "i", "o", "p">>,
                              <<"a", "s", "d", "f", "g", "h", "j", "k", "l">>,
                              <<"z", "x", "c", "v", "b", "n", "m">> >>
    [] layout = "UPPER" -> << <<"Q", "W", "E", "R", "T", "Y", "U", "I", "O", "P">>,
                              <<"A", "S", "D", "F", "G", "H", "J", "K", "L">>,
                              <<"Z", "X", "C", "V", "B", "N", "M">> >>
    [] layout = "SYM"   -> << <<"1", "2", "3", "4", "5", "6", "7", "8", "9", "0">>,
                              <<"@", "#", "$", "_", "-", "+", "(", ")", "/">>,
                              <<".", ",", ":", ";", "!", "?", "'", "dquote">> >>

\* The keys of a layout by row and place, and what can be typed with them and
\* the space bar.
Cells(layout) == {c \in (1..3) \X (1..10) : c[2] \in DOMAIN Rows(layout)[c[1]]}
CharAt(layout, c) == Rows(layout)[c[1]][c[2]]
Chars == {" "} \cup UNION {{CharAt(l, c) : c \in Cells(l)} : l \in Layouts}

rowY(r) == 92 + r * 44

\* Key k (from 0) of a row of n keys; row r (from 0).
keyCell(n, k, r) ==
  LET w == (ScreenW - 12 - (n - 1) * 4) \div n
  IN  Rect(6 + k * (w + 4), rowY(r), w, 40)

\* Slot idx of the bottom row; the space bar takes slots 1 and 2.
functionCell(idx) ==
  LET fw == (ScreenW - 12 - 16) \div 5
  IN  Rect(6 + idx * (fw + 4), rowY(3), IF idx = 1 THEN 2 * fw + 4 ELSE fw, 40)

\* Drawn 68 wide; the comparison includes its right and bottom edge.
kbCancelRect == Rect(ScreenW - 78, 10, 69, 27)

Closed == [active |-> FALSE, layout |-> "LOWER", buf |-> <<>>]

keyboard_open(initial) ==
  [active |-> TRUE, layout |-> "LOWER",
   buf |-> SubSeq(initial, 1, IF Len(initial) < MaxLen THEN Len(initial) ELSE MaxLen)]

\* The key under p: a character, one of the special keys, or none.
KeyAt(layout, p) ==
  LET under == {c \in Cells(layout) :
                  inRect(p, keyCell(Len(Rows(layout)[c[1]]), c[2] - 1, c[1] - 1))}
  IN  IF inRect(p, kbCancelRect) THEN "Cancel"
      ELSE IF under # {} THEN CharAt(layout, CHOOSE c \in under : TRUE)
      ELSE IF inRect(p, functionCell(0)) THEN "Layout"
      ELSE IF inRect(p, functionCell(1)) THEN " "
      ELSE IF inRect(p, functionCell(3)) THEN "Backspace"
      ELSE IF inRect(p, functionCell(4)) THEN "OK"
      ELSE "Gap"

NextLayout == [LOWER |-> "UPPER", UPPER |-> "SYM", SYM |-> "LOWER"]

\* The faulty form: the length is not looked at.
TypeKeyUnbounded(kb, c) == [kb EXCEPT !.buf = Append(@, c)]
TypeKey(kb, c) == IF Len(kb.buf) < MaxLen THEN [kb EXCEPT !.buf = Append(@, c)] ELSE kb

Backspace(kb) ==
  IF kb.buf = <<>> THEN kb ELSE [kb EXCEPT !.buf = SubSeq(@, 1, Len(@) - 1)]

\* The keyboard after a tap.  OK and Cancel close it; the caller reads the
\* buffer when the key was OK.
keyboard_handle_touch(kb, p) ==
  LET key == KeyAt(kb.layout, p)
  IN  CASE key \in {"OK", "Cancel"} -> [kb EXCEPT !.active = FALSE]
        [] key = "Layout"    -> [kb EXCEPT !.layout = NextLayout[@]]
        [] key = "Backspace" -> Backspace(kb)
        [] key = "Gap"       -> kb
        [] OTHER             -> TypeKey(kb, key)

KbType == [active : BOOLEAN, layout : Layouts, buf : Seq(Chars)]
=============================================================================
