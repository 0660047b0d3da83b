--------------------------- MODULE TextUI_proofs ---------------------------
(***************************************************************************)
(* The log window of the text interface, for pads, pages and terminals of  *)
(* any size and any number of pools.                                       *)
(*                                                                         *)
(* Three keys, a resize and six commands compute a position, each in its   *)
(* own way.  What they have in common is that a position is 0 or leaves at *)
(* least two lines below it: as many as the smallest window has that is    *)
(* not cramped.                                                            *)
(***************************************************************************)
EXTENDS TextUI, TLAPS

PadNames == {"hist", "info"}

\* The pads, and the window that has had two lines unless it was cramped.
Shapes ==
  /\ rows \in Int /\ cramped \in BOOLEAN /\ shown \in PadNames
  /\ pads \in [PadNames -> [clen : Nat, cpos : Nat]]
  /\ \A p \in PadNames : pads[p].clen <= PadRows(p)
  /\ ~cramped => rows >= 2

\* Two lines of a pad at least are below its position.
LinesBelow == ~cramped =>
  \A p \in PadNames : pads[p].cpos = 0 \/ pads[p].cpos <= pads[p].clen - 2

WindowInv == Shapes /\ LinesBelow

-----------------------------------------------------------------------------
\* What a number of lines makes of a pad that was in order.
LEMMA ExtendedInOrder ==
  ASSUME Shapes, NEW p \in PadNames, NEW n \in Nat, NEW r \in Int
  PROVE  /\ Extended(p, n, r) \in [clen : Nat, cpos : Nat]
         /\ Extended(p, n, r).clen <= PadRows(p)
         /\ LinesBelow /\ ~cramped /\ r >= 2 =>
              \/ Extended(p, n, r).cpos = 0
              \/ Extended(p, n, r).cpos <= Extended(p, n, r).clen - 2
BY TextUIAssumption
   DEF Shapes, Extended, Smaller, AtLeast0, PadRows, LinesBelow, PadNames

\* Where the keys put a pad that was in order.
LEMMA ScrolledInOrder ==
  ASSUME Shapes, NEW n \in Int, NEW pos,
         pos \in {Scrolled(pads[shown], n), Home(pads[shown]), 0}
  PROVE  /\ pos \in Nat
         /\ LinesBelow /\ ~cramped =>
              pos = 0 \/ pos <= pads[shown].clen - 2
<1> USE TextUIAssumption DEF Shapes, LinesBelow, PadNames, AtLeast0, Smaller
<1>1. pads[shown] \in [clen : Nat, cpos : Nat]
  OBVIOUS
<1>2. CASE pos = Scrolled(pads[shown], n)
  BY <1>1, <1>2 DEF Scrolled, ScrolledUp, ScrolledDown
<1>3. CASE pos = Home(pads[shown])
  BY <1>1, <1>3 DEF Home
<1> QED  BY <1>2, <1>3

\* A key moves the pad that is shown to such a place.
LEMMA KeyMoves ==
  ASSUME Shapes,
         KeyUp \/ KeyDown \/ KeyNextPage \/ KeyPrevPage \/ KeyEnd \/ KeyHome
  PROVE  \E n \in Int :
           \E pos \in {Scrolled(pads[shown], n), Home(pads[shown]), 0} :
             MoveTo(pos)
<1>1. Page \in Int /\ -Page \in Int /\ 1 \in Int /\ -1 \in Int
  BY TextUIAssumption DEF Page, Shapes
<1> QED
  BY <1>1 DEF KeyUp, KeyDown, KeyNextPage, KeyPrevPage, KeyEnd, KeyHome

\* A command, or the end of the loop, adds at least one line to a pad; the
\* window keeps its size or gets the one of the terminal.
LEMMA OutputMade ==
  ASSUME Shapes,
         Help \/ ShowPools \/ ShowThreads \/ Exit \/ ResizeFails
  PROVE  /\ \E p \in PadNames, n \in Nat \ {0} : Output(p, n, rows')
         /\ rows' \in Int /\ cramped' \in BOOLEAN
         /\ ~cramped' => ~cramped /\ rows' >= 2
<1> USE TextUIAssumption DEF Shapes, PadNames
<1>1. CASE Help
  BY <1>1 DEF Help, Answer
<1>2. CASE ShowPools
  BY <1>2 DEF ShowPools, Answer
<1>3. CASE ShowThreads
  BY <1>3 DEF ShowThreads, Answer
<1>4. CASE Exit
  BY <1>4 DEF Exit
<1>5. CASE ResizeFails
  <2>1. PICK h \in Heights : SetRows(h) /\ Output("hist", 2, rows')
    BY <1>5 DEF ResizeFails
  <2>2. rows' \in Int
    BY <2>1 DEF SetRows, LogsRows
  <2>3. cramped' \in BOOLEAN /\ (~cramped' => ~cramped /\ ~(rows' < 2))
    BY <2>1, Zenon DEF SetRows
  <2>4. ~(rows' < 2) => rows' >= 2
    BY <2>2
  <2> QED  BY <2>1, <2>2, <2>3, <2>4
<1> QED  BY <1>1, <1>2, <1>3, <1>4, <1>5

LEMMA InitWindow == Init => WindowInv
<1> SUFFICES ASSUME Init PROVE WindowInv
  OBVIOUS
<1> USE TextUIAssumption DEF PadNames
<1> DEFINE Len1(n) == Smaller(n, HistRows)
           Pos1(n, r) == IF Len1(n) > r THEN AtLeast0(Len1(n) - r) ELSE 0
<1>1. PICK h \in Heights, n \in Reported :
        /\ rows = LogsRows(h)
        /\ pads = [hist |-> [clen |-> Len1(n), cpos |-> Pos1(n, LogsRows(h))],
                   info |-> [clen |-> 0, cpos |-> 0]]
  BY DEF Init
<1>2. n \in Nat
  <2>1. PICK file \in {1, 2}, bound \in {0, 1}, warning \in {0, 9} :
          n = 5 + Pools + file + bound + warning
    BY DEF Reported
  <2> QED  BY <2>1
<1>3. rows \in Int
  BY <1>1 DEF LogsRows
<1>4. Len1(n) \in Nat /\ Len1(n) <= HistRows /\ Pos1(n, rows) \in Nat
  BY <1>2, <1>3 DEF Smaller, AtLeast0
<1>5. rows >= 2 => Pos1(n, rows) = 0 \/ Pos1(n, rows) <= Len1(n) - 2
  BY <1>2, <1>3 DEF Smaller, AtLeast0
<1>6. cramped = (rows < 2) /\ shown = "hist"
  BY DEF Init
<1>7. cramped \in BOOLEAN /\ (~cramped => ~(rows < 2))
  <2>1. (rows < 2) \in BOOLEAN
    BY <1>3
  <2> QED  BY <1>6, <2>1, Zenon
<1> HIDE DEF Len1, Pos1
<1>8. /\ pads["info"] = [clen |-> 0, cpos |-> 0]
      /\ pads["hist"] = [clen |-> Len1(n), cpos |-> Pos1(n, rows)]
      /\ pads \in [PadNames -> [clen : Nat, cpos : Nat]]
  BY <1>1, <1>4
<1>9. Shapes
  BY <1>3, <1>4, <1>6, <1>7, <1>8 DEF Shapes, PadRows
<1>10. LinesBelow
  BY <1>3, <1>5, <1>7, <1>8 DEF LinesBelow
<1> QED  BY <1>9, <1>10 DEF WindowInv

LEMMA StepWindow == WindowInv /\ [Next]_vars => WindowInv'
<1> SUFFICES ASSUME WindowInv, [Next]_vars PROVE WindowInv'
  OBVIOUS
<1> USE DEF WindowInv
<1>1. CASE KeyUp \/ KeyDown \/ KeyNextPage \/ KeyPrevPage \/ KeyEnd \/ KeyHome
  <2>1. PICK n \in Int :
          \E pos \in {Scrolled(pads[shown], n), Home(pads[shown]), 0} : MoveTo(pos)
    BY <1>1, KeyMoves
  <2> PICK pos \in {Scrolled(pads[shown], n), Home(pads[shown]), 0} : MoveTo(pos)
    BY <2>1
  <2>2. pos \in Nat /\ (LinesBelow /\ ~cramped =>
                          pos = 0 \/ pos <= pads[shown].clen - 2)
    BY ScrolledInOrder
  <2> QED
    BY <2>2 DEF MoveTo, Shapes, LinesBelow, PadNames, PadRows
<1>2. CASE Help \/ ShowPools \/ ShowThreads \/ Exit \/ ResizeFails
  <2>1. /\ rows' \in Int /\ cramped' \in BOOLEAN
        /\ ~cramped' => ~cramped /\ rows' >= 2
    BY <1>2, OutputMade
  <2>2. PICK p \in PadNames, n \in Nat \ {0} : Output(p, n, rows')
    BY <1>2, OutputMade
  <2>3. /\ Extended(p, n, rows') \in [clen : Nat, cpos : Nat]
        /\ Extended(p, n, rows').clen <= PadRows(p)
        /\ LinesBelow /\ ~cramped /\ rows' >= 2 =>
             \/ Extended(p, n, rows').cpos = 0
             \/ Extended(p, n, rows').cpos <= Extended(p, n, rows').clen - 2
    BY <2>1, ExtendedInOrder
  <2>4. pads' = [pads EXCEPT ![p] = Extended(p, n, rows')] /\ shown' = p
    BY <2>2 DEF Output
  <2> QED
    BY <2>1, <2>3, <2>4 DEF Shapes, LinesBelow, PadNames, PadRows
<1>3. CASE Resize
  <2>1. PICK h \in Heights : SetRows(h)
    BY <1>3 DEF Resize
  <2>2. rows' \in Int /\ pads' = pads /\ shown' = shown
    BY <1>3, <2>1, TextUIAssumption DEF Resize, SetRows, LogsRows
  <2>3. cramped' \in BOOLEAN /\ (~cramped' => ~cramped /\ ~(rows' < 2))
    BY <2>1, Zenon DEF SetRows
  <2> QED  BY <2>2, <2>3 DEF Shapes, LinesBelow, PadRows
<1>4. CASE ToggleLogsPad
  BY <1>4 DEF ToggleLogsPad, Shapes, LinesBelow, PadNames, PadRows
<1>5. CASE UNCHANGED vars
  BY <1>5 DEF vars, Shapes, LinesBelow, PadRows
<1> QED  BY <1>1, <1>2, <1>3, <1>4, <1>5 DEF Next

\* Each key, command and size of the terminal keeps the pads in order.
THEOREM WindowInvariant == Spec => []WindowInv
BY InitWindow, StepWindow, PTL DEF Spec

-----------------------------------------------------------------------------
\* A pad never has more lines than it can hold, and a position is never negative.
THEOREM ScreenTyped == Spec => []TypeOK
<1> DEFINE UiTyped == ui \in {"loop", "left", "thrown"}
<1>1. Init => UiTyped
  BY DEF Init
<1>2. UiTyped /\ [Next]_vars => UiTyped'
  BY DEF Next, KeyUp, KeyDown, KeyNextPage, KeyPrevPage, KeyEnd, KeyHome, Resize,
         ResizeFails, ToggleLogsPad, Help, ShowPools, ShowThreads, Exit, MoveTo,
         Answer, vars
<1>3. WindowInv /\ UiTyped => TypeOK
  BY DEF WindowInv, Shapes, TypeOK, PadNames
<1> QED  BY <1>1, <1>2, <1>3, WindowInvariant, PTL DEF Spec

\* Whatever was typed before, and however often the terminal changed, the log
\* window does not stand behind the lines of its pad, as long as it has had room
\* for two: the positions of tool.cpp and textui.hpp.
THEOREM WindowInPad == Spec => []ViewInPad
<1>1. WindowInv => ViewInPad
  BY DEF WindowInv, Shapes, LinesBelow, ViewInPad, PadNames
<1> QED  BY <1>1, WindowInvariant, PTL

\* After a command, and when the loop ends, the last line that was added is on
\* the screen, wherever the user had scrolled to.
THEOREM AnswersShown == Spec => NewestShown
<1> DEFINE Seen == ~cramped' /\ (Help \/ ShowPools \/ ShowThreads \/ Exit \/ ResizeFails) =>
          /\ screen'.pad = shown'
          /\ Newest(shown)' \in screen'.pos .. screen'.pos + screen'.rows - 1
<1>1. WindowInv /\ [Next]_vars => [Seen]_vars
  <2> SUFFICES ASSUME WindowInv, ~cramped',
                 Help \/ ShowPools \/ ShowThreads \/ Exit \/ ResizeFails
          PROVE  /\ screen'.pad = shown'
                 /\ Newest(shown)' \in screen'.pos .. screen'.pos + screen'.rows - 1
    OBVIOUS
  <2> USE TextUIAssumption DEF WindowInv
  <2>1. rows' \in Int /\ ~cramped /\ rows' >= 2
    BY OutputMade
  <2>2. PICK p \in PadNames, n \in Nat \ {0} : Output(p, n, rows')
    BY OutputMade
  <2>3. /\ pads' = [pads EXCEPT ![p] = Extended(p, n, rows')] /\ shown' = p
        /\ screen' = Filled(pads', p, rows')
    BY <2>2 DEF Output
  <2>4. pads'[p] = Extended(p, n, rows')
    BY <2>3 DEF Shapes
  <2>5. /\ pads[p].clen \in 0 .. PadRows(p) /\ pads[p].cpos \in Nat
        /\ pads[p].cpos = 0 \/ pads[p].cpos <= pads[p].clen - 2
        /\ PadRows(p) \in Nat /\ PadRows(p) >= 2
    BY <2>1 DEF Shapes, LinesBelow, PadRows, PadNames
  <2>6. /\ pads'[p].cpos < PadRows(p)
        /\ Newest(p)' \in pads'[p].cpos .. pads'[p].cpos + rows' - 1
    BY <2>1, <2>4, <2>5 DEF Extended, Smaller, AtLeast0, Newest
  <2>7. screen' = [pad |-> p, pos |-> pads'[p].cpos, rows |-> rows']
    BY <2>1, <2>3, <2>6 DEF Filled
  <2> QED  BY <2>3, <2>6, <2>7 DEF Newest
<1> QED  BY <1>1, WindowInvariant, PTL DEF Spec, NewestShown

\* After every key, command and change of the size, the window shows the pad
\* that the keys move, at its position and in the size of the terminal.
THEOREM ScreenIsCurrent == Spec => []ScreenFollows
<1>1. Init => ScreenFollows
  BY DEF Init, ScreenFollows, PadRows
<1>2. WindowInv /\ ScreenFollows /\ [Next]_vars => ScreenFollows'
  <2> SUFFICES ASSUME WindowInv, ScreenFollows, [Next]_vars PROVE ScreenFollows'
    OBVIOUS
  <2> USE DEF WindowInv, Filled, ScreenFollows
  <2>1. CASE KeyUp \/ KeyDown \/ KeyNextPage \/ KeyPrevPage \/ KeyEnd \/ KeyHome
    <3>1. PICK n \in Int :
            \E pos \in {Scrolled(pads[shown], n), Home(pads[shown]), 0} : MoveTo(pos)
      BY <2>1, KeyMoves
    <3>2. screen' = Filled(pads', shown, rows) /\ shown' = shown /\ rows' = rows
      BY <3>1 DEF MoveTo
    <3> QED  BY <3>2 DEF PadRows
  <2>2. CASE Help \/ ShowPools \/ ShowThreads \/ Exit \/ ResizeFails
    <3>1. PICK p \in PadNames, n \in Nat \ {0} : Output(p, n, rows')
      BY <2>2, OutputMade
    <3>2. screen' = Filled(pads', p, rows') /\ shown' = p
      BY <3>1 DEF Output
    <3> QED  BY <3>2 DEF PadRows
  <2>3. CASE Resize
    BY <2>3 DEF Resize, OutputWins, PadRows
  <2>4. CASE ToggleLogsPad
    BY <2>4 DEF ToggleLogsPad, PadRows
  <2>5. CASE UNCHANGED vars
    BY <2>5 DEF vars, PadRows
  <2> QED  BY <2>1, <2>2, <2>3, <2>4, <2>5 DEF Next
<1> QED  BY <1>1, <1>2, WindowInvariant, PTL DEF Spec
=============================================================================
