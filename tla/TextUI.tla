------------------------------- MODULE TextUI -------------------------------
(***************************************************************************)
(* The log window of the text interface, while the event loop runs         *)
(* (textui.hpp, the commands of tool.cpp, the exit handler of main).       *)
(*                                                                         *)
(* Two pads of lines share one window: the history of the mining and the   *)
(* answers to commands.  Keys move the pad that is shown, lines are added  *)
(* to either, and the terminal may change its size at any time.  The comm  *)
(* threads do not exist yet (see NosoMain), and the timer thread writes to *)
(* another pad, so that one key is handled after the other.                *)
(***************************************************************************)
EXTENDS Integers

CONSTANTS
  HistRows,   \* the rows of m_hist_pad, 500
  InfoRows,   \* the rows of m_info_pad, 100
  PageRows,   \* m_page_rows, 8
  Heights,    \* LINES, the heights the terminal may have
  Pools       \* the number of g_mining_pools

ASSUME TextUIAssumption ==
  /\ {HistRows, InfoRows} \subseteq Nat \ {0, 1}
  /\ {PageRows, Pools} \subseteq Nat \ {0}
  /\ Heights \subseteq Nat \ {0}

VARIABLES
  ui,       \* "loop", or how the event loop ended
  rows,     \* m_logs_rows
  pads,     \* m_hist_pad and m_info_pad: the lines and the position of each
  shown,    \* m_logs_pad
  screen,   \* what the window was last filled with
  cramped   \* history: the window has had fewer than two lines

vars == <<ui, rows, pads, shown, screen, cramped>>

PadRows(p) == IF p = "hist" THEN HistRows ELSE InfoRows
AtLeast0(n) == IF n < 0 THEN 0 ELSE n
Smaller(a, b) == IF a < b THEN a ELSE b

\* _EnsureWinSizes: the header, a rule, the activity, a rule, the command line
\* and the status line take the rest.
LogsRows(height) == height - 5 - 1 - 5 - 1 - 1 - 1

-----------------------------------------------------------------------------
(* The positions.  A pad is the number of its lines and the first one that *)
(* is shown.                                                               *)

BugExtended(p, n, r) ==
  LET len == Smaller(pads[p].clen + n, PadRows(p))
  IN [clen |-> len, cpos |-> IF pads[p].clen > r THEN AtLeast0(len - r)
                             ELSE pads[p].cpos]
\* _ExtendLogsPadRows, for n lines one after the other, in a window of r lines.
Extended(p, n, r) ==
  LET len == Smaller(pads[p].clen + n, PadRows(p))
  IN [clen |-> len,
      cpos |-> IF len > r THEN AtLeast0(len - r) ELSE pads[p].cpos]

\* _ScrollLogsPadRows: up to the first line, or down to the last window.
ScrolledUp(pad, n) == IF pad.cpos > 0 THEN AtLeast0(pad.cpos + n) ELSE pad.cpos

BugScrolledDown(pad, n) ==
  IF pad.cpos < pad.clen THEN pad.cpos + n ELSE pad.cpos
ScrolledDown(pad, n) ==
  LET end   == pad.clen - rows
      moved == IF pad.cpos < end THEN pad.cpos + n ELSE pad.cpos
  IN AtLeast0(Smaller(moved, end))

Scrolled(pad, n) ==
  IF n < 0 THEN ScrolledUp(pad, n)
  ELSE IF n > 0 THEN ScrolledDown(pad, n) ELSE pad.cpos

\* A page, or the window if it is smaller; less than 0 in a terminal of less
\* than 14 lines, and the keys then move the other way.
Page == IF rows >= PageRows THEN PageRows ELSE rows

BugHome(pad) == pad.clen - rows
\* ScrollLogsPadHome, to the last lines, and ScrollLogsPadEnd, to the first.
Home(pad) == AtLeast0(pad.clen - rows)

\* prefresh of pad p at its position: it refuses an empty window, and a
\* position that is not in the pad.
Filled(ps, p, r) ==
  IF r >= 1 /\ ps[p].cpos < PadRows(p)
    THEN [pad |-> p, pos |-> ps[p].cpos, rows |-> r]
    ELSE screen

-----------------------------------------------------------------------------
\* What process_options and main report before the loop: that the config file
\* is read, or missing; the options, a line for each pool, the warning about the
\* default address.
Reported == {5 + Pools + file + bound + warning :
               file \in {1, 2}, bound \in {0, 1}, warning \in {0, 9}}

Init ==
  /\ ui = "loop" /\ shown = "hist"
  /\ \E h \in Heights, n \in Reported :
       LET len == Smaller(n, HistRows)
           pos == IF len > LogsRows(h) THEN AtLeast0(len - LogsRows(h)) ELSE 0
       IN /\ rows = LogsRows(h)
          /\ pads = [hist |-> [clen |-> len, cpos |-> pos],
                     info |-> [clen |-> 0, cpos |-> 0]]
          /\ screen = IF rows >= 1 /\ pos < HistRows
                        THEN [pad |-> "hist", pos |-> pos, rows |-> rows]
                        ELSE [pad |-> "none", pos |-> 0, rows |-> 0]
  /\ cramped = (rows < 2)

\* The keys that move the pad: it is drawn again at once.
MoveTo(pos) ==
  /\ ui = "loop"
  /\ pads' = [pads EXCEPT ![shown].cpos = pos]
  /\ screen' = Filled(pads', shown, rows)
  /\ UNCHANGED <<ui, rows, shown, cramped>>

KeyUp       == MoveTo(Scrolled(pads[shown], -1))
KeyDown     == MoveTo(Scrolled(pads[shown], 1))
KeyNextPage == MoveTo(Scrolled(pads[shown], -Page))
KeyPrevPage == MoveTo(Scrolled(pads[shown], Page))
KeyEnd      == MoveTo(0)
KeyHome     == MoveTo(Home(pads[shown]))

\* n lines are added to pad p, and it is shown.
Output(p, n, r) ==
  /\ pads' = [pads EXCEPT ![p] = Extended(p, n, r)]
  /\ shown' = p
  /\ screen' = Filled(pads', p, r)
Answer(n) ==
  /\ ui = "loop"
  /\ Output("info", n, rows)
  /\ UNCHANGED <<ui, rows, cramped>>

SetRows(h) ==
  /\ rows' = LogsRows(h)
  /\ cramped' = (cramped \/ rows' < 2)

BugOutputWins(r) == screen
OutputWins(r) == Filled(pads, shown, r)

\* The terminal gets another size: the windows are made anew and drawn.
Resize == \E h \in Heights :
  /\ ui = "loop"
  /\ SetRows(h)
  /\ screen' = OutputWins(rows')
  /\ UNCHANGED <<ui, pads, shown>>

\* Nine columns are too few for the command field: CreateWins throws, main
\* reports the error and waits for a key.
ResizeFails == \E h \in Heights :
  /\ ui = "loop"
  /\ SetRows(h)
  /\ Output("hist", 2, rows')
  /\ ui' = "thrown"

\* The empty command.
ToggleLogsPad ==
  /\ ui = "loop"
  /\ shown' = IF shown = "hist" THEN "info" ELSE "hist"
  /\ screen' = Filled(pads, shown', rows)
  /\ UNCHANGED <<ui, rows, pads, cramped>>

Help == Answer(8)

\* ShowPoolInformation: of the pools, n answer.
ShowPools == \E n \in 0 .. Pools : Answer(3 + n + 1)

\* ShowThreadHashrates: no block has been mined while the loop runs.
ShowThreads == Answer(2)

\* The command exit, or Ctrl+C: the loop ends with the exit handler.
Exit ==
  /\ ui = "loop"
  /\ Output("hist", 2, rows)
  /\ ui' = "left"
  /\ UNCHANGED <<rows, cramped>>

Next ==
  \/ KeyUp \/ KeyDown \/ KeyNextPage \/ KeyPrevPage \/ KeyEnd \/ KeyHome
  \/ Resize \/ ResizeFails \/ ToggleLogsPad
  \/ Help \/ ShowPools \/ ShowThreads \/ Exit

Spec == Init /\ [][Next]_vars

-----------------------------------------------------------------------------
(* Properties.                                                             *)

\* A position is never negative, and a pad never longer than it is.
TypeOK ==
  /\ ui \in {"loop", "left", "thrown"} /\ rows \in Int
  /\ \A p \in {"hist", "info"} :
       pads[p].clen \in 0 .. PadRows(p) /\ pads[p].cpos \in Nat
  /\ shown \in {"hist", "info"} /\ cramped \in BOOLEAN

\* Whatever keys, commands and sizes of the terminal came before, the window
\* does not stand behind the lines of a pad, so that it is never empty over a
\* pad that is not; unless the terminal once had less than two lines for it (less
\* than 16 of its own), when clen - m_logs_rows points to the end of the pad, or
\* behind it.
ViewInPad == ~cramped =>
  \A p \in {"hist", "info"} : pads[p].cpos = 0 \/ pads[p].cpos < pads[p].clen

\* The window shows the pad that the keys move, at the position they moved it
\* to, in the size the terminal has: each key handler that changes one of them
\* draws it, the change of the size too.
ScreenFollows == rows >= 1 /\ pads[shown].cpos < PadRows(shown) =>
  screen = [pad |-> shown, pos |-> pads[shown].cpos, rows |-> rows]

\* The row of the last line of a pad: the line break after it has scrolled a
\* pad that is full.
Newest(p) == pads[p].clen - (IF pads[p].clen < PadRows(p) THEN 1 ELSE 2)

\* After a command, the last line of its answer is on the screen, wherever the
\* user had scrolled to, also when the pad is full; and so is the reason why the
\* loop ended.  The same terminals are excepted.
NewestShown == [][
  ~cramped' /\ (Help \/ ShowPools \/ ShowThreads \/ Exit \/ ResizeFails) =>
    /\ screen'.pad = shown'
    /\ Newest(shown)' \in screen'.pos .. screen'.pos + screen'.rows - 1]_vars
=============================================================================
