------------------------------- MODULE PrintStr -------------------------------
(***************************************************************************)
(* The cursor of fb_printStr (src/fbDraw.c): a text of characters, line    *)
(* breaks and tabs, printed from column lnStart in letters w wide and 2 *  *)
(* w apart.  A line that has no room for a letter more is broken.  A tab   *)
(* is four blanks, but its loop starts again after a break.  Rows, which   *)
(* are not bounded, are left out, and so are the strokes of the letters.   *)
(***************************************************************************)
EXTENDS Integers

CONSTANTS
  Column,     \* the columns a text may start in
  Letter,     \* the widths of a letter
  Screen      \* the widths of the screen

VARIABLES
  lnStart, w, xres,   \* as chosen by the caller
  x,                  \* cursor->x
  j,                  \* the loop over the blanks of a tab
  pc                  \* between two characters, in a tab, or returned

vars == <<lnStart, w, xres, x, j, pc>>

Init ==
  /\ lnStart = 0 /\ w = 0 /\ xres = 0 /\ x = 0 /\ j = 0
  /\ pc = "returned"

Call ==
  /\ pc = "returned"
  /\ lnStart' \in Column /\ w' \in Letter /\ xres' \in Screen
  /\ x' = lnStart' /\ j' = 0 /\ pc' = "next"

\* The cursor goes on by one letter, or to the next line.  MutFull: a line that
\* the letter would just fill is full.
MutFull == x + 2 * w + w >= xres
Full == x + 2 * w + w > xres
Advance == x' = IF Full THEN lnStart ELSE x + 2 * w

Char ==
  /\ pc = "next"
  /\ Advance
  /\ UNCHANGED <<lnStart, w, xres, j, pc>>

LineBreak ==
  /\ pc = "next"
  /\ x' = lnStart
  /\ UNCHANGED <<lnStart, w, xres, j, pc>>

Tab ==
  /\ pc = "next"
  /\ pc' = "tab" /\ j' = 0
  /\ UNCHANGED <<lnStart, w, xres, x>>

\* A blank; j is set to 0 at a break, and incremented by the loop all the same.
Blank ==
  /\ pc = "tab" /\ j < 4
  /\ Advance
  /\ j' = IF Full THEN 1 ELSE j + 1
  /\ UNCHANGED <<lnStart, w, xres, pc>>

TabEnd ==
  /\ pc = "tab" /\ j = 4
  /\ pc' = "next" /\ j' = 0
  /\ UNCHANGED <<lnStart, w, xres, x>>

Return ==
  /\ pc = "next" /\ pc' = "returned"
  /\ UNCHANGED <<lnStart, w, xres, x, j>>

Next == Call \/ Char \/ LineBreak \/ Tab \/ Blank \/ TabEnd \/ Return

Spec == Init /\ [][Next]_vars

\* A tab goes on; the text may end anywhere.
Fairness == WF_vars(Blank \/ TabEnd)

-----------------------------------------------------------------------------
(* Properties *)

\* Every variable keeps its type, and the cursor stays where a letter is wholly on
\* the screen, except at the start of a line.
TypeOK ==
  /\ lnStart \in Column \cup {0} /\ w \in Letter \cup {0} /\ xres \in Screen \cup {0}
  /\ x = lnStart \/ (x > lnStart /\ x + w <= xres)
  /\ j \in 0 .. 4
  /\ pc \in {"next", "tab", "returned"}

\* Four letters fit into a line.
RoomForTab == lnStart + 7 * w <= xres

\* A tab that finds lines with room for its four blanks ends, however little of
\* the first line is left; in narrower lines it never does, since its loop starts
\* again at every break (fbDraw.c:661-671).
TabEnds ==
  /\ (pc = "tab" /\ RoomForTab) ~> pc = "next"
  /\ [](pc = "tab" /\ ~RoomForTab => [](pc = "tab"))

=============================================================================
