------------------------------- MODULE FbDraw --------------------------------
(***************************************************************************)
(* The arithmetic of src/fbDraw.c: where a pixel is in the mapped          *)
(* framebuffer, which source pixel fb_drawGray shows where, and which      *)
(* pixels the shapes consist of.  A shape is the set of pixels it sets, as *)
(* pairs <<x, y>>; a pixel is the set of bytes it writes.  Colours are     *)
(* left out.  The loops over x that carry values from one round to the     *)
(* next are recursive functions of x.                                      *)
(*                                                                         *)
(* The state is the call that was made and what it drew, so that TLC tries *)
(* every call with small arguments.                                        *)
(***************************************************************************)
EXTENDS Integers, FiniteSets

CONSTANTS
  Resolution, \* bound: the largest xres and yres
  Padding,    \* bound: what a line or the virtual screen has to spare
  Coordinate, \* the coordinates of the ends of lines
  Width,      \* bound: the largest raw_w and fb_w of fb_drawGray
  Radius      \* bound: the largest radius; RADIUS is 20

VARIABLE call   \* the last call: its name fn, its arguments, and what it drew

Abs(n) == IF n < 0 THEN -n ELSE n
Larger(m, n) == IF m > n THEN m ELSE n

-----------------------------------------------------------------------------
(* Pixels: fb->vinfo and fb->finfo are a record *)

Depth(d) == d.bits_per_pixel \div 8

screensize(d) == d.line_length * d.yres_virtual

\* MutCheckPx: a column too many.
MutCheckPx(d, x, y) == x \in 0 .. d.xres /\ y \in 0 .. d.yres - 1
fb_checkPx(d, x, y) == x \in 0 .. d.xres - 1 /\ y \in 0 .. d.yres - 1

\* MutLocate: the visible width is taken for the length of a line.
MutLocate(d, x, y) == (y + d.yoffset) * d.xres * Depth(d) + (x + d.xoffset) * Depth(d)
locate(d, x, y) == (y + d.yoffset) * d.line_length + (x + d.xoffset) * Depth(d)

BytesFrom(location, n) == location .. location + n - 1

\* Four stores at 32 bits, one of a short otherwise.
fb_drawPixel(d, x, y) ==
  IF fb_checkPx(d, x, y)
  THEN BytesFrom(locate(d, x, y), IF d.bits_per_pixel = 32 THEN 4 ELSE 2)
  ELSE {}

\* The devices fb_drawGray draws on (display ends with any other): the screen is
\* a part of the virtual screen, whose lines fit into line_length.
Device ==
  {d \in [bits_per_pixel : {16, 32},
          xres : 1 .. Resolution, yres : 1 .. Resolution,
          xoffset : 0 .. Padding, yoffset : 0 .. Padding,
          yres_virtual : 1 .. Resolution + Padding,
          line_length : 2 .. (Resolution + Padding) * 4 + Padding] :
     /\ d.yoffset + d.yres <= d.yres_virtual
     /\ (d.xoffset + d.xres) * Depth(d) <= d.line_length}

-----------------------------------------------------------------------------
(* Scaling: the row or column of the source in row or column n of the      *)
(* screen                                                                  *)

\* MutSource: rounded up.
MutSource(n, raw_n, fb_n) == (n * raw_n + fb_n - 1) \div fb_n
Source(n, raw_n, fb_n) == (n * raw_n) \div fb_n

-----------------------------------------------------------------------------
(* Shapes *)

fb_fillBox(px, w, h) == (px[1] .. px[1] + w - 1) \X (px[2] .. px[2] + h - 1)

\* The top row, the sides without the corners, the bottom row.
fb_drawBox(px, w, h) ==
  LET columns == px[1] .. px[1] + w - 1
      sides == {px[1], px[1] + w - 1}
  IN  (columns \X {px[2], px[2] + h - 1}) \cup (sides \X (px[2] + 1 .. px[2] + h - 2))

\* One round of Bresenham's loop.  MutBend: the error is tested before it is
\* advanced.
MutBend(c, dx, dy, ydir) ==
  IF c.error > 0 THEN [y |-> c.y + ydir, error |-> c.error + dy - dx]
                 ELSE [y |-> c.y, error |-> c.error + dy]
Bend(c, dx, dy, ydir) ==
  IF c.error + dy > 0 THEN [y |-> c.y + ydir, error |-> c.error + dy - dx]
                      ELSE [y |-> c.y, error |-> c.error + dy]

fb_drawLine(start, end) ==
  LET swap == Abs(end[2] - start[2]) > Abs(end[1] - start[1])
      Turn(p) == IF swap THEN <<p[2], p[1]>> ELSE p
      forward == Turn(start)[1] <= Turn(end)[1]
      from == IF forward THEN Turn(start) ELSE Turn(end)
      to == IF forward THEN Turn(end) ELSE Turn(start)
      dx == to[1] - from[1]
      dy == Abs(to[2] - from[2])
      ydir == IF from[2] < to[2] THEN 1 ELSE -1
      at[x \in from[1] .. to[1]] ==
        IF x = from[1] THEN [y |-> from[2], error |-> -(dx \div 2)]
        ELSE Bend(at[x - 1], dx, dy, ydir)
  IN  {Turn(<<x, at[x].y>>) : x \in from[1] .. to[1]}

\* One round of the circle's loop.  MutShrink: the distance is not corrected.
MutShrink(c, X) ==
  LET distance == c.distance + 2 * X - 1
  IN  IF distance >= 0 THEN [Y |-> c.Y - 1, distance |-> distance]
                       ELSE [Y |-> c.Y, distance |-> distance]
Shrink(c, X) ==
  LET distance == c.distance + 2 * X - 1
  IN  IF distance >= 0 THEN [Y |-> c.Y - 1, distance |-> distance - 2 * (c.Y - 1) + 2]
                       ELSE [Y |-> c.Y, distance |-> distance]

Row(n, y) == fb_drawLine(<<-n, y>>, <<n, y>>)

\* About <<0, 0>>: the two axes, and four rows for each iCircleX up to iCircleY.
fb_drawFilledCircle(radius) ==
  LET c[X \in 0 .. radius] ==
        IF X = 0 THEN [Y |-> radius, distance |-> -radius] ELSE Shrink(c[X - 1], X)
  IN  fb_drawLine(<<0, radius>>, <<0, -radius>>) \cup Row(radius, 0)
        \cup UNION {Row(X, c[X].Y) \cup Row(X, -c[X].Y) \cup Row(c[X].Y, X) \cup Row(c[X].Y, -X) :
                      X \in {X \in 1 .. radius : X <= c[X - 1].Y}}

-----------------------------------------------------------------------------
(* The calls *)

NoCall == [fn |-> "none"]

Init == call = NoCall

CallLine ==
  \E x1, y1, x2, y2 \in Coordinate :
    call' = [fn |-> "fb_drawLine", start |-> <<x1, y1>>, end |-> <<x2, y2>>,
             drew |-> fb_drawLine(<<x1, y1>>, <<x2, y2>>)]

CallCircle ==
  \E radius \in 0 .. Radius :
    call' = [fn |-> "fb_drawFilledCircle", radius |-> radius,
             drew |-> fb_drawFilledCircle(radius)]

CallBox ==
  \E w, h \in 1 .. Width :
    call' = [fn |-> "fb_drawBox", drew |-> fb_drawBox(<<0, 0>>, w, h),
             filled |-> fb_fillBox(<<0, 0>>, w, h)]

CallGray ==
  \E raw_n, fb_n \in 1 .. Width :
    call' = [fn |-> "fb_drawGray", raw_n |-> raw_n,
             shows |-> [n \in 0 .. fb_n - 1 |-> Source(n, raw_n, fb_n)]]

\* Every pixel of the screen, and those around it.
CallPixels ==
  \E d \in Device :
    call' = [fn |-> "fb_drawPixel", device |-> d,
             drew |-> [p \in (-1 .. d.xres) \X (-1 .. d.yres) |-> fb_drawPixel(d, p[1], p[2])]]

Next ==
  \/ call = NoCall /\ (CallLine \/ CallCircle \/ CallBox \/ CallGray \/ CallPixels)
  \/ call # NoCall /\ call' = NoCall

Spec == Init /\ [][Next]_call

-----------------------------------------------------------------------------
(* Properties *)

\* Whatever padding and panning the device has, a pixel of the screen is written
\* inside the mapping of fb_init, in one line of it, to bytes of its own, and a
\* pixel off the screen not at all (fbDraw.c:42-44, 131-170).
PixelsInside ==
  call.fn = "fb_drawPixel" =>
    LET d == call.device
        Pixel == DOMAIN call.drew
        Line(b) == b \div d.line_length
    IN  \A p \in Pixel :
          /\ call.drew[p] \subseteq 0 .. screensize(d) - 1
          /\ call.drew[p] = {} <=> ~(p[1] \in 0 .. d.xres - 1 /\ p[2] \in 0 .. d.yres - 1)
          /\ \A q \in Pixel \ {p} :
               /\ call.drew[p] \cap call.drew[q] = {}
               /\ \A b \in call.drew[p], c \in call.drew[q] : p[2] = q[2] <=> Line(b) = Line(c)

\* fb_drawGray reads inside the frame, keeps its order and shows no column or row
\* of it more than once more often than another (fbDraw.c:63-69): none is left
\* out of a larger screen, none repeated on a smaller one.
ScaleExact ==
  call.fn = "fb_drawGray" =>
    LET screen == DOMAIN call.shows
        source == 0 .. call.raw_n - 1
        Times(s) == Cardinality({n \in screen : call.shows[n] = s})
    IN  /\ \A n \in screen : call.shows[n] \in source
        /\ \A m, n \in screen : m <= n => call.shows[m] <= call.shows[n]
        /\ \A s, t \in source : Times(s) <= Times(t) + 1

\* A line joins its ends whichever is given first, with one pixel for each step
\* along its longer side, none more than half a pixel from the exact line
\* (fbDraw.c:254-325).
LineExact ==
  call.fn = "fb_drawLine" =>
    LET dx == call.end[1] - call.start[1]
        dy == call.end[2] - call.start[2]
        length == Larger(Abs(dx), Abs(dy))
        Deviation(p) == Abs(dx * (p[2] - call.start[2]) - dy * (p[1] - call.start[1]))
    IN  /\ {call.start, call.end} \subseteq call.drew
        /\ Cardinality(call.drew) = length + 1
        /\ \A p \in call.drew : 2 * Deviation(p) <= length
        /\ call.drew = fb_drawLine(call.end, call.start)

\* A filled circle has every pixel within its radius and none more than half a
\* pixel beyond it: no row is missed where the four rows of a round meet those of
\* the next (fbDraw.c:696-717).
DiscFilled ==
  call.fn = "fb_drawFilledCircle" =>
    LET r == call.radius
        Square == (-r - 1 .. r + 1) \X (-r - 1 .. r + 1)
        Within(n) == {p \in Square : p[1] * p[1] + p[2] * p[2] <= n}
    IN  Within(r * r) \subseteq call.drew /\ call.drew \subseteq Within(r * r + r)

\* The outline of a box is the edge of what fb_fillBox fills, down to boxes of
\* one row or column, whose sides coincide (fbDraw.c:209-249).
BoxOutline ==
  call.fn = "fb_drawBox" =>
    LET Around(p) == {p[1] - 1, p[1], p[1] + 1} \X {p[2] - 1, p[2], p[2] + 1}
      IN  call.drew = {p \in call.filled : ~(Around(p) \subseteq call.filled)}

\* Both figures of the header, each filled and bordered as it says.
FiguresExact == DiscFilled /\ BoxOutline

=============================================================================
