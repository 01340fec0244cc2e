------------------------------ MODULE DrawProofs ------------------------------
(***************************************************************************)
(* Proofs about the drawing on the framebuffer in MCParts: where a pixel   *)
(* is, how a frame is scaled and which pixels a line, a box and a filled   *)
(* circle have, for every size of the screen and of the figures.           *)
(***************************************************************************)
EXTENDS FrameProofs, FunctionTheorems, WellFoundedInduction

-----------------------------------------------------------------------------
(* The pixels of the framebuffer                                           *)

LEMMA DrawingStep == [Next]_vars => [D!Next]_fb_call
  BY DEF Next, vars, OthersStay

\* What fb_drawPixel was last called for, and what it drew.
PixelCall(d) ==
  [fn |-> "fb_drawPixel", device |-> d,
   drew |-> [p \in (-1 .. d.xres) \X (-1 .. d.yres) |-> D!fb_drawPixel(d, p[1], p[2])]]

PixelInv == fb_call.fn = "fb_drawPixel" => \E d \in D!Device : fb_call = PixelCall(d)

LEMMA PixelInductive == Spec => []PixelInv
  <1>1. D!Init => PixelInv
    BY DEF D!Init, D!NoCall, PixelInv
  <1>2. PixelInv /\ [D!Next]_fb_call => PixelInv'
    <2> SUFFICES ASSUME PixelInv, [D!Next]_fb_call PROVE PixelInv'
      OBVIOUS
    <2>1. CASE UNCHANGED fb_call
      BY <2>1 DEF PixelInv, PixelCall
    <2>2. CASE D!CallPixels
      BY <2>2 DEF PixelInv, PixelCall, D!CallPixels
    <2>3. CASE D!CallLine \/ D!CallCircle \/ D!CallBox \/ D!CallGray \/ fb_call' = D!NoCall
      <3>1. fb_call'.fn # "fb_drawPixel"
        <4>1. CASE D!CallLine
          BY <4>1 DEF D!CallLine
        <4>2. CASE D!CallCircle
          BY <4>2 DEF D!CallCircle
        <4>3. CASE D!CallBox
          BY <4>3 DEF D!CallBox
        <4>4. CASE D!CallGray
          BY <4>4 DEF D!CallGray
        <4>5. CASE fb_call' = D!NoCall
          BY <4>5 DEF D!NoCall
        <4>6. QED
          BY <2>3, <4>1, <4>2, <4>3, <4>4, <4>5
      <3>2. QED
        BY <3>1 DEF PixelInv
    <2>4. QED
      BY <2>1, <2>2, <2>3 DEF D!Next
  <1>3. QED
    BY <1>1, <1>2, DrawingStep, PTL DEF Spec, Init

\* A device as numbers: Depth(d) bytes per pixel, which both ways of storing write.
LEMMA DeviceNumbers ==
  ASSUME NEW d \in D!Device
  PROVE  /\ D!Depth(d) \in {2, 4}
         /\ (IF d.bits_per_pixel = 32 THEN 4 ELSE 2) = D!Depth(d)
         /\ d.xres \in Nat /\ d.yres \in Nat /\ d.xoffset \in Nat /\ d.yoffset \in Nat
         /\ d.yres_virtual \in Nat /\ d.line_length \in Nat \ {0}
         /\ d.yoffset + d.yres <= d.yres_virtual
         /\ (d.xoffset + d.xres) * D!Depth(d) <= d.line_length
  <1>1. /\ d.bits_per_pixel \in {16, 32}
        /\ d.xres \in 1 .. Resolution /\ d.yres \in 1 .. Resolution
        /\ d.xoffset \in 0 .. Padding /\ d.yoffset \in 0 .. Padding
        /\ d.yres_virtual \in 1 .. Resolution + Padding
        /\ d.line_length \in 2 .. (Resolution + Padding) * 4 + Padding
        /\ d.yoffset + d.yres <= d.yres_virtual
        /\ (d.xoffset + d.xres) * D!Depth(d) <= d.line_length
    BY DEF D!Device
  <1>2. Resolution \in Nat /\ Padding \in Nat
    BY PartsAssumption DEF PartsAssumption
  <1>3. 16 \div 8 = 2 /\ 32 \div 8 = 4
    OBVIOUS
  <1>4. /\ D!Depth(d) \in {2, 4}
        /\ (IF d.bits_per_pixel = 32 THEN 4 ELSE 2) = D!Depth(d)
    BY <1>1, <1>3 DEF D!Depth
  <1>5. QED
    BY <1>1, <1>2, <1>4

\* The bytes of a pixel of the screen: in which line of the mapping, and where in it.
LEMMA PixelBytes ==
  ASSUME NEW d \in D!Device, NEW a \in 0 .. d.xres - 1, NEW b \in 0 .. d.yres - 1
  PROVE  LET dep == D!Depth(d)
             s == (a + d.xoffset) * dep
         IN  /\ D!fb_drawPixel(d, a, b) # {}
             /\ \A c \in D!fb_drawPixel(d, a, b) :
                  /\ c \in 0 .. D!screensize(d) - 1
                  /\ c \div d.line_length = b + d.yoffset
                  /\ c % d.line_length \in s .. s + dep - 1
  <1> DEFINE dep == D!Depth(d)
             s == (a + d.xoffset) * dep
             len == d.line_length
             row == b + d.yoffset
             rows == d.yres_virtual
             loc == len * row + s
  <1>1. /\ dep \in {2, 4} /\ len \in Nat \ {0} /\ rows \in Nat
        /\ d.xres \in Nat /\ d.yres \in Nat /\ d.xoffset \in Nat /\ d.yoffset \in Nat
        /\ d.yoffset + d.yres <= rows /\ (d.xoffset + d.xres) * dep <= len
    BY DeviceNumbers
  <1>2. row \in 0 .. rows - 1 /\ s \in Nat /\ s + dep <= len
    <2>1. CASE dep = 2
      BY <1>1, <2>1
    <2>2. CASE dep = 4
      BY <1>1, <2>2
    <2>3. QED
      BY <1>1, <2>1, <2>2
  <1>3. D!fb_drawPixel(d, a, b) = loc .. loc + dep - 1
    <2>1. D!fb_checkPx(d, a, b)
      BY DEF D!fb_checkPx
    <2>2. row * len = len * row
      BY <1>1, <1>2
    <2>3. D!locate(d, a, b) = loc
      BY <2>2 DEF D!locate
    <2>4. (IF d.bits_per_pixel = 32 THEN 4 ELSE 2) = dep
      BY DeviceNumbers
    <2>5. QED
      BY <2>1, <2>3, <2>4 DEF D!fb_drawPixel, D!BytesFrom
  <1>4. D!screensize(d) = len * rows
    BY <1>1 DEF D!screensize
  <1> HIDE DEF s, len, row, rows, dep
  <1>5. len * row \in Nat /\ loc \in Nat /\ len * row + len <= len * rows
    <2>1. len * row + len <= len * rows
      BY <1>1, <1>2, ProductGrows
    <2>2. QED
      BY <1>1, <1>2, <2>1
  <1>6. ASSUME NEW c \in loc .. loc + dep - 1
        PROVE  /\ c \in 0 .. len * rows - 1
               /\ c \div len = row /\ c % len \in s .. s + dep - 1
    <2> DEFINE r == c - len * row
    <2>1. r \in 0 .. len - 1 /\ r \in s .. s + dep - 1 /\ c = len * row + r
      BY <1>1, <1>2, <1>5
    <2>2. c \div len = row /\ c % len = r
      <3> HIDE DEF r
      <3>1. row \in Nat
        BY <1>1, <1>2
      <3>2. (len * row + r) \div len = row /\ (len * row + r) % len = r
        BY <1>1, <2>1, <3>1, DivUnique
      <3>3. QED
        BY <2>1, <3>2
    <2>3. c \in 0 .. len * rows - 1
      BY <1>1, <1>2, <1>5, <2>1
    <2>4. QED
      BY <2>1, <2>2, <2>3
  <1>7. loc \in loc .. loc + dep - 1
    BY <1>1, <1>5
  <1>8. QED
    BY <1>3, <1>4, <1>6, <1>7 DEF s, len, row, dep

\* Pixels in the same line that are not the same have their bytes apart.
LEMMA ColumnsApart ==
  ASSUME NEW m \in Int, NEW n \in Int, NEW o \in Int, NEW dep \in {2, 4}, m # n,
         NEW r \in (m + o) * dep .. (m + o) * dep + dep - 1
  PROVE  r \notin (n + o) * dep .. (n + o) * dep + dep - 1
  <1>1. CASE dep = 2
    BY <1>1
  <1>2. CASE dep = 4
    BY <1>2
  <1>3. QED
    BY <1>1, <1>2

\* Whatever padding and panning the device has, a pixel of the screen is written
\* inside the mapping of fb_init, in one line of it, to bytes of its own, and a pixel
\* off the screen not at all (fbDraw.c:42-44, 131-170), for every size of the screen.
THEOREM PixelsStayInside == Spec => []PixelsInside
  <1>1. ASSUME NEW d \in D!Device, fb_call = PixelCall(d)
        PROVE  D!PixelsInside
    <2> DEFINE Pixel == (-1 .. d.xres) \X (-1 .. d.yres)
               Line(b) == b \div d.line_length
               On(p) == p[1] \in 0 .. d.xres - 1 /\ p[2] \in 0 .. d.yres - 1
               B(p) == D!fb_drawPixel(d, p[1], p[2])
    <2>1. /\ d.xres \in Nat /\ d.yres \in Nat /\ d.xoffset \in Nat /\ d.yoffset \in Nat
          /\ D!Depth(d) \in {2, 4}
      BY DeviceNumbers
    <2>2. ASSUME NEW p \in Pixel
          PROVE  /\ B(p) = {} <=> ~On(p)
                 /\ \A b \in B(p) : b \in 0 .. D!screensize(d) - 1 /\ Line(b) = p[2] + d.yoffset
      <3>1. CASE On(p)
        BY <3>1, PixelBytes
      <3>2. CASE ~On(p)
        BY <3>2 DEF D!fb_drawPixel, D!fb_checkPx
      <3>3. QED
        BY <3>1, <3>2
    <2>3. ASSUME NEW p \in Pixel, NEW q \in Pixel, p # q,
                 NEW b \in B(p), NEW c \in B(q)
          PROVE  b # c /\ (p[2] = q[2] <=> Line(b) = Line(c))
      <3>1. /\ p[1] \in Int /\ p[2] \in Int /\ q[1] \in Int /\ q[2] \in Int
            /\ p[1] # q[1] \/ p[2] # q[2]
        BY <2>1, <2>3
      <3>2. Line(b) = p[2] + d.yoffset /\ Line(c) = q[2] + d.yoffset /\ On(p) /\ On(q)
        BY <2>2, <2>3
      <3>3. p[2] = q[2] <=> Line(b) = Line(c)
        BY <2>1, <3>1, <3>2
      <3>4. ASSUME b = c PROVE FALSE
        <4>1. p[2] = q[2] /\ p[1] # q[1]
          BY <3>1, <3>3, <3>4
        <4> DEFINE r == b % d.line_length
                   dep == D!Depth(d)
        <4>2. /\ r \in (p[1] + d.xoffset) * dep .. (p[1] + d.xoffset) * dep + dep - 1
              /\ r \in (q[1] + d.xoffset) * dep .. (q[1] + d.xoffset) * dep + dep - 1
          BY <2>3, <3>2, <3>4, PixelBytes
        <4> HIDE DEF r, dep
        <4>3. dep \in {2, 4} /\ d.xoffset \in Int
          BY <2>1 DEF dep
        <4>4. QED
          BY <3>1, <4>1, <4>2, <4>3, ColumnsApart
      <3>5. QED
        BY <3>3, <3>4
    <2>4. /\ fb_call.device = d /\ DOMAIN fb_call.drew = Pixel
          /\ \A p \in Pixel : fb_call.drew[p] = B(p)
      BY <1>1 DEF PixelCall
    <2> HIDE DEF Pixel, B
    <2>5. QED
      BY <2>2, <2>3, <2>4 DEF D!PixelsInside
  <1>2. PixelInv => PixelsInside
    BY <1>1 DEF PixelInv, PixelsInside, D!PixelsInside
  <1>3. QED
    BY <1>2, PixelInductive, PTL

-----------------------------------------------------------------------------
(* Scaling *)

LEMMA ProductCancels ==
  ASSUME NEW b \in Nat \ {0}, NEW p \in Int, NEW q \in Int
  PROVE  /\ b * p < b * q <=> p < q
         /\ b * p <= b * q <=> p <= q
  <1>1. p < q => b * p + b <= b * q
    BY ProductGrows
  <1>2. q < p => b * q + b <= b * p
    BY ProductGrows
  <1>3. p = q => b * p = b * q
    OBVIOUS
  <1>4. b * p \in Int /\ b * q \in Int
    OBVIOUS
  <1>5. QED
    BY <1>1, <1>2, <1>3, <1>4

\* The quotient is the one number of divisors that fit.
LEMMA DivIs ==
  ASSUME NEW a \in Nat, NEW b \in Nat \ {0}, NEW p \in Nat
  PROVE  a \div b = p <=> b * p <= a /\ a < b * p + b
  <1>1. ASSUME a \div b = p
        PROVE  b * p <= a /\ a < b * p + b
    <2> DEFINE r == a % b
    <2>1. r \in 0 .. b - 1 /\ a = b * (a \div b) + r
      BY DivMod
    <2> HIDE DEF r
    <2>2. a = b * p + r /\ b * p \in Int
      BY <1>1, <2>1
    <2>3. QED
      BY <2>1, <2>2
  <1>2. ASSUME b * p <= a, a < b * p + b
        PROVE  a \div b = p
    <2> DEFINE r == a - b * p
    <2>1. b * p \in Nat /\ r \in 0 .. b - 1 /\ a = b * p + r
      BY <1>2
    <2> HIDE DEF r
    <2>2. (b * p + r) \div b = p
      BY <2>1, DivUnique
    <2>3. QED
      BY <2>1, <2>2
  <1>3. QED
    BY <1>1, <1>2

\* The first place on the screen, of fb_n, that shows place s of the source, of raw_n,
\* or a later one.
First(s, raw_n, fb_n) == (s * fb_n + raw_n - 1) \div raw_n

LEMMA FirstShows ==
  ASSUME NEW raw_n \in Nat \ {0}, NEW fb_n \in Nat \ {0}, NEW s \in Nat
  PROVE  LET f == First(s, raw_n, fb_n)
         IN  /\ f \in Nat
             /\ s * fb_n <= raw_n * f /\ raw_n * f < s * fb_n + raw_n
             /\ \A n \in Nat : f <= n <=> s * fb_n <= n * raw_n
  <1> DEFINE f == First(s, raw_n, fb_n)
             a == s * fb_n + raw_n - 1
             m == raw_n * f
  <1>1. s * fb_n \in Nat /\ a \in Nat
    OBVIOUS
  <1>2. f \in Nat /\ a % raw_n \in 0 .. raw_n - 1 /\ a = m + (a % raw_n)
    BY <1>1, DivMod DEF First
  <1>3. m \in Nat
    BY <1>2
  <1> HIDE DEF f, m
  <1>4. s * fb_n <= m /\ m < s * fb_n + raw_n
    BY <1>1, <1>2, <1>3
  <1>5. ASSUME NEW n \in Nat
        PROVE  f <= n <=> s * fb_n <= n * raw_n
    <2>1. raw_n * n = n * raw_n /\ raw_n * n \in Nat
      OBVIOUS
    <2>2. f <= n => m <= raw_n * n
      BY <1>2, ProductCancels DEF m
    <2>3. n < f => raw_n * n + raw_n <= m
      BY <1>2, ProductGrows DEF m
    <2>4. QED
      BY <1>1, <1>2, <1>3, <1>4, <2>1, <2>2, <2>3
  <1>6. QED
    BY <1>2, <1>4, <1>5 DEF f, m

\* How many places of the screen show one place of the source: as many as for any
\* other, or one more.
LEMMA ShownTimes ==
  ASSUME NEW raw_n \in Nat \ {0}, NEW fb_n \in Nat \ {0}, NEW s \in 0 .. raw_n - 1
  PROVE  Cardinality({n \in 0 .. fb_n - 1 : D!Source(n, raw_n, fb_n) = s})
           \in {fb_n \div raw_n, (fb_n \div raw_n) + 1}
  <1> DEFINE f == First(s, raw_n, fb_n)
             g == First(s + 1, raw_n, fb_n)
             q == fb_n \div raw_n
             low == s * fb_n
             high == (s + 1) * fb_n
             Shown == {n \in 0 .. fb_n - 1 : D!Source(n, raw_n, fb_n) = s}
  <1>1. low \in Nat /\ high = low + fb_n /\ high \in Nat /\ fb_n * s = low
    OBVIOUS
  <1>2. /\ f \in Nat /\ low <= raw_n * f /\ raw_n * f < low + raw_n
        /\ \A n \in Nat : f <= n <=> low <= n * raw_n
    BY FirstShows
  <1>3. /\ g \in Nat /\ high <= raw_n * g /\ raw_n * g < high + raw_n
        /\ \A n \in Nat : g <= n <=> high <= n * raw_n
    BY s + 1 \in Nat, FirstShows
  <1>4. q \in Nat /\ raw_n * q <= fb_n /\ fb_n < raw_n * q + raw_n
    <2>1. q \in Nat
      BY DivMod
    <2>2. QED
      BY <2>1, DivIs
  <1>5. g <= fb_n
    <2>1. s + 1 <= raw_n /\ s + 1 \in Int
      OBVIOUS
    <2>2. fb_n * (s + 1) <= fb_n * raw_n
      BY <2>1, ProductCancels
    <2>3. fb_n * (s + 1) = high
      OBVIOUS
    <2>4. QED
      BY <1>3, <2>2, <2>3
  <1> HIDE DEF f, g, q, low, high
  <1>6. f <= g
    BY <1>1, <1>2, <1>3
  <1>7. ASSUME NEW n \in Nat
        PROVE  D!Source(n, raw_n, fb_n) = s <=> low <= n * raw_n /\ n * raw_n < high
    <2>1. n * raw_n \in Nat /\ s \in Nat
      OBVIOUS
    <2>2. (n * raw_n) \div fb_n = s <=> fb_n * s <= n * raw_n /\ n * raw_n < fb_n * s + fb_n
      BY <2>1, DivIs
    <2>3. QED
      BY <1>1, <2>1, <2>2 DEF D!Source
  <1>8. Shown = f .. g - 1
    <2>1. ASSUME NEW n \in Nat
          PROVE  D!Source(n, raw_n, fb_n) = s <=> f <= n /\ n < g
      <3>1. n * raw_n \in Nat
        OBVIOUS
      <3>2. (f <= n <=> low <= n * raw_n) /\ (g <= n <=> high <= n * raw_n)
        BY <1>2, <1>3
      <3>3. QED
        BY <1>1, <1>2, <1>3, <1>7, <3>1, <3>2
    <2>2. \A n : n \in 0 .. fb_n - 1 => n \in Nat
      OBVIOUS
    <2>3. \A n : n \in f .. g - 1 <=> n \in 0 .. fb_n - 1 /\ f <= n /\ n < g
      BY <1>2, <1>3, <1>5
    <2>4. QED
      BY <2>1, <2>2, <2>3
  <1>9. Cardinality(f .. g - 1) = g - f
    <2>1. f \in Int /\ g - 1 \in Int
      BY <1>2, <1>3
    <2>2. Cardinality(f .. g - 1) = IF f > g - 1 THEN 0 ELSE (g - 1) - f + 1
      BY <2>1, FS_Interval
    <2>3. QED
      BY <1>2, <1>3, <1>6, <2>2
  <1>10. g - f \in {q, q + 1}
    <2> DEFINE u == raw_n * g
               v == raw_n * f
               t == raw_n * q
    <2>1. u \in Nat /\ v \in Nat /\ t \in Nat
      BY <1>2, <1>3, <1>4
    <2>2. raw_n * (g - f) = u - v /\ raw_n * (q - 1) = t - raw_n /\ raw_n * (q + 2) = t + raw_n + raw_n
      BY <1>2, <1>3, <1>4
    <2>3. u - v > t - raw_n /\ u - v < t + raw_n + raw_n
      <3> HIDE DEF u, v, t
      <3>1. high <= u /\ u < high + raw_n /\ low <= v /\ v < low + raw_n
            /\ t <= fb_n /\ fb_n < t + raw_n
        BY <1>2, <1>3, <1>4 DEF u, v, t
      <3>2. QED
        BY <1>1, <2>1, <3>1
    <2>4. q - 1 \in Int /\ g - f \in Int /\ q + 2 \in Int
      BY <1>2, <1>3, <1>4
    <2>5. q - 1 < g - f
      BY <2>2, <2>3, <2>4, ProductCancels
    <2>6. g - f < q + 2
      BY <2>2, <2>3, <2>4, ProductCancels
    <2>7. QED
      BY <1>2, <1>3, <1>4, <2>5, <2>6
  <1>11. QED
    BY <1>8, <1>9, <1>10 DEF q

\* FbDraw counts as this module does.
LEMMA SameNumber == \A S : D!Cardinality(S) = Cardinality(S)
  BY DEF D!Cardinality, Cardinality

\* What fb_drawGray was last called for, and what it showed.
GrayCall(raw_n, fb_n) ==
  [fn |-> "fb_drawGray", raw_n |-> raw_n,
   shows |-> [n \in 0 .. fb_n - 1 |-> D!Source(n, raw_n, fb_n)]]

GrayInv ==
  fb_call.fn = "fb_drawGray" => \E raw_n, fb_n \in 1 .. Width : fb_call = GrayCall(raw_n, fb_n)

LEMMA GrayInductive == Spec => []GrayInv
  <1>1. D!Init => GrayInv
    BY DEF D!Init, D!NoCall, GrayInv
  <1>2. GrayInv /\ [D!Next]_fb_call => GrayInv'
    <2> SUFFICES ASSUME GrayInv, [D!Next]_fb_call PROVE GrayInv'
      OBVIOUS
    <2>1. CASE UNCHANGED fb_call
      BY <2>1 DEF GrayInv, GrayCall
    <2>2. CASE D!CallGray
      BY <2>2 DEF GrayInv, GrayCall, D!CallGray
    <2>3. CASE fb_call'.fn # "fb_drawGray"
      BY <2>3 DEF GrayInv
    <2>4. CASE D!CallLine
      BY <2>3, <2>4 DEF D!CallLine
    <2>5. CASE D!CallCircle
      BY <2>3, <2>5 DEF D!CallCircle
    <2>6. CASE D!CallBox
      BY <2>3, <2>6 DEF D!CallBox
    <2>7. CASE D!CallPixels
      BY <2>3, <2>7 DEF D!CallPixels
    <2>8. CASE fb_call' = D!NoCall
      BY <2>3, <2>8 DEF D!NoCall
    <2>9. QED
      BY <2>1, <2>2, <2>4, <2>5, <2>6, <2>7, <2>8 DEF D!Next
  <1>3. QED
    BY <1>1, <1>2, DrawingStep, PTL DEF Spec, Init

\* fb_drawGray reads inside the frame, keeps its order and shows no column or row of
\* it more than once more often than another (fbDraw.c:63-69), for every size of the
\* frame and of the screen.
THEOREM ScalesExactly == Spec => []ScaleExact
  <1>1. ASSUME NEW raw_n \in 1 .. Width, NEW fb_n \in 1 .. Width, fb_call = GrayCall(raw_n, fb_n)
        PROVE  D!ScaleExact
    <2> DEFINE screen == 0 .. fb_n - 1
               source == 0 .. raw_n - 1
               Shows(n) == D!Source(n, raw_n, fb_n)
               Times(s) == Cardinality({n \in screen : Shows(n) = s})
    <2>1. /\ fb_call.raw_n = raw_n /\ DOMAIN fb_call.shows = screen
          /\ \A n \in screen : fb_call.shows[n] = Shows(n)
      BY <1>1 DEF GrayCall
    <2>2. raw_n \in Nat \ {0} /\ fb_n \in Nat \ {0}
      OBVIOUS
    <2>3. ASSUME NEW n \in screen
          PROVE  /\ Shows(n) \in Nat
                 /\ fb_n * Shows(n) <= n * raw_n /\ n * raw_n < fb_n * Shows(n) + fb_n
      <3>1. n \in Nat /\ n * raw_n \in Nat
        BY <2>2
      <3>2. Shows(n) \in Nat
        BY <2>2, <3>1, DivMod DEF D!Source
      <3>3. QED
        BY <2>2, <3>1, <3>2, DivIs DEF D!Source
    <2>4. ASSUME NEW n \in screen
          PROVE  Shows(n) \in source
      <3>1. n * raw_n < fb_n * raw_n
        <4>1. n \in Int /\ n < fb_n
          BY <2>2
        <4>2. raw_n * n < raw_n * fb_n
          BY <2>2, <4>1, ProductCancels
        <4>3. QED
          BY <2>2, <4>1, <4>2
      <3>2. fb_n * Shows(n) < fb_n * raw_n
        <4>1. fb_n * Shows(n) \in Int /\ fb_n * raw_n \in Int /\ n * raw_n \in Int
          BY <2>2, <2>3
        <4>2. fb_n * Shows(n) <= n * raw_n
          BY <2>3
        <4> HIDE DEF Shows
        <4>3. QED
          BY <3>1, <4>1, <4>2
      <3>3. Shows(n) < raw_n
        BY <2>2, <2>3, <3>2, ProductCancels
      <3>4. QED
        BY <2>2, <2>3, <3>3
    <2>5. ASSUME NEW m \in screen, NEW n \in screen, m <= n
          PROVE  Shows(m) <= Shows(n)
      <3>1. m * raw_n <= n * raw_n
        <4>1. m \in Int /\ n \in Int
          OBVIOUS
        <4>2. raw_n * m <= raw_n * n
          BY <2>2, <2>5, <4>1, ProductCancels
        <4>3. QED
          BY <2>2, <4>1, <4>2
      <3> DEFINE a == fb_n * Shows(m)
                 b == fb_n * Shows(n)
                 c == m * raw_n
                 d == n * raw_n
      <3>2. a <= c /\ c <= d /\ d < b + fb_n /\ a \in Int /\ b \in Int /\ c \in Int /\ d \in Int
        BY <2>2, <2>3, <3>1
      <3>3. a < fb_n * (Shows(n) + 1)
        <4>1. fb_n * (Shows(n) + 1) = b + fb_n
          BY <2>2, <2>3
        <4> HIDE DEF a, b, c, d
        <4>2. QED
          BY <2>2, <3>2, <4>1
      <3>4. Shows(m) < Shows(n) + 1
        BY <2>2, <2>3, <3>3, ProductCancels
      <3>5. QED
        BY <2>3, <3>4
    <2>6. ASSUME NEW s \in source, NEW t \in source
          PROVE  Times(s) <= Times(t) + 1
      <3>1. fb_n \div raw_n \in Nat
        BY <2>2, DivMod
      <3>2. /\ Times(s) \in {fb_n \div raw_n, (fb_n \div raw_n) + 1}
            /\ Times(t) \in {fb_n \div raw_n, (fb_n \div raw_n) + 1}
        BY <2>2, ShownTimes
      <3>3. QED
        BY <3>1, <3>2
    <2> HIDE DEF Shows
    <2>7. ASSUME NEW s
          PROVE  D!Cardinality({n \in DOMAIN fb_call.shows : fb_call.shows[n] = s}) = Times(s)
      <3>1. {n \in DOMAIN fb_call.shows : fb_call.shows[n] = s} = {n \in screen : Shows(n) = s}
        BY <2>1
      <3>2. QED
        BY <3>1, SameNumber
    <2> HIDE DEF screen, Times
    <2>8. source = 0 .. fb_call.raw_n - 1
      BY <2>1
    <2> HIDE DEF source
    <2>9. /\ \A n \in DOMAIN fb_call.shows : fb_call.shows[n] \in 0 .. fb_call.raw_n - 1
          /\ \A m, n \in DOMAIN fb_call.shows : m <= n => fb_call.shows[m] <= fb_call.shows[n]
      BY <2>1, <2>4, <2>5, <2>8
    <2>10. \A s, t \in 0 .. fb_call.raw_n - 1 :
             D!Cardinality({n \in DOMAIN fb_call.shows : fb_call.shows[n] = s})
               <= D!Cardinality({n \in DOMAIN fb_call.shows : fb_call.shows[n] = t}) + 1
      BY <2>6, <2>7, <2>8
    <2>11. QED
      BY <2>9, <2>10 DEF D!ScaleExact
  <1>2. GrayInv => ScaleExact
    BY <1>1 DEF GrayInv, ScaleExact, D!ScaleExact
  <1>3. QED
    BY <1>2, GrayInductive, PTL

-----------------------------------------------------------------------------
(* Induction: the library's theorem on well-founded sets has no operator   *)
(* for a parameter, and the natural numbers are one.                       *)

Below == {pair \in Nat \X Nat : pair[1] < pair[2]}

LEMMA BelowWellFounded == IsWellFoundedOn(Below, Nat)
  <1>1. Below = OpToRel(<, Nat)
    BY Zenon DEF Below, OpToRel
  <1>2. QED
    BY <1>1, NatLessThanWellFounded, Zenon

LEMMA LeastNumber ==
  ASSUME NEW S \in SUBSET Nat, S # {}
  PROVE  \E n \in S : \A m \in S : n <= m
  <1>1. PICK n \in S : \A m \in S : ~(<<m, n>> \in Below)
    BY BelowWellFounded, WFMin
  <1>2. \A p, q \in Nat : p < q => <<p, q>> \in Below
    BY DEF Below
  <1>3. n \in Nat /\ \A m \in S : m \in Nat
    OBVIOUS
  <1>4. \A m \in S : ~(m < n)
    BY <1>1, <1>2, <1>3
  <1>5. QED
    BY <1>3, <1>4

\* A set that has 0 and with every number the next has them all.
LEMMA Induction ==
  ASSUME NEW S, 0 \in S, \A n \in Nat : n \in S => n + 1 \in S
  PROVE  Nat \subseteq S
  <1> SUFFICES ASSUME Nat \ S # {} PROVE FALSE
    OBVIOUS
  <1>1. PICK n \in Nat \ S : \A m \in Nat \ S : n <= m
    BY LeastNumber
  <1>2. n # 0 /\ n - 1 \in Nat /\ ~(n <= n - 1) /\ (n - 1) + 1 = n
    OBVIOUS
  <1>3. n - 1 \in S
    BY <1>1, <1>2
  <1>4. QED
    BY <1>2, <1>3

-----------------------------------------------------------------------------
(* Lines: how far Bresenham's loop has turned after k rounds, and what its *)
(* error is then                                                           *)

Bends(k, dx, dy) ==
  IF dx = 0 THEN 0 ELSE (k * dy + (dx - 1 - (dx \div 2))) \div dx

Error(k, dx, dy) == k * dy - (dx \div 2) - dx * Bends(k, dx, dy)

LEMMA Half ==
  ASSUME NEW n \in Nat
  PROVE  n \div 2 \in Nat /\ (2 * (n \div 2) = n \/ 2 * (n \div 2) = n - 1)
  OBVIOUS

\* The number of bends is the one that keeps the error in its range.
LEMMA BendsAre ==
  ASSUME NEW dx \in Nat \ {0}, NEW dy \in 0 .. dx, NEW k \in Nat, NEW m \in Nat
  PROVE  Bends(k, dx, dy) = m <=> k * dy - (dx \div 2) - dx * m \in -(dx - 1) .. 0
  <1> DEFINE h == dx \div 2
             a == k * dy + (dx - 1 - h)
  <1>1. h \in Nat /\ h <= dx - 1
    BY Half
  <1>2. k * dy \in Nat /\ dx * m \in Nat
    OBVIOUS
  <1> HIDE DEF h
  <1>3. a \in Nat
    BY <1>1, <1>2
  <1>4. a \div dx = m <=> dx * m <= a /\ a < dx * m + dx
    BY <1>3, DivIs
  <1>5. dx * m <= a /\ a < dx * m + dx <=> k * dy - h - dx * m \in -(dx - 1) .. 0
    BY <1>1, <1>2
  <1>6. QED
    BY <1>4, <1>5 DEF Bends, h

LEMMA BendsType ==
  ASSUME NEW dx \in Nat \ {0}, NEW dy \in 0 .. dx, NEW k \in Nat
  PROVE  Bends(k, dx, dy) \in Nat /\ Error(k, dx, dy) \in -(dx - 1) .. 0
  <1> DEFINE h == dx \div 2
             a == k * dy + (dx - 1 - h)
  <1>1. h \in Nat /\ h <= dx - 1 /\ k * dy \in Nat
    BY Half
  <1> HIDE DEF h
  <1>2. a \in Nat
    BY <1>1
  <1>3. Bends(k, dx, dy) \in Nat
    BY <1>2, DivMod DEF Bends, h
  <1>4. QED
    BY <1>3, BendsAre DEF Error

\* The first and the last round.
LEMMA BendsEnds ==
  ASSUME NEW dx \in Nat, NEW dy \in 0 .. dx
  PROVE  Bends(0, dx, dy) = 0 /\ Bends(dx, dx, dy) = dy
  <1>1. CASE dx = 0
    BY <1>1 DEF Bends
  <1>2. CASE dx # 0
    <2> DEFINE h == dx \div 2
    <2>1. h \in Nat /\ h <= dx - 1
      BY <1>2, Half
    <2> HIDE DEF h
    <2>2. 0 * dy - h - dx * 0 \in -(dx - 1) .. 0
      BY <2>1
    <2>3. dx * dy - h - dx * dy \in -(dx - 1) .. 0
      <3>1. dx * dy \in Nat
        OBVIOUS
      <3>2. QED
        BY <2>1, <3>1
    <2>4. dx \in Nat \ {0} /\ 0 \in Nat /\ dy \in Nat
      BY <1>2
    <2>5. QED
      BY <2>2, <2>3, <2>4, BendsAre DEF h
  <1>3. QED
    BY <1>1, <1>2

\* From one round to the next.
LEMMA BendsNext ==
  ASSUME NEW dx \in Nat \ {0}, NEW dy \in 0 .. dx, NEW k \in Nat
  PROVE  LET e == Error(k, dx, dy)
         IN  IF e + dy > 0
             THEN /\ Bends(k + 1, dx, dy) = Bends(k, dx, dy) + 1
                  /\ Error(k + 1, dx, dy) = e + dy - dx
             ELSE /\ Bends(k + 1, dx, dy) = Bends(k, dx, dy)
                  /\ Error(k + 1, dx, dy) = e + dy
  <1> DEFINE h == dx \div 2
             e == Error(k, dx, dy)
             m == Bends(k, dx, dy)
             p == k * dy
             q == dx * m
  <1>1. m \in Nat /\ e \in -(dx - 1) .. 0
    BY BendsType
  <1>2. h \in Nat
    BY Half
  <1> HIDE DEF m, h
  <1>3. p \in Nat /\ q \in Nat /\ (k + 1) * dy = p + dy /\ dx * (m + 1) = q + dx
    BY <1>1
  <1>4. e = p - h - q
    BY DEF Error, h, m
  <1> HIDE DEF e, p, q
  <1>5. CASE e + dy > 0
    <2>1. (p + dy) - h - (q + dx) = e + dy - dx
      BY <1>1, <1>2, <1>3, <1>4
    <2>2. e + dy - dx \in -(dx - 1) .. 0
      BY <1>1, <1>5
    <2>3. (k + 1) * dy - h - dx * (m + 1) = e + dy - dx
      BY <1>3, <2>1
    <2>4. k + 1 \in Nat /\ m + 1 \in Nat
      BY <1>1
    <2>5. Bends(k + 1, dx, dy) = m + 1
      BY <2>2, <2>3, <2>4, BendsAre DEF h
    <2>6. Error(k + 1, dx, dy) = e + dy - dx
      BY <2>3, <2>5 DEF Error, h
    <2>7. QED
      BY <1>5, <2>5, <2>6 DEF e, m
  <1>6. CASE ~(e + dy > 0)
    <2>1. (p + dy) - h - q = e + dy
      BY <1>1, <1>2, <1>3, <1>4
    <2>2. e + dy \in -(dx - 1) .. 0
      BY <1>1, <1>6
    <2>3. (k + 1) * dy - h - dx * m = e + dy
      BY <1>3, <2>1 DEF q
    <2>4. k + 1 \in Nat
      OBVIOUS
    <2>5. Bends(k + 1, dx, dy) = m
      BY <1>1, <2>2, <2>3, <2>4, BendsAre DEF h
    <2>6. Error(k + 1, dx, dy) = e + dy
      BY <2>3, <2>5 DEF Error, h
    <2>7. QED
      BY <1>6, <2>5, <2>6 DEF e, m
  <1>7. QED
    BY <1>5, <1>6

\* The rounds of the loop, as fb_drawLine has them, and what they come to.
Rounds(a, b, y0, dx, dy, ydir) ==
  LET at[v \in a .. b] ==
        IF v = a THEN [y |-> y0, error |-> -(dx \div 2)]
        ELSE D!Bend(at[v - 1], dx, dy, ydir)
  IN  at

Round(k, y0, dx, dy, ydir) ==
  [y |-> y0 + ydir * Bends(k, dx, dy), error |-> Error(k, dx, dy)]

LEMMA RoundNext ==
  ASSUME NEW dx \in Nat, NEW dy \in 0 .. dx, NEW y0 \in Int, NEW ydir \in {-1, 1}
  PROVE  /\ Round(0, y0, dx, dy, ydir) = [y |-> y0, error |-> -(dx \div 2)]
         /\ \A k \in 0 .. dx - 1 :
              Round(k + 1, y0, dx, dy, ydir) = D!Bend(Round(k, y0, dx, dy, ydir), dx, dy, ydir)
  <1>1. Round(0, y0, dx, dy, ydir) = [y |-> y0, error |-> -(dx \div 2)]
    <2>1. Bends(0, dx, dy) = 0
      BY BendsEnds
    <2>2. Error(0, dx, dy) = -(dx \div 2)
      <3>1. dx \div 2 \in Nat /\ 0 * dy = 0 /\ dx * 0 = 0
        BY Half
      <3>2. QED
        BY <2>1, <3>1 DEF Error
    <2>3. y0 + ydir * 0 = y0
      OBVIOUS
    <2>4. QED
      BY <2>1, <2>2, <2>3 DEF Round
  <1>2. ASSUME NEW k \in 0 .. dx - 1
        PROVE  Round(k + 1, y0, dx, dy, ydir) = D!Bend(Round(k, y0, dx, dy, ydir), dx, dy, ydir)
    <2> DEFINE err == Error(k, dx, dy)
               m == Bends(k, dx, dy)
    <2>1. dx \in Nat \ {0} /\ k \in Nat
      OBVIOUS
    <2>2. m \in Nat /\ err \in -(dx - 1) .. 0
      BY <2>1, BendsType
    <2>3. Round(k, y0, dx, dy, ydir) = [y |-> y0 + ydir * m, error |-> err]
      BY DEF Round
    <2>4. y0 + ydir * (m + 1) = (y0 + ydir * m) + ydir
      BY <2>2
    <2>5. IF err + dy > 0
          THEN Bends(k + 1, dx, dy) = m + 1 /\ Error(k + 1, dx, dy) = err + dy - dx
          ELSE Bends(k + 1, dx, dy) = m /\ Error(k + 1, dx, dy) = err + dy
      BY <2>1, BendsNext
    <2> HIDE DEF err, m
    <2>6. CASE err + dy > 0
      <3>1. Round(k + 1, y0, dx, dy, ydir)
              = [y |-> (y0 + ydir * m) + ydir, error |-> err + dy - dx]
        BY <2>4, <2>5, <2>6 DEF Round
      <3>2. QED
        BY <2>3, <2>6, <3>1 DEF D!Bend
    <2>7. CASE ~(err + dy > 0)
      <3>1. Round(k + 1, y0, dx, dy, ydir) = [y |-> y0 + ydir * m, error |-> err + dy]
        BY <2>5, <2>7 DEF Round
      <3>2. QED
        BY <2>3, <2>7, <3>1 DEF D!Bend
    <2>8. QED
      BY <2>6, <2>7
  <1>3. QED
    BY <1>1, <1>2

\* The loop's values are these: they satisfy its equation, and by induction nothing
\* else does.
LEMMA RoundsAre ==
  ASSUME NEW a \in Int, NEW b \in Int, NEW dx \in Nat, b = a + dx, NEW dy \in 0 .. dx,
         NEW y0 \in Int, NEW ydir \in {-1, 1}
  PROVE  \A v \in a .. b : Rounds(a, b, y0, dx, dy, ydir)[v] = Round(v - a, y0, dx, dy, ydir)
  <1> DEFINE First0 == [y |-> y0, error |-> -(dx \div 2)]
             Step(c) == D!Bend(c, dx, dy, ydir)
             R(k) == Round(k, y0, dx, dy, ydir)
             at == Rounds(a, b, y0, dx, dy, ydir)
             sol == [v \in a .. b |-> R(v - a)]
  <1>1. R(0) = First0 /\ \A k \in 0 .. dx - 1 : R(k + 1) = Step(R(k))
    BY RoundNext
  <1> HIDE DEF First0, Step, R
  <1>2. sol = [v \in a .. b |-> IF v = a THEN First0 ELSE Step(sol[v - 1])]
    <2>1. ASSUME NEW v \in a .. b
          PROVE  sol[v] = IF v = a THEN First0 ELSE Step(sol[v - 1])
      <3>1. CASE v = a
        <4>1. v - a = 0
          BY <3>1
        <4>2. QED
          BY <1>1, <3>1, <4>1
      <3>2. CASE v # a
        <4> DEFINE k == v - 1 - a
        <4>1. k \in 0 .. dx - 1 /\ k + 1 = v - a /\ v - 1 \in a .. b
          BY <3>2
        <4>2. sol[v] = R(k + 1) /\ sol[v - 1] = R(k)
          BY <4>1
        <4> HIDE DEF k, sol
        <4>3. R(k + 1) = Step(R(k))
          BY <1>1, <4>1
        <4>4. QED
          BY <3>2, <4>2, <4>3
      <3>3. QED
        BY <3>1, <3>2
    <2> DEFINE rhs == [v \in a .. b |-> IF v = a THEN First0 ELSE Step(sol[v - 1])]
    <2>2. DOMAIN sol = a .. b /\ \A v \in a .. b : sol[v] = rhs[v]
      BY <2>1
    <2>3. sol = [v \in a .. b |-> sol[v]]
      OBVIOUS
    <2> HIDE DEF sol
    <2>4. QED
      BY <2>2, <2>3
  <1> HIDE DEF sol
  <1>3. at = [v \in a .. b |-> IF v = a THEN First0 ELSE Step(at[v - 1])]
    <2>1. \E f : f = [v \in a .. b |-> IF v = a THEN First0 ELSE Step(f[v - 1])]
      BY <1>2
    <2>2. at = CHOOSE f : f = [v \in a .. b |-> IF v = a THEN First0 ELSE Step(f[v - 1])]
      BY DEF Rounds, First0, Step
    <2> HIDE DEF at
    <2>3. QED
      BY <2>1, <2>2
  <1> HIDE DEF at
  <1> DEFINE S == {k \in Nat : k <= dx => at[a + k] = R(k)}
  <1>4. 0 \in S
    <2>1. a \in a .. b /\ a + 0 = a
      OBVIOUS
    <2>2. QED
      BY <1>1, <1>3, <2>1
  <1>5. ASSUME NEW k \in Nat, k \in S
        PROVE  k + 1 \in S
    <2> SUFFICES ASSUME k + 1 <= dx PROVE at[a + (k + 1)] = R(k + 1)
      OBVIOUS
    <2>1. /\ k \in 0 .. dx - 1 /\ a + (k + 1) \in a .. b /\ a + (k + 1) # a
          /\ (a + (k + 1)) - 1 = a + k
      OBVIOUS
    <2>2. at[a + k] = R(k)
      BY <1>5, <2>1
    <2>3. at[a + (k + 1)] = Step(at[a + k])
      BY <1>3, <2>1
    <2>4. QED
      BY <1>1, <2>1, <2>2, <2>3
  <1>6. Nat \subseteq S
    BY <1>4, <1>5, Induction
  <1>7. ASSUME NEW v \in a .. b
        PROVE  at[v] = R(v - a)
    <2> DEFINE k == v - a
    <2>1. k \in Nat /\ k <= dx /\ a + k = v
      OBVIOUS
    <2>2. k \in S
      BY <1>6, <2>1
    <2> HIDE DEF k
    <2>3. at[a + k] = R(k)
      BY <2>1, <2>2
    <2>4. QED
      BY <2>1, <2>3 DEF k
  <1>8. QED
    BY <1>7 DEF at, R

-----------------------------------------------------------------------------
(* Lines: the pixels                                                       *)

Point == Int \X Int

\* The pixels from one end to the other, of a line that is wider than high, and the
\* two ways round of one that is not.
Flat(from, to) ==
  LET dx == to[1] - from[1]
      dy == D!Abs(to[2] - from[2])
      ydir == IF from[2] < to[2] THEN 1 ELSE -1
  IN  {<<v, Rounds(from[1], to[1], from[2], dx, dy, ydir)[v].y>> : v \in from[1] .. to[1]}

Steep(p, q) == D!Abs(q[2] - p[2]) > D!Abs(q[1] - p[1])
Turned(steep, p) == IF steep THEN <<p[2], p[1]>> ELSE p
LeftEnd(p, q) == IF p[1] <= q[1] THEN p ELSE q
RightEnd(p, q) == IF p[1] <= q[1] THEN q ELSE p

LEMMA LineIsTurned ==
  ASSUME NEW start \in Point, NEW end \in Point
  PROVE  LET swap == Steep(start, end)
             s == Turned(swap, start)
             t == Turned(swap, end)
         IN  D!fb_drawLine(start, end)
               = {Turned(swap, q) : q \in Flat(LeftEnd(s, t), RightEnd(s, t))}
  <1> DEFINE swap == Steep(start, end)
             s == Turned(swap, start)
             t == Turned(swap, end)
             from == LeftEnd(s, t)
             to == RightEnd(s, t)
             dx == to[1] - from[1]
             dy == D!Abs(to[2] - from[2])
             ydir == IF from[2] < to[2] THEN 1 ELSE -1
             at == Rounds(from[1], to[1], from[2], dx, dy, ydir)
  <1>1. D!fb_drawLine(start, end) = {Turned(swap, <<v, at[v].y>>) : v \in from[1] .. to[1]}
    BY DEF D!fb_drawLine, Steep, Turned, LeftEnd, RightEnd, Rounds
  <1>2. Flat(from, to) = {<<v, at[v].y>> : v \in from[1] .. to[1]}
    BY DEF Flat
  <1> HIDE DEF swap, from, to, at
  <1>3. {Turned(swap, <<v, at[v].y>>) : v \in from[1] .. to[1]}
          = {Turned(swap, q) : q \in {<<v, at[v].y>> : v \in from[1] .. to[1]}}
    OBVIOUS
  <1>4. QED
    BY <1>1, <1>2, <1>3 DEF swap, from, to

\* A flat line has one pixel for each column, among them its ends, and none more than
\* half a pixel from the exact line.
LEMMA FlatExact ==
  ASSUME NEW from \in Point, NEW to \in Point, from[1] <= to[1],
         D!Abs(to[2] - from[2]) <= to[1] - from[1]
  PROVE  LET dx == to[1] - from[1]
         IN  /\ Flat(from, to) \subseteq Point
             /\ from \in Flat(from, to) /\ to \in Flat(from, to)
             /\ \A q \in Flat(from, to) :
                  2 * D!Abs(dx * (q[2] - from[2]) - (to[2] - from[2]) * (q[1] - from[1])) <= dx
             /\ IsFiniteSet(Flat(from, to)) /\ Cardinality(Flat(from, to)) = dx + 1
  <1> DEFINE a == from[1]
             b == to[1]
             y0 == from[2]
             dx == b - a
             dy == D!Abs(to[2] - y0)
             ydir == IF y0 < to[2] THEN 1 ELSE -1
             Y(v) == y0 + ydir * Bends(v - a, dx, dy)
             line == Flat(from, to)
  <1>1. /\ a \in Int /\ b \in Int /\ y0 \in Int /\ to[2] \in Int /\ from = <<a, y0>> /\ to = <<b, to[2]>>
        /\ dx \in Nat /\ dy \in 0 .. dx /\ ydir \in {-1, 1} /\ b = a + dx
        /\ to[2] - y0 = ydir * dy
    BY DEF Point, D!Abs
  <1>2. line = {<<v, Y(v)>> : v \in a .. b}
    <2>1. \A v \in a .. b : Rounds(a, b, y0, dx, dy, ydir)[v] = Round(v - a, y0, dx, dy, ydir)
      BY <1>1, RoundsAre
    <2>2. line = {<<v, Rounds(a, b, y0, dx, dy, ydir)[v].y>> : v \in a .. b}
      BY DEF Flat
    <2> HIDE DEF a, b, y0, dx, dy, ydir, line
    <2>3. ASSUME NEW v \in a .. b
          PROVE  Rounds(a, b, y0, dx, dy, ydir)[v].y = Y(v)
      <3>1. Rounds(a, b, y0, dx, dy, ydir)[v] = Round(v - a, y0, dx, dy, ydir)
        BY <2>1
      <3>2. Round(v - a, y0, dx, dy, ydir).y = Y(v)
        BY DEF Round
      <3>3. QED
        BY <3>1, <3>2
    <2> HIDE DEF Y
    <2>4. QED
      BY <2>2, <2>3
  <1> HIDE DEF a, b, y0, dx, dy, ydir, line
  <1>3. ASSUME NEW k \in 0 .. dx
        PROVE  /\ Bends(k, dx, dy) \in Nat
               /\ 2 * (dx * Bends(k, dx, dy) - dy * k) <= dx
               /\ 2 * (dy * k - dx * Bends(k, dx, dy)) <= dx
    <2>1. CASE dx = 0
      <3>1. Bends(k, dx, dy) = 0 /\ dy = 0 /\ k = 0
        BY <1>1, <2>1 DEF Bends
      <3>2. QED
        BY <2>1, <3>1
    <2>2. CASE dx # 0
      <3> DEFINE m == Bends(k, dx, dy)
                 err == Error(k, dx, dy)
                 h == dx \div 2
                 p == k * dy
                 q == dx * m
      <3>1. k \in Nat /\ dx \in Nat \ {0} /\ dy \in Nat
        BY <1>1, <2>2
      <3>2. m \in Nat /\ err \in -(dx - 1) .. 0
        BY <1>1, <3>1, BendsType
      <3>3. h \in Nat /\ (2 * h = dx \/ 2 * h = dx - 1)
        BY <3>1, Half
      <3>4. err = p - h - q
        BY DEF Error
      <3>5. p \in Nat /\ q \in Nat /\ dy * k = p
        BY <3>1, <3>2
      <3> HIDE DEF m, err, h, p, q
      <3>6. 2 * (q - p) <= dx /\ 2 * (p - q) <= dx
        BY <3>1, <3>2, <3>3, <3>4, <3>5
      <3>7. QED
        BY <3>2, <3>5, <3>6 DEF m, q
    <2>3. QED
      BY <2>1, <2>2
  <1>4. ASSUME NEW v \in a .. b
        PROVE  /\ Y(v) \in Int
               /\ 2 * D!Abs(dx * (Y(v) - y0) - (to[2] - y0) * (v - a)) <= dx
    <2> DEFINE k == v - a
               m == Bends(k, dx, dy)
    <2>1. k \in 0 .. dx
      BY <1>1
    <2>2. /\ m \in Nat /\ 2 * (dx * m - dy * k) <= dx /\ 2 * (dy * k - dx * m) <= dx
      BY <1>3, <2>1
    <2>3. Y(v) = y0 + ydir * m
      OBVIOUS
    <2> HIDE DEF k, m
    <2> DEFINE p == dx * m
               q == dy * k
    <2>4. p \in Int /\ q \in Int
      BY <1>1, <2>1, <2>2
    <2>5. /\ Y(v) - y0 = ydir * m
          /\ dx * (ydir * m) = ydir * p /\ (ydir * dy) * k = ydir * q
      BY <1>1, <2>1, <2>2, <2>3
    <2>6. dx * (Y(v) - y0) - (to[2] - y0) * k = ydir * p - ydir * q
      BY <1>1, <2>5
    <2> HIDE DEF p, q
    <2>7. 2 * D!Abs(ydir * p - ydir * q) <= dx
      BY <1>1, <2>2, <2>4 DEF D!Abs, p, q
    <2>8. Y(v) \in Int
      BY <1>1, <2>2, <2>3
    <2> HIDE DEF Y
    <2>9. 2 * D!Abs(dx * (Y(v) - y0) - (to[2] - y0) * k) <= dx
      BY <2>6, <2>7
    <2>10. QED
      BY <2>8, <2>9 DEF k
  <1>5. line \subseteq Point
    <2>1. \A v \in a .. b : v \in Int /\ Y(v) \in Int
      BY <1>1, <1>4
    <2> HIDE DEF Y
    <2>2. QED
      BY <1>2, <2>1 DEF Point
  <1>6. from \in line /\ to \in line
    <2>1. a \in a .. b /\ b \in a .. b /\ a - a = 0 /\ b - a = dx
      BY <1>1
    <2>2. Bends(0, dx, dy) = 0 /\ Bends(dx, dx, dy) = dy
      BY <1>1, BendsEnds
    <2>3. Y(a) = y0 /\ Y(b) = to[2]
      BY <1>1, <2>1, <2>2
    <2>4. QED
      BY <1>1, <1>2, <2>1, <2>3
  <1>7. \A q \in line : 2 * D!Abs(dx * (q[2] - y0) - (to[2] - y0) * (q[1] - a)) <= dx
    BY <1>2, <1>4
  <1>8. IsFiniteSet(line) /\ Cardinality(line) = dx + 1
    <2> DEFINE f == [v \in a .. b |-> <<v, Y(v)>>]
    <2>1. f \in Bijection(a .. b, line)
      <3>1. f \in [a .. b -> line]
        BY <1>2
      <3>2. \A u, v \in a .. b : f[u] = f[v] => u = v
        OBVIOUS
      <3>3. \A q \in line : \E v \in a .. b : f[v] = q
        BY <1>2
      <3> HIDE DEF f
      <3>4. QED
        BY <3>1, <3>2, <3>3, Fun_IsBij
    <2>2. IsFiniteSet(a .. b) /\ Cardinality(a .. b) = dx + 1
      BY <1>1, FS_Interval
    <2> HIDE DEF f
    <2>3. QED
      BY <2>1, <2>2, FS_Bijection DEF ExistsBijection
  <1>9. QED
    BY <1>5, <1>6, <1>7, <1>8 DEF a, b, y0, dx, line

LEMMA TurnedTwice ==
  ASSUME NEW p \in Point, NEW steep \in BOOLEAN
  PROVE  Turned(steep, p) \in Point /\ Turned(steep, Turned(steep, p)) = p
  BY DEF Point, Turned

\* How far a pixel is from the exact line, times the length of the line, is the same
\* from either end and either way round.
Apart(p, q, r) == (q[1] - p[1]) * (r[2] - p[2]) - (q[2] - p[2]) * (r[1] - p[1])

LEMMA ApartTurned ==
  ASSUME NEW p \in Point, NEW q \in Point, NEW r \in Point, NEW steep \in BOOLEAN
  PROVE  /\ Apart(p, q, r) \in Int
         /\ D!Abs(Apart(q, p, r)) = D!Abs(Apart(p, q, r))
         /\ D!Abs(Apart(Turned(steep, p), Turned(steep, q), Turned(steep, r))) = D!Abs(Apart(p, q, r))
  <1> DEFINE a == q[1] - p[1]
             b == q[2] - p[2]
             c == r[1] - p[1]
             d == r[2] - p[2]
  <1>1. /\ p[1] \in Int /\ p[2] \in Int /\ q[1] \in Int /\ q[2] \in Int /\ r[1] \in Int /\ r[2] \in Int
        /\ a \in Int /\ b \in Int /\ c \in Int /\ d \in Int
    BY DEF Point
  <1>2. /\ p[1] - q[1] = -a /\ p[2] - q[2] = -b
        /\ r[1] - q[1] = c - a /\ r[2] - q[2] = d - b
    BY <1>1
  <1>3. Apart(p, q, r) = a * d - b * c
    BY DEF Apart
  <1>4. Apart(q, p, r) = (-a) * (d - b) - (-b) * (c - a)
    BY <1>2 DEF Apart
  <1>5. /\ steep => Apart(Turned(steep, p), Turned(steep, q), Turned(steep, r)) = b * c - a * d
        /\ ~steep => Apart(Turned(steep, p), Turned(steep, q), Turned(steep, r)) = a * d - b * c
    BY DEF Apart, Turned
  <1> HIDE DEF a, b, c, d
  <1>6. a * d \in Int /\ b * c \in Int /\ (-a) * (d - b) - (-b) * (c - a) = b * c - a * d
    BY <1>1
  <1> DEFINE m == a * d
             n == b * c
  <1> HIDE DEF m, n
  <1>7. /\ m \in Int /\ n \in Int /\ Apart(p, q, r) = m - n /\ Apart(q, p, r) = n - m
        /\ steep => Apart(Turned(steep, p), Turned(steep, q), Turned(steep, r)) = n - m
        /\ ~steep => Apart(Turned(steep, p), Turned(steep, q), Turned(steep, r)) = m - n
    BY <1>3, <1>4, <1>5, <1>6 DEF m, n
  <1>8. D!Abs(n - m) = D!Abs(m - n)
    BY <1>7 DEF D!Abs
  <1>9. QED
    BY <1>7, <1>8

\* Turned as its steepness asks, and taken from left to right, a line is flat.
LEMMA TurnedFlat ==
  ASSUME NEW start \in Point, NEW end \in Point
  PROVE  LET swap == Steep(start, end)
             s == Turned(swap, start)
             t == Turned(swap, end)
             from == LeftEnd(s, t)
             to == RightEnd(s, t)
         IN  /\ swap \in BOOLEAN /\ s \in Point /\ t \in Point
             /\ \/ from = s /\ to = t
                \/ from = t /\ to = s
             /\ from[1] <= to[1] /\ D!Abs(to[2] - from[2]) <= to[1] - from[1]
             /\ to[1] - from[1] = D!Larger(D!Abs(end[1] - start[1]), D!Abs(end[2] - start[2]))
  <1> DEFINE swap == Steep(start, end)
             s == Turned(swap, start)
             t == Turned(swap, end)
  <1>1. swap \in BOOLEAN /\ s \in Point /\ t \in Point
    <2>1. swap \in BOOLEAN
      BY DEF Steep
    <2>2. QED
      BY <2>1, TurnedTwice
  <1>2. /\ D!Abs(t[2] - s[2]) <= D!Abs(t[1] - s[1])
        /\ D!Abs(t[1] - s[1]) = D!Larger(D!Abs(end[1] - start[1]), D!Abs(end[2] - start[2]))
    <2> DEFINE a == end[1] - start[1]
               b == end[2] - start[2]
    <2>1. a \in Int /\ b \in Int /\ (swap <=> D!Abs(a) < D!Abs(b))
      BY DEF Point, Steep
    <2>2. /\ swap => t[1] - s[1] = b /\ t[2] - s[2] = a
          /\ ~swap => t[1] - s[1] = a /\ t[2] - s[2] = b
      BY DEF Turned
    <2> HIDE DEF a, b, swap, s, t
    <2>3. QED
      BY <2>1, <2>2 DEF D!Abs, D!Larger, a, b
  <1>3. /\ s[1] \in Int /\ s[2] \in Int /\ t[1] \in Int /\ t[2] \in Int
    BY <1>1 DEF Point
  <1> HIDE DEF swap, s, t
  <1>4. QED
    BY <1>1, <1>2, <1>3 DEF LeftEnd, RightEnd, D!Abs, swap, s, t

\* The same line is drawn from either end.
LEMMA SameLine ==
  ASSUME NEW start \in Point, NEW end \in Point
  PROVE  D!fb_drawLine(start, end) = D!fb_drawLine(end, start)
  <1> DEFINE swap == Steep(start, end)
             s == Turned(swap, start)
             t == Turned(swap, end)
  <1>1. Steep(end, start) = swap
    BY DEF Steep, Point, D!Abs
  <1>2. LeftEnd(s, t) = LeftEnd(t, s) /\ RightEnd(s, t) = RightEnd(t, s)
    <2>1. /\ s \in Point /\ t \in Point
          /\ D!Abs(RightEnd(s, t)[2] - LeftEnd(s, t)[2]) <= RightEnd(s, t)[1] - LeftEnd(s, t)[1]
      BY TurnedFlat
    <2> HIDE DEF s, t
    <2>2. s[1] = t[1] => s = t
      BY <2>1 DEF Point, LeftEnd, RightEnd, D!Abs
    <2>3. s[1] \in Int /\ t[1] \in Int
      BY <2>1 DEF Point
    <2>4. QED
      BY <2>2, <2>3 DEF LeftEnd, RightEnd
  <1>3. D!fb_drawLine(start, end) = {Turned(swap, q) : q \in Flat(LeftEnd(s, t), RightEnd(s, t))}
    BY LineIsTurned
  <1>4. D!fb_drawLine(end, start) = {Turned(swap, q) : q \in Flat(LeftEnd(t, s), RightEnd(t, s))}
    <2>1. D!fb_drawLine(end, start)
            = {Turned(Steep(end, start), q) :
                 q \in Flat(LeftEnd(Turned(Steep(end, start), end), Turned(Steep(end, start), start)),
                            RightEnd(Turned(Steep(end, start), end), Turned(Steep(end, start), start)))}
      BY LineIsTurned
    <2>2. QED
      BY <1>1, <2>1
  <1>5. QED
    BY <1>2, <1>3, <1>4

LEMMA LineFacts ==
  ASSUME NEW start \in Point, NEW end \in Point
  PROVE  LET drew == D!fb_drawLine(start, end)
             length == D!Larger(D!Abs(end[1] - start[1]), D!Abs(end[2] - start[2]))
         IN  /\ start \in drew /\ end \in drew /\ drew \subseteq Point
             /\ Cardinality(drew) = length + 1
             /\ \A p \in drew : 2 * D!Abs(Apart(start, end, p)) <= length
  <1> DEFINE drew == D!fb_drawLine(start, end)
             length == D!Larger(D!Abs(end[1] - start[1]), D!Abs(end[2] - start[2]))
             swap == Steep(start, end)
             s == Turned(swap, start)
             t == Turned(swap, end)
             from == LeftEnd(s, t)
             to == RightEnd(s, t)
             line == Flat(from, to)
  <1>1. /\ swap \in BOOLEAN /\ s \in Point /\ t \in Point
        /\ from[1] <= to[1] /\ D!Abs(to[2] - from[2]) <= to[1] - from[1]
        /\ to[1] - from[1] = length
        /\ \/ from = s /\ to = t
           \/ from = t /\ to = s
    BY TurnedFlat
  <1>2. drew = {Turned(swap, q) : q \in line}
    BY LineIsTurned
  <1>3. start = Turned(swap, s) /\ end = Turned(swap, t)
    BY <1>1, TurnedTwice
  <1> HIDE DEF drew, length, swap, s, t, from, to, line
  <1>4. from \in Point /\ to \in Point
    BY <1>1
  <1>5. /\ line \subseteq Point /\ from \in line /\ to \in line
        /\ IsFiniteSet(line) /\ Cardinality(line) = length + 1
        /\ \A q \in line : 2 * D!Abs(Apart(from, to, q)) <= length
    BY <1>1, <1>4, FlatExact DEF Apart, line
  <1>6. start \in drew /\ end \in drew
    BY <1>1, <1>2, <1>3, <1>5
  <1>7. drew \subseteq Point
    BY <1>1, <1>2, <1>5, TurnedTwice
  <1>8. Cardinality(drew) = length + 1
    <2> DEFINE f == [q \in line |-> Turned(swap, q)]
    <2>1. f \in [line -> drew] /\ \A p \in drew : \E q \in line : f[q] = p
      BY <1>2
    <2>2. \A u, v \in line : f[u] = f[v] => u = v
      BY <1>1, <1>5, TurnedTwice
    <2> HIDE DEF f
    <2>3. f \in Bijection(line, drew)
      BY <2>1, <2>2, Fun_IsBij
    <2>4. QED
      BY <1>5, <2>3, FS_Bijection DEF ExistsBijection
  <1>9. ASSUME NEW q \in line
        PROVE  2 * D!Abs(Apart(start, end, Turned(swap, q))) <= length
    <2>1. D!Abs(Apart(start, end, Turned(swap, q))) = D!Abs(Apart(s, t, q))
      BY <1>1, <1>3, <1>5, ApartTurned
    <2>2. D!Abs(Apart(s, t, q)) = D!Abs(Apart(from, to, q))
      BY <1>1, <1>5, ApartTurned
    <2>3. QED
      BY <1>5, <2>1, <2>2
  <1>10. QED
    BY <1>2, <1>6, <1>7, <1>8, <1>9 DEF drew, length

\* What fb_drawLine was last called for, and what it drew.
LineCall(start, end) ==
  [fn |-> "fb_drawLine", start |-> start, end |-> end, drew |-> D!fb_drawLine(start, end)]

LineInv == fb_call.fn = "fb_drawLine" => \E start, end \in Point : fb_call = LineCall(start, end)

LEMMA LineInductive == Spec => []LineInv
  <1>1. D!Init => LineInv
    BY DEF D!Init, D!NoCall, LineInv
  <1>2. LineInv /\ [D!Next]_fb_call => LineInv'
    <2> SUFFICES ASSUME LineInv, [D!Next]_fb_call PROVE LineInv'
      OBVIOUS
    <2>1. CASE UNCHANGED fb_call
      BY <2>1 DEF LineInv, LineCall
    <2>2. CASE D!CallLine
      <3>1. PICK x1, y1, x2, y2 \in Coordinate : fb_call' = LineCall(<<x1, y1>>, <<x2, y2>>)
        BY <2>2 DEF D!CallLine, LineCall
      <3>2. <<x1, y1>> \in Point /\ <<x2, y2>> \in Point
        BY PartsAssumption DEF Point
      <3>3. QED
        BY <3>1, <3>2 DEF LineInv, LineCall
    <2>3. CASE fb_call'.fn # "fb_drawLine"
      BY <2>3 DEF LineInv
    <2>4. CASE D!CallGray
      BY <2>3, <2>4 DEF D!CallGray
    <2>5. CASE D!CallCircle
      BY <2>3, <2>5 DEF D!CallCircle
    <2>6. CASE D!CallBox
      BY <2>3, <2>6 DEF D!CallBox
    <2>7. CASE D!CallPixels
      BY <2>3, <2>7 DEF D!CallPixels
    <2>8. CASE fb_call' = D!NoCall
      BY <2>3, <2>8 DEF D!NoCall
    <2>9. QED
      BY <2>1, <2>2, <2>4, <2>5, <2>6, <2>7, <2>8 DEF D!Next
  <1>3. QED
    BY <1>1, <1>2, DrawingStep, PTL DEF Spec, Init

\* A line joins its ends whichever is given first, with one pixel for each step
\* along its longer side, none more than half a pixel from the exact line
\* (fbDraw.c:254-325), for every pair of ends.
THEOREM LinesExact == Spec => []LineExact
  <1>1. ASSUME NEW start \in Point, NEW end \in Point, fb_call = LineCall(start, end)
        PROVE  D!LineExact
    <2> DEFINE drew == D!fb_drawLine(start, end)
               length == D!Larger(D!Abs(end[1] - start[1]), D!Abs(end[2] - start[2]))
    <2>1. fb_call.start = start /\ fb_call.end = end /\ fb_call.drew = drew
      BY <1>1 DEF LineCall
    <2>2. /\ {start, end} \subseteq drew /\ D!Cardinality(drew) = length + 1
          /\ \A p \in drew :
               2 * D!Abs((end[1] - start[1]) * (p[2] - start[2])
                           - (end[2] - start[2]) * (p[1] - start[1])) <= length
      BY LineFacts, SameNumber DEF Apart
    <2>3. drew = D!fb_drawLine(end, start)
      BY SameLine
    <2> HIDE DEF drew
    <2>4. QED
      BY <2>1, <2>2, <2>3 DEF D!LineExact
  <1>2. LineInv => LineExact
    BY <1>1 DEF LineInv, LineExact, D!LineExact
  <1>3. QED
    BY <1>2, LineInductive, PTL

-----------------------------------------------------------------------------
(* The filled circle: its rows                                             *)

\* A level line is a row of pixels.
LEMMA FlatRow ==
  ASSUME NEW n \in Nat, NEW y \in Int
  PROVE  Flat(<<-n, y>>, <<n, y>>) = (-n .. n) \X {y}
  <1> DEFINE from == <<-n, y>>
             to == <<n, y>>
             line == Flat(from, to)
             at == Rounds(from[1], to[1], from[2], to[1] - from[1], D!Abs(to[2] - from[2]),
                          IF from[2] < to[2] THEN 1 ELSE -1)
  <1>1. /\ from \in Point /\ to \in Point
        /\ from[1] = -n /\ to[1] = n /\ from[2] = y /\ to[2] = y
        /\ D!Abs(to[2] - from[2]) = 0
    BY DEF Point, D!Abs
  <1>2. line = {<<v, at[v].y>> : v \in -n .. n}
    BY <1>1 DEF Flat
  <1> HIDE DEF at
  <1>3. /\ line \subseteq Point /\ from \in line
        /\ \A q \in line :
             2 * D!Abs((to[1] - from[1]) * (q[2] - from[2]) - (to[2] - from[2]) * (q[1] - from[1]))
               <= to[1] - from[1]
    BY <1>1, FlatExact
  <1> HIDE DEF line
  <1>4. ASSUME NEW q \in line
        PROVE  q[2] = y
    <2>1. CASE n = 0
      <3>1. line = {<<0, at[0].y>>}
        BY <1>2, <2>1
      <3>2. QED
        BY <1>1, <1>3, <3>1
    <2>2. CASE n # 0
      <3> DEFINE d == q[2] - y
                 m == 2 * n
      <3>1. d \in Int /\ m \in Nat \ {0} /\ q[1] \in Int /\ q[2] \in Int
        BY <1>3, <2>2 DEF Point
      <3>2. 2 * D!Abs(m * d - 0 * (q[1] - -n)) <= m
        <4>1. n - -n = m /\ y - y = 0
          OBVIOUS
        <4>2. 2 * D!Abs((n - -n) * (q[2] - y) - (y - y) * (q[1] - -n)) <= n - -n
          BY <1>1, <1>3
        <4>3. QED
          BY <4>1, <4>2
      <3> HIDE DEF m, d
      <3>3. m * d \in Int /\ 2 * D!Abs(m * d) <= m
        <4>1. m * d \in Int /\ 0 * (q[1] - -n) = 0
          BY <3>1
        <4>2. m * d - 0 * (q[1] - -n) = m * d
          BY <4>1
        <4>3. QED
          BY <3>2, <4>1, <4>2
      <3>4. ~(0 < d)
        <4>1. 0 < d => m * 0 + m <= m * d
          BY <3>1, ProductGrows
        <4>2. QED
          BY <3>1, <3>3, <4>1 DEF D!Abs
      <3>5. ~(d < 0)
        <4>1. d < 0 => m * d + m <= m * 0
          BY <3>1, ProductGrows
        <4>2. QED
          BY <3>1, <3>3, <4>1 DEF D!Abs
      <3>6. d = 0
        BY <3>1, <3>4, <3>5
      <3>7. QED
        BY <3>1, <3>6 DEF d
    <2>3. QED
      BY <2>1, <2>2
  <1>5. ASSUME NEW v \in -n .. n
        PROVE  at[v].y = y
    <2> DEFINE u == at[v].y
    <2>1. <<v, u>> \in line
      BY <1>2
    <2> HIDE DEF u
    <2>2. <<v, u>>[2] = y
      BY <1>4, <2>1
    <2>3. QED
      BY <2>2 DEF u
  <1>6. line = {<<v, y>> : v \in -n .. n}
    BY <1>2, <1>5
  <1>7. {<<v, y>> : v \in -n .. n} = (-n .. n) \X {y}
    OBVIOUS
  <1>8. QED
    BY <1>6, <1>7 DEF line

LEMMA RowIs ==
  ASSUME NEW n \in Nat, NEW y \in Int
  PROVE  D!Row(n, y) = (-n .. n) \X {y}
  <1> DEFINE start == <<-n, y>>
             end == <<n, y>>
             swap == Steep(start, end)
             s == Turned(swap, start)
             t == Turned(swap, end)
  <1>1. start \in Point /\ end \in Point
    BY DEF Point
  <1>2. D!fb_drawLine(start, end) = {Turned(swap, q) : q \in Flat(LeftEnd(s, t), RightEnd(s, t))}
    BY <1>1, LineIsTurned
  <1>3. ~swap
    BY DEF Steep, D!Abs
  <1>4. s = start /\ t = end
    BY <1>3 DEF Turned
  <1>5. LeftEnd(s, t) = start /\ RightEnd(s, t) = end
    BY <1>4 DEF LeftEnd, RightEnd
  <1>6. \A q : Turned(swap, q) = q
    BY <1>3 DEF Turned
  <1> HIDE DEF swap, s, t
  <1>7. D!fb_drawLine(start, end) = Flat(start, end)
    BY <1>2, <1>5, <1>6
  <1>8. QED
    BY <1>7, FlatRow DEF D!Row

LEMMA AxisIs ==
  ASSUME NEW r \in Nat
  PROVE  D!fb_drawLine(<<0, r>>, <<0, -r>>) = {0} \X (-r .. r)
  <1>1. <<0, r>> \in Point /\ <<0, -r>> \in Point
    BY DEF Point
  <1>2. CASE r = 0
    <2> DEFINE m == -r
    <2>1. D!fb_drawLine(<<m, 0>>, <<r, 0>>) = (m .. r) \X {0}
      BY RowIs DEF D!Row
    <2>2. m \in Int /\ m + r = 0
      OBVIOUS
    <2> HIDE DEF m
    <2>3. m = 0
      BY <1>2, <2>2
    <2>4. D!fb_drawLine(<<0, r>>, <<0, m>>) = D!fb_drawLine(<<m, 0>>, <<r, 0>>)
      BY <1>2, <2>3, Zenon
    <2>5. (m .. r) \X {0} = {0} \X (m .. r)
      BY <1>2, <2>3
    <2>6. QED
      BY <2>1, <2>4, <2>5 DEF m
  <1>3. CASE r # 0
    <2>1. Steep(<<0, r>>, <<0, -r>>) = TRUE
      BY <1>3 DEF Steep, D!Abs
    <2>2. Turned(TRUE, <<0, r>>) = <<r, 0>> /\ Turned(TRUE, <<0, -r>>) = <<-r, 0>>
      BY DEF Turned
    <2>3. LeftEnd(<<r, 0>>, <<-r, 0>>) = <<-r, 0>> /\ RightEnd(<<r, 0>>, <<-r, 0>>) = <<r, 0>>
      BY <1>3 DEF LeftEnd, RightEnd
    <2>4. D!fb_drawLine(<<0, r>>, <<0, -r>>) = {Turned(TRUE, q) : q \in Flat(<<-r, 0>>, <<r, 0>>)}
      <3> DEFINE start == <<0, r>>
                 end == <<0, -r>>
                 swap == Steep(start, end)
                 s == Turned(swap, start)
                 t == Turned(swap, end)
      <3>1. D!fb_drawLine(start, end) = {Turned(swap, q) : q \in Flat(LeftEnd(s, t), RightEnd(s, t))}
        BY <1>1, LineIsTurned
      <3>2. swap = TRUE
        BY <2>1
      <3>3. s = <<r, 0>> /\ t = <<-r, 0>>
        BY <2>2, <3>2
      <3>4. LeftEnd(s, t) = <<-r, 0>> /\ RightEnd(s, t) = <<r, 0>>
        BY <2>3, <3>3
      <3> HIDE DEF swap, s, t
      <3>5. QED
        BY <3>1, <3>2, <3>4
    <2>5. Flat(<<-r, 0>>, <<r, 0>>) = (-r .. r) \X {0}
      BY FlatRow
    <2>6. \A v \in -r .. r : Turned(TRUE, <<v, 0>>) = <<0, v>>
      BY DEF Turned
    <2>7. {Turned(TRUE, q) : q \in (-r .. r) \X {0}} = {0} \X (-r .. r)
      <3> DEFINE turned == {Turned(TRUE, q) : q \in (-r .. r) \X {0}}
      <3>1. ASSUME NEW p \in turned
            PROVE  p \in {0} \X (-r .. r)
        <4>1. PICK q \in (-r .. r) \X {0} : p = Turned(TRUE, q)
          OBVIOUS
        <4>2. p = <<0, q[1]>> /\ q[1] \in -r .. r
          BY <4>1 DEF Turned
        <4>3. QED
          BY <4>2
      <3>2. ASSUME NEW p \in {0} \X (-r .. r)
            PROVE  p \in turned
        <4>1. p = <<0, p[2]>> /\ p[2] \in -r .. r /\ <<p[2], 0>> \in (-r .. r) \X {0}
          OBVIOUS
        <4>2. Turned(TRUE, <<p[2], 0>>) = p
          BY <2>6, <4>1
        <4>3. QED
          BY <4>1, <4>2
      <3> HIDE DEF turned
      <3>3. QED
        BY <3>1, <3>2 DEF turned
    <2>8. QED
      BY <2>4, <2>5, <2>7
  <1>4. QED
    BY <1>2, <1>3

-----------------------------------------------------------------------------
(* The filled circle: its rounds                                           *)

\* The rounds of the loop, as fb_drawFilledCircle has them.
Circle(r) ==
  LET c[v \in 0 .. r] ==
        IF v = 0 THEN [Y |-> r, distance |-> -r] ELSE D!Shrink(c[v - 1], v)
  IN  c

LEMMA CircleIs ==
  ASSUME NEW r \in Nat
  PROVE  Circle(r) = [v \in 0 .. r |-> IF v = 0 THEN [Y |-> r, distance |-> -r]
                                       ELSE D!Shrink(Circle(r)[v - 1], v)]
  <1> DEFINE Begin == [Y |-> r, distance |-> -r]
             Solves(f, n) == f = [v \in 0 .. n |-> IF v = 0 THEN Begin ELSE D!Shrink(f[v - 1], v)]
             S == {n \in Nat : \E f : Solves(f, n)}
  <1>1. 0 \in S
    <2>1. Solves([v \in 0 .. 0 |-> Begin], 0)
      OBVIOUS
    <2> HIDE DEF Solves
    <2>2. QED
      BY <2>1
  <1>2. ASSUME NEW n \in Nat, n \in S
        PROVE  n + 1 \in S
    <2>1. PICK f : Solves(f, n)
      BY <1>2
    <2> DEFINE g == [v \in 0 .. n + 1 |-> IF v = 0 THEN Begin ELSE D!Shrink(f[v - 1], v)]
    <2>2. \A v \in 0 .. n : g[v] = f[v]
      BY <2>1
    <2>3. \A v \in 0 .. n + 1 : v # 0 => v - 1 \in 0 .. n
      OBVIOUS
    <2>4. \A v \in 0 .. n + 1 : v # 0 => g[v - 1] = f[v - 1]
      BY <2>2, <2>3
    <2>5. Solves(g, n + 1)
      <3> DEFINE h == [v \in 0 .. n + 1 |-> IF v = 0 THEN Begin ELSE D!Shrink(g[v - 1], v)]
      <3>1. \A v \in 0 .. n + 1 : g[v] = h[v]
        BY <2>4
      <3>2. g = h
        BY <3>1
      <3>3. QED
        BY <3>2
    <2> HIDE DEF Solves, g
    <2>6. QED
      BY <2>5
  <1>3. r \in S
    <2> HIDE DEF S
    <2>1. QED
      BY <1>1, <1>2, Induction
  <1>4. \E f : f = [v \in 0 .. r |-> IF v = 0 THEN Begin ELSE D!Shrink(f[v - 1], v)]
    BY <1>3
  <1>5. Circle(r) = CHOOSE f : f = [v \in 0 .. r |-> IF v = 0 THEN Begin ELSE D!Shrink(f[v - 1], v)]
    BY DEF Circle
  <1>6. QED
    BY <1>4, <1>5

Height(r, v) == Circle(r)[v].Y
Distance(r, v) == Circle(r)[v].distance

LEMMA CircleBegins ==
  ASSUME NEW r \in Nat
  PROVE  Height(r, 0) = r /\ Distance(r, 0) = -r
  <1> DEFINE c == Circle(r)
  <1>1. c = [v \in 0 .. r |-> IF v = 0 THEN [Y |-> r, distance |-> -r] ELSE D!Shrink(c[v - 1], v)]
    BY CircleIs
  <1>2. 0 \in 0 .. r
    OBVIOUS
  <1> HIDE DEF c
  <1>3. c[0] = [Y |-> r, distance |-> -r]
    BY <1>1, <1>2
  <1>4. QED
    BY <1>3 DEF Height, Distance, c

LEMMA CircleNext ==
  ASSUME NEW r \in Nat, NEW v \in 0 .. r, NEW k \in 1 .. r, v = k - 1
  PROVE  LET y == Height(r, v)
             d == Distance(r, v) + 2 * k - 1
         IN  /\ d >= 0 => Height(r, k) = y - 1 /\ Distance(r, k) = d - 2 * (y - 1) + 2
             /\ ~(d >= 0) => Height(r, k) = y /\ Distance(r, k) = d
  <1> DEFINE c == Circle(r)
  <1>1. c = [u \in 0 .. r |-> IF u = 0 THEN [Y |-> r, distance |-> -r] ELSE D!Shrink(c[u - 1], u)]
    BY CircleIs
  <1> HIDE DEF c
  <1>2. k \in 0 .. r /\ k # 0
    OBVIOUS
  <1>3. c[k] = D!Shrink(c[v], k)
    BY <1>1, <1>2
  <1> DEFINE y == c[v].Y
             d == c[v].distance + 2 * k - 1
  <1>4. c[k] = IF d >= 0 THEN [Y |-> y - 1, distance |-> d - 2 * (y - 1) + 2]
                         ELSE [Y |-> y, distance |-> d]
    BY <1>3 DEF D!Shrink
  <1>5. Height(r, v) = y /\ Distance(r, v) + 2 * k - 1 = d
    BY DEF Height, Distance, c
  <1>6. Height(r, k) = c[k].Y /\ Distance(r, k) = c[k].distance
    BY DEF Height, Distance, c
  <1> HIDE DEF y, d
  <1>7. /\ d >= 0 => Height(r, k) = y - 1 /\ Distance(r, k) = d - 2 * (y - 1) + 2
        /\ ~(d >= 0) => Height(r, k) = y /\ Distance(r, k) = d
    BY <1>4, <1>6
  <1>8. QED
    BY <1>5, <1>7

\* Whether round v is drawn, at or above the diagonal.
Drawn(r, v) == v = 0 \/ v <= Height(r, v - 1)

\* What the rounds keep: the distance is that of the pixel from the circle, up to a
\* part that grows with the height, and it is never far below or above 0.
RoundOK(r, v) ==
  LET y == Height(r, v)
      d == Distance(r, v)
  IN  /\ y \in Int /\ d \in Int /\ y <= r
      /\ d = v * v + y * y - 3 * y - r * r + 2 * r
      /\ v > 0 => d >= 2 - 2 * y
      /\ \A u \in 0 .. v : Height(r, u) \in Int /\ y <= Height(r, u)
      /\ Drawn(r, v) => d <= 3 * (r - y)

LEMMA RoundsOK ==
  ASSUME NEW r \in Nat
  PROVE  \A v \in 0 .. r : RoundOK(r, v)
  <1> DEFINE S == {v \in Nat : v <= r => RoundOK(r, v)}
  <1>1. 0 \in S
    <2>1. Height(r, 0) = r /\ Distance(r, 0) = -r
      BY CircleBegins
    <2>2. -r = 0 * 0 + r * r - 3 * r - r * r + 2 * r
      OBVIOUS
    <2>3. RoundOK(r, 0)
      BY <2>1, <2>2 DEF RoundOK
    <2>4. QED
      BY <2>3
  <1>2. ASSUME NEW v \in Nat, v \in S
        PROVE  v + 1 \in S
    <2> SUFFICES ASSUME v + 1 <= r PROVE RoundOK(r, v + 1)
      OBVIOUS
    <2> DEFINE k == v + 1
               y == Height(r, v)
               d == Distance(r, v)
               z == Height(r, k)
               e == Distance(r, k)
    <2>1. v \in 0 .. r /\ k \in 1 .. r /\ v = k - 1 /\ RoundOK(r, v)
      BY <1>2
    <2>2. /\ y \in Int /\ d \in Int /\ y <= r
          /\ d = v * v + y * y - 3 * y - r * r + 2 * r
          /\ v > 0 => d >= 2 - 2 * y
          /\ \A u \in 0 .. v : Height(r, u) \in Int /\ y <= Height(r, u)
          /\ Drawn(r, v) => d <= 3 * (r - y)
      BY <2>1 DEF RoundOK
    <2> SUFFICES RoundOK(r, k)
      OBVIOUS
    <2> HIDE DEF k
    <2>3. /\ d + 2 * k - 1 >= 0 => z = y - 1 /\ e = (d + 2 * k - 1) - 2 * (y - 1) + 2
          /\ ~(d + 2 * k - 1 >= 0) => z = y /\ e = d + 2 * k - 1
      BY <2>1, CircleNext
    <2>4. v = 0 => y = r /\ d = -r
      BY CircleBegins
    <2>5. Drawn(r, k) => k <= y /\ Drawn(r, v)
      <3>1. SUFFICES ASSUME Drawn(r, k) PROVE k <= y /\ Drawn(r, v)
        OBVIOUS
      <3>2. k # 0 /\ k - 1 = v
        BY <2>1
      <3>3. k <= y
        BY <3>1, <3>2 DEF Drawn
      <3>4. v # 0 => v <= Height(r, v - 1)
        <4>1. v # 0 => v - 1 \in 0 .. v
          OBVIOUS
        <4>2. v # 0 => Height(r, v - 1) \in Int /\ y <= Height(r, v - 1)
          BY <2>2, <4>1
        <4> HIDE DEF y
        <4>3. QED
          BY <2>1, <2>2, <3>3, <4>2
      <3>5. QED
        BY <3>3, <3>4 DEF Drawn
    <2>6. \A u \in 0 .. k : u \in 0 .. v \/ u = k
      BY <2>1
    <2> HIDE DEF y, d, z, e
    <2>7. v \in Nat /\ r \in Nat /\ k = v + 1 /\ k <= r
      BY <2>1
    <2>8. CASE d + 2 * k - 1 >= 0
      <3>1. z = y - 1 /\ e = d + 2 * v - 2 * y + 5
        BY <2>2, <2>3, <2>7, <2>8
      <3>2. e = k * k + z * z - 3 * z - r * r + 2 * r
        BY <2>2, <2>7, <3>1
      <3>3. z \in Int /\ e \in Int /\ z <= r /\ z <= y /\ e >= 2 - 2 * z
        BY <2>2, <2>7, <2>8, <3>1
      <3>4. Drawn(r, k) => e <= 3 * (r - z)
        BY <2>2, <2>5, <2>7, <3>1
      <3>5. \A u \in 0 .. k : Height(r, u) \in Int /\ z <= Height(r, u)
        BY <2>2, <2>6, <3>3 DEF z
      <3>6. QED
        BY <3>2, <3>3, <3>4, <3>5 DEF RoundOK, z, e
    <2>9. CASE ~(d + 2 * k - 1 >= 0)
      <3>1. z = y /\ e = d + 2 * v + 1
        BY <2>2, <2>3, <2>7, <2>9
      <3>2. e = k * k + z * z - 3 * z - r * r + 2 * r
        BY <2>2, <2>7, <3>1
      <3>3. z \in Int /\ e \in Int /\ z <= r /\ z <= y /\ e >= 2 - 2 * z
        <4>1. CASE v = 0
          BY <2>2, <2>4, <2>7, <3>1, <4>1
        <4>2. CASE v > 0
          BY <2>2, <2>7, <3>1, <4>2
        <4>3. QED
          BY <2>7, <4>1, <4>2
      <3>4. Drawn(r, k) => e <= 3 * (r - z)
        <4>1. d \in Int /\ k \in Int /\ e = d + 2 * k - 1
          BY <2>1, <2>2, <2>3, <2>9
        <4>2. e < 0
          BY <2>9, <4>1
        <4>3. QED
          BY <2>7, <3>3, <4>2
      <3>5. \A u \in 0 .. k : Height(r, u) \in Int /\ z <= Height(r, u)
        BY <2>2, <2>6, <3>3 DEF z
      <3>6. QED
        BY <3>2, <3>3, <3>4, <3>5 DEF RoundOK, z, e
    <2>10. QED
      BY <2>8, <2>9
  <1>3. Nat \subseteq S
    <2> HIDE DEF S
    <2>1. QED
      BY <1>1, <1>2, Induction
  <1>4. QED
    BY <1>3

-----------------------------------------------------------------------------
(* The filled circle: its pixels                                           *)

LEMMA SquareGrows ==
  ASSUME NEW a \in Nat, NEW b \in Nat, a <= b
  PROVE  a * a \in Nat /\ b * b \in Nat /\ a * a <= b * b
  <1>1. (b - a) * (b + a) \in Nat
    <2>1. b - a \in Nat /\ b + a \in Nat
      OBVIOUS
    <2>2. QED
      BY <2>1
  <1>2. (b - a) * (b + a) = b * b - a * a
    OBVIOUS
  <1>3. a * a \in Nat /\ b * b \in Nat
    OBVIOUS
  <1>4. QED
    BY <1>1, <1>2, <1>3

\* The squares of a coordinate and of its amount are the same.
LEMMA SquareAbs ==
  ASSUME NEW m \in Int
  PROVE  D!Abs(m) \in Nat /\ D!Abs(m) * D!Abs(m) = m * m
  <1>1. CASE m < 0
    <2>1. D!Abs(m) = -m /\ -m \in Nat
      BY <1>1 DEF D!Abs
    <2>2. (-m) * (-m) = m * m
      OBVIOUS
    <2>3. QED
      BY <2>1, <2>2
  <1>2. CASE ~(m < 0)
    <2>1. D!Abs(m) = m /\ m \in Nat
      BY <1>2 DEF D!Abs
    <2>2. QED
      BY <2>1
  <1>3. QED
    BY <1>1, <1>2

\* Where the rounds end, more than two thirds of the radius are left: the diagonal is
\* at about 0.7 of it.
LEMMA LastHeight ==
  ASSUME NEW r \in Nat \ {0}, NEW k \in Nat \ {0}, NEW y \in {k - 1, k},
         k * k + y * y - y >= r * r - 2 * r + 2
  PROVE  3 * (y + 1) > 2 * r
  <1> SUFFICES ASSUME 3 * (y + 1) <= 2 * r PROVE FALSE
    OBVIOUS
  <1> DEFINE s == 2 * r - 3 * (y + 1)
  <1>1. s \in Nat /\ 2 * r = 3 * (y + 1) + s
    OBVIOUS
  <1> HIDE DEF s
  <1>2. /\ k * k \in Nat /\ s * s \in Nat
        /\ k * s \in Nat /\ k * s >= s
    <2>1. (k - 1) * s \in Nat
      <3>1. k - 1 \in Nat
        OBVIOUS
      <3>2. QED
        BY <1>1, <3>1
    <2>2. (k - 1) * s = k * s - s
      BY <1>1
    <2>3. k * k \in Nat /\ s * s \in Nat /\ k * s \in Nat
      BY <1>1
    <2>4. QED
      BY <1>1, <2>1, <2>2, <2>3
  <1>3. 4 * (r * r) = (3 * (y + 1) + s) * (3 * (y + 1) + s)
    <2>1. 4 * (r * r) = (2 * r) * (2 * r)
      OBVIOUS
    <2>2. QED
      BY <1>1, <2>1
  <1>4. CASE y = k
    <2>1. (3 * (y + 1) + s) * (3 * (y + 1) + s)
            = 9 * (k * k) + 18 * k + 9 + 6 * (k * s) + 6 * s + s * s
      BY <1>1, <1>4
    <2>2. QED
      BY <1>1, <1>2, <1>3, <1>4, <2>1
  <1>5. CASE y = k - 1
    <2>1. (3 * (y + 1) + s) * (3 * (y + 1) + s) = 9 * (k * k) + 6 * (k * s) + s * s
      BY <1>1, <1>5
    <2>2. y * y = k * k - 2 * k + 1
      BY <1>5
    <2>3. QED
      BY <1>1, <1>2, <1>3, <1>5, <2>1, <2>2
  <1>6. QED
    BY <1>4, <1>5

\* The rounds that are drawn are the first ones, and the last is at the diagonal.
LEMMA DrawnRounds ==
  ASSUME NEW r \in Nat \ {0}
  PROVE  \E k \in 1 .. r :
           /\ \A v \in 1 .. k : v <= Height(r, v - 1)
           /\ Height(r, k) \in {k - 1, k}
           /\ \A v \in 0 .. k : 3 * (Height(r, v) + 1) > 2 * r
  <1> DEFINE Go(n) == n + 1 <= r /\ n + 1 <= Height(r, n)
             S == {n \in Nat : ~Go(n)}
  <1>1. PICK k \in S : \A m \in S : k <= m
    <2>1. r \in S
      OBVIOUS
    <2> HIDE DEF S
    <2>2. S \subseteq Nat
      BY DEF S
    <2>3. QED
      BY <2>1, <2>2, LeastNumber
  <1>2. k \in Nat /\ ~Go(k) /\ \A n \in Nat : n < k => Go(n)
    BY <1>1
  <1>3. Height(r, 0) = r
    BY CircleBegins
  <1>4. k # 0
    BY <1>2, <1>3
  <1>5. k - 1 \in Nat /\ k - 1 < k /\ (k - 1) + 1 = k
    BY <1>2, <1>4
  <1>6. k <= r /\ k <= Height(r, k - 1)
    BY <1>2, <1>5
  <1>7. k \in 1 .. r /\ k \in 0 .. r /\ k - 1 \in 0 .. r
    BY <1>2, <1>4, <1>6
  <1>8. ASSUME NEW v \in 1 .. k
        PROVE  v <= Height(r, v - 1)
    <2>1. v - 1 \in Nat /\ v - 1 < k /\ (v - 1) + 1 = v
      BY <1>7
    <2>2. QED
      BY <1>2, <2>1
  <1> HIDE DEF S
  <1>9. RoundOK(r, k) /\ RoundOK(r, k - 1)
    BY <1>7, RoundsOK
  <1> DEFINE y == Height(r, k)
             z == Height(r, k - 1)
             d == Distance(r, k)
  <1>10. /\ y \in Int /\ z \in Int /\ d \in Int /\ y <= r
         /\ d = k * k + y * y - 3 * y - r * r + 2 * r
         /\ k > 0 => d >= 2 - 2 * y
         /\ \A u \in 0 .. k : Height(r, u) \in Int /\ y <= Height(r, u)
    BY <1>9 DEF RoundOK
  <1>11. y = z \/ y = z - 1
    <2> DEFINE v == k - 1
    <2>1. v \in 0 .. r /\ v = k - 1
      BY <1>7
    <2> HIDE DEF v
    <2>2. Height(r, k) = Height(r, v) - 1 \/ Height(r, k) = Height(r, v)
      BY <1>7, <2>1, CircleNext
    <2>3. QED
      BY <2>1, <2>2
  <1>12. ~(k + 1 <= r /\ k + 1 <= y)
    BY <1>2
  <1> HIDE DEF y, z, d, Go
  <1>13. k <= z
    BY <1>6 DEF z
  <1>14. y \in {k - 1, k}
    BY <1>7, <1>10, <1>11, <1>12, <1>13
  <1>15. k * k + y * y - y >= r * r - 2 * r + 2
    BY <1>7, <1>10
  <1>16. 3 * (y + 1) > 2 * r
    BY <1>4, <1>7, <1>14, <1>15, LastHeight
  <1>17. ASSUME NEW v \in 0 .. k
         PROVE  3 * (Height(r, v) + 1) > 2 * r
    BY <1>10, <1>16, <1>17
  <1>18. QED
    BY <1>7, <1>8, <1>14, <1>17 DEF y

\* Within the radius nothing is missed: above the diagonal by the rows of the rounds,
\* below it by those in between.
LEMMA DiscInside ==
  ASSUME NEW r \in Nat, NEW a \in Nat \ {0}, NEW b \in Nat \ {0}, a * a + b * b <= r * r
  PROVE  \E v \in 1 .. r :
           /\ v <= Height(r, v - 1)
           /\ \/ a <= v /\ b = Height(r, v)
              \/ a <= Height(r, v) /\ b = v
  <1>1. a * a >= 1 /\ b * b >= 1 /\ a * a \in Nat /\ b * b \in Nat /\ r * r \in Nat
    <2>1. a * a \in Nat /\ b * b \in Nat /\ r * r \in Nat
      OBVIOUS
    <2>2. 1 * 1 <= a * a /\ 1 * 1 <= b * b
      BY SquareGrows
    <2>3. QED
      BY <2>1, <2>2
  <1>2. r # 0 /\ b < r
    <2>1. ~(r <= b)
      <3>1. r <= b => r * r <= b * b
        BY SquareGrows
      <3>2. QED
        BY <1>1, <3>1
    <2>2. QED
      BY <2>1
  <1>3. PICK k \in 1 .. r : /\ \A v \in 1 .. k : v <= Height(r, v - 1)
                            /\ Height(r, k) \in {k - 1, k}
                            /\ \A v \in 0 .. k : 3 * (Height(r, v) + 1) > 2 * r
    BY <1>2, DrawnRounds
  <1>4. CASE b <= k
    <2> DEFINE y == Height(r, b)
               d == Distance(r, b)
    <2>1. b \in 1 .. k /\ b \in 0 .. k /\ b \in 0 .. r /\ b \in 1 .. r
      BY <1>2, <1>4
    <2>2. b <= Height(r, b - 1) /\ 3 * (y + 1) > 2 * r
      BY <1>3, <2>1
    <2>3. RoundOK(r, b)
      BY <2>1, RoundsOK
    <2>4. /\ y \in Int /\ d \in Int /\ d >= 2 - 2 * y
          /\ d = b * b + y * y - 3 * y - r * r + 2 * r
      BY <2>3 DEF RoundOK
    <2> HIDE DEF y, d
    <2>5. y \in Nat /\ y + 1 \in Nat
      BY <1>2, <2>2, <2>4
    <2>6. (y + 1) * (y + 1) = y * y + 2 * y + 1
      BY <2>5
    <2>7. (y + 1) * (y + 1) + b * b > r * r
      BY <1>1, <2>2, <2>4, <2>5, <2>6
    <2>8. ~(y + 1 <= a)
      <3>1. y + 1 <= a => (y + 1) * (y + 1) <= a * a
        BY <2>5, SquareGrows
      <3>2. (y + 1) * (y + 1) \in Nat
        BY <2>5
      <3>3. QED
        BY <1>1, <2>7, <3>1, <3>2
    <2>9. a <= y
      BY <2>5, <2>8
    <2>10. QED
      BY <2>1, <2>2, <2>9 DEF y
  <1>5. CASE ~(b <= k)
    <2> DEFINE S == {n \in Nat : n <= k /\ Height(r, n) < b}
    <2>1. k \in S
      BY <1>3, <1>5
    <2>2. PICK n \in S : \A m \in S : n <= m
      <3>1. S \subseteq Nat
        OBVIOUS
      <3> HIDE DEF S
      <3>2. QED
        BY <2>1, <3>1, LeastNumber
    <2>3. n \in Nat /\ n <= k /\ Height(r, n) < b
      BY <2>2
    <2>4. n # 0
      BY <1>2, <2>3, CircleBegins
    <2> DEFINE v == n - 1
    <2>5. /\ v \in Nat /\ v < n /\ v <= k /\ n = v + 1 /\ v = n - 1
          /\ v \in 0 .. r /\ n \in 1 .. r /\ n \in 0 .. r
      BY <2>3, <2>4
    <2>6. ~(Height(r, v) < b)
      BY <2>2, <2>5
    <2> HIDE DEF v, S
    <2> DEFINE y == Height(r, v)
               z == Height(r, n)
               d == Distance(r, v)
    <2>7. RoundOK(r, v) /\ RoundOK(r, n)
      BY <2>5, RoundsOK
    <2>8. /\ y \in Int /\ d \in Int /\ z \in Int
          /\ d = v * v + y * y - 3 * y - r * r + 2 * r
      BY <2>7 DEF RoundOK
    <2>9. /\ d + 2 * n - 1 >= 0 => z = y - 1
          /\ ~(d + 2 * n - 1 >= 0) => z = y
      BY <2>5, CircleNext
    <2> HIDE DEF y, z, d
    <2>10. z < b /\ ~(y < b)
      BY <2>3, <2>6 DEF y, z
    <2>11. y = b /\ d + 2 * n - 1 >= 0
      BY <2>8, <2>9, <2>10
    <2>12. v # 0
      BY <1>2, <2>11, CircleBegins DEF y
    <2>13. v \in 1 .. k /\ v \in 1 .. r
      BY <2>5, <2>12
    <2>14. 3 * b > 2 * r
      <3> DEFINE h == Height(r, k)
      <3>1. h \in {k - 1, k} /\ 3 * (h + 1) > 2 * r
        BY <1>3
      <3> HIDE DEF h
      <3>2. h + 1 <= b
        BY <1>5, <3>1
      <3>3. QED
        BY <3>1, <3>2
    <2>15. n * n = v * v + 2 * v + 1
      BY <2>5
    <2>16. n * n + b * b > r * r
      <3>1. d = v * v + b * b - 3 * b - r * r + 2 * r
        BY <2>8, <2>11
      <3>2. v * v \in Nat
        BY <2>5
      <3>3. QED
        BY <1>1, <2>5, <2>8, <2>11, <2>14, <2>15, <3>1, <3>2
    <2>17. ~(n <= a)
      <3>1. n <= a => n * n <= a * a
        BY <2>3, SquareGrows
      <3>2. n * n \in Nat
        BY <2>3
      <3>3. QED
        BY <1>1, <2>16, <3>1, <3>2
    <2>18. a <= v
      BY <2>5, <2>17
    <2>19. QED
      BY <1>3, <2>11, <2>13, <2>18 DEF y
  <1>6. QED
    BY <1>4, <1>5

\* Beyond the radius by half a pixel there is nothing.
LEMMA DiscOutside ==
  ASSUME NEW r \in Nat, NEW v \in 1 .. r, v <= Height(r, v - 1)
  PROVE  /\ Height(r, v) \in 0 .. r
         /\ v * v + Height(r, v) * Height(r, v) <= r * r + r
  <1> DEFINE u == v - 1
             y == Height(r, v)
             z == Height(r, u)
             d == Distance(r, v)
  <1>1. u \in 0 .. r /\ v \in 0 .. r /\ u = v - 1
    OBVIOUS
  <1>2. v <= z
    OBVIOUS
  <1> HIDE DEF u
  <1>3. RoundOK(r, u) /\ RoundOK(r, v) /\ Drawn(r, v)
    BY <1>1, RoundsOK DEF Drawn
  <1>4. /\ y \in Int /\ z \in Int /\ d \in Int /\ y <= r
        /\ d = v * v + y * y - 3 * y - r * r + 2 * r
        /\ d <= 3 * (r - y)
    BY <1>3 DEF RoundOK
  <1>5. y = z \/ y = z - 1
    BY <1>1, CircleNext
  <1> HIDE DEF y, z, d
  <1>6. y \in 0 .. r
    BY <1>2, <1>4, <1>5
  <1>7. v * v + y * y <= r * r + r
    BY <1>4, <1>6
  <1>8. QED
    BY <1>6, <1>7 DEF y

\* The pixels of the two axes and of the four rows of each round.
OnAxis(r, p) == (p[1] = 0 /\ p[2] \in -r .. r) \/ (p[1] \in -r .. r /\ p[2] = 0)
InRow(r, p) ==
  \E v \in 1 .. r :
    /\ v <= Height(r, v - 1)
    /\ \/ p[1] \in -v .. v /\ p[2] \in {Height(r, v), -Height(r, v)}
       \/ p[1] \in -Height(r, v) .. Height(r, v) /\ p[2] \in {v, -v}

LEMMA DiscIs ==
  ASSUME NEW r \in Nat
  PROVE  D!fb_drawFilledCircle(r) = {p \in Point : OnAxis(r, p) \/ InRow(r, p)}
  <1> DEFINE Y(v) == Height(r, v)
             Rows(v) == D!Row(v, Y(v)) \cup D!Row(v, -Y(v)) \cup D!Row(Y(v), v) \cup D!Row(Y(v), -v)
             drawn == {v \in 1 .. r : v <= Y(v - 1)}
  <1>1. D!fb_drawFilledCircle(r)
          = D!fb_drawLine(<<0, r>>, <<0, -r>>) \cup D!Row(r, 0) \cup UNION {Rows(v) : v \in drawn}
    BY DEF D!fb_drawFilledCircle, Circle, Height
  <1>2. ASSUME NEW v \in drawn
        PROVE  \A p : p \in Rows(v) <=>
                 /\ p \in Point
                 /\ \/ p[1] \in -v .. v /\ p[2] \in {Y(v), -Y(v)}
                    \/ p[1] \in -Y(v) .. Y(v) /\ p[2] \in {v, -v}
    <2> DEFINE y == Y(v)
    <2>1. v \in Nat /\ y \in Nat /\ -v \in Int /\ -y \in Int
      BY DiscOutside
    <2> HIDE DEF y
    <2>2. /\ D!Row(v, y) = (-v .. v) \X {y} /\ D!Row(v, -y) = (-v .. v) \X {-y}
          /\ D!Row(y, v) = (-y .. y) \X {v} /\ D!Row(y, -v) = (-y .. y) \X {-v}
      BY <2>1, RowIs
    <2>3. \A p : p \in D!Row(v, y) \cup D!Row(v, -y) \cup D!Row(y, v) \cup D!Row(y, -v) <=>
                   /\ p \in Point
                   /\ \/ p[1] \in -v .. v /\ p[2] \in {y, -y}
                      \/ p[1] \in -y .. y /\ p[2] \in {v, -v}
      BY <2>1, <2>2 DEF Point
    <2>4. QED
      BY <2>3 DEF y
  <1>3. ASSUME NEW p
        PROVE  p \in D!fb_drawLine(<<0, r>>, <<0, -r>>) \cup D!Row(r, 0)
                 <=> p \in Point /\ OnAxis(r, p)
    <2>1. D!Row(r, 0) = (-r .. r) \X {0}
      BY RowIs
    <2>2. D!fb_drawLine(<<0, r>>, <<0, -r>>) = {0} \X (-r .. r)
      BY AxisIs
    <2>3. QED
      BY <2>1, <2>2 DEF OnAxis, Point
  <1>4. ASSUME NEW p
        PROVE  p \in UNION {Rows(v) : v \in drawn} <=> p \in Point /\ InRow(r, p)
    <2>1. p \in UNION {Rows(v) : v \in drawn} <=> \E v \in drawn : p \in Rows(v)
      <3> HIDE DEF drawn, Rows
      <3>1. QED
        OBVIOUS
    <2>2. (\E v \in drawn : p \in Rows(v)) <=>
             \E v \in drawn :
                 /\ p \in Point
                 /\ \/ p[1] \in -v .. v /\ p[2] \in {Y(v), -Y(v)}
                    \/ p[1] \in -Y(v) .. Y(v) /\ p[2] \in {v, -v}
      <3> HIDE DEF drawn, Rows, Y
      <3>1. QED
        BY <1>2
    <2>3. QED
      BY <2>1, <2>2 DEF InRow
  <1> HIDE DEF Rows, drawn
  <1>5. QED
    BY <1>1, <1>3, <1>4

LEMMA DiscExact ==
  ASSUME NEW r \in Nat
  PROVE  LET Square == (-r - 1 .. r + 1) \X (-r - 1 .. r + 1)
             Within(n) == {p \in Square : p[1] * p[1] + p[2] * p[2] <= n}
         IN  /\ Within(r * r) \subseteq D!fb_drawFilledCircle(r)
             /\ D!fb_drawFilledCircle(r) \subseteq Within(r * r + r)
  <1> DEFINE Square == (-r - 1 .. r + 1) \X (-r - 1 .. r + 1)
             disc == D!fb_drawFilledCircle(r)
  <1>1. disc = {p \in Point : OnAxis(r, p) \/ InRow(r, p)}
    BY DiscIs
  <1> HIDE DEF disc
  <1>2. ASSUME NEW p \in Square, p[1] * p[1] + p[2] * p[2] <= r * r
        PROVE  p \in disc
    <2> DEFINE a == D!Abs(p[1])
               b == D!Abs(p[2])
    <2>1. p \in Point /\ p[1] \in Int /\ p[2] \in Int
      BY DEF Point
    <2>2. /\ a \in Nat /\ b \in Nat /\ a * a = p[1] * p[1] /\ b * b = p[2] * p[2]
      BY <2>1, SquareAbs
    <2>3. p[1] \in {a, -a} /\ p[2] \in {b, -b}
      BY <2>1 DEF D!Abs
    <2>4. a * a + b * b <= r * r
      BY <1>2, <2>2
    <2> HIDE DEF a, b
    <2>5. a <= r /\ b <= r
      <3>1. ASSUME NEW m \in Nat, m * m <= r * r
            PROVE  m <= r
        <4>1. SUFFICES ASSUME r + 1 <= m PROVE FALSE
          OBVIOUS
        <4>2. (r + 1) * (r + 1) <= m * m
          BY <4>1, SquareGrows
        <4>3. (r + 1) * (r + 1) = r * r + 2 * r + 1 /\ r * r \in Nat /\ m * m \in Nat
          OBVIOUS
        <4>4. QED
          BY <3>1, <4>2, <4>3
      <3>2. a * a \in Nat /\ b * b \in Nat /\ r * r \in Nat
        BY <2>2
      <3>3. a * a <= r * r /\ b * b <= r * r
        BY <2>4, <3>2
      <3>4. QED
        BY <2>2, <3>1, <3>3
    <2>6. CASE a = 0 \/ b = 0
      BY <1>1, <2>1, <2>2, <2>3, <2>5, <2>6 DEF OnAxis
    <2>7. CASE a # 0 /\ b # 0
      <3>1. a \in Nat \ {0} /\ b \in Nat \ {0}
        BY <2>2, <2>7
      <3>2. PICK v \in 1 .. r : /\ v <= Height(r, v - 1)
                                /\ \/ a <= v /\ b = Height(r, v)
                                   \/ a <= Height(r, v) /\ b = v
        BY <2>4, <3>1, DiscInside
      <3> DEFINE y == Height(r, v)
      <3>3. v \in Nat /\ y \in Nat
        BY <3>2, DiscOutside
      <3>4. (a <= v /\ b = y) \/ (a <= y /\ b = v)
        BY <3>2
      <3> HIDE DEF y
      <3>5. \/ p[1] \in -v .. v /\ p[2] \in {y, -y}
            \/ p[1] \in -y .. y /\ p[2] \in {v, -v}
        BY <2>1, <2>2, <2>3, <3>3, <3>4
      <3>6. InRow(r, p)
        BY <3>2, <3>5 DEF InRow, y
      <3>7. QED
        BY <1>1, <2>1, <3>6
    <2>8. QED
      BY <2>6, <2>7
  <1>3. ASSUME NEW p \in disc
        PROVE  p \in Square /\ p[1] * p[1] + p[2] * p[2] <= r * r + r
    <2>1. p \in Point /\ p[1] \in Int /\ p[2] \in Int /\ (OnAxis(r, p) \/ InRow(r, p))
      BY <1>1 DEF Point
    <2>2. ASSUME NEW m \in Nat, NEW n \in -m .. m
          PROVE  n * n <= m * m
      <3>1. n \in Int /\ D!Abs(n) <= m
        BY DEF D!Abs
      <3>2. D!Abs(n) \in Nat /\ D!Abs(n) * D!Abs(n) = n * n
        BY <3>1, SquareAbs
      <3>3. QED
        BY <3>1, <3>2, SquareGrows
    <2>3. CASE OnAxis(r, p)
      <3>1. p[1] \in -r .. r /\ p[2] \in -r .. r /\ (p[1] = 0 \/ p[2] = 0)
        BY <2>3 DEF OnAxis
      <3>2. p[1] * p[1] <= r * r /\ p[2] * p[2] <= r * r
        BY <2>2, <3>1
      <3>3. p[1] = 0 => p[1] * p[1] = 0
        OBVIOUS
      <3>4. p[2] = 0 => p[2] * p[2] = 0
        OBVIOUS
      <3>5. p[1] * p[1] \in Int /\ p[2] * p[2] \in Int /\ r * r \in Int
        BY <2>1
      <3>6. p \in Square
        BY <2>1, <3>1 DEF Point
      <3>7. QED
        BY <3>1, <3>2, <3>3, <3>4, <3>5, <3>6
    <2>4. CASE InRow(r, p)
      <3>1. PICK v \in 1 .. r :
               /\ v <= Height(r, v - 1)
               /\ \/ p[1] \in -v .. v /\ p[2] \in {Height(r, v), -Height(r, v)}
                  \/ p[1] \in -Height(r, v) .. Height(r, v) /\ p[2] \in {v, -v}
        BY <2>4 DEF InRow
      <3> DEFINE y == Height(r, v)
      <3>2. v \in 0 .. r /\ y \in 0 .. r /\ v * v + y * y <= r * r + r
        BY <3>1, DiscOutside
      <3>3. \/ p[1] \in -v .. v /\ p[2] \in {y, -y}
            \/ p[1] \in -y .. y /\ p[2] \in {v, -v}
        BY <3>1
      <3> HIDE DEF y
      <3>4. p \in Square
        BY <2>1, <3>2, <3>3 DEF Point
      <3>5. v \in Nat /\ y \in Nat /\ v * v \in Int /\ y * y \in Int
        BY <3>2
      <3>6. \/ p[1] * p[1] <= v * v /\ p[2] * p[2] <= y * y
            \/ p[1] * p[1] <= y * y /\ p[2] * p[2] <= v * v
        <4>1. v \in -v .. v /\ -v \in -v .. v /\ y \in -y .. y /\ -y \in -y .. y
          BY <3>5
        <4>2. \/ p[1] \in -v .. v /\ p[2] \in -y .. y
              \/ p[1] \in -y .. y /\ p[2] \in -v .. v
          BY <3>3, <4>1
        <4>3. QED
          BY <2>2, <3>5, <4>2
      <3>7. p[1] * p[1] \in Int /\ p[2] * p[2] \in Int /\ r * r \in Int
        BY <2>1
      <3>8. QED
        BY <3>2, <3>4, <3>5, <3>6, <3>7
    <2>5. QED
      BY <2>1, <2>3, <2>4
  <1>4. QED
    BY <1>2, <1>3 DEF disc

-----------------------------------------------------------------------------
(* The figures *)

LEMMA BoxExact ==
  ASSUME NEW m \in Nat \ {0}, NEW n \in Nat \ {0}
  PROVE  LET filled == D!fb_fillBox(<<0, 0>>, m, n)
             Around(p) == {p[1] - 1, p[1], p[1] + 1} \X {p[2] - 1, p[2], p[2] + 1}
         IN  D!fb_drawBox(<<0, 0>>, m, n) = {p \in filled : ~(Around(p) \subseteq filled)}
  <1> DEFINE filled == D!fb_fillBox(<<0, 0>>, m, n)
             Around(p) == {p[1] - 1, p[1], p[1] + 1} \X {p[2] - 1, p[2], p[2] + 1}
             drew == D!fb_drawBox(<<0, 0>>, m, n)
  <1>1. filled = (0 .. m - 1) \X (0 .. n - 1)
    BY DEF D!fb_fillBox
  <1>2. drew = ((0 .. m - 1) \X {0, n - 1}) \cup ({0, m - 1} \X (1 .. n - 2))
    BY DEF D!fb_drawBox
  <1> HIDE DEF filled, drew
  <1>3. \A p : p \in drew <=> p \in filled /\ (p[1] \in {0, m - 1} \/ p[2] \in {0, n - 1})
    BY <1>1, <1>2
  <1>4. ASSUME NEW p \in filled
        PROVE  Around(p) \subseteq filled <=> ~(p[1] \in {0, m - 1} \/ p[2] \in {0, n - 1})
    <2>1. p[1] \in 0 .. m - 1 /\ p[2] \in 0 .. n - 1
      BY <1>1
    <2>2. CASE p[1] \in {0, m - 1} \/ p[2] \in {0, n - 1}
      <3>1. <<p[1] - 1, p[2]>> \in Around(p) /\ <<p[1] + 1, p[2]>> \in Around(p)
        OBVIOUS
      <3>2. <<p[1], p[2] - 1>> \in Around(p) /\ <<p[1], p[2] + 1>> \in Around(p)
        OBVIOUS
      <3>3. \/ <<p[1] - 1, p[2]>> \notin filled \/ <<p[1] + 1, p[2]>> \notin filled
            \/ <<p[1], p[2] - 1>> \notin filled \/ <<p[1], p[2] + 1>> \notin filled
        BY <1>1, <2>1, <2>2
      <3> HIDE DEF Around
      <3>4. QED
        BY <2>2, <3>1, <3>2, <3>3
    <2>3. CASE ~(p[1] \in {0, m - 1} \/ p[2] \in {0, n - 1})
      <3>1. {p[1] - 1, p[1], p[1] + 1} \subseteq 0 .. m - 1
        BY <2>1, <2>3
      <3>2. {p[2] - 1, p[2], p[2] + 1} \subseteq 0 .. n - 1
        BY <2>1, <2>3
      <3>3. Around(p) \subseteq filled
        BY <1>1, <3>1, <3>2
      <3>4. QED
        BY <2>3, <3>3
    <2>4. QED
      BY <2>2, <2>3
  <1> HIDE DEF Around
  <1>5. drew = {p \in filled : ~(Around(p) \subseteq filled)}
    BY <1>3, <1>4
  <1>6. QED
    BY <1>5 DEF drew, filled, Around

\* What fb_drawFilledCircle and fb_drawBox were last called for, and what they drew.
CircleCall(r) == [fn |-> "fb_drawFilledCircle", radius |-> r, drew |-> D!fb_drawFilledCircle(r)]
BoxCall(m, n) ==
  [fn |-> "fb_drawBox", drew |-> D!fb_drawBox(<<0, 0>>, m, n),
   filled |-> D!fb_fillBox(<<0, 0>>, m, n)]

FigureInv ==
  /\ fb_call.fn = "fb_drawFilledCircle" => \E r \in Nat : fb_call = CircleCall(r)
  /\ fb_call.fn = "fb_drawBox" => \E m, n \in Nat \ {0} : fb_call = BoxCall(m, n)

LEMMA FigureInductive == Spec => []FigureInv
  <1>1. D!Init => FigureInv
    BY DEF D!Init, D!NoCall, FigureInv
  <1>2. FigureInv /\ [D!Next]_fb_call => FigureInv'
    <2> SUFFICES ASSUME FigureInv, [D!Next]_fb_call PROVE FigureInv'
      OBVIOUS
    <2>1. CASE UNCHANGED fb_call
      BY <2>1 DEF FigureInv, CircleCall, BoxCall
    <2>2. CASE D!CallCircle
      <3>1. PICK r \in 0 .. Radius : fb_call' = CircleCall(r)
        BY <2>2 DEF D!CallCircle, CircleCall
      <3>2. r \in Nat /\ fb_call'.fn = "fb_drawFilledCircle"
        BY <3>1 DEF CircleCall
      <3>3. QED
        BY <3>1, <3>2 DEF FigureInv, CircleCall
    <2>3. CASE D!CallBox
      <3>1. PICK m, n \in 1 .. Width : fb_call' = BoxCall(m, n)
        BY <2>3 DEF D!CallBox, BoxCall
      <3>2. m \in Nat \ {0} /\ n \in Nat \ {0} /\ fb_call'.fn = "fb_drawBox"
        BY <3>1 DEF BoxCall
      <3>3. QED
        BY <3>1, <3>2 DEF FigureInv, BoxCall
    <2>4. CASE fb_call'.fn # "fb_drawFilledCircle" /\ fb_call'.fn # "fb_drawBox"
      BY <2>4 DEF FigureInv
    <2>5. CASE D!CallLine
      BY <2>4, <2>5 DEF D!CallLine
    <2>6. CASE D!CallGray
      BY <2>4, <2>6 DEF D!CallGray
    <2>7. CASE D!CallPixels
      BY <2>4, <2>7 DEF D!CallPixels
    <2>8. CASE fb_call' = D!NoCall
      BY <2>4, <2>8 DEF D!NoCall
    <2>9. QED
      BY <2>1, <2>2, <2>3, <2>5, <2>6, <2>7, <2>8 DEF D!Next
  <1>3. QED
    BY <1>1, <1>2, DrawingStep, PTL DEF Spec, Init

\* A filled circle has every pixel within its radius and none more than half a pixel
\* beyond it (fbDraw.c:686-718), and the outline of a box is the edge of what
\* fb_fillBox fills (fbDraw.c:209-249), for every radius, width and height.
THEOREM FiguresAreExact == Spec => []FiguresExact
  <1>1. ASSUME NEW r \in Nat, fb_call = CircleCall(r)
        PROVE  D!DiscFilled
    <2> DEFINE disc == D!fb_drawFilledCircle(r)
    <2>1. fb_call.radius = r /\ fb_call.drew = disc
      BY <1>1 DEF CircleCall
    <2>2. LET Square == (-r - 1 .. r + 1) \X (-r - 1 .. r + 1)
              Within(n) == {p \in Square : p[1] * p[1] + p[2] * p[2] <= n}
          IN  Within(r * r) \subseteq disc /\ disc \subseteq Within(r * r + r)
      BY DiscExact
    <2> HIDE DEF disc
    <2>3. QED
      BY <2>1, <2>2 DEF D!DiscFilled
  <1>2. ASSUME NEW m \in Nat \ {0}, NEW n \in Nat \ {0}, fb_call = BoxCall(m, n)
        PROVE  D!BoxOutline
    <2> DEFINE drew == D!fb_drawBox(<<0, 0>>, m, n)
               filled == D!fb_fillBox(<<0, 0>>, m, n)
    <2>1. fb_call.drew = drew /\ fb_call.filled = filled
      BY <1>2 DEF BoxCall
    <2>2. LET Around(p) == {p[1] - 1, p[1], p[1] + 1} \X {p[2] - 1, p[2], p[2] + 1}
          IN  drew = {p \in filled : ~(Around(p) \subseteq filled)}
      BY BoxExact
    <2> HIDE DEF drew, filled
    <2>3. QED
      BY <2>1, <2>2 DEF D!BoxOutline
  <1>3. FigureInv => D!DiscFilled
    BY <1>1 DEF FigureInv, D!DiscFilled
  <1>4. FigureInv => D!BoxOutline
    BY <1>2 DEF FigureInv, D!BoxOutline
  <1>5. FigureInv => FiguresExact
    BY <1>3, <1>4 DEF FiguresExact, D!FiguresExact
  <1>6. QED
    BY <1>5, FigureInductive, PTL

=============================================================================
