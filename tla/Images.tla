------------------------------- MODULE Images -------------------------------
(***************************************************************************)
(* Pictures converted and drawn on (core/utils/el_cv.cpp): which pixel of  *)
(* the source each write takes and where it puts it.  Of a pixel's colour  *)
(* only this is kept: whether the destination gets the source's own colour *)
(* or bytes read as another format.  A call is one step: nothing else      *)
(* touches the two buffers while it runs.                                  *)
(***************************************************************************)
EXTENDS Integers

CONSTANTS
  Sides,            \* bound: widths and heights
  Offsets           \* bound: where, and how large, things are drawn

Unit == 65536       \* 1 in fixed point

\* A side has 16 bits, but sw << 16 is computed as an int, which holds it below 2^15.
MaxSide == 32767

ASSUME ImageAssumption == Sides \subseteq 1 .. MaxSide /\ Offsets \subseteq Int

VARIABLES
  call, src, dst,   \* the function called and its pictures (None: a null pointer)
  box,              \* what a drawing function is given
  code, pixels      \* what it returned and the writes it made

imageVars == <<call, src, dst, box, code, pixels>>

None == [w |-> 0, h |-> 0, format |-> "null", rotate |-> 0]
RGB == {"GRAY", "RGB565", "RGB888"}
Rotations == 0 .. 3         \* quarter turns clockwise

Picture(formats, rotations) == [w : Sides, h : Sides, format : formats, rotate : rotations]

Cells(p) == 0 .. p.w * p.h - 1

-----------------------------------------------------------------------------
(* Conversion. *)

(* Sampling in fixed point: (j * beta_w) >> 16 with beta_w = (sw << 16) / dw. *)
Nearest(j, s, d) == (j * ((s * Unit) \div d)) \div Unit

(* Mutant of Turned: quarter turns the other way. *)
TurnedOtherWay(n, w, h, i, j) ==
  CASE n = 0 -> i * w + j
    [] n = 3 -> j * h + (h - 1 - i)
    [] n = 2 -> (w - 1 - j) + (h - 1 - i) * w
    [] n = 1 -> (w - 1 - j) * h + i

(* index: where pixel (i, j) of a picture of w by h is put when it turns. *)
Turned(n, w, h, i, j) ==
  CASE n = 0 -> i * w + j
    [] n = 1 -> j * h + (h - 1 - i)
    [] n = 2 -> (w - 1 - j) + (h - 1 - i) * w
    [] n = 3 -> (w - 1 - j) * h + i

Sampled(s, d, colour) ==
  {[to |-> Turned(d.rotate, d.w, d.h, i, j), colour |-> colour, chroma |-> {},
    from |-> Nearest(i, s.h, d.h) * s.w + Nearest(j, s.w, d.w)] :
      i \in 0 .. d.h - 1, j \in 0 .. d.w - 1}

(* memcpy of the smaller of the two sizes: nothing is resampled. *)
Memcpy(s, d) ==
  {[to |-> k, from |-> k, colour |-> "own", chroma |-> {}] : k \in Cells(s) \cap Cells(d)}

rgb888_to_rgb888(s, d) == IF d.rotate = 0 THEN Memcpy(s, d) ELSE Sampled(s, d, "own")

(* Two bytes of the three are looked up as if they were an RGB565 pixel. *)
rgb888_to_rgb565(s, d) == Sampled(s, d, "misread")
rgb888_to_gray(s, d)   == Sampled(s, d, "misread")

rgb565_to_rgb888(s, d) == Sampled(s, d, "own")
rgb565_to_rgb565(s, d) == IF d.rotate = 0 THEN Memcpy(s, d) ELSE Sampled(s, d, "own")
rgb565_to_gray(s, d)   == Sampled(s, d, "own")

gray_to_rgb888(s, d) == Sampled(s, d, "own")
gray_to_rgb565(s, d) == Sampled(s, d, "own")
gray_to_gray(s, d)   == IF d.rotate = 0 THEN Memcpy(s, d) ELSE Sampled(s, d, "own")

rgb_to_rgb(s, d) ==
  CASE s.format = "RGB888" /\ d.format = "RGB888" -> rgb888_to_rgb888(s, d)
    [] s.format = "RGB888" /\ d.format = "RGB565" -> rgb888_to_rgb565(s, d)
    [] s.format = "RGB888" /\ d.format = "GRAY"   -> rgb888_to_gray(s, d)
    [] s.format = "RGB565" /\ d.format = "RGB888" -> rgb565_to_rgb888(s, d)
    [] s.format = "RGB565" /\ d.format = "RGB565" -> rgb565_to_rgb565(s, d)
    [] s.format = "RGB565" /\ d.format = "GRAY"   -> rgb565_to_gray(s, d)
    [] s.format = "GRAY"   /\ d.format = "RGB888" -> gray_to_rgb888(s, d)
    [] s.format = "GRAY"   /\ d.format = "RGB565" -> gray_to_rgb565(s, d)
    [] s.format = "GRAY"   /\ d.format = "GRAY"   -> gray_to_gray(s, d)

(* The turn that takes the source's rotation to the destination's. *)
Rotate(s, d) == (d.rotate - s.rotate) % 4

(* Sampling in floats: (int)(i * beta) with beta = (float)s / (float)d.  The  *)
(* quotient and the product are rounded, together by less than one part in   *)
(* Precision, and the result may be any that this allows; a quotient that is *)
(* a whole number is exact, and so are its products.                         *)
Precision == 4194304     \* 2^22

Truncated(i, s, d) ==
  IF s % d = 0 THEN {i * (s \div d)}
  ELSE {k \in 0 .. s : /\ k * d * Precision <= i * s * (Precision + 1)
                       /\ i * s * (Precision - 1) < (k + 1) * d * Precision}

Roundings(s, d) == {f \in [0 .. d - 1 -> 0 .. s] : \A i \in 0 .. d - 1 : f[i] \in Truncated(i, s, d)}

(* Planes follow one another; two pixels share their chroma, whose place is *)
(* counted over the whole picture.                                          *)
YuvPixel(s, d, i, j, row, column) ==
  LET from == row * s.w + column
      plane == s.w * s.h
  IN  [to |-> Turned(Rotate(s, d), d.w, d.h, i, j), from |-> from, colour |-> "own",
       chroma |-> {plane + from \div 2, plane + plane \div 2 + from \div 2}]

(* What a conversion of YUV422 may write. *)
YuvPixels(s, d, f, g) ==
  {YuvPixel(s, d, i, j, f[i], g[j]) : i \in 0 .. d.h - 1, j \in 0 .. d.w - 1}

YuvTo888(s, d) ==
  {YuvPixels(s, d, f, g) : f \in Roundings(s.h, d.h), g \in Roundings(s.w, d.w)}

YuvToOther(s, d) ==
  {YuvPixels(s, d, f, g) : f \in Roundings(s.h, d.h), g \in Roundings(s.w, d.w)}

el_img_convert ==
  /\ call = "convert"
  /\ CASE src = None \/ dst = None -> code' = "EINVAL" /\ pixels' = {}
       [] src.format \in RGB /\ dst.format \in RGB ->
            code' = "OK" /\ pixels' = rgb_to_rgb(src, dst)
       [] src.format = "YUV422" /\ dst.format \in RGB ->
            code' = "OK" /\ pixels' \in IF dst.format = "RGB888" THEN YuvTo888(src, dst)
                                                                   ELSE YuvToOther(src, dst)
       [] OTHER -> code' = "ENOTSUP" /\ pixels' = {}

-----------------------------------------------------------------------------
(* Drawing: the cells written.  Only the end of the buffer bounds a point.  *)

el_draw_point ==
  /\ call = "point"
  /\ pixels' = {box.x + box.y * dst.w} \cap Cells(dst)
  /\ code' = "void"

Begin(x, side)  == IF x >= side THEN side ELSE IF x < 0 THEN 0 ELSE x
Length(x, n, side) == IF x + n >= side THEN side - x ELSE n

(* The rows of a grey picture are written by memset, and data then moves on *)
(* by line_step only.                                                       *)
Filled(p, x0, y0, w0, h0) ==
  LET x == Begin(x0, p.w)    w == Length(x, w0, p.w)
      y == Begin(y0, p.h)    h == Length(y, h0, p.h)
      stride == IF p.format = "GRAY" THEN p.w - w ELSE p.w
  IN  IF w0 < 0 \/ h0 < 0 THEN {}
      ELSE {x + y * p.w + i * stride + j : i \in 0 .. h - 1, j \in 0 .. w - 1}

el_fill_rect ==
  /\ call = "fill"
  /\ pixels' = Filled(dst, box.x, box.y, box.w, box.h)
  /\ code' = "void"

HLine(p, x0, x1, y) == Filled(p, x0, y, x1 - x0, 1)
VLine(p, x, y0, y1) == Filled(p, x, y0, 1, y1 - y0)

(* Four lines for each step inwards; the bound on thickness is two steps. *)
el_draw_rect ==
  /\ call = "rect"
  /\ pixels' = UNION {LET left == box.x + i            top == box.y + i
                          right == box.x - i + box.w   bottom == box.y - i + box.h
                      IN  HLine(dst, left, right, top) \cup HLine(dst, left, right + 1, bottom)
                          \cup VLine(dst, left, top, bottom) \cup VLine(dst, right, top, bottom + 1) :
                      i \in 0 .. 1}
  /\ code' = "void"

-----------------------------------------------------------------------------
NoBox == [x |-> 0, y |-> 0, w |-> 0, h |-> 0]

(* A camera's YUV422 has an even width; nothing turns an RGB source. *)
Conversions ==
  /\ call = "convert" /\ box = NoBox
  /\ \/ /\ src \in Picture(RGB, {0})
        /\ dst \in Picture(RGB, Rotations)
     \/ /\ src \in {p \in Picture({"YUV422"}, Rotations) : p.w % 2 = 0}
        /\ dst \in Picture(RGB, Rotations)
     \/ /\ src \in Picture({"GRAY", "YUV422", "JPEG"}, {0}) \cup {None}
        /\ dst \in Picture({"JPEG"}, {0}) \cup {None}

Drawings ==
  /\ call \in {"point", "fill", "rect"}
  /\ src = None /\ dst \in Picture(RGB, {0})
  /\ box \in [x : Offsets, y : Offsets, w : Offsets, h : Offsets]
  /\ call = "point" => box.w = 0 /\ box.h = 0

ImageInit ==
  /\ Conversions \/ Drawings
  /\ code = "none" /\ pixels = {}

ImageNext ==
  /\ code = "none"
  /\ el_img_convert \/ el_draw_point \/ el_fill_rect \/ el_draw_rect
  /\ UNCHANGED <<call, src, dst, box>>

ImageSpec == ImageInit /\ [][ImageNext]_imageVars

-----------------------------------------------------------------------------
(* Properties. *)

(* A picture of w by h turned once clockwise, and n times: where (r, c) goes. *)
Quarter(t) == [r |-> t.c, c |-> t.h - 1 - t.r, w |-> t.h, h |-> t.w]
Turn(n, t) ==
  CASE n = 0 -> t
    [] n = 1 -> Quarter(t)
    [] n = 2 -> Quarter(Quarter(t))
    [] n = 3 -> Quarter(Quarter(Quarter(t)))
Place(t) == t.r * t.w + t.c

(* The sample that stands for position j of d among s: the one whose place  *)
(* it is or, unless s is a multiple of d, one that rounding takes instead.   *)
Stands(k, j, s, d, rounding) ==
  /\ k - (j * s) \div d \in rounding
  /\ s % d = 0 => k * d = j * s

(* The fixed point rounds down only, floats either way. *)
Rounding(format) == IF format = "YUV422" THEN {-1, 0, 1} ELSE {-1, 0}

(* How many times it is turned: only YUV422 has a rotation of its own. *)
Turns(s, d) == IF s.format = "YUV422" THEN Rotate(s, d) ELSE d.rotate

(* A conversion reads inside the source, writes inside the destination, and  *)
(* puts into every cell of the turned picture, once, the pixel that stands   *)
(* for it, in its own colour.  Two cases are left out: a source and a        *)
(* destination of one format that is not turned are copied byte by byte,     *)
(* which is right for equal sizes only, and an RGB888 source is read as      *)
(* RGB565 unless the destination is RGB888 too.                              *)
Converted(s, d, px) ==
  LET resized == s.w # d.w \/ s.h # d.h
      copied == s.format = d.format /\ d.rotate = 0
  IN  /\ \A p \in px :
           /\ p.from \in Cells(s) /\ p.to \in Cells(d)
           /\ \A c \in p.chroma : c \in s.w * s.h .. 2 * s.w * s.h - 1
      /\ ~(copied /\ resized) =>
         \A i \in 0 .. d.h - 1, j \in 0 .. d.w - 1 :
           LET there == {p \in px :
                           p.to = Place(Turn(Turns(s, d), [r |-> i, c |-> j, w |-> d.w, h |-> d.h]))}
           IN  \E p \in there :
                 /\ there = {p}
                 /\ Stands(p.from \div s.w, i, s.h, d.h, Rounding(s.format))
                 /\ Stands(p.from % s.w, j, s.w, d.w, Rounding(s.format))
                 /\ s.format # "RGB888" \/ d.format = "RGB888" => p.colour = "own"

(* A filled rectangle: the cells of the part that is in the picture.  One    *)
(* that begins before the picture is moved into it.                          *)
Rectangle(p, b) ==
  {c \in Cells(p) :
     LET x == Begin(b.x, p.w)   y == Begin(b.y, p.h)
     IN  /\ c % p.w >= x /\ c % p.w < x + b.w
         /\ c \div p.w >= y /\ c \div p.w < y + b.h}

\* What the functions of el_cv.cpp write is what they are for: a conversion that succeeds
\* puts the right pixel into every cell, and a drawing writes inside the picture, a filled
\* rectangle exactly its cells (a grey picture is left out: its rows are not below one
\* another).
PixelsRight ==
  /\ code = "OK" => Converted(src, dst, pixels)
  /\ code = "void" =>
       /\ pixels \subseteq Cells(dst)
       /\ call = "fill" /\ dst.format # "GRAY" => pixels = Rectangle(dst, box)

=============================================================================
