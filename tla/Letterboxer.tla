---------------------------- MODULE Letterboxer ----------------------------
(***************************************************************************)
(* The fused preprocessing of letterbox.cpp: the geometry of the letterbox *)
(* (compute_letterbox), the interpolation tables that prepare() keeps      *)
(* between frames, and run(), which writes the CHW tensor in one pass.     *)
(* All sizes are exact: doubles become fractions, and where a fraction     *)
(* falls on a rounding boundary the double may land on either side, so the *)
(* model allows both.  Pixel values and blend weights are left out.        *)
(*                                                                         *)
(* Operators named after a mistake are wrong versions of the definition    *)
(* after them and not part of the specification.                           *)
(***************************************************************************)
EXTENDS Integers, FiniteSets

CONSTANTS TargetWidth, TargetHeight,  \* model input, in pixels
          SourceSizes                 \* widths and heights of the images

ASSUME LetterboxerAssumption ==
    /\ TargetWidth \in Nat \ {0} /\ TargetHeight \in Nat \ {0}
    /\ SourceSizes \subseteq Nat

VARIABLE
    lb  \* the Letterboxer's members, and what its last run() was given and did

PixelFormat == {"bgr8", "rgb8", "gray8"}

channel_count(format) == IF format = "gray8" THEN 1 ELSE 3

ImageView == [width : SourceSizes, height : SourceSizes, format : PixelFormat]

tensor_size == 3 * TargetWidth * TargetHeight

-----------------------------------------------------------------------------
\* std::lround of num / den >= 0; on a tie the double may be a hair below.
lround(num, den) ==
    LET up == (2 * num + den) \div (2 * den)
    IN IF (2 * num + den) % (2 * den) = 0 THEN {up, up - 1} ELSE {up}

\* lround(room / 2.0 - 0.1): never a tie, odd room leaves the larger half
\* on the right and at the bottom.
PadOf(room) == (5 * room + 4) \div 10

\* The scale is num / den.
compute_letterbox(source) ==
    LET tall == TargetHeight * source.width <= TargetWidth * source.height
        num == IF tall THEN TargetHeight ELSE TargetWidth
        den == IF tall THEN source.height ELSE source.width
    IN { [num |-> num, den |-> den,
          source_width |-> source.width, source_height |-> source.height,
          resized_width |-> w, resized_height |-> h,
          pad_x |-> PadOf(TargetWidth - w), pad_y |-> PadOf(TargetHeight - h)] :
         w \in lround(source.width * num, den),
         h \in lround(source.height * num, den) }

Clamp(x, lo, hi) == IF x < lo THEN lo ELSE IF x > hi THEN hi ELSE x

ToModelUnpadded(t, x, pad) == x * t.num

\* LetterboxTransform::to_model on one coordinate, in units of 1 / den.
to_model(t, x, pad) == x * t.num + pad * t.den

\* LetterboxTransform::to_source on one coordinate that is given in units of
\* 1 / den; the result is in units of 1 / num.
to_source(t, x, pad, size) == Clamp(x - pad * t.den, 0, size * t.num)

-----------------------------------------------------------------------------
\* build_axis: the two source indices that each resized index blends, at
\* position (d + 1/2) * source_size / resized_size - 1/2.  Where the position
\* is an integer, below tells on which side of it the double lands.
AxisEntry(source_size, resized_size, d, below) ==
    LET num == (2 * d + 1) * source_size - resized_size
        den == 2 * resized_size
        floor == IF below /\ num % den = 0 THEN num \div den - 1 ELSE num \div den
        lo == IF floor < 0 THEN 0 ELSE floor
    IN IF lo >= source_size - 1 THEN <<source_size - 1, source_size - 1>>
                                ELSE <<lo, lo + 1>>

build_axis(source_size, resized_size) ==
    LET indices == 0..(resized_size - 1)
    IN { [d \in indices |-> AxisEntry(source_size, resized_size, d, below[d])] :
         below \in [indices -> BOOLEAN] }

PreparedForSize(source) ==
    /\ source.width = lb.prepared.width
    /\ source.height = lb.prepared.height

PreparedFor(source) ==
    /\ source.width = lb.prepared.width
    /\ source.height = lb.prepared.height
    /\ source.format = lb.prepared.format

\* The columns' table holds byte offsets.
ByteOffsets(axis, channels) ==
    [d \in DOMAIN axis |-> <<axis[d][1] * channels, axis[d][2] * channels>>]

Rebuilt(source, t, x, y) ==
    [lb EXCEPT !.prepared = source, !.transform = t,
               !.x = ByteOffsets(x, channel_count(source.format)), !.y = y]

\* prepare(): what the object may hold after it.
prepare(source) ==
    IF PreparedFor(source) THEN {lb}
    ELSE UNION { { Rebuilt(source, t, x, y) :
                   x \in build_axis(source.width, t.resized_width),
                   y \in build_axis(source.height, t.resized_height) } :
                 t \in compute_letterbox(source) }

-----------------------------------------------------------------------------
\* The half-open ranges of the tensor that run() writes: per plane the rows
\* above and below the image, per row the padding left and right of it and
\* the image itself.
Writes(t) ==
    LET plane_size == TargetWidth * TargetHeight
        Row(p, dy) == p * plane_size + (t.pad_y + dy) * TargetWidth
        Rows == 0..(t.resized_height - 1)
    IN UNION { { <<p * plane_size, p * plane_size + t.pad_y * TargetWidth, "above">>,
                 <<p * plane_size + (t.pad_y + t.resized_height) * TargetWidth,
                   (p + 1) * plane_size, "below">> }
               \cup { <<Row(p, dy), Row(p, dy) + t.pad_x, "left">> : dy \in Rows }
               \cup { <<Row(p, dy) + t.pad_x,
                        Row(p, dy) + t.pad_x + t.resized_width, "image">> : dy \in Rows }
               \cup { <<Row(p, dy) + t.pad_x + t.resized_width,
                        Row(p, dy) + TargetWidth, "right">> : dy \in Rows } :
               p \in 0..2 }

ChannelOfPlane(format) ==
    CASE format = "bgr8"  -> <<2, 1, 0>>
      [] format = "rgb8"  -> <<0, 1, 2>>
      [] format = "gray8" -> <<0, 0, 0>>

\* The bytes of the image that run() reads with these tables, as pairs of a
\* row and a byte within the row.
Reads(tables, source) ==
    { <<tables.y[dy][i], tables.x[dx][j] + ChannelOfPlane(source.format)[p]>> :
      dy \in 0..(tables.transform.resized_height - 1),
      dx \in 0..(tables.transform.resized_width - 1), i \in 1..2, j \in 1..2, p \in 1..3 }

Init_lb ==
    lb = [prepared |-> [width |-> -1, height |-> -1, format |-> "bgr8"],
          transform |-> [num |-> 1, den |-> 1, source_width |-> 0, source_height |-> 0,
                         resized_width |-> 0, resized_height |-> 0,
                         pad_x |-> 0, pad_y |-> 0],
          x |-> <<>>, y |-> <<>>,
          source |-> [width |-> 0, height |-> 0, format |-> "bgr8"],
          writes |-> {}, reads |-> {}]

\* run() on one image.
run_lb ==
    \E source \in ImageView :
       /\ source.width > 0 /\ source.height > 0
       /\ \E ready \in prepare(source) :
             lb' = [ready EXCEPT !.source = source, !.writes = Writes(ready.transform),
                                 !.reads = Reads(ready, source)]

\* run() on an empty image, or with a tensor smaller than tensor_size: it
\* throws before prepare().
run_lb_throws ==
    /\ \E source \in ImageView, output_size \in {tensor_size - 1, tensor_size} :
          \/ source.width = 0 \/ source.height = 0
          \/ output_size < tensor_size
    /\ UNCHANGED lb

Next_lb == run_lb \/ run_lb_throws

-----------------------------------------------------------------------------
HasRun == lb.writes # {}

\* letterbox.hpp: "every output float is written exactly once".  After any
\* sequence of images of changing size and format, each index of the tensor
\* lies in one of the written ranges, none outside the tensor is written, and
\* every byte read belongs to a row and a column of the image of this call,
\* never of the one the tables were built for.
LetterboxExact ==
    HasRun =>
       /\ \A k \in -1..tensor_size :
             Cardinality({w \in lb.writes : w[1] <= k /\ k < w[2]})
                = (IF k \in 0..(tensor_size - 1) THEN 1 ELSE 0)
       /\ \A w \in lb.writes : 0 <= w[1] /\ w[1] <= w[2] /\ w[2] <= tensor_size
       /\ \A r \in lb.reads :
             /\ r[1] \in 0..(lb.source.height - 1)
             /\ r[2] \in 0..(lb.source.width * channel_count(lb.source.format) - 1)

\* Boxes land where the pixels came from.  The centre of output column or row
\* d, taken back by to_source, is within half a model pixel of the source
\* pixels that were blended into it, although the tables divide by the rounded
\* size and to_source by the scale; and a box of the image that to_model moves
\* into the tensor stays inside it and comes back unchanged.
PixelsMapBack ==
    LET t == lb.transform
        ch == channel_count(lb.source.format)
        Close(d, lo, hi, pad, size) ==
            LET back == to_source(t, (2 * (pad + d) + 1) * t.den, 2 * pad, 2 * size)
            IN /\ back >= 2 * t.num * lo - t.den
               /\ back <= 2 * t.num * (hi + 1) + t.den
        Returns(x, pad, size, target) ==
            /\ to_source(t, to_model(t, x, pad), pad, size) = x * t.num
            /\ to_model(t, x, pad) \in 0..(target * t.den)
    IN HasRun =>
          /\ \A d \in DOMAIN lb.x :
                Close(d, lb.x[d][1] \div ch, lb.x[d][2] \div ch, t.pad_x, lb.source.width)
          /\ \A d \in DOMAIN lb.y :
                Close(d, lb.y[d][1], lb.y[d][2], t.pad_y, lb.source.height)
          /\ \A x \in 0..lb.source.width : Returns(x, t.pad_x, lb.source.width, TargetWidth)
          /\ \A y \in 0..lb.source.height : Returns(y, t.pad_y, lb.source.height, TargetHeight)
=============================================================================
