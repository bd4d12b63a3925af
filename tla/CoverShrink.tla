----------------------------- MODULE CoverShrink -----------------------------
(***************************************************************************)
(* A cover made into a tile (src/src/ui/cover_art.c): the decoders hand    *)
(* their rows to the resampler, which averages the largest window of the   *)
(* tile's shape into it.  The picture never exists in memory.              *)
(*                                                                         *)
(* A pixel is the set of the source's pixels it is the average of; colours *)
(* and the file formats are left out, but for libjpeg's scaling, external. *)
(***************************************************************************)
EXTENDS Integers, FiniteSets

CONSTANTS Sides,   \* sides of the pictures
          Tiles,   \* sides of the tiles
          ByteMax, \* the most a channel is
          SumMax   \* UINT32_MAX

ASSUME ShrinkAssumption == Sides \subseteq Nat \ {0} /\ Tiles \subseteq Nat \ {0}

VARIABLES job,   \* the picture, as it comes from the decoder, the tile and the next row
          acc,   \* resampler_t.acc: what was summed into each of its pixels
          tile   \* dst: what each pixel is the sum of, and by how many it is divided

shrinkVars == <<job, acc, tile>>

NoTile == <<>>
Idle   == [stage |-> "idle", kind |-> "none", full |-> <<0, 0>>, by |-> 1,
           w |-> 0, h |-> 0, ow |-> 0, oh |-> 0, y |-> 0]

ShrinkInit == job = Idle /\ acc = NoTile /\ tile = NoTile
-----------------------------------------------------------------------------
\* decode_jpeg(): it halves while that still leaves twice the tile's size.
Halves(w, h, ow, oh, d) == w >= 4 * d * ow /\ h >= 4 * d * oh
Denominator(w, h, ow, oh) ==
  CHOOSE d \in {1, 2, 4, 8} :
    /\ d = 8 \/ ~Halves(w, h, ow, oh, d)
    /\ \A e \in {1, 2, 4} : e < d => Halves(w, h, ow, oh, e)

\* The side libjpeg makes of it (jdiv_round_up())
Scaled(n, d) == (n + d - 1) \div d

MidUnclamped(crop, out) == out  \* Mutant: a picture smaller than the tile is not repeated.

\* resampler_init(): the window, and the size it is averaged to
AtLeastOne(n) == IF n < 1 THEN 1 ELSE n
CropH(w, h, ow, oh) == IF (w * oh) \div ow > h THEN h ELSE AtLeastOne((w * oh) \div ow)
CropW(w, h, ow, oh) == IF (w * oh) \div ow > h THEN AtLeastOne((h * ow) \div oh) ELSE w
Mid(crop, out)      == IF crop < out THEN crop ELSE out

\* map_axis()
First(n, crop) == (n - crop) \div 2
InCrop(s, n, crop) == First(n, crop) <= s /\ s < First(n, crop) + crop
Bin(s, n, crop, dst) == ((s - First(n, crop)) * dst) \div crop
Binned(d, n, crop, dst) == {s \in 0..n - 1 : InCrop(s, n, crop) /\ Bin(s, n, crop, dst) = d}

CW == CropW(job.w, job.h, job.ow, job.oh)
CH == CropH(job.w, job.h, job.ow, job.oh)
MW == Mid(CW, job.ow)
MH == Mid(CH, job.oh)
Columns(d) == Binned(d, job.w, CW, MW)
Lines(d)   == Binned(d, job.h, CH, MH)

\* The most that any pixel's sum may be: refused, if that could be too much.
Fits(w, h, ow, oh) ==
  LET cw == CropW(w, h, ow, oh)
      ch == CropH(w, h, ow, oh)
      mw == Mid(cw, ow)
      mh == Mid(ch, oh)
  IN  \A x \in 0..mw - 1, y \in 0..mh - 1 :
        Cardinality(Binned(x, w, cw, mw)) * Cardinality(Binned(y, h, ch, mh)) * ByteMax * 2 <= SumMax

\* rpod_cover_art_decode() or rpod_cover_art_scale(), up to the first row
Begin(kind, w, h, ow, oh) ==
  LET d  == IF kind = "jpeg" THEN Denominator(w, h, ow, oh) ELSE 1
      sw == Scaled(w, d)
      sh == Scaled(h, d)
  IN  /\ job.stage = "idle"
      /\ job' = [stage |-> IF Fits(sw, sh, ow, oh) THEN "rows" ELSE "none", kind |-> kind,
                 full |-> <<w, h>>, by |-> d, w |-> sw, h |-> sh, ow |-> ow, oh |-> oh, y |-> 0]
      /\ acc' = [c \in (0..Mid(CropW(sw, sh, ow, oh), ow) - 1)
                         \X (0..Mid(CropH(sw, sh, ow, oh), oh) - 1) |-> {}]
      /\ UNCHANGED tile

\* resampler_add(), with the next row the decoder has read
AddRow ==
  /\ job.stage = "rows" /\ job.y < job.h /\ job' = [job EXCEPT !.y = @ + 1]
  /\ acc' = [c \in DOMAIN acc |->
               IF job.y \in Lines(c[2]) THEN acc[c] \union (Columns(c[1]) \X {job.y}) ELSE acc[c]]
  /\ UNCHANGED tile

\* A file that is cut short or isn't sound: there is no picture.
Spoilt ==
  /\ job.stage = "rows" /\ job.y < job.h /\ job.kind # "scale"
  /\ job' = [job EXCEPT !.stage = "none"] /\ UNCHANGED <<acc, tile>>

\* resampler_finish()
FinishTile ==
  /\ job.stage = "rows" /\ job.y = job.h /\ job' = [job EXCEPT !.stage = "done"]
  /\ tile' = [p \in (0..job.ow - 1) \X (0..job.oh - 1) |->
                LET mx == (p[1] * MW) \div job.ow
                    my == (p[2] * MH) \div job.oh
                IN  [of |-> acc[<<mx, my>>], n |-> Cardinality(Columns(mx)) * Cardinality(Lines(my))]]
  /\ UNCHANGED acc

ShrinkNext ==
  \/ \E kind \in {"jpeg", "png", "scale"}, w, h \in Sides, ow, oh \in Tiles : Begin(kind, w, h, ow, oh)
  \/ AddRow \/ Spoilt \/ FinishTile
ShrinkSpec == ShrinkInit /\ [][ShrinkNext]_shrinkVars
-----------------------------------------------------------------------------
\* No pixel of the accumulator is left without a source: finishing never divides by
\* zero, for any sizes.
NoEmptyBin ==
  job.stage # "idle" =>
    /\ \A d \in 0..MW - 1 : Columns(d) # {}
    /\ \A d \in 0..MH - 1 : Lines(d) # {}

\* The window is all of the source in one axis and lies in it, centred, in the other;
\* its shape is the tile's, but for less than a pixel.
WindowFills ==
  job.stage # "idle" =>
    /\ CW <= job.w /\ CH <= job.h /\ (CW = job.w \/ CH = job.h)
    /\ CH < job.h => CH = 1 \/ (CH * job.ow <= CW * job.oh /\ CW * job.oh < (CH + 1) * job.ow)
    /\ CW < job.w => CW = 1 \/ (CW * job.oh <= CH * job.ow /\ CH * job.ow < (CW + 1) * job.oh)

\* Each pixel of the tile is the plain average of the source's pixels it covers:
\* each of the window's is summed, in its place and its share, and the sum is
\* divided by as many.
PlainAverage ==
  job.stage = "done" =>
    /\ \A p \in DOMAIN tile : tile[p].n > 0 /\ tile[p].n = Cardinality(tile[p].of)
    /\ Cardinality(UNION {tile[p].of : p \in DOMAIN tile}) = CW * CH
    /\ \A p, q \in DOMAIN tile : p[2] = q[2] /\ p[1] < q[1] =>
         \/ tile[p].of = tile[q].of
         \/ \A s \in tile[p].of, t \in tile[q].of : s[1] < t[1]
    /\ \A d, e \in 0..MW - 1 : Cardinality(Columns(d)) <= Cardinality(Columns(e)) + 1
    /\ \A d, e \in 0..MH - 1 : Cardinality(Lines(d)) <= Cardinality(Lines(e)) + 1

\* Halving in the decoder leaves enough to average: twice the tile, both ways.
TwiceTheTile ==
  job.by > 1 => job.w >= 2 * job.ow /\ job.h >= 2 * job.oh
=============================================================================
