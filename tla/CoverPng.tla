------------------------------- MODULE CoverPng -------------------------------
(***************************************************************************)
(* The rows of a PNG (decode_png() in src/src/ui/cover_art.c): each comes  *)
(* out of zlib with a filter of its own over it, which is undone in place  *)
(* from the row before, in the other of two buffers.                       *)
(*                                                                         *)
(* The writer of the file filters as the PNG specification says (9.2 and   *)
(* 9.4, external), whatever filter it likes for each row.  A byte is Byte  *)
(* values wide.                                                            *)
(***************************************************************************)
EXTENDS Integers

CONSTANTS Byte,       \* 256
          PixelBytes, \* bpp: 1 for an index of a palette, up to 4
          RowBytes,   \* row_bytes
          Rows        \* bound: the picture's height

ASSUME PngAssumption ==
  Byte \in Nat \ {0} /\ PixelBytes \in Nat \ {0} /\ RowBytes \in Nat /\ Rows \in Nat

VARIABLES bufs,  \* the two buffers; the row decoded last is in the one `prev' names
          prev,
          line,  \* rows read so far
          ok,
          row    \* history: the row of the picture that was read last

pngVars == <<bufs, prev, line, ok, row>>

Bytes   == 0..Byte - 1
Index   == 1..RowBytes
Zeros   == [i \in Index |-> 0]
PngInit == bufs = [b \in {0, 1} |-> Zeros] /\ prev = 1 /\ line = 0 /\ ok = TRUE /\ row = Zeros

At(r, i) == IF i < 1 THEN 0 ELSE r[i]
Dist(n)  == IF n < 0 THEN -n ELSE n
-----------------------------------------------------------------------------
\* What the specification predicts a byte from: the one to the left, the one above
\* and the one above to the left, all of the picture.
SpecPaeth(a, b, c) ==
  LET p  == a + b - c
      pa == Dist(p - a)
      pb == Dist(p - b)
      pc == Dist(p - c)
  IN  IF pa <= pb /\ pa <= pc THEN a ELSE IF pb <= pc THEN b ELSE c
Predicted(filter, a, b, c) ==
  CASE filter = 0 -> 0
    [] filter = 1 -> a
    [] filter = 2 -> b
    [] filter = 3 -> (a + b) \div 2
    [] filter = 4 -> SpecPaeth(a, b, c)
Filtered(filter, raw, above) ==
  [i \in Index |->
     (raw[i] - Predicted(filter, At(raw, i - PixelBytes), above[i], At(above, i - PixelBytes))) % Byte]
-----------------------------------------------------------------------------
\* paeth(), in the form that needs no p
Paeth(a, b, c) ==
  LET pa   == Dist(b - c)
      pb   == Dist(a - c)
      pc   == Dist(a + b - 2 * c)
      best == IF pb < pa THEN b ELSE a
  IN  IF pc < (IF pb < pa THEN pb ELSE pa) THEN c ELSE best

\* unfilter_row() of a known filter, in place: the bytes to the left are done.
OneByte(filter, cur, up, done, i) ==
  LET left   == IF i > PixelBytes THEN done[i - PixelBytes] ELSE 0
      upleft == At(up, i - PixelBytes)
  IN  CASE filter = 0 -> cur[i]
        [] filter = 1 -> IF i > PixelBytes THEN (cur[i] + left) % Byte ELSE cur[i]
        [] filter = 2 -> (cur[i] + up[i]) % Byte
        [] filter = 3 -> (cur[i] + (left + up[i]) \div 2) % Byte
        [] filter = 4 -> IF i > PixelBytes THEN (cur[i] + Paeth(left, up[i], upleft)) % Byte
                         ELSE (cur[i] + up[i]) % Byte
Unfiltered(filter, cur, up) ==
  LET done[i \in Index] == OneByte(filter, cur, up, done, i) IN done

\* The loop of decode_png(), a row that came: the buffers change places.
Other == 1 - prev
ReadRow(filter, raw) ==
  /\ ok /\ line < Rows /\ line' = line + 1 /\ row' = raw
  /\ LET up == bufs[prev]
     IN  IF filter \in 0..4
         THEN /\ bufs' = [bufs EXCEPT ![Other] = Unfiltered(filter, Filtered(filter, raw, row), up)]
              /\ prev' = Other /\ UNCHANGED ok
         ELSE ok' = FALSE /\ UNCHANGED <<bufs, prev>>

\* The stream ends before the picture does, or isn't sound.
Short == ok /\ line < Rows /\ ok' = FALSE /\ UNCHANGED <<bufs, prev, line, row>>

PngNext ==
  \/ \E filter \in 0..4, raw \in [Index -> Bytes] : ReadRow(filter, raw)
  \/ \E raw \in [Index -> Bytes] : ReadRow(5, raw)
  \/ Short
PngSpec == PngInit /\ [][PngNext]_pngVars
-----------------------------------------------------------------------------
\* Whatever filters the writer chose, the row in hand is the picture's.
RowsRestored == ok => bufs[prev] = row
=============================================================================
