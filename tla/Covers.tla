-------------------------------- MODULE Covers --------------------------------
(***************************************************************************)
(* A cover from its file to its tile (src/src/ui/cover_art.c): a PNG's     *)
(* rows are undone (CoverPng), and the rows of any format are averaged     *)
(* (CoverShrink).                                                          *)
(***************************************************************************)
EXTENDS CoverPng, CoverShrink

CoversSpec == PngSpec /\ ShrinkSpec

\* A cover comes out of its file as it went in, and each pixel of the tile is the
\* average of those it covers, of one at least (cover_art.c).
CoversRight == RowsRestored /\ NoEmptyBin /\ WindowFills /\ PlainAverage /\ TwiceTheTile
=============================================================================
