---------------------------- MODULE MCCoverCache ----------------------------
(***************************************************************************)
(* The runs of CoverCache: two albums, one of them asked for at two sizes; *)
(* and a comment the code doesn't keep.                                    *)
(***************************************************************************)
EXTENDS CoverCache

CONSTANTS a, b

MCAlbums  == {a, b}
MCEntries == {<<a, "small">>, <<a, "big">>, <<b, "small">>}

\* A fetch that "couldn't ask" MPD is to be tried "again another time": an
\* entry resolved to no art, "never retried", is of an album without any.
NoneHasNoArt == \A e \in Entries : state[e] = "none" => Album(e) \notin art
=============================================================================
