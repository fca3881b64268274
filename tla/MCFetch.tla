----------------------------- MODULE MCFetch -----------------------------
(***************************************************************************)
(* Three rows at first, asked for by pages of two.  Row 2 may come between  *)
(* the rows of the first page, row 4 at the seam to the next; request 3 is  *)
(* with no town at first.                                                  *)
(***************************************************************************)
EXTENDS ScfFetch

CONSTANTS f1, f2, nofile, torn

MCIds == 1 .. 5
MCFirst == {1, 3, 5}
=============================================================================
