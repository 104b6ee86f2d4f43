--------------------------- MODULE MCAsyncSession ---------------------------
(***************************************************************************)
(* AsyncSession on small sets of codes and lengths.                        *)
(***************************************************************************)
EXTENDS AsyncSession

MCTxUserErrors == {-1}
MCRxUserErrors == {-2}

\* Nothing, an odd length, a frame of two channels and a half, the largest
\* buffer, and one byte more.
MCLens == {0, 3, 6, 262144, 262145}

\* Nothing, and a buffer.
MCSmallLens == {0, 320}

\* Normal close, and the two ends of what a short makes of a status: nothing,
\* and a negative number.
MCCloseStatuses == {0, 1000, 64536}

=============================================================================
