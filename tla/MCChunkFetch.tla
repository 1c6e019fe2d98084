---------------------------- MODULE MCChunkFetch ----------------------------
(***************************************************************************)
(* Tiles of 128 metres.  The lines are short and long, along the axes and   *)
(* across; one begins where it ends, and one has a box whose least         *)
(* latitude and longitude lie on edges of tiles.                           *)
(***************************************************************************)
EXTENDS ChunkFetch

Line(x, y, dx, dy, d) == [source |-> <<x, y>>, target |-> <<x + dx, y + dy>>, distance |-> d]

MCBoundaries == {Line(104, 200, 24, 32, 40), Line(104, 200, 0, 0, 0), Line(150, 400, -48, 64, 80),
                 Line(227, 310, -72, 0, 72), Line(160, 308, 80, 0, 80),
                 Line(143, 182, 88, 0, 88)}

MCUnit         == 32
MCTileSize     == 128 * MCUnit
MCConvergences == {-1, 0, 1}
MCDrifts       == {<<0, 0>>, <<-1, 1>>, <<1, -1>>}
=============================================================================
