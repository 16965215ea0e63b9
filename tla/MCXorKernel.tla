----------------------------- MODULE MCXorKernel -----------------------------
(***************************************************************************)
(* Blocks of three and four threads stand for the warps of the hardware.   *)
(* The word counts range over every remainder of four and, with one block, *)
(* force a second and third iteration of the grid-stride loop.             *)
(***************************************************************************)
EXTENDS XorKernel

MCWordCounts == 1 .. 27

\* Grids of one and of two blocks.
MCDevices == [block_size : {3, 4}, min_grid_size : {1}, multiprocessors : {1},
              active_blocks : {0, 2}, max_grid_size : {1, 2}]
=============================================================================
