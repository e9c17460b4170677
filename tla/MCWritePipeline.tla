--------------------------- MODULE MCWritePipeline ---------------------------
(***************************************************************************)
(* WritePipeline for TLC.  Four chunks, a channel of one and two permits:  *)
(* the channel fills, the permits run out, parts finish out of order, and  *)
(* a failure can hit while another part is in flight.                      *)
(***************************************************************************)
EXTENDS WritePipeline

MCNumChunks == 4
MCPayloads == 0 .. MCNumChunks
MCChannelCap == 1
MCPermits == 2
=============================================================================
