----------------------------- MODULE MCPyWriter -----------------------------
(***************************************************************************)
(* PyWriter for TLC: four batches over a batch channel of two, so that     *)
(* the caller blocks on the thread, and one part for the whole buffer.     *)
(***************************************************************************)
EXTENDS PyWriter

MCMaxBatches == 4
MCPayloads == UNION {[1 .. n -> (1 .. MCMaxBatches) \X BOOLEAN] : n \in 0 .. MCMaxBatches}
=============================================================================
