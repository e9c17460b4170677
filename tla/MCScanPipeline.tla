--------------------------- MODULE MCScanPipeline ---------------------------
(***************************************************************************)
(* ScanPipeline for TLC: six files, so that prefetching reaches its bound  *)
(* with files to spare; among them empty files at either end and in        *)
(* between, and files of two batches.                                      *)
(***************************************************************************)
EXTENDS ScanPipeline

MCShapes == {<<2, 0, 1, 0, 1, 1>>, <<0, 1, 2, 1, 1, 0>>}
=============================================================================
