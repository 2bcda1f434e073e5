---------------------------- MODULE MCTempFiles -----------------------------
(***************************************************************************)
(* The instances of MCFeedCache, with the temporary files.                 *)
(***************************************************************************)
EXTENDS MCFeedCache, TempFiles
=============================================================================
