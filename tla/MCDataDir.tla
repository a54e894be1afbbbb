----------------------------- MODULE MCDataDir -----------------------------
(***************************************************************************)
(* Small instances of DataDir for TLC.                                     *)
(***************************************************************************)
EXTENDS DataDir, TLC

\* No file, one that does not parse, the smallest values that are accepted, and
\* files that miss by one in one field.
Files ==
  {NoFile, Torn,
   [listen_port |-> 1, chunk_size |-> 4096, pipeline_depth |-> 1],
   [listen_port |-> 0, chunk_size |-> 4096, pipeline_depth |-> 1],
   [listen_port |-> 1, chunk_size |-> 4095, pipeline_depth |-> 1],
   [listen_port |-> 1, chunk_size |-> 4096, pipeline_depth |-> 0]}
===========================================================================
