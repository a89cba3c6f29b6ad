------------------------------ MODULE MCStream ------------------------------
(***************************************************************************)
(* Constants for the stream runs: records of two units, batches of two     *)
(* records, images of two batches.  A descriptor is a small number: less   *)
(* than the size of a record, or just that.                                *)
(***************************************************************************)
EXTENDS StreamSafety

MCBuilds == {"sync", "asyncwrite", "asyncread"}
MCSyncBuild == {"sync"}
MCKinds == {"export", "format", "restore", "scan"}
MCScan == {"scan"}
MCFds == {1, 2}
=============================================================================
