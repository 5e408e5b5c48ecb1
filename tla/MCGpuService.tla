---------------------------- MODULE MCGpuService ----------------------------
(***************************************************************************)
(* GpuService for TLC: one program, one action key.                         *)
(***************************************************************************)
EXTENDS GpuService

MCPrograms == {"p"}
=============================================================================
