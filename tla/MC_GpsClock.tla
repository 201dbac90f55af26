---------------------------- MODULE MC_GpsClock ----------------------------
(***************************************************************************)
(* GpsClock on small instances: a system clock that is right, or without a *)
(* battery and far behind, and that someone may set either way.            *)
(***************************************************************************)
EXTENDS GpsClock

SomeSkews == {-5, 0}
=============================================================================
