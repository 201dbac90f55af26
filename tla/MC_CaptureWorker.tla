-------------------------- MODULE MC_CaptureWorker --------------------------
(***************************************************************************)
(* CaptureWorker on small instances: an hour of four cycles of one and a   *)
(* half seconds, the shape of FT4's seven and a half, at two samples a     *)
(* second.  The processes of the capture command are model values.         *)
(***************************************************************************)
EXTENDS CaptureWorker

CONSTANTS shell, rtl_sdr, csdr

\* Every instant of an hour's last cycle and of the next one's first.
AcrossTheHour == (Hour - Cycle)..(Hour + Cycle - 1)

\* Every instant of one cycle.
OneCycle == 0..(Cycle - 1)
=============================================================================
