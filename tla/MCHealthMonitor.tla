--------------------------- MODULE MCHealthMonitor ---------------------------
(***************************************************************************)
(* One voltage channel: of the low voltages, of the high voltages and of   *)
(* the DPU test alike.                                                     *)
(***************************************************************************)
EXTENDS HealthMonitor

MC_DPU_CHANNELS == <<0>>
MC_LV_CHANNELS == [u \in SUs |-> {0}]
MC_HV_CHANNELS == {0}
=============================================================================
