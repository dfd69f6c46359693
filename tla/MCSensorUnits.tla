--------------------------- MODULE MCSensorUnits ---------------------------
(***************************************************************************)
(* SensorUnits as an implementation of UnitLifecycle.                      *)
(***************************************************************************)
EXTENDS SensorUnits

Phase(state) ==
  CASE state = "off_e" -> "off"
    [] state = "on_e" -> "on"
    [] state = "acquisition_e" -> "acquiring"
    [] state \in SwitchingStates -> "starting"
    [] state \in SelfTestStates -> "test"

Lifecycle == INSTANCE UnitLifecycle WITH
  Units <- SUs,
  unit <- [s \in SUs |-> Phase(SU_state[s])]

\* Without telecommands for a unit that the health task is working on, every
\* unit goes through switching, self test and acquisition as UnitLifecycle
\* says (Switch_SU_State, Update_SU_State, Monitor, RestoreSettings).
ImplementsUnitLifecycle == Lifecycle!Spec
============================================================================
