--------------------------- MODULE StatusRegisters ---------------------------
(***************************************************************************)
(* The status registers of the telemetry and the functions that set and    *)
(* clear bits of them.  Three tasks do it, and the TC interrupt service:   *)
(*                                                                         *)
(*   "tc"           TC execution task       priority 2                     *)
(*   "acquisition"  Acquisition task        priority 1                     *)
(*   "health"       Health Monitoring task  priority 0                     *)
(*                                                                         *)
(* A task is the list of what is left of its current activity, the next    *)
(* operation first.  A read-modify-write of a register is two steps, the   *)
(* read and the write; between DISABLE_INTERRUPT_MASTER and                *)
(* ENABLE_INTERRUPT_MASTER no other task and no interrupt comes.           *)
(* A register is the set of the numbers of its bits that are set.          *)
(***************************************************************************)
EXTENDS Naturals, Sequences

CONSTANT NUM_SU   \* number of sensor units

ASSUME NumSUAssumption == NUM_SU \in 1 .. 4

VARIABLES
  telemetry,  \* the registers
  reported,   \* history: what they hold if no operation is lost
  copy,       \* the value each task has read and not yet written
  masked,     \* the task that has disabled the interrupts, or Nobody
  work        \* what each task still has to do

registerVars == <<telemetry, reported, copy, masked>>

SUs == 0 .. NUM_SU - 1
Bits == 0 .. 7

error_status == <<"error_status", 0>>
mode_status == <<"mode_status", 0>>
software_error == <<"software_error", 0>>
SU_status(u) == <<"SU_status", u>>
Registers == {error_status, mode_status, software_error} \cup {SU_status(u) : u \in SUs}

Tasks == {"tc", "acquisition", "health"}
Nobody == "nobody"
Above(t) == CASE t = "tc" -> {}
              [] t = "acquisition" -> {"tc"}
              [] t = "health" -> {"tc", "acquisition"}
NoCopy == {8}   \* no value of a register of eight bits

\* Bits of error_status: TC_ERROR, PARITY_ERROR, one of each sensor unit.
TC_ERROR == {0}
TC_OR_PARITY_ERROR == {0, 1}
SU_ERROR(u) == {4 + u}
OVERALL_SU_ERROR == UNION {SU_ERROR(u) : u \in SUs}

\* Bits of mode_status: two of the mode, the others of errors.
MODE_BITS_MASK == {0, 1}
DPU_SELF_TEST == {}
STAND_BY == {0}
ACQUISITION == {1}
ADC_ERROR == {2}
MEMORY_WRITE_ERROR == {4}
SUPPLY_ERROR == {7}

\* Bits of SU_status: two of the supply voltages (left out), the others of errors.
SUPPLY_VOLTAGE_MASK == {0, 1}
LV_LIMIT_ERROR == {2}
HV_LIMIT_ERROR == {3}
TEMPERATURE_ERROR == {5}
LV_SUPPLY_ERROR == {6}
HV_SUPPLY_ERROR == {7}

\* Bits of software_error.
MEASUREMENT_ERROR == {0}

----------------------------------------------------------------------------
(* Operations: a read-modify-write of one register under disabled           *)
(* interrupts, which it enables at the end if `enable`; a store of zero.    *)

Update(r, drop, put, enable) ==
  [op |-> "update", register |-> r, drop |-> drop, put |-> put, enable |-> enable]
Zero(r) == [op |-> "zero", register |-> r]

SetErrorStatus(bits) == <<Update(error_status, {}, bits \ TC_ERROR, TRUE)>>
ClearErrorStatus == <<Zero(error_status)>>
Set_TC_Error == <<Update(error_status, {}, TC_ERROR, TRUE)>>

SetSoftwareError(error) == <<Update(software_error, {}, error, TRUE)>>
ClearSoftwareError == <<Zero(software_error)>>

SetModeStatusError(error) ==
  <<Update(mode_status, {}, error \ MODE_BITS_MASK, TRUE)>>
ClearModeStatusError == <<Update(mode_status, Bits \ MODE_BITS_MASK, {}, TRUE)>>
SetMode(mode) == <<Update(mode_status, MODE_BITS_MASK, mode \cap MODE_BITS_MASK, TRUE)>>
GetMode == telemetry[mode_status] \cap MODE_BITS_MASK

\* SetErrorStatus is called with the interrupts disabled, and enables them.
\* For the mutant: the error bit of the unit is left to the caller.
MutantSet_SU_Error(u, error) ==
  <<Update(SU_status(u), {}, error \ SUPPLY_VOLTAGE_MASK, TRUE)>>
Set_SU_Error(u, error) ==
  <<Update(SU_status(u), {}, error \ SUPPLY_VOLTAGE_MASK, FALSE)>>
    \o SetErrorStatus(SU_ERROR(u))

Clear_SU_Error ==
  [i \in 1 .. NUM_SU |->
     Update(SU_status(i - 1), Bits \ SUPPLY_VOLTAGE_MASK, {}, i = NUM_SU)]

----------------------------------------------------------------------------
(* Steps of a task *)

\* The tasks are scheduled by priority; with interrupts disabled none is preempted.
Runs(t) ==
  /\ work[t] # <<>>
  /\ IF masked = Nobody THEN \A h \in Above(t) : work[h] = <<>> ELSE masked = t

Doing(t, op) == Runs(t) /\ Head(work[t]).op = op

\* The head of the work of t is done, and ops come before what is left.
Then(t, ops) == work' = [work EXCEPT ![t] = ops \o Tail(@)]

\* The write of a read-modify-write, of the value `old` of its register.
After(update, old) == (old \ update.drop) \cup update.put

\* For the mutant: the interrupts stay enabled.
MutantBeginUpdate(t) ==
  LET update == Head(work[t]) IN
  /\ copy' = [copy EXCEPT ![t] = telemetry[update.register]]
  /\ UNCHANGED <<masked, telemetry, reported, work>>
BeginUpdate(t) ==
  LET update == Head(work[t]) IN
  /\ masked' = t
  /\ copy' = [copy EXCEPT ![t] = telemetry[update.register]]
  /\ UNCHANGED <<telemetry, reported, work>>

EndUpdate(t) ==
  LET update == Head(work[t]) IN
  /\ telemetry' = [telemetry EXCEPT ![update.register] = After(update, copy[t])]
  /\ reported' = [reported EXCEPT ![update.register] = After(update, @)]
  /\ copy' = [copy EXCEPT ![t] = NoCopy]
  /\ masked' = IF update.enable THEN Nobody ELSE masked
  /\ Then(t, <<>>)

StoreZero(t) ==
  LET r == Head(work[t]).register IN
  /\ telemetry' = [telemetry EXCEPT ![r] = {}]
  /\ reported' = [reported EXCEPT ![r] = {}]
  /\ Then(t, <<>>)
  /\ UNCHANGED <<copy, masked>>

RegisterStep(t) ==
  \/ Doing(t, "update") /\ copy[t] = NoCopy /\ BeginUpdate(t)
  \/ Doing(t, "update") /\ copy[t] # NoCopy /\ EndUpdate(t)
  \/ Doing(t, "zero") /\ StoreZero(t)

\* The TC interrupt service sets bits of the error status: both, here.
TC_InterruptError ==
  /\ masked = Nobody
  /\ telemetry' = [telemetry EXCEPT ![error_status] = @ \cup TC_OR_PARITY_ERROR]
  /\ reported' = [reported EXCEPT ![error_status] = @ \cup TC_OR_PARITY_ERROR]
  /\ UNCHANGED <<copy, masked, work>>

\* What the commands, and a mail from the hit trigger task, let a task do.
ERROR_STATUS_CLEAR ==
  ClearErrorStatus \o ClearSoftwareError \o ClearModeStatusError \o Clear_SU_Error

ModeCommands ==
  {SetMode(mode) : mode \in {m \in {STAND_BY, ACQUISITION} :
                               GetMode = (STAND_BY \cup ACQUISITION) \ m}}

Commands == {ERROR_STATUS_CLEAR, Set_TC_Error, SetModeStatusError(MEMORY_WRITE_ERROR)}
              \cup ModeCommands

Begins(t, ops) ==
  /\ masked = Nobody
  /\ work[t] = <<>>
  /\ work' = [work EXCEPT ![t] = ops]
  /\ UNCHANGED registerVars

RegisterInit ==
  /\ telemetry = [r \in Registers |-> {}]
  /\ reported = telemetry
  /\ copy = [t \in Tasks |-> NoCopy]
  /\ masked = Nobody

----------------------------------------------------------------------------
(* What the registers promise *)

RegisterTypeOK ==
  /\ telemetry \in [Registers -> SUBSET Bits]
  /\ reported \in [Registers -> SUBSET Bits]
  /\ copy \in [Tasks -> (SUBSET Bits) \cup {NoCopy}]
  /\ masked \in Tasks \cup {Nobody}

\* No bit that a task or the interrupt service sets or clears is undone by a
\* read-modify-write of another one, whatever preempts what: the registers hold what
\* the sequence of their operations says (health.c 247-470 and 506-565, tc_hand.c
\* 298-527 and 1576-1593).
NoUpdateLost == telemetry = reported
=============================================================================
