------------------------------ MODULE CodeMemory ------------------------------
(***************************************************************************)
(* The program memory: the boot after a reset of each class, the copy of   *)
(* the program in SRAM1, its patches, and the checksum that the health     *)
(* task computes over it, a piece in every round.                          *)
(*                                                                         *)
(*   TC execution task (priority 2)  the last word of a memory block: the  *)
(*                                   block is patched into the program     *)
(*   Health task (priority 0)        CalculateChecksum, a byte a step      *)
(*                                                                         *)
(* A patch is one step: PatchCode disables interrupts, and between the     *)
(* clearing of code_not_patched and PatchCode the TC task does not wait.   *)
(* It can come between any two steps of the health task.  A bit of SRAM1   *)
(* can be upset, and a reset can come, at any time.                        *)
(*                                                                         *)
(* A byte is the set of its bits that are 1.  What Boot does to the sensor *)
(* units, the queue and the telecommands is in the modules of these; of    *)
(* the data memory only whether it holds what the program has put there.   *)
(***************************************************************************)
EXTENDS Integers, FiniteSets

CONSTANTS
  Bits,              \* the bits of a byte
  CHECK_COUNT,       \* pieces of the checksum are counted down from it to 0
  CHECK_SIZE,        \* bytes of a piece, but for the first one of a cycle
  CODE_MEMORY_END,   \* the last address
  BEGIN_SRAM1,       \* program below it is executed from the PROM in any case
  MEM_BUFFER_SIZE,   \* bytes of a patch
  Program,           \* the contents of the PROM
  MaxPatches,        \* bound: patches in a behaviour
  MaxUpsets          \* bound: upsets in a behaviour

Addresses == 0 .. CODE_MEMORY_END
SRAM1 == BEGIN_SRAM1 .. CODE_MEMORY_END
Bytes == SUBSET Bits
Images == [SRAM1 -> Bytes]

Xor(x, y) == (x \ y) \cup (y \ x)

\* The XOR of the bytes of `code` in the addresses S.
Sum(code, S) == {b \in Bits : Cardinality({a \in S : b \in code[a]}) % 2 = 1}

INITIAL_CHECKSUM_VALUE == {}

ASSUME ConstantsAssumption ==
  /\ IsFiniteSet(Bits)
  /\ CHECK_COUNT \in Nat /\ CHECK_SIZE \in Nat \ {0} /\ CODE_MEMORY_END \in Nat
  /\ CHECK_COUNT * CHECK_SIZE <= CODE_MEMORY_END
  /\ BEGIN_SRAM1 \in Addresses
  /\ MEM_BUFFER_SIZE \in Nat
  /\ MaxPatches \in Nat /\ MaxUpsets \in Nat

\* "One code byte is dedicated to a constant that ensures that the checksum of
\* the PROM is zero" (dpu_ctrl.h).
ASSUME ProgramAssumption ==
  /\ Program \in [Addresses -> Bytes]
  /\ Sum(Program, Addresses) = INITIAL_CHECKSUM_VALUE

VARIABLES
  sram,                 \* the contents of SRAM1
  memory_mode,          \* where the program is executed from
  failed_code_address,  \* whether the last test of SRAM1 has found an error
  reference_checksum,
  code_checksum,
  code_not_patched,
  checksum_count,       \* the piece of the next or current round
  health,               \* [at, i]: where the program is, the byte to be added next
  s_w_reset,            \* class of the last reset
  garbage,              \* parts of the data memory that hold no data of the program
  upsets,               \* history: bits of SRAM1 that are not as they were written
  repaired,             \* history: XOR of the upset bytes that patches have overwritten
  upset_in_cycle,       \* history: an upset since the checksum cycle has begun
  patched_beside,       \* history: a patch of SRAM1 since the copy while the program
                        \* was executed from the PROM
  interrupted,          \* history: a reset has ended a boot after power-up
  counts                \* bounds: patches and upsets so far

memory == <<sram, memory_mode, failed_code_address>>
checksum == <<reference_checksum, code_checksum, code_not_patched, checksum_count>>
history == <<upsets, repaired, upset_in_cycle, patched_beside, interrupted>>
vars == <<memory, checksum, health, s_w_reset, garbage, history, counts>>

NotWarm == {"power_up_reset_e", "watchdog_reset_e", "soft_reset_e", "checksum_reset_e"}
HardwareClasses == {"power_up_reset_e", "watchdog_reset_e"}
ResetClasses == NotWarm \cup {"warm_reset_e"}

\* What a boot initialises, or leaves: the error registers, the event queue with
\* the science data, the classification settings, the rest of the telemetry.
Data == {"errors", "events", "settings", "telemetry"}

Running == {"interval", "add", "compare", "mismatch"}
Places == Running \cup {"Init_DPU", "Boot"}
At(place) == health.at = place
IsRunning == health.at \in Running
Goto(place) == health' = [health EXCEPT !.at = place]

----------------------------------------------------------------------------
(* Reset and boot *)

\* Reboot, the watchdog and the power-up circuit lead to the start-up code, which calls
\* Init_DPU with the class of the reset.
Reset(class) ==
  /\ s_w_reset' = class
  /\ Goto("Init_DPU")
  /\ interrupted' = IF class = "power_up_reset_e" THEN FALSE
                    ELSE interrupted \/ (~IsRunning /\ s_w_reset = "power_up_reset_e")

PROM_Image == [a \in SRAM1 |-> Program[a]]

ForgetHistory ==
  /\ upsets' = [a \in SRAM1 |-> {}]
  /\ repaired' = {}
  /\ patched_beside' = FALSE

\* Check_RAM loses the contents of SRAM1.  CopyProgramCode restores them if the
\* test has found no error.
TestAndCopy(failed, contents) ==
  /\ failed_code_address' = failed
  /\ sram' = IF failed THEN contents ELSE PROM_Image
  /\ ForgetHistory

KeepCode == UNCHANGED <<failed_code_address, sram, upsets, repaired, patched_beside>>

InitCode_RAM ==
  IF s_w_reset = "warm_reset_e" THEN KeepCode
  ELSE \E failed \in BOOLEAN, contents \in {sram, [a \in SRAM1 |-> {}]} :
         TestAndCopy(failed, contents)

\* The test of the data memory loses its contents too.
InitData_RAM ==
  garbage' = IF s_w_reset = "power_up_reset_e" THEN Data ELSE garbage

\* The start-up code then initialises checksum_count.
Init_DPU ==
  /\ At("Init_DPU")
  /\ InitCode_RAM
  /\ InitData_RAM
  /\ memory_mode' = IF failed_code_address' THEN "PROM_e" ELSE "SRAM_e"
  /\ code_not_patched' = TRUE
  /\ checksum_count' = CHECK_COUNT
  /\ upset_in_cycle' = FALSE
  /\ Goto("Boot")
  /\ UNCHANGED <<reference_checksum, code_checksum, s_w_reset, interrupted, counts>>

\* What Boot initialises after a reset of each class.
InitialisedWith(settings, class) ==
  CASE class = "power_up_reset_e" -> {"errors", "events", "telemetry"} \cup settings
    [] class \in {"soft_reset_e", "warm_reset_e"} -> {"errors", "events", "settings"}
    [] OTHER -> {}
MutantInitialised(class) == InitialisedWith({}, class)
Initialised(class) == InitialisedWith({"settings"}, class)

MutantReferenceAfter(class) == INITIAL_CHECKSUM_VALUE
ReferenceAfter(class) ==
  IF class = "warm_reset_e" THEN reference_checksum ELSE INITIAL_CHECKSUM_VALUE

Boot ==
  /\ At("Boot")
  /\ reference_checksum' = ReferenceAfter(s_w_reset)
  /\ garbage' = garbage \ Initialised(s_w_reset)
  /\ Goto("interval")
  /\ UNCHANGED <<memory, code_checksum, code_not_patched, checksum_count, s_w_reset,
                 history, counts>>

\* The watchdog barks and the power fails at any time, also during a boot.
HardwareReset(class) ==
  /\ Reset(class)
  /\ garbage' = IF class = "power_up_reset_e" THEN Data ELSE garbage
  /\ UNCHANGED <<memory, checksum, counts, upsets, repaired, upset_in_cycle,
                 patched_beside>>

----------------------------------------------------------------------------
(* Upsets *)

Upset(a, b) ==
  /\ IsRunning
  /\ counts.upsets < MaxUpsets
  /\ counts' = [counts EXCEPT !.upsets = @ + 1]
  /\ sram' = [sram EXCEPT ![a] = Xor(@, {b})]
  /\ upsets' = [upsets EXCEPT ![a] = Xor(@, {b})]
  /\ upset_in_cycle' = TRUE
  /\ UNCHANGED <<memory_mode, failed_code_address, checksum, health, s_w_reset, garbage,
                 repaired, patched_beside, interrupted>>

----------------------------------------------------------------------------
(* TC execution task *)

\* The bytes of the buffer go to SRAM1, wherever the program is executed from.
Written(address) == address .. address + MEM_BUFFER_SIZE - 1
PatchBytes(address, bytes) ==
  sram' = [a \in SRAM1 |-> IF a \in Written(address) THEN bytes[a - address] ELSE sram[a]]

\* The old bytes are taken out of the reference, the new ones into it.
PatchedReference(address) ==
  reference_checksum' = Xor(reference_checksum,
                            Xor(Sum(sram, Written(address)), Sum(sram', Written(address))))

MutantMarkPatched == UNCHANGED code_not_patched
MarkPatched == code_not_patched' = FALSE

\* "May or may not return here": the command of the patch continues or calls the
\* patch, of which nothing is known but that it returns, or reboots.
Execute(command) ==
  \/ command \in {"continue", "call"} /\ UNCHANGED <<health, s_w_reset, interrupted>>
  \/ command = "soft_reset" /\ Reset("soft_reset_e")
  \/ command = "warm_reset" /\ Reset("warm_reset_e")

MemoryPatch(address, bytes, command) ==
  /\ IsRunning
  /\ address + MEM_BUFFER_SIZE - 1 <= CODE_MEMORY_END
  /\ counts.patches < MaxPatches
  /\ counts' = [counts EXCEPT !.patches = @ + 1]
  /\ MarkPatched
  /\ PatchBytes(address, bytes)
  /\ PatchedReference(address)
  /\ upsets' = [a \in SRAM1 |-> IF a \in Written(address) THEN {} ELSE upsets[a]]
  /\ repaired' = Xor(repaired, Sum(upsets, Written(address)))
  /\ patched_beside' = (patched_beside \/ memory_mode = "PROM_e")
  /\ Execute(command)
  /\ UNCHANGED <<memory_mode, failed_code_address, code_checksum, checksum_count,
                 garbage, upset_in_cycle>>

Commands == {"continue", "call", "soft_reset", "warm_reset"}
Contents == [0 .. MEM_BUFFER_SIZE - 1 -> Bytes]

SoftReset ==
  /\ IsRunning
  /\ Reset("soft_reset_e")
  /\ UNCHANGED <<memory, checksum, garbage, counts, upsets, repaired, upset_in_cycle,
                 patched_beside>>

----------------------------------------------------------------------------
(* Health task: CalculateChecksum *)

check_start == checksum_count * CHECK_SIZE
check_end == IF checksum_count = CHECK_COUNT THEN CODE_MEMORY_END
             ELSE check_start + CHECK_SIZE - 1

Fetch(a) == IF memory_mode = "SRAM_e" /\ a \in SRAM1 THEN sram[a] ELSE Program[a]

BeginCycle ==
  /\ code_checksum' = {}
  /\ code_not_patched' = TRUE
  /\ upset_in_cycle' = FALSE

MutantBeginPiece(first) ==
  /\ code_checksum' = IF first THEN {} ELSE code_checksum
  /\ upset_in_cycle' = (upset_in_cycle /\ ~first)
  /\ UNCHANGED code_not_patched
BeginPiece(first) == IF first THEN BeginCycle
  ELSE UNCHANGED <<code_checksum, code_not_patched, upset_in_cycle>>

StartPiece ==
  /\ At("interval")
  /\ BeginPiece(checksum_count = CHECK_COUNT)
  /\ health' = [at |-> "add", i |-> check_start]
  /\ UNCHANGED <<memory, reference_checksum, checksum_count, s_w_reset, garbage, upsets,
                 repaired, patched_beside, interrupted, counts>>

AddByte ==
  /\ At("add")
  /\ code_checksum' = Xor(code_checksum, Fetch(health.i))
  /\ health' = [at |-> IF health.i = check_end THEN "compare" ELSE "add",
                i |-> health.i + 1]
  /\ UNCHANGED <<memory, reference_checksum, code_not_patched, checksum_count, s_w_reset,
                 garbage, history, counts>>

UpdatePeriodCounter ==
  checksum_count' = IF checksum_count > 0 THEN checksum_count - 1 ELSE CHECK_COUNT

EndPiece ==
  /\ UpdatePeriodCounter
  /\ Goto("interval")

Mismatch == checksum_count = 0 /\ code_checksum # reference_checksum

Compare ==
  /\ At("compare")
  /\ IF Mismatch THEN Goto("mismatch") /\ UNCHANGED checksum_count
     ELSE EndPiece
  /\ UNCHANGED <<memory, reference_checksum, code_checksum, code_not_patched, s_w_reset,
                 garbage, history, counts>>

\* The code may have been patched since the comparison.
RebootUnlessPatched ==
  /\ At("mismatch")
  /\ \/ /\ code_not_patched
        /\ Reset("checksum_reset_e")
        /\ UNCHANGED checksum_count
     \/ /\ ~code_not_patched
        /\ EndPiece
        /\ UNCHANGED <<s_w_reset, interrupted>>
  /\ UNCHANGED <<memory, reference_checksum, code_checksum, code_not_patched, garbage,
                 counts, upsets, repaired, upset_in_cycle, patched_beside>>

CalculateChecksum == StartPiece \/ AddByte \/ Compare \/ RebootUnlessPatched

----------------------------------------------------------------------------

\* Power-up: nothing is known of the memories.
Init ==
  /\ sram = [a \in SRAM1 |-> {}]
  /\ memory_mode = "PROM_e"
  /\ failed_code_address = FALSE
  /\ reference_checksum = {} /\ code_checksum = {}
  /\ code_not_patched = TRUE
  /\ checksum_count = CHECK_COUNT
  /\ health = [at |-> "Init_DPU", i |-> 0]
  /\ s_w_reset = "power_up_reset_e"
  /\ garbage = Data
  /\ upsets = [a \in SRAM1 |-> {}]
  /\ repaired = {}
  /\ upset_in_cycle = FALSE /\ patched_beside = FALSE /\ interrupted = FALSE
  /\ counts = [patches |-> 0, upsets |-> 0]

Next ==
  \/ Init_DPU
  \/ Boot
  \/ \E class \in HardwareClasses : HardwareReset(class)
  \/ \E a \in SRAM1, b \in Bits : Upset(a, b)
  \/ \E address \in SRAM1, bytes \in Contents, command \in Commands :
       MemoryPatch(address, bytes, command)
  \/ SoftReset
  \/ CalculateChecksum

\* The start-up goes on by itself.  The health task gets the processor in every round.
Fairness ==
  /\ WF_vars(Init_DPU)
  /\ WF_vars(Boot)
  /\ WF_vars(CalculateChecksum)

Spec == Init /\ [][Next]_vars /\ Fairness

----------------------------------------------------------------------------
(* Properties *)

\* Every variable has its type; in the addition of a piece the next byte lies in it.
TypeOK ==
  /\ sram \in Images
  /\ memory_mode \in {"PROM_e", "SRAM_e"}
  /\ failed_code_address \in BOOLEAN
  /\ reference_checksum \in Bytes /\ code_checksum \in Bytes
  /\ code_not_patched \in BOOLEAN
  /\ checksum_count \in 0 .. CHECK_COUNT
  /\ health \in [at : Places, i : Nat]
  /\ At("add") => health.i \in check_start .. check_end
  /\ s_w_reset \in ResetClasses
  /\ garbage \subseteq Data
  /\ upsets \in Images
  /\ repaired \in Bytes
  /\ upset_in_cycle \in BOOLEAN /\ patched_beside \in BOOLEAN /\ interrupted \in BOOLEAN
  /\ counts \in [patches : 0 .. MaxPatches, upsets : 0 .. MaxUpsets]

\* The program as it was copied and patched, without upsets.
Intended == [a \in Addresses |->
  IF memory_mode = "SRAM_e" /\ a \in SRAM1 THEN Xor(sram[a], upsets[a]) ELSE Program[a]]

\* While the program runs, the reference is the checksum of the program as it should be,
\* after any sequence of patches and resets of any class; only upset bytes that were
\* overwritten by patches remain in it, and patches of SRAM1 beside a program in PROM.
ReferenceFollowsCode ==
  IsRunning /\ ~patched_beside =>
    reference_checksum = Xor(Sum(Intended, Addresses), repaired)

\* "An anomaly has been detected in the code memory area" (health.c): a checksum reset
\* is never caused by a patch, before, in or after the addition of the patched bytes, but
\* only by an upset in this cycle, upset bytes that do not cancel out, or the two cases
\* in which the reference is off.
Anomaly == \/ upset_in_cycle
           \/ Xor(Sum(upsets, SRAM1), repaired) # {}
           \/ patched_beside
NoFalseAlarm == At("mismatch") /\ code_not_patched => Anomaly

\* A program whose checksum is wrong does not run for ever: it is reset, or a later patch
\* or upset cancels the error out.
Wrong == /\ IsRunning
         /\ memory_mode = "SRAM_e"
         /\ Xor(Sum(upsets, SRAM1), repaired) # {}
CorruptionFound == Wrong ~> ~Wrong

\* "DAS variables initialised" (Boot): the program runs on data that it has put there,
\* whatever resets came, unless the watchdog has ended a boot after power-up, when the
\* next boot is one that keeps what is in the memory.
DataInitialised == IsRunning /\ ~interrupted => garbage = {}

=============================================================================
