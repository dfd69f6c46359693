------------------------------ MODULE TcHandler ------------------------------
(***************************************************************************)
(* Telecommand handling: TC_state, the mailbox of the TC execution task    *)
(* and the telemetry interrupt, shared by                                  *)
(*                                                                         *)
(*   TC interrupt service   one telecommand, or one word of a memory block *)
(*   TM interrupt service   the next telemetry word, or TM_READY           *)
(*   TC execution task      waits for a mail and handles it                *)
(*                                                                         *)
(* An interrupt service is one step.  The task can be interrupted between  *)
(* the return of WaitMail, its look at TC_state and the handler it then    *)
(* calls.  A telecommand word stands for all codes of its address that the *)
(* look-up table accepts.  What is reported about a telecommand (the error *)
(* bits, TC_word, its time tag and the response) is left out.              *)
(***************************************************************************)
EXTENDS Integers, Sequences

CONSTANTS
  Telecommands,    \* the addresses that the TC interrupt can receive
  MailboxSize,     \* mails that the kernel keeps for the task
  BlockWords,      \* words of a memory block, MEM_BUFFER_SIZE / 2 in the code
  TelemetryWords   \* words that the TM interrupt has to send at most

TimeBytes == {"SET_TIME_BYTE_3", "SET_TIME_BYTE_2", "SET_TIME_BYTE_1", "SET_TIME_BYTE_0"}
WriteMSB == {"WRITE_CODE_MEMORY_MSB", "WRITE_DATA_MEMORY_MSB"}
WriteLSB == {"WRITE_CODE_MEMORY_LSB", "WRITE_DATA_MEMORY_LSB"}
Valid == TimeBytes \cup WriteMSB \cup WriteLSB \cup
  {"SEND_STATUS_REGISTER", "SEND_SCIENCE_DATA_FILE", "READ_DATA_MEMORY_MSB",
   "READ_DATA_MEMORY_LSB", "SOFT_RESET", "OTHER"}

\* Words that the look-up table rejects.  As words of a memory block they are
\* as good as any other; 0xFFFF then looks like TM_READY.
Invalid == {"INVALID", "0xFFFF"}

ASSUME ConstantsAssumption ==
  /\ Telecommands \subseteq Valid \cup Invalid
  /\ MailboxSize \in Nat \ {0}
  /\ BlockWords \in Nat \ {0}
  /\ TelemetryWords \in Nat \ {0}

VARIABLES
  TC_state,
  mailbox,              \* TCTM_MAILBOX
  task,                 \* where the task is
  received_command,     \* the mail it handles, or "none"
  previous_TC,          \* address of the previous one, if it set a time byte
  TC_timeout,           \* whether the next WaitMail has a timeout
  memory_type,          \* destination of a memory write
  memory_buffer_index,  \* words of the memory block received so far
  TM_enabled,           \* the TM interrupt mask
  words_left,           \* words between telemetry_pointer and telemetry_end_pointer
  met                   \* overlaps since the start (history, see Overlaps)

vars == <<TC_state, mailbox, task, received_command, previous_TC, TC_timeout,
          memory_type, memory_buffer_index, TM_enabled, words_left, met>>

SendingOnly == {"SC_TM_e", "memory_dump_e"}
Telemetry == SendingOnly \cup {"register_TM_e"}
Writing == {"write_memory_e", "memory_patch_e"}
States == Telemetry \cup Writing \cup {"TC_handling_e", "read_memory_e"}

\* The task handles a mail according to the TC_state it has seen; its places
\* then have the name of that state.
Ending == {"end_telemetry", "telemetry_ended"}
Handling == States \cup Ending
Places == Handling \cup {"waiting", "timed_out", "received"}

\* How an interrupt can come when the task has not done with the previous one:
\*   before_task      a TC, the previous mail is still to be handled
\*   during_handling  a TC, the task has looked at TC_state, or WaitMail has
\*                    returned a timeout, and the task has not yet acted on it
Overlaps == {"before_task", "during_handling"}

MutantSend(word) == mailbox' = Append(mailbox, word)
Send(word) ==
  mailbox' = IF Len(mailbox) < MailboxSize THEN Append(mailbox, word) ELSE mailbox

----------------------------------------------------------------------------
(* TC interrupt service *)

TaskUnchanged == UNCHANGED <<task, received_command, previous_TC, TC_timeout,
                             memory_type, memory_buffer_index>>

NotYetDone ==
  IF task \in Handling \cup {"timed_out"} THEN {"during_handling"}
  ELSE IF task = "received" \/ mailbox # <<>> THEN {"before_task"}
  ELSE {}

\* All words are ignored while science data or a memory block is being sent.
Receives == /\ TC_state \notin SendingOnly
            /\ met' = met \cup NotYetDone
            /\ TaskUnchanged

\* Word of a memory block.
BlockWordTC(word) ==
  /\ Receives
  /\ TC_state = "memory_patch_e"
  /\ Send(word)
  /\ UNCHANGED <<TC_state, TM_enabled, words_left>>

\* Any other word, valid or not, ends the sending of the status registers.
ReceivesTC == Receives /\ TC_state # "memory_patch_e"
MutantNextState == TC_state
NextState == IF TC_state = "register_TM_e" THEN "TC_handling_e" ELSE TC_state
MutantStillEnabled == TM_enabled
StillEnabled == TM_enabled /\ TC_state # "register_TM_e"
NothingToSend ==
  /\ TM_enabled' = StillEnabled
  /\ UNCHANGED words_left
StartsSending(words) ==
  /\ TM_enabled' = TRUE
  /\ words_left' = words

InvalidTC(word) ==
  /\ word \in Invalid
  /\ ReceivesTC
  /\ TC_state' = NextState
  /\ NothingToSend
  /\ UNCHANGED mailbox

\* The TC code says with which register to start.
SendStatusRegister(word) ==
  /\ word = "SEND_STATUS_REGISTER"
  /\ ReceivesTC
  /\ Send(word)
  /\ TC_state' = "register_TM_e"
  /\ \E words \in 0 .. TelemetryWords : StartsSending(words)

\* Refused in mode DPU_SELF_TEST.
SendScienceDataFile(word) ==
  /\ word = "SEND_SCIENCE_DATA_FILE"
  /\ ReceivesTC
  /\ Send(word)
  /\ \/ TC_state' = NextState /\ NothingToSend
     \/ TC_state' = "SC_TM_e" /\ StartsSending(TelemetryWords)

\* Refused unless READ_DATA_MEMORY_MSB came before, and outside the memory.
ReadDataMemoryLSB(word) ==
  /\ word = "READ_DATA_MEMORY_LSB"
  /\ ReceivesTC
  /\ Send(word)
  /\ \/ TC_state' = "TC_handling_e" /\ NothingToSend
     \/ /\ TC_state = "read_memory_e"
        /\ TC_state' = "memory_dump_e"
        /\ StartsSending(TelemetryWords)

OtherTC(word) ==
  /\ word \in Valid \ {"SEND_STATUS_REGISTER", "SEND_SCIENCE_DATA_FILE",
                       "READ_DATA_MEMORY_LSB"}
  /\ ReceivesTC
  /\ Send(word)
  /\ TC_state' = NextState
  /\ NothingToSend

TC_InterruptService == \E word \in Telecommands :
  \/ BlockWordTC(word)
  \/ InvalidTC(word)
  \/ SendStatusRegister(word)
  \/ SendScienceDataFile(word)
  \/ ReadDataMemoryLSB(word)
  \/ OtherTC(word)

----------------------------------------------------------------------------
(* TM interrupt service *)

SendsWord ==
  /\ words_left > 0
  /\ words_left' = words_left - 1
  /\ UNCHANGED <<mailbox, met>>

\* The status registers are sent again from the first one.
SendsFirstRegister ==
  /\ words_left = 0
  /\ TC_state = "register_TM_e"
  /\ words_left' = TelemetryWords
  /\ UNCHANGED <<mailbox, met>>

SendsReadyBefore(words) ==
  /\ words_left = words
  /\ TC_state # "register_TM_e"
  /\ Send("TM_READY")
  /\ UNCHANGED <<words_left, met>>

\* In each further interrupt, until the task disables it.
MutantSendsReady == SendsReadyBefore(1)
SendsReady == SendsReadyBefore(0)

TM_InterruptService ==
  /\ TM_enabled
  /\ SendsWord \/ SendsFirstRegister \/ SendsReady
  /\ TaskUnchanged
  /\ UNCHANGED <<TC_state, TM_enabled>>

----------------------------------------------------------------------------
(* TC execution task: waiting *)

WaitMailReceives ==
  /\ task = "waiting"
  /\ mailbox # <<>>
  /\ received_command' = Head(mailbox)
  /\ mailbox' = Tail(mailbox)
  /\ TC_timeout' = FALSE
  /\ task' = "received"
  /\ UNCHANGED <<TC_state, previous_TC, memory_type, memory_buffer_index,
                 TM_enabled, words_left, met>>

WaitMailTimesOut ==
  /\ task = "waiting"
  /\ mailbox = <<>>
  /\ TC_timeout
  /\ TC_timeout' = FALSE
  /\ task' = "timed_out"
  /\ UNCHANGED <<TC_state, mailbox, received_command, previous_TC, memory_type,
                 memory_buffer_index, TM_enabled, words_left, met>>

\* The task forgets the previous telecommand and ends a memory write.
HandleTimeout ==
  /\ task = "timed_out"
  /\ previous_TC' = "none"
  /\ TC_state' = "TC_handling_e"
  /\ task' = "waiting"
  /\ UNCHANGED <<mailbox, received_command, TC_timeout, memory_type,
                 memory_buffer_index, TM_enabled, words_left, met>>

MutantEndsTelemetry(word) == TC_state = "SC_TM_e" /\ word = "TM_READY"
EndsTelemetry(word) == TC_state \in SendingOnly /\ word \in {"TM_READY", "0xFFFF"}

LookAtState ==
  /\ task = "received"
  /\ task' = IF EndsTelemetry(received_command) THEN "end_telemetry" ELSE TC_state
  /\ UNCHANGED <<TC_state, mailbox, received_command, previous_TC, TC_timeout,
                 memory_type, memory_buffer_index, TM_enabled, words_left, met>>

----------------------------------------------------------------------------
(* TC execution task: handling *)

\* The received command becomes the previous one, whether it has been executed,
\* refused or ignored.
Done ==
  /\ previous_TC' = IF received_command \in TimeBytes THEN received_command ELSE "none"
  /\ received_command' = "none"
  /\ task' = "waiting"

Handles(state) == task = state /\ Done
KeepTelemetry == UNCHANGED <<TM_enabled, words_left, met, mailbox>>
KeepMemory == UNCHANGED <<memory_type, memory_buffer_index>>

LeavesTM(enabled) ==
  /\ task = "end_telemetry"
  /\ TM_enabled' = enabled
  /\ task' = "telemetry_ended"
  /\ UNCHANGED <<TC_state, mailbox, received_command, previous_TC, TC_timeout,
                 memory_type, memory_buffer_index, words_left, met>>

DisableTM == LeavesTM(FALSE)

EndTelemetryIn(state) ==
  /\ Handles("telemetry_ended")
  /\ TC_state' = state
  /\ UNCHANGED TC_timeout
  /\ KeepTelemetry
  /\ KeepMemory

\* After ClearEvents for science data (module ScienceData).
MutantEndTelemetry == EndTelemetryIn(TC_state)
EndTelemetry == EndTelemetryIn("TC_handling_e")

\* The mails of telecommands that the TC interrupt service has executed itself,
\* and of those that came before such a one.
Ignore ==
  /\ \E state \in Telemetry : Handles(state)
  /\ UNCHANGED <<TC_state, TC_timeout>>
  /\ KeepTelemetry
  /\ KeepMemory

ReadMemory ==
  /\ Handles("read_memory_e")
  /\ TC_state' = IF received_command = "READ_DATA_MEMORY_LSB" THEN TC_state
                                                              ELSE "TC_handling_e"
  /\ UNCHANGED TC_timeout
  /\ KeepTelemetry
  /\ KeepMemory

LSBof(memory) ==
  IF memory = "code_e" THEN "WRITE_CODE_MEMORY_LSB" ELSE "WRITE_DATA_MEMORY_LSB"

WriteMemory ==
  /\ Handles("write_memory_e")
  /\ \/ /\ received_command = LSBof(memory_type)
        /\ TC_state' = "memory_patch_e"
        /\ memory_buffer_index' = 0
        /\ TC_timeout' = TRUE
     \/ /\ received_command # LSBof(memory_type)
        /\ TC_state' = "TC_handling_e"
        /\ UNCHANGED <<memory_buffer_index, TC_timeout>>
  /\ UNCHANGED memory_type
  /\ KeepTelemetry

FillBufferWithin(timeout) ==
  /\ Handles("memory_patch_e")
  /\ memory_buffer_index < BlockWords
  /\ memory_buffer_index' = memory_buffer_index + 1
  /\ TC_timeout' = timeout
  /\ UNCHANGED <<TC_state, memory_type>>
  /\ KeepTelemetry

MutantFillBuffer == FillBufferWithin(FALSE)
FillBuffer == FillBufferWithin(TRUE)

\* The last word has the checksum of the block.  The memory is written if it is
\* right and the address in range; else an error is reported.
PatchMemory ==
  /\ Handles("memory_patch_e")
  /\ memory_buffer_index = BlockWords
  /\ TC_state' = "TC_handling_e"
  /\ UNCHANGED TC_timeout
  /\ KeepTelemetry
  /\ KeepMemory

\* The reset kinds restart the program: InitTelecommandTask and the initial
\* values of the variables.
Restart ==
  /\ TC_state' = "TC_handling_e"
  /\ mailbox' = <<>>
  /\ task' = "waiting"
  /\ received_command' = "none"
  /\ previous_TC' = "none"
  /\ TC_timeout' = FALSE
  /\ memory_buffer_index' = 0
  /\ TM_enabled' = FALSE
  /\ met' = {}
  /\ UNCHANGED <<memory_type, words_left>>

\* The execution command of a code patch can restart the program, ...
PatchCodeRestarts ==
  /\ task = "memory_patch_e"
  /\ memory_buffer_index = BlockWords
  /\ memory_type = "code_e"
  /\ Restart

\* ... as can the telecommand.
SoftReset ==
  /\ task = "TC_handling_e"
  /\ received_command = "SOFT_RESET"
  /\ Restart

\* ExecuteCommand, by the kinds of telecommand.
Executes(words) ==
  /\ Handles("TC_handling_e")
  /\ received_command \in words
  /\ KeepTelemetry

ExecuteReadMSB ==
  /\ Executes({"READ_DATA_MEMORY_MSB"})
  /\ TC_state' = "read_memory_e"
  /\ UNCHANGED TC_timeout
  /\ KeepMemory

\* Only in mode STAND_BY.
ExecuteWriteMSB ==
  /\ Executes(WriteMSB)
  /\ TC_state' = "write_memory_e"
  /\ memory_type' = IF received_command = "WRITE_CODE_MEMORY_MSB" THEN "code_e" ELSE "data_e"
  /\ TC_timeout' = TRUE
  /\ UNCHANGED memory_buffer_index

\* The byte above has to be set by the previous telecommand, the one below by
\* the next.
ByteAbove(byte) == CASE byte = "SET_TIME_BYTE_2" -> "SET_TIME_BYTE_3"
                     [] byte = "SET_TIME_BYTE_1" -> "SET_TIME_BYTE_2"
                     [] byte = "SET_TIME_BYTE_0" -> "SET_TIME_BYTE_1"

SetTimeByte ==
  /\ Executes(TimeBytes)
  /\ received_command # "SET_TIME_BYTE_3" => previous_TC = ByteAbove(received_command)
  /\ TC_timeout' = (received_command # "SET_TIME_BYTE_0")
  /\ UNCHANGED TC_state
  /\ KeepMemory

\* All others, and what is refused: in another mode than STAND_BY, or a time
\* byte out of order.
ExecuteOther ==
  /\ Executes((Valid \cup Invalid \cup {"TM_READY"})
                \ {"READ_DATA_MEMORY_MSB", "SOFT_RESET", "SET_TIME_BYTE_3"})
  /\ received_command \in TimeBytes => previous_TC # ByteAbove(received_command)
  /\ UNCHANGED <<TC_state, TC_timeout>>
  /\ KeepMemory

HandleMail ==
  \/ LookAtState
  \/ DisableTM \/ EndTelemetry \/ Ignore
  \/ ReadMemory
  \/ WriteMemory
  \/ FillBuffer \/ PatchMemory \/ PatchCodeRestarts
  \/ SoftReset \/ ExecuteReadMSB \/ ExecuteWriteMSB \/ SetTimeByte \/ ExecuteOther

HandleTelecommand == WaitMailReceives \/ WaitMailTimesOut \/ HandleTimeout \/ HandleMail

----------------------------------------------------------------------------

InitTelecommandTask ==
  /\ TC_state = "TC_handling_e"
  /\ mailbox = <<>>
  /\ task = "waiting"
  /\ received_command = "none"
  /\ previous_TC = "none"
  /\ TC_timeout = FALSE
  /\ memory_buffer_index = 0
  /\ TM_enabled = FALSE
  /\ met = {}

Init ==
  /\ InitTelecommandTask
  /\ memory_type = "code_e"
  /\ words_left = 0

Next == TC_InterruptService \/ TM_InterruptService \/ HandleTelecommand

Spec == Init /\ [][Next]_vars

\* An interrupt service does not wait, neither does the task once it has a mail
\* or a timeout, and the spacecraft takes telemetry as long as there is some.
FairSpec == Spec /\ WF_vars(TM_InterruptService) /\ WF_vars(HandleTelecommand)

----------------------------------------------------------------------------
(* Properties *)

\* The variables keep their types; the task has a command exactly while it handles
\* one (received_command of HandleTelecommand), and a block fits its buffer.
TypeOK ==
  /\ TC_state \in States
  /\ mailbox \in Seq(Valid \cup Invalid \cup {"TM_READY"}) /\ Len(mailbox) <= MailboxSize
  /\ task \in Places
  /\ received_command \in Valid \cup Invalid \cup {"TM_READY", "none"}
  /\ received_command = "none" <=> task \in {"waiting", "timed_out"}
  /\ previous_TC \in TimeBytes \cup {"none"}
  /\ TC_timeout \in BOOLEAN
  /\ memory_type \in {"code_e", "data_e"}
  /\ memory_buffer_index \in 0 .. BlockWords
  /\ TM_enabled \in BOOLEAN
  /\ words_left \in 0 .. TelemetryWords
  /\ met \subseteq Overlaps

\* TC_InterruptService ignores every telecommand during science telemetry and a
\* memory dump.  Only TM_READY leads out of these states, so that the TM interrupt
\* must be enabled, or else the task be about to leave them: a program that is
\* deaf and mute would have to wait for a reset that no telecommand can ask for.
DeafIsSending ==
  TC_state \in SendingOnly => TM_enabled \/ task = "telemetry_ended"

\* The TM interrupt is enabled only in the states that SEND_STATUS_REGISTER,
\* SEND_SCIENCE_DATA_FILE and READ_DATA_MEMORY_LSB lead to, unless such a
\* telecommand comes while the task is in the middle of handling the previous
\* one or a timeout: the task then overwrites the new TC_state.
SendingHasState ==
  "during_handling" \notin met =>
    (TM_enabled => TC_state \in Telemetry)

\* The task ends telemetry only when all words have been sent, unless a telecommand
\* comes before the task has handled the previous mail: a TM_READY, or a word 0xFFFF of
\* a memory block, that is left then ends the telemetry of the later telecommand.
EndsWhenSent ==
  met = {} => (task = "end_telemetry" => words_left = 0)

\* A telecommand is ignored only if TC_InterruptService has executed it, unless
\* another one comes before the task handles it (HandleTelecommand has no case
\* for the states in which telemetry is sent).
IgnoredIsDone ==
  met = {} =>
    (task \in Telemetry => received_command \in
       {"TM_READY", "SEND_STATUS_REGISTER", "SEND_SCIENCE_DATA_FILE", "READ_DATA_MEMORY_LSB"})

\* Science telemetry and a memory dump end, and telecommands are heard again.
TelemetryEnds == TC_state \in SendingOnly ~> TC_state \notin SendingOnly

\* A memory write ends, whether or not its words come (WRITE_MEMORY_TIMEOUT).
WriteEnds == TC_state \in Writing ~> TC_state \notin Writing
============================================================================
