--------------------------- MODULE TcHandlerProofs ---------------------------
(***************************************************************************)
(* Proofs about TcHandler, for all sizes of the mailbox and of the memory  *)
(* blocks.                                                                 *)
(***************************************************************************)
EXTENDS TcHandler, TLAPS

Words == Valid \cup Invalid \cup {"TM_READY"}

USE DEF Words

\* The names of the constant sets differ, as TypeOK and the guards need them.
LEMMA WordNames ==
  /\ Telecommands \subseteq Words
  /\ TimeBytes \subseteq Words
  /\ "TM_READY" \in Words
  /\ "none" \notin Words
  /\ "TM_READY" \notin Valid \cup Invalid
BY ConstantsAssumption DEF Valid, Invalid, TimeBytes, WriteMSB, WriteLSB

LEMMA PlaceNames ==
  /\ "waiting" \notin Handling /\ "timed_out" \notin Handling /\ "received" \notin Handling
  /\ States \subseteq Handling /\ Handling \subseteq Places
  /\ Telemetry \subseteq States /\ SendingOnly \subseteq Telemetry
  /\ Ending \cap States = {}
BY DEF Handling, Places, States, Telemetry, SendingOnly, Writing, Ending

\* What a mailbox has after Send.
LEMMA SendKeeps ==
  ASSUME mailbox \in Seq(Words), Len(mailbox) <= MailboxSize, NEW word \in Words,
         Send(word)
  PROVE  /\ mailbox' \in Seq(Words)
         /\ Len(mailbox') <= MailboxSize
         /\ mailbox' # <<>>
         /\ \A i \in 1 .. Len(mailbox') :
              mailbox'[i] = word \/ \E j \in 1 .. Len(mailbox) : mailbox'[i] = mailbox[j]
<1>1. CASE Len(mailbox) < MailboxSize
  <2>1. mailbox' = Append(mailbox, word)
    BY <1>1 DEF Send
  <2>. QED  BY <1>1, <2>1, ConstantsAssumption
<1>2. CASE ~(Len(mailbox) < MailboxSize)
  <2>1. mailbox' = mailbox
    BY <1>2 DEF Send
  <2>2. Len(mailbox) # 0
    BY <1>2, ConstantsAssumption
  <2>. QED  BY <2>1, <2>2
<1>. QED  BY <1>1, <1>2

\* What is received and what is left in it by WaitMail.
LEMMA ReceiveKeeps ==
  ASSUME mailbox \in Seq(Words), mailbox # <<>>
  PROVE  /\ Head(mailbox) \in Words /\ Head(mailbox) = mailbox[1]
         /\ 1 \in 1 .. Len(mailbox)
         /\ Tail(mailbox) \in Seq(Words)
         /\ Len(Tail(mailbox)) = Len(mailbox) - 1
         /\ \A i \in 1 .. Len(Tail(mailbox)) :
              \E j \in 1 .. Len(mailbox) : Tail(mailbox)[i] = mailbox[j]
<1>1. Len(mailbox) \in Nat \ {0}
  OBVIOUS
<1>2. \A i \in 1 .. Len(Tail(mailbox)) :
         i + 1 \in 1 .. Len(mailbox) /\ Tail(mailbox)[i] = mailbox[i + 1]
  BY <1>1
<1>. QED  BY <1>1, <1>2

----------------------------------------------------------------------------
(* Type correctness *)

LEMMA EmptyMailbox == <<>> \in Seq(Words) /\ Len(<<>>) = 0
OBVIOUS

LEMMA Bounds ==
  /\ 0 <= MailboxSize /\ 0 \in 0 .. BlockWords /\ 0 \in 0 .. TelemetryWords
  /\ TelemetryWords \in 0 .. TelemetryWords
BY ConstantsAssumption

LEMMA TypeInit == Init => TypeOK
BY EmptyMailbox, Bounds
DEF Init, InitTelecommandTask, TypeOK, States, Places

\* Done, with the place and the command that it leaves.
LEMMA TypeDone ==
  ASSUME TypeOK, Done
  PROVE  /\ task' \in Places /\ task' = "waiting"
         /\ received_command' = "none"
         /\ previous_TC' \in TimeBytes \cup {"none"}
BY DEF TypeOK, Done, Places

LEMMA TypeTC == TypeOK /\ TC_InterruptService => TypeOK'
<1>. SUFFICES ASSUME TypeOK, NEW word \in Telecommands,
                     \/ BlockWordTC(word) \/ InvalidTC(word)
                     \/ SendStatusRegister(word) \/ SendScienceDataFile(word)
                     \/ ReadDataMemoryLSB(word) \/ OtherTC(word)
              PROVE  TypeOK'
  BY DEF TC_InterruptService
<1>1. TaskUnchanged /\ met' \subseteq Overlaps
  <2>1. NotYetDone \subseteq Overlaps
    BY DEF NotYetDone, Overlaps
  <2>. QED
    BY <2>1
    DEF TypeOK, BlockWordTC, InvalidTC, SendStatusRegister, SendScienceDataFile,
        ReadDataMemoryLSB, OtherTC, ReceivesTC, Receives
<1>2. mailbox' \in Seq(Words) /\ Len(mailbox') <= MailboxSize
  <2>1. Send(word) \/ UNCHANGED mailbox
    BY DEF BlockWordTC, InvalidTC, SendStatusRegister, SendScienceDataFile,
        ReadDataMemoryLSB, OtherTC
  <2>2. CASE Send(word)
    BY <2>2, SendKeeps, WordNames DEF TypeOK
  <2>. QED  BY <2>1, <2>2 DEF TypeOK
<1>3. TC_state' \in States /\ TM_enabled' \in BOOLEAN /\ words_left' \in 0 .. TelemetryWords
  <2>1. NextState \in States /\ StillEnabled \in BOOLEAN
    BY DEF TypeOK, NextState, StillEnabled, States
  <2>2. NothingToSend => TM_enabled' \in BOOLEAN /\ words_left' \in 0 .. TelemetryWords
    BY <2>1 DEF TypeOK, NothingToSend
  <2>3. \A words \in 0 .. TelemetryWords :
          StartsSending(words) => TM_enabled' \in BOOLEAN /\ words_left' \in 0 .. TelemetryWords
    BY DEF StartsSending
  <2>4. CASE BlockWordTC(word) \/ InvalidTC(word) \/ OtherTC(word)
    BY <2>1, <2>2, <2>4 DEF TypeOK, BlockWordTC, InvalidTC, OtherTC
  <2>5. CASE SendStatusRegister(word)
    BY <2>3, <2>5 DEF SendStatusRegister, States, Telemetry
  <2>6. CASE SendScienceDataFile(word) \/ ReadDataMemoryLSB(word)
    BY <2>1, <2>2, <2>3, <2>6, Bounds
    DEF SendScienceDataFile, ReadDataMemoryLSB, States, Telemetry, SendingOnly
  <2>. QED  BY <2>4, <2>5, <2>6
<1>. QED  BY <1>1, <1>2, <1>3 DEF TypeOK, TaskUnchanged

LEMMA TypeTM == TypeOK /\ TM_InterruptService => TypeOK'
<1>. SUFFICES ASSUME TypeOK, TM_InterruptService
              PROVE  TypeOK'
  OBVIOUS
<1>1. TaskUnchanged /\ UNCHANGED <<TC_state, TM_enabled>>
  BY DEF TM_InterruptService
<1>2. CASE SendsWord \/ SendsFirstRegister
  BY <1>1, <1>2, ConstantsAssumption
  DEF TypeOK, SendsWord, SendsFirstRegister, TaskUnchanged
<1>3. CASE SendsReady
  <2>1. mailbox' \in Seq(Words) /\ Len(mailbox') <= MailboxSize
    BY <1>3, SendKeeps, WordNames DEF TypeOK, SendsReady, SendsReadyBefore
  <2>2. met' \subseteq Overlaps /\ UNCHANGED words_left
    BY <1>3 DEF TypeOK, SendsReady, SendsReadyBefore, Overlaps
  <2>. QED  BY <1>1, <2>1, <2>2 DEF TypeOK, TaskUnchanged
<1>. QED  BY <1>2, <1>3 DEF TM_InterruptService

LEMMA TypeTask == TypeOK /\ HandleTelecommand => TypeOK'
<1>. SUFFICES ASSUME TypeOK, HandleTelecommand
              PROVE  TypeOK'
  OBVIOUS
<1>1. CASE WaitMailReceives
  <2>1. /\ mailbox' \in Seq(Words) /\ Len(mailbox') <= MailboxSize
        /\ received_command' \in Words
    BY <1>1, ReceiveKeeps, ConstantsAssumption DEF TypeOK, WaitMailReceives
  <2>2. task' = "received" /\ "received" \in Places
    BY <1>1 DEF WaitMailReceives, Places
  <2>. QED  BY <1>1, <2>1, <2>2, WordNames DEF TypeOK, WaitMailReceives
<1>2. CASE WaitMailTimesOut
  BY <1>2 DEF TypeOK, WaitMailTimesOut, Places
<1>3. CASE HandleTimeout
  BY <1>3 DEF TypeOK, HandleTimeout, Places, States
<1>4. CASE LookAtState
  <2>1. task' \in Handling
    BY <1>4 DEF TypeOK, LookAtState, Handling, Ending
  <2>. QED  BY <1>4, <2>1, PlaceNames DEF TypeOK, LookAtState
<1>5. CASE DisableTM
  <2>1. task = "end_telemetry" /\ task' = "telemetry_ended" /\ task' \in Handling
    BY <1>5 DEF DisableTM, LeavesTM, Handling, Ending
  <2>. QED  BY <1>5, <2>1, PlaceNames DEF TypeOK, DisableTM, LeavesTM
<1>6. CASE EndTelemetry \/ Ignore \/ ReadMemory \/ PatchMemory
  <2>1. Done /\ KeepTelemetry /\ KeepMemory /\ UNCHANGED TC_timeout
    BY <1>6 DEF EndTelemetry, EndTelemetryIn, Ignore, ReadMemory, PatchMemory, Handles
  <2>2. TC_state' \in States
    BY <1>6
    DEF TypeOK, EndTelemetry, EndTelemetryIn, Ignore, ReadMemory, PatchMemory, States
  <2>. QED  BY <2>1, <2>2, TypeDone DEF TypeOK, KeepTelemetry, KeepMemory
<1>7. CASE WriteMemory
  <2>1. Done /\ KeepTelemetry /\ UNCHANGED memory_type
    BY <1>7 DEF WriteMemory, Handles
  <2>2. /\ TC_state' \in States /\ TC_timeout' \in BOOLEAN
        /\ memory_buffer_index' \in 0 .. BlockWords
    BY <1>7, Bounds DEF TypeOK, WriteMemory, States, Writing
  <2>. QED  BY <2>1, <2>2, TypeDone DEF TypeOK, KeepTelemetry
<1>8. CASE FillBuffer
  <2>1. Done /\ KeepTelemetry /\ UNCHANGED <<TC_state, memory_type>>
    BY <1>8 DEF FillBuffer, FillBufferWithin, Handles
  <2>2. TC_timeout' \in BOOLEAN /\ memory_buffer_index' \in 0 .. BlockWords
    BY <1>8, ConstantsAssumption DEF TypeOK, FillBuffer, FillBufferWithin
  <2>. QED  BY <2>1, <2>2, TypeDone DEF TypeOK, KeepTelemetry
<1>9. CASE PatchCodeRestarts \/ SoftReset
  <2>1. Restart
    BY <1>9 DEF PatchCodeRestarts, SoftReset
  <2>. QED  BY <2>1, EmptyMailbox, Bounds DEF TypeOK, Restart, States, Places
<1>10. CASE ExecuteReadMSB \/ ExecuteWriteMSB \/ SetTimeByte \/ ExecuteOther
  <2>1. Done /\ KeepTelemetry /\ UNCHANGED memory_buffer_index
    BY <1>10
    DEF ExecuteReadMSB, ExecuteWriteMSB, SetTimeByte, ExecuteOther, Executes, Handles, KeepMemory
  <2>2. /\ TC_state' \in States /\ TC_timeout' \in BOOLEAN
        /\ memory_type' \in {"code_e", "data_e"}
    BY <1>10
    DEF TypeOK, ExecuteReadMSB, ExecuteWriteMSB, SetTimeByte, ExecuteOther, KeepMemory,
        States, Writing
  <2>. QED  BY <2>1, <2>2, TypeDone DEF TypeOK, KeepTelemetry
<1>. QED
  BY <1>1, <1>2, <1>3, <1>4, <1>5, <1>6, <1>7, <1>8, <1>9, <1>10
  DEF HandleTelecommand, HandleMail

LEMMA TypeStep == TypeOK /\ [Next]_vars => TypeOK'
BY TypeTC, TypeTM, TypeTask DEF Next, vars, TypeOK

\* The variables keep their types; in particular the mailbox and the buffer of a
\* memory block keep to their sizes (Send_ISR_Mail, MemoryPatch).
THEOREM TypeCorrect == Spec => []TypeOK
BY TypeInit, TypeStep, PTL DEF Spec

----------------------------------------------------------------------------
(* Telecommands are not ignored for ever *)

LEMMA DeafStep == TypeOK /\ DeafIsSending /\ [Next]_vars => DeafIsSending'
<1>. SUFFICES ASSUME TypeOK, DeafIsSending, [Next]_vars
              PROVE  DeafIsSending'
  OBVIOUS
<1>1. CASE TC_InterruptService
  <2>. PICK word \in Telecommands :
         \/ BlockWordTC(word) \/ InvalidTC(word)
         \/ SendStatusRegister(word) \/ SendScienceDataFile(word)
         \/ ReadDataMemoryLSB(word) \/ OtherTC(word)
    BY <1>1 DEF TC_InterruptService
  <2>1. TC_state \notin SendingOnly /\ NextState \notin SendingOnly
    BY DEF BlockWordTC, InvalidTC, SendStatusRegister, SendScienceDataFile,
        ReadDataMemoryLSB, OtherTC, ReceivesTC, Receives, NextState, SendingOnly
  <2>2. TC_state' \in SendingOnly => TM_enabled'
    BY <2>1
    DEF BlockWordTC, InvalidTC, SendStatusRegister, SendScienceDataFile,
        ReadDataMemoryLSB, OtherTC, StartsSending, SendingOnly
  <2>. QED  BY <2>2 DEF DeafIsSending
<1>2. CASE TM_InterruptService
  BY <1>2 DEF DeafIsSending, TM_InterruptService, TaskUnchanged
<1>3. CASE WaitMailReceives \/ WaitMailTimesOut \/ LookAtState
  BY <1>3 DEF DeafIsSending, WaitMailReceives, WaitMailTimesOut, LookAtState
<1>4. CASE DisableTM
  BY <1>4 DEF DeafIsSending, DisableTM, LeavesTM
<1>5. CASE HandleTimeout \/ EndTelemetry \/ ExecuteReadMSB \/ ExecuteWriteMSB
           \/ PatchMemory \/ PatchCodeRestarts \/ SoftReset
  <2>1. TC_state' \notin SendingOnly
    BY <1>5
    DEF HandleTimeout, EndTelemetry, EndTelemetryIn, ExecuteReadMSB, ExecuteWriteMSB,
        PatchMemory, PatchCodeRestarts, SoftReset, Restart, SendingOnly
  <2>. QED  BY <2>1 DEF DeafIsSending
<1>6. CASE Ignore \/ ReadMemory \/ WriteMemory \/ FillBuffer \/ SetTimeByte \/ ExecuteOther
  <2>1. UNCHANGED TM_enabled /\ task # "telemetry_ended"
    BY <1>6
    DEF Ignore, ReadMemory, WriteMemory, FillBuffer, FillBufferWithin, SetTimeByte,
        ExecuteOther, Executes, Handles, KeepTelemetry, Telemetry, SendingOnly
  <2>2. TC_state' = TC_state \/ TC_state' \notin SendingOnly
    BY <1>6
    DEF Ignore, ReadMemory, WriteMemory, FillBuffer, FillBufferWithin, SetTimeByte,
        ExecuteOther, SendingOnly
  <2>. QED  BY <2>1, <2>2 DEF DeafIsSending
<1>7. CASE UNCHANGED vars
  BY <1>7 DEF DeafIsSending, vars
<1>. QED
  BY <1>1, <1>2, <1>3, <1>4, <1>5, <1>6, <1>7
  DEF Next, HandleTelecommand, HandleMail

\* Whatever overlaps: a program that ignores telecommands is sending, and so
\* comes to the TM_READY after which it no longer ignores them.
THEOREM DeafIsAlwaysSending == Spec => []DeafIsSending
<1>1. Init => DeafIsSending
  BY DEF Init, InitTelecommandTask, DeafIsSending, SendingOnly
<1>. QED  BY <1>1, DeafStep, TypeCorrect, PTL DEF Spec

----------------------------------------------------------------------------
(* The TM interrupt is enabled only in the states of telemetry *)

\* While the task ends telemetry, TC_InterruptService ignores everything.  As
\* long as no telecommand has come in the middle of the task's handling, it
\* acts in the state that it has looked at, and a timeout cannot occur with the
\* mail of a telemetry telecommand under way.
SendingInv ==
  /\ task \in Ending => TC_state \in SendingOnly
  /\ task = "telemetry_ended" => ~TM_enabled
  /\ "during_handling" \notin met =>
       /\ TM_enabled => TC_state \in Telemetry
       /\ task \in States => TC_state = task
       /\ task = "timed_out" => TC_state \notin Telemetry
       /\ TC_timeout /\ TC_state \in Telemetry => mailbox # <<>>

LEMMA SendingInvInit == Init => SendingInv
BY DEF Init, InitTelecommandTask, SendingInv, Ending, States, Telemetry, SendingOnly, Writing

\* A telecommand that is heard while nothing of the task's handling is under way.
LEMMA HeardCalmly ==
  ASSUME TypeOK, Receives, "during_handling" \notin met'
  PROVE  /\ task \in {"waiting", "received"} /\ task' = task
         /\ UNCHANGED TC_timeout
         /\ "during_handling" \notin met
BY DEF TypeOK, Receives, NotYetDone, TaskUnchanged, Places

LEMMA SendingInvTC ==
  ASSUME TypeOK, SendingInv, TC_InterruptService
  PROVE  SendingInv'
<1>. PICK word \in Telecommands :
       \/ BlockWordTC(word) \/ InvalidTC(word)
       \/ SendStatusRegister(word) \/ SendScienceDataFile(word)
       \/ ReadDataMemoryLSB(word) \/ OtherTC(word)
  BY DEF TC_InterruptService
<1>1. Receives
  BY DEF BlockWordTC, InvalidTC, SendStatusRegister, SendScienceDataFile,
      ReadDataMemoryLSB, OtherTC, ReceivesTC
<1>2. task \notin Ending /\ task' = task
  BY <1>1 DEF Receives, SendingInv, TaskUnchanged
<1>3. ASSUME "during_handling" \notin met'
      PROVE  /\ TM_enabled' => TC_state' \in Telemetry
             /\ TC_timeout' /\ TC_state' \in Telemetry => mailbox' # <<>>
  <2>1. /\ task \in {"waiting", "received"}
        /\ UNCHANGED TC_timeout
        /\ "during_handling" \notin met
    BY <1>1, <1>3, HeardCalmly
  <2>2. /\ TM_enabled => TC_state = "register_TM_e"
        /\ TC_state \in Telemetry => TC_state = "register_TM_e"
    BY <1>1, <2>1 DEF Receives, SendingInv, Telemetry
  <2>3. StillEnabled = FALSE /\ NextState \notin Telemetry
    BY <1>1, <2>2 DEF StillEnabled, NextState, Telemetry, SendingOnly
  <2>4. CASE BlockWordTC(word)
    BY <2>2, <2>4 DEF BlockWordTC, Telemetry, SendingOnly
  <2>5. CASE InvalidTC(word) \/ OtherTC(word)
    BY <2>3, <2>5 DEF InvalidTC, OtherTC, NothingToSend
  <2>6. CASE SendStatusRegister(word) \/ SendScienceDataFile(word) \/ ReadDataMemoryLSB(word)
    <3>1. mailbox' # <<>>
      <4>1. Send(word)
        BY <2>6 DEF SendStatusRegister, SendScienceDataFile, ReadDataMemoryLSB
      <4>. QED  BY <4>1, SendKeeps, WordNames DEF TypeOK
    <3>2. TM_enabled' => TC_state' \in Telemetry
      BY <2>3, <2>6
      DEF SendStatusRegister, SendScienceDataFile, ReadDataMemoryLSB, NothingToSend,
          StartsSending, Telemetry, SendingOnly
    <3>. QED  BY <3>1, <3>2
  <2>. QED  BY <2>4, <2>5, <2>6
<1>4. "during_handling" \notin met' => task' \notin States /\ task' # "timed_out"
  BY <1>1, HeardCalmly, PlaceNames
<1>. QED
  BY <1>2, <1>3, <1>4 DEF SendingInv, Ending

LEMMA SendingInvTM ==
  ASSUME TypeOK, SendingInv, TM_InterruptService
  PROVE  SendingInv'
<1>1. /\ UNCHANGED <<task, TC_state, TC_timeout, TM_enabled>>
      /\ met \subseteq met' /\ ("during_handling" \in met' => "during_handling" \in met)
  BY DEF TM_InterruptService, TaskUnchanged, SendsWord, SendsFirstRegister, SendsReady,
      SendsReadyBefore
<1>2. mailbox # <<>> => mailbox' # <<>>
  <2>1. CASE SendsReady
    BY <2>1, SendKeeps, WordNames DEF TypeOK, SendsReady, SendsReadyBefore
  <2>. QED  BY <2>1 DEF TM_InterruptService, SendsWord, SendsFirstRegister
<1>. QED  BY <1>1, <1>2 DEF SendingInv

\* The handlers of a mail.
LEMMA SendingInvHandler ==
  ASSUME TypeOK, SendingInv, Done, UNCHANGED <<TM_enabled, met, mailbox>>,
         "during_handling" \notin met =>
           /\ \/ TC_state' = TC_state
              \/ ~TM_enabled /\ TC_state' \notin Telemetry
           /\ TC_timeout' => TC_timeout \/ TC_state' \notin Telemetry
  PROVE  SendingInv'
<1>1. task' = "waiting" /\ task' \notin States /\ task' \notin Ending
  BY PlaceNames DEF Done, Handling
<1>. QED  BY <1>1 DEF SendingInv

LEMMA SendingInvTask ==
  ASSUME TypeOK, SendingInv, HandleTelecommand
  PROVE  SendingInv'
<1>1. CASE WaitMailReceives
  BY <1>1, PlaceNames DEF SendingInv, WaitMailReceives, Ending, Handling
<1>2. CASE WaitMailTimesOut
  BY <1>2, PlaceNames DEF SendingInv, WaitMailTimesOut, Ending, Handling
<1>3. CASE HandleTimeout
  <2>1. "during_handling" \notin met => ~TM_enabled
    BY <1>3 DEF HandleTimeout, SendingInv
  <2>. QED
    BY <1>3, <2>1, PlaceNames DEF SendingInv, HandleTimeout, Ending, Handling, Telemetry, SendingOnly
<1>4. CASE LookAtState
  <2>1. CASE EndsTelemetry(received_command)
    <3>1. task' = "end_telemetry" /\ task' \notin States /\ TC_state \in SendingOnly
      BY <1>4, <2>1, PlaceNames DEF LookAtState, EndsTelemetry, Ending
    <3>. QED  BY <1>4, <3>1, PlaceNames DEF LookAtState, SendingInv
  <2>2. CASE ~EndsTelemetry(received_command)
    <3>1. task' = TC_state /\ task' \in States /\ task' \notin Ending /\ task' # "timed_out"
      BY <1>4, <2>2, PlaceNames DEF LookAtState, TypeOK, Handling
    <3>. QED  BY <1>4, <3>1 DEF LookAtState, SendingInv, Ending
  <2>. QED  BY <2>1, <2>2
<1>5. CASE DisableTM
  <2>1. task = "end_telemetry" /\ task' = "telemetry_ended" /\ task' \notin States
    BY <1>5, PlaceNames DEF DisableTM, LeavesTM, Ending
  <2>. QED  BY <1>5, <2>1 DEF DisableTM, LeavesTM, SendingInv, Ending
<1>6. CASE EndTelemetry
  <2>1. Done /\ ~TM_enabled /\ TC_state' \notin Telemetry /\ UNCHANGED <<TM_enabled, met, mailbox, TC_timeout>>
    BY <1>6
    DEF EndTelemetry, EndTelemetryIn, Handles, KeepTelemetry, SendingInv, Telemetry, SendingOnly
  <2>. QED  BY <2>1, SendingInvHandler
<1>7. CASE \/ Ignore \/ ReadMemory \/ WriteMemory \/ FillBuffer \/ PatchMemory
           \/ ExecuteReadMSB \/ ExecuteWriteMSB \/ SetTimeByte \/ ExecuteOther
  <2>1. Done /\ UNCHANGED <<TM_enabled, met, mailbox>>
    BY <1>7
    DEF Ignore, ReadMemory, WriteMemory, FillBuffer, FillBufferWithin, PatchMemory,
        ExecuteReadMSB, ExecuteWriteMSB, SetTimeByte, ExecuteOther, Executes, Handles, KeepTelemetry
  <2>2. \/ TC_state' = TC_state /\ TC_timeout' = TC_timeout
        \/ /\ task \in States \ Telemetry
           /\ TC_state' = TC_state \/ TC_state' \notin Telemetry
    BY <1>7
    DEF Ignore, ReadMemory, WriteMemory, FillBuffer, FillBufferWithin, PatchMemory,
        ExecuteReadMSB, ExecuteWriteMSB, SetTimeByte, ExecuteOther, Executes, Handles,
        States, Telemetry, SendingOnly, Writing
  <2>3. "during_handling" \notin met /\ task \in States \ Telemetry =>
           TC_state = task /\ ~TM_enabled
    BY DEF SendingInv
  <2>. QED  BY <2>1, <2>2, <2>3, SendingInvHandler
<1>8. CASE PatchCodeRestarts \/ SoftReset
  <2>1. Restart
    BY <1>8 DEF PatchCodeRestarts, SoftReset
  <2>. QED  BY <2>1, PlaceNames DEF Restart, SendingInv, Ending, Handling
<1>. QED
  BY <1>1, <1>2, <1>3, <1>4, <1>5, <1>6, <1>7, <1>8 DEF HandleTelecommand, HandleMail

LEMMA SendingInvStep == TypeOK /\ SendingInv /\ [Next]_vars => SendingInv'
<1>1. UNCHANGED vars /\ SendingInv => SendingInv'
  BY DEF vars, SendingInv
<1>. QED
  BY <1>1, SendingInvTC, SendingInvTM, SendingInvTask DEF Next

\* Unless a telecommand comes in the middle of the task's handling, the TM
\* interrupt is enabled only in the states that TC_InterruptService sets with it.
THEOREM SendingAlwaysHasState == Spec => []SendingHasState
<1>1. SendingInv => SendingHasState
  BY DEF SendingInv, SendingHasState
<1>. QED
  BY <1>1, SendingInvInit, SendingInvStep, TypeCorrect, PTL DEF Spec

----------------------------------------------------------------------------
(* A telecommand is ignored only if it has been executed *)

Answered == {"TM_READY", "SEND_STATUS_REGISTER", "SEND_SCIENCE_DATA_FILE",
             "READ_DATA_MEMORY_LSB"}
NoTCBeforeTask == met = {}

\* Each telecommand finds the mailbox empty and the task waiting, so that in the
\* states of telemetry there is no mail but of the telecommand that led to it
\* and TM_READY.
MailInv ==
  NoTCBeforeTask /\ TC_state \in Telemetry =>
    /\ \A i \in 1 .. Len(mailbox) : mailbox[i] \in Answered
    /\ received_command \in Answered \cup {"none"}

LEMMA MailInvTC ==
  ASSUME TypeOK, MailInv, TC_InterruptService
  PROVE  MailInv'
<1>. PICK word \in Telecommands :
       \/ BlockWordTC(word) \/ InvalidTC(word)
       \/ SendStatusRegister(word) \/ SendScienceDataFile(word)
       \/ ReadDataMemoryLSB(word) \/ OtherTC(word)
  BY DEF TC_InterruptService
<1>. SUFFICES ASSUME NoTCBeforeTask', TC_state' \in Telemetry
              PROVE  /\ \A i \in 1 .. Len(mailbox') : mailbox'[i] \in Answered
                     /\ received_command' \in Answered \cup {"none"}
  BY DEF MailInv
<1>1. Receives
  BY DEF BlockWordTC, InvalidTC, SendStatusRegister, SendScienceDataFile,
      ReadDataMemoryLSB, OtherTC, ReceivesTC
<1>2. mailbox = <<>> /\ received_command' = "none"
  BY <1>1 DEF Receives, NotYetDone, NoTCBeforeTask, TaskUnchanged, TypeOK, Places
<1>3. Send(word) /\ word \in Answered
  <2>1. NextState \notin Telemetry
    BY <1>1 DEF Receives, NextState, Telemetry, SendingOnly
  <2>. QED
    BY <2>1
    DEF BlockWordTC, InvalidTC, SendStatusRegister, SendScienceDataFile,
        ReadDataMemoryLSB, OtherTC, Answered, Telemetry, SendingOnly
<1>4. \A i \in 1 .. Len(mailbox') : mailbox'[i] = word
  <2>1. Len(mailbox) = 0 /\ mailbox \in Seq(Words)
    BY <1>2 DEF TypeOK
  <2>2. \A i \in 1 .. Len(mailbox') :
          mailbox'[i] = word \/ \E j \in 1 .. Len(mailbox) : mailbox'[i] = mailbox[j]
    BY <1>3, SendKeeps, WordNames DEF TypeOK
  <2>. QED  BY <2>1, <2>2
<1>. QED  BY <1>2, <1>3, <1>4

LEMMA MailInvTM ==
  ASSUME TypeOK, MailInv, TM_InterruptService
  PROVE  MailInv'
<1>1. UNCHANGED <<TC_state, received_command>> /\ (NoTCBeforeTask' => NoTCBeforeTask)
  BY DEF TM_InterruptService, TaskUnchanged, SendsWord, SendsFirstRegister, SendsReady,
      SendsReadyBefore, NoTCBeforeTask
<1>2. CASE SendsWord \/ SendsFirstRegister
  BY <1>1, <1>2 DEF SendsWord, SendsFirstRegister, MailInv
<1>3. CASE SendsReady
  <2>1. \A i \in 1 .. Len(mailbox') :
          mailbox'[i] = "TM_READY" \/ \E j \in 1 .. Len(mailbox) : mailbox'[i] = mailbox[j]
    BY <1>3, SendKeeps, WordNames DEF TypeOK, SendsReady, SendsReadyBefore
  <2>. QED  BY <1>1, <2>1 DEF MailInv, Answered
<1>. QED  BY <1>2, <1>3 DEF TM_InterruptService

LEMMA MailInvTask ==
  ASSUME TypeOK, SendingInv, MailInv, HandleTelecommand
  PROVE  MailInv'
<1>1. CASE WaitMailReceives
  <2>1. /\ received_command' = mailbox[1] /\ 1 \in 1 .. Len(mailbox)
        /\ \A i \in 1 .. Len(mailbox') : \E j \in 1 .. Len(mailbox) : mailbox'[i] = mailbox[j]
    BY <1>1, ReceiveKeeps DEF WaitMailReceives, TypeOK
  <2>2. UNCHANGED <<TC_state, met>>
    BY <1>1 DEF WaitMailReceives
  <2>. QED  BY <2>1, <2>2 DEF MailInv, NoTCBeforeTask
<1>2. CASE WaitMailTimesOut \/ LookAtState \/ DisableTM
  BY <1>2 DEF WaitMailTimesOut, LookAtState, DisableTM, LeavesTM, MailInv, NoTCBeforeTask
<1>3. CASE HandleTimeout \/ EndTelemetry \/ PatchCodeRestarts \/ SoftReset
  <2>1. TC_state' = "TC_handling_e"
    BY <1>3 DEF HandleTimeout, EndTelemetry, EndTelemetryIn, PatchCodeRestarts, SoftReset, Restart
  <2>. QED  BY <2>1 DEF MailInv, Telemetry, SendingOnly
<1>4. CASE \/ Ignore \/ ReadMemory \/ WriteMemory \/ FillBuffer \/ PatchMemory
           \/ ExecuteReadMSB \/ ExecuteWriteMSB \/ SetTimeByte \/ ExecuteOther
  <2>1. Done /\ UNCHANGED <<met, mailbox>>
    BY <1>4
    DEF Ignore, ReadMemory, WriteMemory, FillBuffer, FillBufferWithin, PatchMemory,
        ExecuteReadMSB, ExecuteWriteMSB, SetTimeByte, ExecuteOther, Executes, Handles, KeepTelemetry
  <2>2. TC_state' = TC_state \/ TC_state' \notin Telemetry
    BY <1>4
    DEF Ignore, ReadMemory, WriteMemory, FillBuffer, FillBufferWithin, PatchMemory,
        ExecuteReadMSB, ExecuteWriteMSB, SetTimeByte, ExecuteOther, Telemetry, SendingOnly
  <2>. QED  BY <2>1, <2>2 DEF Done, MailInv, NoTCBeforeTask
<1>. QED
  BY <1>1, <1>2, <1>3, <1>4 DEF HandleTelecommand, HandleMail

LEMMA MailInvStep == TypeOK /\ SendingInv /\ MailInv /\ [Next]_vars => MailInv'
<1>1. UNCHANGED vars /\ MailInv => MailInv'
  BY DEF vars, MailInv, NoTCBeforeTask
<1>. QED
  BY <1>1, MailInvTC, MailInvTM, MailInvTask DEF Next

\* Unless a telecommand comes before the previous one is handled, the task
\* ignores only those that TC_InterruptService has executed.
THEOREM IgnoredIsAlwaysDone == Spec => []IgnoredIsDone
<1>1. Init => MailInv
  BY DEF Init, InitTelecommandTask, MailInv, Telemetry, SendingOnly
<1>2. TypeOK /\ SendingInv /\ MailInv => IgnoredIsDone
  <2>1. NoTCBeforeTask /\ SendingInv /\ task \in Telemetry => TC_state \in Telemetry
    BY PlaceNames DEF NoTCBeforeTask, SendingInv
  <2>2. TypeOK /\ task \in Telemetry => received_command # "none"
    BY PlaceNames DEF TypeOK
  <2>. QED  BY <2>1, <2>2 DEF IgnoredIsDone, MailInv, NoTCBeforeTask, Answered
<1>. QED
  BY <1>1, <1>2, MailInvStep, SendingInvInit, SendingInvStep, TypeCorrect, PTL DEF Spec

----------------------------------------------------------------------------
(* Telemetry is ended when all its words have been sent *)

\* The words that the task takes for the end of a telemetry.
EndWords == {"TM_READY", "0xFFFF"}

\* Each telecommand finds no mail under way, so that an end word that is found in the
\* states of telemetry was mailed when nothing was left to be sent there; and the
\* task, once it ends a telemetry, is in the telemetry that it has looked at.
SentInv ==
  NoTCBeforeTask =>
    /\ /\ TC_state \in SendingOnly
       /\ \/ received_command \in EndWords
          \/ \E i \in 1 .. Len(mailbox) : mailbox[i] \in EndWords
       => words_left = 0
    /\ task = "end_telemetry" => TC_state \in SendingOnly /\ received_command \in EndWords

LEMMA SentInvTC ==
  ASSUME TypeOK, TC_InterruptService
  PROVE  SentInv'
<1>. PICK word \in Telecommands :
       \/ BlockWordTC(word) \/ InvalidTC(word)
       \/ SendStatusRegister(word) \/ SendScienceDataFile(word)
       \/ ReadDataMemoryLSB(word) \/ OtherTC(word)
  BY DEF TC_InterruptService
<1>. SUFFICES ASSUME NoTCBeforeTask'
              PROVE  SentInv'
  BY DEF SentInv
<1>1. Receives
  BY DEF BlockWordTC, InvalidTC, SendStatusRegister, SendScienceDataFile,
      ReadDataMemoryLSB, OtherTC, ReceivesTC
<1>2. /\ mailbox = <<>> /\ Len(mailbox) = 0
      /\ received_command' = "none" /\ task' # "end_telemetry"
  BY <1>1 DEF Receives, NotYetDone, NoTCBeforeTask, TaskUnchanged, TypeOK, Places, Handling,
     Ending
<1>3. TC_state' \notin SendingOnly \/ \A i \in 1 .. Len(mailbox') : mailbox'[i] \notin EndWords
  <2>1. CASE BlockWordTC(word) \/ InvalidTC(word)
    BY <1>1, <2>1 DEF BlockWordTC, InvalidTC, NextState, Receives, SendingOnly
  <2>2. CASE \/ SendStatusRegister(word) \/ SendScienceDataFile(word)
             \/ ReadDataMemoryLSB(word) \/ OtherTC(word)
    <3>1. Send(word) /\ word \in Valid
      BY <2>2, ZenonT(30) DEF SendStatusRegister, SendScienceDataFile, ReadDataMemoryLSB, OtherTC, Valid
    <3>2. word \notin EndWords
      BY <3>1 DEF EndWords, Valid, TimeBytes, WriteMSB, WriteLSB
    <3>3. \A i \in 1 .. Len(mailbox') :
            mailbox'[i] = word \/ \E j \in 1 .. Len(mailbox) : mailbox'[i] = mailbox[j]
      BY <3>1, SendKeeps, WordNames DEF TypeOK
    <3>. QED  BY <1>2, <3>2, <3>3
  <2>. QED  BY <2>1, <2>2
<1>. QED  BY <1>2, <1>3 DEF SentInv, EndWords

LEMMA SentInvTM ==
  ASSUME TypeOK, SentInv, TM_InterruptService
  PROVE  SentInv'
<1>1. UNCHANGED <<TC_state, received_command, task, met>>
  BY DEF TM_InterruptService, TaskUnchanged, SendsWord, SendsFirstRegister, SendsReady,
      SendsReadyBefore
<1>2. CASE SendsWord
  BY <1>1, <1>2 DEF SendsWord, SentInv, NoTCBeforeTask, TypeOK
<1>3. CASE SendsFirstRegister
  BY <1>1, <1>3 DEF SendsFirstRegister, SentInv, NoTCBeforeTask, SendingOnly
<1>4. CASE SendsReady
  <2>1. words_left' = 0
    BY <1>4 DEF SendsReady, SendsReadyBefore
  <2>. QED  BY <1>1, <2>1 DEF SentInv, NoTCBeforeTask
<1>. QED  BY <1>2, <1>3, <1>4 DEF TM_InterruptService

LEMMA SentInvTask ==
  ASSUME TypeOK, SentInv, HandleTelecommand
  PROVE  SentInv'
<1>1. CASE WaitMailReceives
  <2>1. /\ received_command' = mailbox[1] /\ 1 \in 1 .. Len(mailbox)
        /\ \A i \in 1 .. Len(mailbox') : \E j \in 1 .. Len(mailbox) : mailbox'[i] = mailbox[j]
    BY <1>1, ReceiveKeeps DEF WaitMailReceives, TypeOK
  <2>2. UNCHANGED <<TC_state, met, words_left>> /\ task' = "received"
    BY <1>1 DEF WaitMailReceives
  <2>. QED  BY <2>1, <2>2 DEF SentInv, NoTCBeforeTask
<1>2. CASE WaitMailTimesOut \/ DisableTM
  <2>1. /\ UNCHANGED <<TC_state, met, words_left, mailbox, received_command>>
        /\ task' # "end_telemetry"
    BY <1>2 DEF WaitMailTimesOut, DisableTM, LeavesTM
  <2>. QED  BY <2>1 DEF SentInv, NoTCBeforeTask
<1>3. CASE LookAtState
  <2>1. UNCHANGED <<TC_state, met, words_left, mailbox, received_command>>
    BY <1>3 DEF LookAtState
  <2>2. task' = "end_telemetry" => TC_state \in SendingOnly /\ received_command \in EndWords
    <3>1. TC_state # "end_telemetry"
      BY PlaceNames DEF TypeOK, Ending
    <3>. QED  BY <1>3, <3>1 DEF LookAtState, EndsTelemetry, EndWords
  <2>. QED  BY <2>1, <2>2 DEF SentInv, NoTCBeforeTask
<1>4. CASE HandleTimeout \/ EndTelemetry \/ PatchCodeRestarts \/ SoftReset
  <2>1. TC_state' = "TC_handling_e" /\ task' = "waiting"
    BY <1>4 DEF HandleTimeout, EndTelemetry, EndTelemetryIn, Handles, Done,
       PatchCodeRestarts, SoftReset, Restart
  <2>. QED  BY <2>1 DEF SentInv, SendingOnly
<1>5. CASE \/ Ignore \/ ReadMemory \/ WriteMemory \/ FillBuffer \/ PatchMemory
           \/ ExecuteReadMSB \/ ExecuteWriteMSB \/ SetTimeByte \/ ExecuteOther
  <2>1. Done /\ UNCHANGED <<met, mailbox, words_left>>
    BY <1>5
    DEF Ignore, ReadMemory, WriteMemory, FillBuffer, FillBufferWithin, PatchMemory,
        ExecuteReadMSB, ExecuteWriteMSB, SetTimeByte, ExecuteOther, Executes, Handles, KeepTelemetry
  <2>2. TC_state' = TC_state \/ TC_state' \notin SendingOnly
    BY <1>5
    DEF Ignore, ReadMemory, WriteMemory, FillBuffer, FillBufferWithin, PatchMemory,
        ExecuteReadMSB, ExecuteWriteMSB, SetTimeByte, ExecuteOther, SendingOnly
  <2>. QED  BY <2>1, <2>2 DEF Done, SentInv, NoTCBeforeTask, EndWords
<1>. QED
  BY <1>1, <1>2, <1>3, <1>4, <1>5 DEF HandleTelecommand, HandleMail

\* Unless a telecommand comes before the previous mail is handled, the task ends a
\* telemetry only when the TM interrupt service has sent all its words.
THEOREM EndsAlwaysWhenSent == Spec => []EndsWhenSent
<1>1. Init => SentInv
  BY DEF Init, InitTelecommandTask, SentInv, SendingOnly
<1>2. TypeOK /\ SentInv /\ [Next]_vars => SentInv'
  <2>1. UNCHANGED vars /\ SentInv => SentInv'
    BY DEF vars, SentInv, NoTCBeforeTask
  <2>. QED  BY <2>1, SentInvTC, SentInvTM, SentInvTask DEF Next
<1>3. SentInv => EndsWhenSent
  BY DEF SentInv, EndsWhenSent, NoTCBeforeTask
<1>. QED
  BY <1>1, <1>2, <1>3, TypeCorrect, PTL DEF Spec

============================================================================
