---------------------------- MODULE KeyboardProofs ----------------------------
(***************************************************************************)
(* Whatever configuration the controller holds and whatever the keyboard   *)
(* sends: what the driver of the 8042 reports is so, and every data byte   *)
(* it writes is taken for what it is meant.                                *)
(***************************************************************************)
EXTENDS KeyboardController, TLAPS

-----------------------------------------------------------------------------
(* The bytes the driver compares and writes.                               *)
LEMMA Bytes ==
  /\ KBDCTL_CMD_READ_CONFIG \in Byte /\ KBDCTL_CMD_WRITE_CONFIG \in Byte
  /\ KBDCTL_CMD_TEST_CTL \in Byte /\ KBDCTL_CMD_TEST_P1 \in Byte
  /\ KBDCTL_CMD_ENABLE_P1 \in Byte /\ KBDCTL_CMD_WRITENEXT_CTL_OUT \in Byte
  /\ KBDCTL_CMD_ENABLE_A20 \in Byte
  /\ KBDCTL_SELFTEST_SUCCESS \in Byte /\ KBDCTL_STAT_FAIL \in Byte
  /\ TimedOut \in Byte /\ {} \in Byte
BY DEF Byte, KBDCTL_CMD_READ_CONFIG, KBDCTL_CMD_WRITE_CONFIG, KBDCTL_CMD_TEST_CTL,
       KBDCTL_CMD_TEST_P1, KBDCTL_CMD_ENABLE_P1, KBDCTL_CMD_WRITENEXT_CTL_OUT,
       KBDCTL_CMD_ENABLE_A20, KBDCTL_SELFTEST_SUCCESS, KBDCTL_STAT_FAIL, TimedOut

LEMMA CommandsDiffer == KBDCTL_CMD_WRITENEXT_CTL_OUT # KBDCTL_CMD_WRITE_CONFIG
<1>1. 0 \in KBDCTL_CMD_WRITENEXT_CTL_OUT /\ 0 \notin KBDCTL_CMD_WRITE_CONFIG
  BY DEF KBDCTL_CMD_WRITENEXT_CTL_OUT, KBDCTL_CMD_WRITE_CONFIG
<1> QED
  BY <1>1

Quiet(b) == {KBDCTL_CTL_P1_IE, KBDCTL_CTL_P2_IE, KBDCTL_CTL_PS1_TE} \cap b = {}

(* The configuration the driver makes of any other is a byte without       *)
(* interrupts and translation, and cannot be taken for a poll that gave up. *)
LEMMA NewConfigQuiet ==
  ASSUME NEW b \in Byte
  PROVE  NewConfig(b) \in Byte /\ Quiet(NewConfig(b))
<1>1. NewConfig(b) \in Byte
  BY DEF NewConfig, Byte, KBDCTL_DEFAULT_CONFIG_MASK, KBDCTL_CTL_SF
<1>2. Quiet(NewConfig(b))
  BY DEF Quiet, NewConfig, KBDCTL_DEFAULT_CONFIG_MASK, KBDCTL_CTL_SF, KBDCTL_CTL_P1_IE,
         KBDCTL_CTL_P2_IE, KBDCTL_CTL_PS1_TE
<1> QED
  BY <1>1, <1>2

LEMMA QuietIsNoTimeout == ASSUME NEW b, Quiet(b) PROVE b # TimedOut
<1>1. 0 \notin b
  BY DEF Quiet, KBDCTL_CTL_P1_IE
<1>2. 0 \in TimedOut
  BY DEF TimedOut
<1> QED
  BY <1>1, <1>2

LEMMA InterruptByte ==
  ASSUME NEW b \in Byte PROVE b \cup {KBDCTL_CTL_P1_IE} \in Byte
BY DEF Byte, KBDCTL_CTL_P1_IE

(* What may lie in the input buffer.                                       *)
LEMMA Buffers ==
  ASSUME NEW b
  PROVE  /\ Command(b) # Empty /\ Data(b) # Empty
         /\ \A x \in Command(b) : x.port = "command" /\ x.value = b
         /\ \A x \in Data(b) : x.port = "data" /\ x.value = b
         /\ (\E x \in Command(b) : x.port = "command") /\ (\E x \in Data(b) : x.port = "data")
<1>1. [port |-> "command", value |-> b] \in Command(b) /\ [port |-> "data", value |-> b] \in Data(b)
  BY DEF Command, Data
<1>2. Command(b) # Empty /\ Data(b) # Empty
  BY <1>1 DEF Empty
<1>3. \A x \in Command(b) : x.port = "command" /\ x.value = b
  BY DEF Command
<1>4. \A x \in Data(b) : x.port = "data" /\ x.value = b
  BY DEF Data
<1> QED
  BY <1>1, <1>2, <1>3, <1>4

LEMMA InbufValues == ASSUME TypeOK, NEW d \in inbuf PROVE d.value \in Byte
<1>1. CASE inbuf = Empty
  BY <1>1 DEF Empty
<1>2. CASE inbuf \in {Command(c) : c \in Byte}
  BY <1>2, Buffers
<1>3. CASE inbuf \in {Data(b) : b \in Byte}
  BY <1>3, Buffers
<1> QED
  BY <1>1, <1>2, <1>3 DEF TypeOK

(* The input buffer after a poll of the driver: a command, which is not a   *)
(* data byte, or what was there before.                                     *)
LEMMA CommandWritten ==
  ASSUME NEW b, Write(Command(b)) PROVE DataHasPurpose' /\ ~ConfigPending'
BY Buffers DEF Write, DataHasPurpose, ConfigPending

LEMMA DataWritten ==
  ASSUME NEW b, Write(Data(b)), awaits' # "none"
  PROVE  DataHasPurpose' /\ (awaits' # "config" => ~ConfigPending')
BY Buffers DEF Write, DataHasPurpose, ConfigPending

LEMMA BufferKept ==
  ASSUME DataHasPurpose, UNCHANGED <<inbuf, awaits>>
  PROVE  DataHasPurpose' /\ ConfigPending' = ConfigPending
BY DEF DataHasPurpose, ConfigPending

-----------------------------------------------------------------------------
(* The invariant, action by action.                                        *)
LEMMA Starts == Init => KeyboardInv
<1> SUFFICES ASSUME Init PROVE KeyboardInv
  OBVIOUS
<1>1. TypeOK
  BY KeyboardAssumption, Bytes DEF Init, TypeOK
<1>2. pc \in Steps /\ DataHasPurpose /\ Handshake /\ Targets /\ Settled
  BY DEF Init, Empty, Steps, DataHasPurpose, Handshake, Targets, Settled, AfterSelfTest
<1> QED
  BY <1>1, <1>2 DEF KeyboardInv

LEMMA NothingMoves == KeyboardInv /\ UNCHANGED vars => KeyboardInv'
<1> SUFFICES ASSUME KeyboardInv, UNCHANGED vars PROVE KeyboardInv'
  OBVIOUS
<1> USE DEF KeyboardInv, vars, controller, driver
<1>1. TypeOK' /\ pc' \in Steps
  BY DEF TypeOK
<1>2. DataHasPurpose' /\ Handshake' /\ Targets'
  BY DEF DataHasPurpose, Handshake, Targets
<1>3. Settled'
  BY DEF Settled, AfterSelfTest, ConfigPending
<1> QED
  BY <1>1, <1>2, <1>3

LEMMA TakeCommandKeeps == KeyboardInv /\ TakeCommand => KeyboardInv'
<1> SUFFICES ASSUME TypeOK, pc \in Steps, DataHasPurpose, Handshake, Targets, Settled,
                    TakeCommand
             PROVE  KeyboardInv'
  BY DEF KeyboardInv
<1>1. TypeOK'
  <2>1. PICK c \in inbuf : \E answer \in Answers(c.value) :
                            /\ answer = Empty \/ outbuf = Empty
                            /\ outbuf' = outbuf \cup answer
    BY DEF TakeCommand
  <2>2. \A answer \in Answers(c.value) : answer \in {Empty} \cup {{b} : b \in Byte}
    BY Bytes DEF Answers, TypeOK
  <2>3. outbuf' \in {Empty} \cup {{b} : b \in Byte}
    BY <2>1, <2>2 DEF TypeOK, Empty
  <2>4. inbuf' = Empty /\ awaits' \in {"none", "config", "output"} /\ UNCHANGED <<config, a20, driver>>
    BY DEF TakeCommand
  <2> QED
    BY <2>3, <2>4 DEF TypeOK, driver
<1>2. pc' \in Steps
  BY DEF Steps, TakeCommand, driver, Empty
<1>3. DataHasPurpose'
  BY DEF DataHasPurpose, Handshake, Command, Data, TakeCommand, driver, Empty
<1>4. Handshake'
  BY CommandsDiffer DEF Handshake, Settled, AfterSelfTest, ConfigPending, Command, Data,
         Empty, TakeCommand, driver
<1>5. Targets'
  BY DEF Targets, Settled, AfterSelfTest, TakeCommand, driver, Empty
<1>6. Settled'
  BY DEF Settled, AfterSelfTest, ConfigPending, Targets, Handshake, Command, Data, Empty,
         TakeCommand, driver
<1> QED
  BY <1>1, <1>2, <1>3, <1>4, <1>5, <1>6 DEF KeyboardInv

LEMMA TakeDataKeeps == KeyboardInv /\ TakeData => KeyboardInv'
<1> SUFFICES ASSUME TypeOK, pc \in Steps, DataHasPurpose, Handshake, Targets, Settled,
                    TakeData
             PROVE  KeyboardInv'
  BY DEF KeyboardInv
<1>1. TypeOK'
  <2>1. config' \in Byte /\ a20' \in BOOLEAN
    <3>1. PICK d \in inbuf : /\ config' = IF awaits = "config" THEN d.value ELSE config
                            /\ a20' = IF awaits = "output" THEN KBDCTL_CTL_OUT_A20 \in d.value ELSE a20
      BY DEF TakeData
    <3>2. d.value \in Byte
      BY InbufValues
    <3>3. config' \in Byte
      BY <3>1, <3>2 DEF TypeOK
    <3>4. a20' \in BOOLEAN
      <4>1. CASE awaits = "output"
        BY <3>1, <4>1
      <4>2. CASE awaits # "output"
        BY <3>1, <4>2 DEF TypeOK
      <4> QED
        BY <4>1, <4>2
    <3> QED
      BY <3>3, <3>4
  <2>2. inbuf' = Empty /\ awaits' = "none" /\ UNCHANGED <<outbuf, driver>>
    BY DEF TakeData
  <2> QED
    BY <2>1, <2>2 DEF TypeOK, driver
<1>2. pc' \in Steps
  BY DEF Steps, TakeData, driver, Empty
<1>3. DataHasPurpose'
  BY DEF DataHasPurpose, Handshake, Command, Data, TakeData, driver, Empty
<1>4. Handshake'
  BY DEF Handshake, Settled, AfterSelfTest, ConfigPending, Command, Data, Empty, TakeData,
         driver
<1>5. Targets'
  BY DEF Targets, Settled, AfterSelfTest, TakeData, driver, Empty
<1>6. Settled'
  BY DEF Settled, AfterSelfTest, ConfigPending, Targets, Handshake, Command, Data, Empty,
         TakeData, driver
<1> QED
  BY <1>1, <1>2, <1>3, <1>4, <1>5, <1>6 DEF KeyboardInv

LEMMA KeyPressedKeeps == KeyboardInv /\ KeyPressed => KeyboardInv'
<1> SUFFICES ASSUME TypeOK, pc \in Steps, DataHasPurpose, Handshake, Targets, Settled,
                    KeyPressed
             PROVE  KeyboardInv'
  BY DEF KeyboardInv
<1>1. TypeOK'
  BY Bytes, KeyboardAssumption DEF TypeOK, KeyPressed, driver
<1>2. pc' \in Steps
  BY DEF Steps, KeyPressed, driver
<1>3. DataHasPurpose'
  BY DEF DataHasPurpose, Handshake, Command, Data, KeyPressed, driver
<1>4. Handshake'
  BY DEF Handshake, Settled, AfterSelfTest, ConfigPending, Command, Data, Empty,
         KeyPressed, driver
<1>5. Targets'
  BY DEF Targets, Settled, AfterSelfTest, KeyPressed, driver
<1>6. Settled'
  BY DEF Settled, AfterSelfTest, ConfigPending, Targets, Handshake, Command, Data, Empty,
         KeyPressed, driver
<1> QED
  BY <1>1, <1>2, <1>3, <1>4, <1>5, <1>6 DEF KeyboardInv

LEMMA AskInitialConfigKeeps == KeyboardInv /\ AskInitialConfig => KeyboardInv'
<1> SUFFICES ASSUME TypeOK, pc \in Steps, DataHasPurpose, Handshake, Targets, Settled,
                    AskInitialConfig
             PROVE  KeyboardInv'
  BY DEF KeyboardInv
<1>1. TypeOK'
  BY Bytes DEF TypeOK, AskInitialConfig, Write, WriteTimeout, Return
<1>2. pc' \in Steps
  BY DEF Steps, AskInitialConfig, Write, WriteTimeout, Return
<1>3. DataHasPurpose'
  BY CommandWritten, BufferKept DEF AskInitialConfig, WriteTimeout
<1>4. Handshake'
  BY DEF Handshake, Settled, AfterSelfTest, ConfigPending, Command, Data, Empty,
         AskInitialConfig, Write, WriteTimeout, Return
<1>5. Targets'
  BY DEF Targets, Settled, AfterSelfTest, AskInitialConfig, Write, WriteTimeout, Return
<1>6. Settled'
  BY DEF Settled, AfterSelfTest, ConfigPending, Targets, Handshake, Command, Data, Empty,
         AskInitialConfig, Write, WriteTimeout, Return
<1> QED
  BY <1>1, <1>2, <1>3, <1>4, <1>5, <1>6 DEF KeyboardInv

LEMMA GetInitialConfigKeeps == KeyboardInv /\ GetInitialConfig => KeyboardInv'
<1> SUFFICES ASSUME TypeOK, pc \in Steps, DataHasPurpose, Handshake, Targets, Settled,
                    GetInitialConfig
             PROVE  KeyboardInv'
  BY DEF KeyboardInv
<1>1. TypeOK'
  BY Bytes, NewConfigQuiet DEF TypeOK, GetInitialConfig, Receive, Return
<1>2. pc' \in Steps
  BY DEF Steps, GetInitialConfig, Receive, Return
<1>3. DataHasPurpose'
  BY DEF DataHasPurpose, Handshake, Command, Data, GetInitialConfig, Receive, Return
<1>4. Handshake'
  BY DEF Handshake, Settled, AfterSelfTest, ConfigPending, Command, Data, Empty,
         GetInitialConfig, Receive, Return
<1>5. Targets'
  BY NewConfigQuiet DEF Targets, Quiet, GetInitialConfig, Return
<1>6. Settled'
  BY DEF Settled, AfterSelfTest, ConfigPending, Targets, Handshake, Command, Data, Empty,
         GetInitialConfig, Receive, Return
<1> QED
  BY <1>1, <1>2, <1>3, <1>4, <1>5, <1>6 DEF KeyboardInv

LEMMA WriteConfigCommandKeeps == KeyboardInv /\ WriteConfigCommand => KeyboardInv'
<1> SUFFICES ASSUME TypeOK, pc \in Steps, DataHasPurpose, Handshake, Targets, Settled,
                    WriteConfigCommand
             PROVE  KeyboardInv'
  BY DEF KeyboardInv
<1>1. TypeOK'
  BY Bytes DEF TypeOK, Targets, WriteConfigCommand, Write, WriteTimeout,
         WriteConfigFailed, Return
<1>2. pc' \in Steps
  BY DEF Steps, TypeOK, Targets, WriteConfigCommand, Write, WriteTimeout,
         WriteConfigFailed, Return
<1>3. DataHasPurpose'
  BY CommandWritten, BufferKept DEF WriteConfigCommand, WriteTimeout
<1>4. Handshake'
  BY DEF Handshake, Settled, AfterSelfTest, ConfigPending, Command, Data, Empty, TypeOK,
         Targets, WriteConfigCommand, Write, WriteTimeout, WriteConfigFailed, Return
<1>5. Targets'
  BY DEF Targets, Settled, AfterSelfTest, TypeOK, WriteConfigCommand, Write, WriteTimeout,
         WriteConfigFailed, Return
<1>6. Settled'
  BY DEF Settled, AfterSelfTest, ConfigPending, Targets, Handshake, Command, Data, Empty,
         TypeOK, WriteConfigCommand, Write, WriteTimeout, WriteConfigFailed, Return
<1> QED
  BY <1>1, <1>2, <1>3, <1>4, <1>5, <1>6 DEF KeyboardInv

LEMMA WriteConfigDataKeeps == KeyboardInv /\ WriteConfigData => KeyboardInv'
<1> SUFFICES ASSUME TypeOK, pc \in Steps, DataHasPurpose, Handshake, Targets, Settled,
                    WriteConfigData
             PROVE  KeyboardInv'
  BY DEF KeyboardInv
<1>1. TypeOK'
  BY Bytes DEF TypeOK, Targets, WriteConfigData, Write, WriteTimeout, WriteConfigFailed,
         Return
<1>2. pc' \in Steps
  BY DEF Steps, TypeOK, Targets, WriteConfigData, Write, WriteTimeout, WriteConfigFailed,
         Return
<1>3. DataHasPurpose'
  <2>1. Write(Data(target)) => awaits = "config"
    BY Buffers DEF Handshake, Write, WriteConfigData
  <2> QED
    BY <2>1, DataWritten, BufferKept DEF WriteConfigData, WriteTimeout
<1>4. Handshake'
  BY DEF Handshake, Settled, AfterSelfTest, ConfigPending, Command, Data, Empty, TypeOK,
         Targets, WriteConfigData, Write, WriteTimeout, WriteConfigFailed, Return
<1>5. Targets'
  BY DEF Targets, Settled, AfterSelfTest, TypeOK, WriteConfigData, Write, WriteTimeout,
         WriteConfigFailed, Return
<1>6. Settled'
  BY DEF Settled, AfterSelfTest, ConfigPending, Targets, Handshake, Command, Data, Empty,
         TypeOK, WriteConfigData, Write, WriteTimeout, WriteConfigFailed, Return
<1> QED
  BY <1>1, <1>2, <1>3, <1>4, <1>5, <1>6 DEF KeyboardInv

LEMMA WriteConfigAskBackKeeps == KeyboardInv /\ WriteConfigAskBack => KeyboardInv'
<1> SUFFICES ASSUME TypeOK, pc \in Steps, DataHasPurpose, Handshake, Targets, Settled,
                    WriteConfigAskBack
             PROVE  KeyboardInv'
  BY DEF KeyboardInv
<1>1. TypeOK'
  BY Bytes DEF TypeOK, Targets, WriteConfigAskBack, Write, WriteTimeout,
         WriteConfigFailed, WriteConfigDone, Return
<1>2. pc' \in Steps
  BY DEF Steps, TypeOK, Targets, WriteConfigAskBack, Write, WriteTimeout,
         WriteConfigFailed, WriteConfigDone, Return
<1>3. DataHasPurpose'
  BY CommandWritten, BufferKept DEF WriteConfigAskBack, WriteTimeout
<1>4. Handshake'
  BY DEF Handshake, Settled, AfterSelfTest, ConfigPending, Command, Data, Empty, TypeOK,
         Targets, WriteConfigAskBack, Write, WriteTimeout, WriteConfigFailed,
         WriteConfigDone, Return
<1>5. Targets'
  BY DEF Targets, Settled, AfterSelfTest, TypeOK, WriteConfigAskBack, Write, WriteTimeout,
         WriteConfigFailed, WriteConfigDone, Return
<1>6. Settled'
  <2>1. CASE Write(Command(KBDCTL_CMD_READ_CONFIG))
    <3>1. config = target
      BY <2>1, Buffers DEF Handshake, Write, WriteConfigAskBack
    <3>2. pc' = "read_back" /\ UNCHANGED <<config, target>>
      BY <2>1 DEF Write, WriteTimeout, WriteConfigAskBack
    <3> QED
      BY <2>1, <3>1, <3>2, CommandWritten DEF Settled, AfterSelfTest
  <2>2. CASE WriteTimeout
    <3>1. writing \in {"new", "old"} => target # TimedOut
      BY QuietIsNoTimeout DEF Targets, Quiet
    <3>2. CASE writing = "new"
      BY <2>2, <3>1, <3>2 DEF Settled, AfterSelfTest, WriteConfigAskBack, Write, WriteTimeout,
           WriteConfigFailed, Return
    <3>3. CASE writing = "old"
      BY <2>2, <3>1, <3>3 DEF Settled, AfterSelfTest, WriteConfigAskBack, Write, WriteTimeout,
           WriteConfigFailed
    <3>4. CASE writing = "port 1"
      BY <2>2, <3>4 DEF Settled, AfterSelfTest, WriteConfigAskBack, Write, WriteTimeout,
           WriteConfigFailed, WriteConfigDone, Return
    <3> QED
      BY <3>2, <3>3, <3>4 DEF Targets, TypeOK, WriteConfigAskBack
  <2> QED
    BY <2>1, <2>2 DEF WriteConfigAskBack
<1> QED
  BY <1>1, <1>2, <1>3, <1>4, <1>5, <1>6 DEF KeyboardInv

LEMMA WriteConfigReadBackKeeps == KeyboardInv /\ WriteConfigReadBack => KeyboardInv'
<1> SUFFICES ASSUME TypeOK, pc \in Steps, DataHasPurpose, Handshake, Targets, Settled,
                    WriteConfigReadBack
             PROVE  KeyboardInv'
  BY DEF KeyboardInv
<1>1. TypeOK'
  BY Bytes DEF TypeOK, Targets, WriteConfigReadBack, Receive, WriteConfigFailed,
         WriteConfigDone, Return
<1>2. pc' \in Steps
  BY DEF Steps, TypeOK, Targets, WriteConfigReadBack, Receive, WriteConfigFailed,
         WriteConfigDone, Return
<1>3. DataHasPurpose'
  BY DEF DataHasPurpose, Handshake, Command, Data, TypeOK, Targets, WriteConfigReadBack,
         Receive, WriteConfigFailed, WriteConfigDone, Return
<1>4. Handshake'
  BY DEF Handshake, Settled, AfterSelfTest, ConfigPending, Command, Data, Empty, TypeOK,
         Targets, WriteConfigReadBack, Receive, WriteConfigFailed, WriteConfigDone, Return
<1>5. Targets'
  BY DEF Targets, Settled, AfterSelfTest, TypeOK, WriteConfigReadBack, Receive,
         WriteConfigFailed, WriteConfigDone, Return
<1>6. Settled'
  BY DEF Settled, AfterSelfTest, ConfigPending, Targets, Handshake, Command, Data, Empty,
         TypeOK, WriteConfigReadBack, Receive, WriteConfigFailed, WriteConfigDone, Return
<1> QED
  BY <1>1, <1>2, <1>3, <1>4, <1>5, <1>6 DEF KeyboardInv

LEMMA AskSelfTestKeeps == KeyboardInv /\ AskSelfTest => KeyboardInv'
<1> SUFFICES ASSUME TypeOK, pc \in Steps, DataHasPurpose, Handshake, Targets, Settled,
                    AskSelfTest
             PROVE  KeyboardInv'
  BY DEF KeyboardInv
<1>1. TypeOK'
  BY Bytes DEF TypeOK, AskSelfTest, Write, WriteTimeout, FallBack
<1>2. pc' \in Steps
  BY DEF Steps, AskSelfTest, Write, WriteTimeout, FallBack
<1>3. DataHasPurpose'
  BY CommandWritten, BufferKept DEF AskSelfTest, WriteTimeout
<1>4. Handshake'
  BY DEF Handshake, Settled, AfterSelfTest, ConfigPending, Command, Data, Empty,
         AskSelfTest, Write, WriteTimeout, FallBack
<1>5. Targets'
  BY DEF Targets, Settled, AfterSelfTest, AskSelfTest, Write, WriteTimeout, FallBack
<1>6. Settled'
  BY DEF Settled, AfterSelfTest, ConfigPending, Targets, Handshake, Command, Data, Empty,
         AskSelfTest, Write, WriteTimeout, FallBack
<1> QED
  BY <1>1, <1>2, <1>3, <1>4, <1>5, <1>6 DEF KeyboardInv

LEMMA GetSelfTestKeeps == KeyboardInv /\ GetSelfTest => KeyboardInv'
<1> SUFFICES ASSUME TypeOK, pc \in Steps, DataHasPurpose, Handshake, Targets, Settled,
                    GetSelfTest
             PROVE  KeyboardInv'
  BY DEF KeyboardInv
<1>1. TypeOK'
  BY Bytes DEF TypeOK, GetSelfTest, Receive, FallBack
<1>2. pc' \in Steps
  BY DEF Steps, GetSelfTest, Receive, FallBack
<1>3. DataHasPurpose'
  BY DEF DataHasPurpose, Handshake, Command, Data, GetSelfTest, Receive, FallBack
<1>4. Handshake'
  BY DEF Handshake, Settled, AfterSelfTest, ConfigPending, Command, Data, Empty,
         GetSelfTest, Receive, FallBack
<1>5. Targets'
  BY DEF Targets, Settled, AfterSelfTest, GetSelfTest, Receive, FallBack
<1>6. Settled'
  BY DEF Settled, AfterSelfTest, ConfigPending, Targets, Handshake, Command, Data, Empty,
         GetSelfTest, Receive, FallBack
<1> QED
  BY <1>1, <1>2, <1>3, <1>4, <1>5, <1>6 DEF KeyboardInv

LEMMA AskA20Keeps == KeyboardInv /\ AskA20 => KeyboardInv'
<1> SUFFICES ASSUME TypeOK, pc \in Steps, DataHasPurpose, Handshake, Targets, Settled,
                    AskA20
             PROVE  KeyboardInv'
  BY DEF KeyboardInv
<1>1. TypeOK'
  BY Bytes DEF TypeOK, AskA20, Write, WriteTimeout, Initialised, Return
<1>2. pc' \in Steps
  BY DEF Steps, AskA20, Write, WriteTimeout, Initialised, Return
<1>3. DataHasPurpose'
  BY CommandWritten, BufferKept DEF AskA20, WriteTimeout
<1>4. Handshake'
  BY DEF Handshake, Settled, AfterSelfTest, ConfigPending, Command, Data, Empty, AskA20,
         Write, WriteTimeout, Initialised, Return
<1>5. Targets'
  BY DEF Targets, Settled, AfterSelfTest, AskA20, Write, WriteTimeout, Initialised, Return
<1>6. Settled'
  <2>1. AfterSelfTest /\ writing = "new" /\ config = target /\ ~ConfigPending
    BY DEF Settled, AfterSelfTest, AskA20
  <2>2. ~ConfigPending'
    BY <2>1, CommandWritten, BufferKept DEF AskA20, WriteTimeout
  <2>3. Initialised(TRUE) \/ Initialised(FALSE) => status'.current_configuration = target
    BY DEF Initialised, TypeOK
  <2> QED
    BY <2>1, <2>2, <2>3 DEF Settled, AfterSelfTest, AskA20, Initialised, Return
<1> QED
  BY <1>1, <1>2, <1>3, <1>4, <1>5, <1>6 DEF KeyboardInv

LEMMA SendA20Keeps == KeyboardInv /\ SendA20 => KeyboardInv'
<1> SUFFICES ASSUME TypeOK, pc \in Steps, DataHasPurpose, Handshake, Targets, Settled,
                    SendA20
             PROVE  KeyboardInv'
  BY DEF KeyboardInv
<1>1. TypeOK'
  BY Bytes DEF TypeOK, SendA20, Write, WriteTimeout, Initialised, Return
<1>2. pc' \in Steps
  BY DEF Steps, SendA20, Write, WriteTimeout, Initialised, Return
<1>3. DataHasPurpose'
  <2>1. Write(Data(KBDCTL_CMD_ENABLE_A20)) => awaits = "output"
    BY Buffers DEF Handshake, Write, SendA20
  <2> QED
    BY <2>1, DataWritten, BufferKept DEF SendA20, WriteTimeout
<1>4. Handshake'
  BY DEF Handshake, Settled, AfterSelfTest, ConfigPending, Command, Data, Empty, SendA20,
         Write, WriteTimeout, Initialised, Return
<1>5. Targets'
  BY DEF Targets, Settled, AfterSelfTest, SendA20, Write, WriteTimeout, Initialised,
         Return
<1>6. Settled'
  <2>1. AfterSelfTest /\ writing = "new" /\ config = target /\ ~ConfigPending
    BY DEF Settled, AfterSelfTest, SendA20
  <2>2. ~ConfigPending'
    <3>1. Write(Data(KBDCTL_CMD_ENABLE_A20)) => awaits = "output"
      BY Buffers DEF Handshake, Write, SendA20
    <3> QED
      BY <2>1, <3>1, DataWritten, BufferKept DEF SendA20, WriteTimeout
  <2>3. Initialised(TRUE) \/ Initialised(FALSE) => status'.current_configuration = target
    BY DEF Initialised, TypeOK
  <2> QED
    BY <2>1, <2>2, <2>3 DEF Settled, AfterSelfTest, SendA20, Initialised, Return
<1> QED
  BY <1>1, <1>2, <1>3, <1>4, <1>5, <1>6 DEF KeyboardInv

LEMMA CallEnableDevicesKeeps == KeyboardInv /\ CallEnableDevices => KeyboardInv'
<1> SUFFICES ASSUME TypeOK, pc \in Steps, DataHasPurpose, Handshake, Targets, Settled,
                    CallEnableDevices
             PROVE  KeyboardInv'
  BY DEF KeyboardInv
<1>1. TypeOK'
  BY Bytes DEF TypeOK, CallEnableDevices, Write, WriteTimeout, Return
<1>2. pc' \in Steps
  BY DEF Steps, CallEnableDevices, Write, WriteTimeout, Return
<1>3. DataHasPurpose'
  BY CommandWritten, BufferKept DEF CallEnableDevices, WriteTimeout
<1>4. Handshake'
  BY DEF Handshake, Settled, AfterSelfTest, ConfigPending, Command, Data, Empty,
         CallEnableDevices, Write, WriteTimeout, Return
<1>5. Targets'
  BY DEF Targets, Settled, AfterSelfTest, CallEnableDevices, Write, WriteTimeout, Return
<1>6. Settled'
  BY DEF Settled, AfterSelfTest, ConfigPending, Targets, Handshake, Command, Data, Empty,
         CallEnableDevices, Write, WriteTimeout, Return
<1> QED
  BY <1>1, <1>2, <1>3, <1>4, <1>5, <1>6 DEF KeyboardInv

LEMMA AskPortTestKeeps == KeyboardInv /\ AskPortTest => KeyboardInv'
<1> SUFFICES ASSUME TypeOK, pc \in Steps, DataHasPurpose, Handshake, Targets, Settled,
                    AskPortTest
             PROVE  KeyboardInv'
  BY DEF KeyboardInv
<1>1. TypeOK'
  BY Bytes DEF TypeOK, AskPortTest, Write, WriteTimeout, Return
<1>2. pc' \in Steps
  BY DEF Steps, AskPortTest, Write, WriteTimeout, Return
<1>3. DataHasPurpose'
  BY CommandWritten, BufferKept DEF AskPortTest, WriteTimeout
<1>4. Handshake'
  BY DEF Handshake, Settled, AfterSelfTest, ConfigPending, Command, Data, Empty,
         AskPortTest, Write, WriteTimeout, Return
<1>5. Targets'
  BY DEF Targets, Settled, AfterSelfTest, AskPortTest, Write, WriteTimeout, Return
<1>6. Settled'
  BY DEF Settled, AfterSelfTest, ConfigPending, Targets, Handshake, Command, Data, Empty,
         AskPortTest, Write, WriteTimeout, Return
<1> QED
  BY <1>1, <1>2, <1>3, <1>4, <1>5, <1>6 DEF KeyboardInv

LEMMA GetPortTestKeeps == KeyboardInv /\ GetPortTest => KeyboardInv'
<1> SUFFICES ASSUME TypeOK, pc \in Steps, DataHasPurpose, Handshake, Targets, Settled,
                    GetPortTest
             PROVE  KeyboardInv'
  BY DEF KeyboardInv
<1>1. TypeOK'
  BY Bytes DEF TypeOK, GetPortTest, Receive, Return
<1>2. pc' \in Steps
  BY DEF Steps, GetPortTest, Receive, Return
<1>3. DataHasPurpose'
  BY DEF DataHasPurpose, Handshake, Command, Data, GetPortTest, Receive, Return
<1>4. Handshake'
  BY DEF Handshake, Settled, AfterSelfTest, ConfigPending, Command, Data, Empty,
         GetPortTest, Receive, Return
<1>5. Targets'
  BY DEF Targets, Settled, AfterSelfTest, GetPortTest, Receive, Return
<1>6. Settled'
  BY DEF Settled, AfterSelfTest, ConfigPending, Targets, Handshake, Command, Data, Empty,
         GetPortTest, Receive, Return
<1> QED
  BY <1>1, <1>2, <1>3, <1>4, <1>5, <1>6 DEF KeyboardInv

LEMMA AskPortConfigKeeps == KeyboardInv /\ AskPortConfig => KeyboardInv'
<1> SUFFICES ASSUME TypeOK, pc \in Steps, DataHasPurpose, Handshake, Targets, Settled,
                    AskPortConfig
             PROVE  KeyboardInv'
  BY DEF KeyboardInv
<1>1. TypeOK'
  BY Bytes, InterruptByte DEF TypeOK, AskPortConfig, Write, WriteTimeout, EnableInterrupt
<1>2. pc' \in Steps
  BY DEF Steps, AskPortConfig, Write, WriteTimeout, EnableInterrupt
<1>3. DataHasPurpose'
  BY CommandWritten, BufferKept DEF AskPortConfig, WriteTimeout
<1>4. Handshake'
  BY DEF Handshake, Settled, AfterSelfTest, ConfigPending, Command, Data, Empty,
         AskPortConfig, Write, WriteTimeout, EnableInterrupt
<1>5. Targets'
  BY DEF Targets, Settled, AfterSelfTest, AskPortConfig, Write, WriteTimeout,
         EnableInterrupt
<1>6. Settled'
  BY DEF Settled, AfterSelfTest, ConfigPending, Targets, Handshake, Command, Data, Empty,
         AskPortConfig, Write, WriteTimeout, EnableInterrupt
<1> QED
  BY <1>1, <1>2, <1>3, <1>4, <1>5, <1>6 DEF KeyboardInv

LEMMA GetPortConfigKeeps == KeyboardInv /\ GetPortConfig => KeyboardInv'
<1> SUFFICES ASSUME TypeOK, pc \in Steps, DataHasPurpose, Handshake, Targets, Settled,
                    GetPortConfig
             PROVE  KeyboardInv'
  BY DEF KeyboardInv
<1>1. TypeOK'
  BY Bytes, InterruptByte DEF TypeOK, GetPortConfig, Receive, EnableInterrupt
<1>2. pc' \in Steps
  BY DEF Steps, GetPortConfig, Receive, EnableInterrupt
<1>3. DataHasPurpose'
  BY DEF DataHasPurpose, Handshake, Command, Data, GetPortConfig, Receive, EnableInterrupt
<1>4. Handshake'
  BY DEF Handshake, Settled, AfterSelfTest, ConfigPending, Command, Data, Empty,
         GetPortConfig, Receive, EnableInterrupt
<1>5. Targets'
  BY DEF Targets, Settled, AfterSelfTest, GetPortConfig, Receive, EnableInterrupt
<1>6. Settled'
  BY DEF Settled, AfterSelfTest, ConfigPending, Targets, Handshake, Command, Data, Empty,
         GetPortConfig, Receive, EnableInterrupt
<1> QED
  BY <1>1, <1>2, <1>3, <1>4, <1>5, <1>6 DEF KeyboardInv

-----------------------------------------------------------------------------
(* The inductive invariant: the handshake of two-byte commands, what        *)
(* kbdctl_write_config() is writing, and that nothing more is on its way to *)
(* the configuration once it is reported.                                   *)
THEOREM KeyboardInvariant == Spec => []KeyboardInv
<1>1. KeyboardInv /\ [Next]_vars => KeyboardInv'
  BY TakeCommandKeeps, TakeDataKeeps, KeyPressedKeeps, AskInitialConfigKeeps,
     GetInitialConfigKeeps, WriteConfigCommandKeeps, WriteConfigDataKeeps,
     WriteConfigAskBackKeeps, WriteConfigReadBackKeeps, AskSelfTestKeeps, GetSelfTestKeeps,
     AskA20Keeps, SendA20Keeps, CallEnableDevicesKeeps, AskPortTestKeeps, GetPortTestKeeps,
     AskPortConfigKeeps, GetPortConfigKeeps, NothingMoves
  DEF Next, Controller, Driver, Halted, Rest
<1> QED
  BY Starts, <1>1, PTL DEF Spec

(* Bytes stay bytes, however calls and answers interleave.                  *)
THEOREM KeyboardTypeCorrect == Spec => []TypeOK
<1>1. KeyboardInv => TypeOK
  BY DEF KeyboardInv
<1> QED
  BY KeyboardInvariant, <1>1, PTL

(* The configuration kbdctl_set_default_init() reports is the one the       *)
(* controller has, for every configuration it had before and every byte the *)
(* keyboard may send in between.                                            *)
THEOREM ConfigReportedRight == Spec => []ConfigAsReported
<1>1. KeyboardInv => ConfigAsReported
  BY DEF KeyboardInv, Settled, Targets, AfterSelfTest, ConfigAsReported
<1> QED
  BY KeyboardInvariant, <1>1, PTL

(* Every data byte the driver writes is for a register the controller was   *)
(* told of.                                                                 *)
THEOREM DataAlwaysHasPurpose == Spec => []DataHasPurpose
<1>1. KeyboardInv => DataHasPurpose
  BY DEF KeyboardInv
<1> QED
  BY KeyboardInvariant, <1>1, PTL
==============================================================================
