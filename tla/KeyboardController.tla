------------------------- MODULE KeyboardController -------------------------
(***************************************************************************)
(* The driver of the 8042 keyboard controller (src/drivers/kbdctl/8042.c)  *)
(* against a controller that works at its own pace and may hold a byte     *)
(* from the keyboard when the driver expects an answer.                    *)
(*                                                                         *)
(* A byte is the set of the numbers of its 1 bits. Every poll of the       *)
(* status register either finds it ready or gives up after 5000 reads; how *)
(* many reads the controller takes is not modelled, so a poll may time out *)
(* whenever the controller is not ready.                                   *)
(***************************************************************************)
EXTENDS Integers

CONSTANTS InitialConfigs,   \* configuration bytes the controller may hold at reset
          Scancodes         \* bytes the keyboard may send

Byte == SUBSET (0..7)

(* include/drivers/kbdctl/8042.h *)
KBDCTL_CTL_P1_IE           == 0
KBDCTL_CTL_P2_IE           == 1
KBDCTL_CTL_SF              == 2
KBDCTL_CTL_PS2_CLKE        == 5
KBDCTL_CTL_PS1_TE          == 6
KBDCTL_DEFAULT_CONFIG_MASK == {2, 3, 4, 5, 7}            \* 0xBC
KBDCTL_SELFTEST_SUCCESS    == {0, 2, 4, 6}               \* 0x55
KBDCTL_STAT_FAIL           == {2, 3, 4, 5, 6, 7}         \* 0xFC
KBDCTL_CMD_ENABLE_A20      == {0, 1, 2, 3, 4, 6, 7}      \* 0xDF
KBDCTL_CMD_READ_CONFIG     == {5}                        \* 0x20
KBDCTL_CMD_WRITE_CONFIG    == {5, 6}                     \* 0x60
KBDCTL_CMD_TEST_CTL        == {1, 3, 5, 7}               \* 0xAA
KBDCTL_CMD_TEST_P1         == {0, 1, 3, 5, 7}            \* 0xAB
KBDCTL_CMD_ENABLE_P1       == {1, 2, 3, 5, 7}            \* 0xAE
KBDCTL_CMD_WRITENEXT_CTL_OUT == {0, 4, 6, 7}             \* 0xD1
KBDCTL_CTL_OUT_A20         == 1
TimedOut                   == 0..7                       \* 0xff

ASSUME KeyboardAssumption == InitialConfigs \subseteq Byte /\ Scancodes \subseteq Byte

(* an empty buffer *)
Empty == {}

VARIABLES
  inbuf,      \* controller: what the driver wrote last, {} once it is taken
  outbuf,     \* controller: the byte to be read, {} if there is none
  config,     \* controller: the configuration byte
  awaits,     \* controller: what the next data byte is for
  a20,        \* controller: the A20 gate of its output port
  pc,         \* driver: where it is
  writing,    \* driver: which of the calls of kbdctl_write_config() is running
  target,     \* driver: the configuration byte it writes
  initial,    \* driver: initial_config
  status,     \* keyboard_controller_status
  result      \* what the last call returned

controller == <<inbuf, outbuf, config, awaits, a20>>
driver     == <<pc, writing, target, initial, status, result>>
vars       == <<controller, driver>>

Command(c) == {[port |-> "command", value |-> c]}
Data(b)    == {[port |-> "data", value |-> b]}

Init ==
  /\ inbuf = Empty /\ outbuf \in {Empty} \cup {{b} : b \in Scancodes}
  /\ config \in InitialConfigs
  /\ awaits = "none" /\ a20 = FALSE
  /\ pc = "start" /\ writing = "none" /\ target = {} /\ initial = {}
  /\ status = [dual_channel |-> FALSE, current_configuration |-> {},
               a20line_enabled |-> FALSE]
  /\ result = "none"

-----------------------------------------------------------------------------
(* The controller. An answer waits for the output buffer to be read.       *)

Answers(c) ==
  CASE c = KBDCTL_CMD_READ_CONFIG -> {{config}}
    [] c = KBDCTL_CMD_TEST_CTL    -> {{KBDCTL_SELFTEST_SUCCESS}, {KBDCTL_STAT_FAIL}}
    [] c = KBDCTL_CMD_TEST_P1     -> {{{}}, {KBDCTL_STAT_FAIL}}
    [] OTHER                      -> {Empty}

TakeCommand ==
  /\ \E c \in inbuf : /\ c.port = "command"
                      /\ \E answer \in Answers(c.value) :
                           /\ answer = Empty \/ outbuf = Empty
                           /\ outbuf' = outbuf \cup answer
                      /\ awaits' = CASE c.value = KBDCTL_CMD_WRITE_CONFIG      -> "config"
                                     [] c.value = KBDCTL_CMD_WRITENEXT_CTL_OUT -> "output"
                                     [] OTHER                                  -> "none"
  /\ inbuf' = Empty
  /\ UNCHANGED <<config, a20, driver>>

TakeData ==
  /\ \E d \in inbuf : /\ d.port = "data"
                      /\ config' = IF awaits = "config" THEN d.value ELSE config
                      /\ a20' = IF awaits = "output" THEN KBDCTL_CTL_OUT_A20 \in d.value ELSE a20
  /\ awaits' = "none" /\ inbuf' = Empty
  /\ UNCHANGED <<outbuf, driver>>

KeyPressed ==
  /\ outbuf = Empty
  /\ \E b \in Scancodes : outbuf' = {b}
  /\ UNCHANGED <<inbuf, config, awaits, a20, driver>>

Controller == TakeCommand \/ TakeData

-----------------------------------------------------------------------------
(* Mutant: the byte is written without a look at the status register. *)
WriteUnpolled(byte) == inbuf' = byte

(* kbdctl_send_cmd(), kbdctl_send_data_poll() once the input buffer is empty *)
Write(byte) == inbuf = Empty /\ inbuf' = byte

(* Mutant: the poll has no bound. *)
NeverGivesUp == FALSE

(* kbdctl_ctrl_rdy(WAITFOR_WRITE) gave up *)
WriteTimeout == inbuf # Empty /\ UNCHANGED inbuf

(* kbdctl_recv_data_poll(): the byte it returns *)
Receive(byte) ==
  /\ IF outbuf = Empty THEN byte = TimedOut ELSE outbuf = {byte}
  /\ outbuf' = Empty

Return(r) == pc' = "idle" /\ result' = r

(* kbdctl_set_default_init(): kbdctl_read_config() *)
AskInitialConfig ==
  /\ pc = "start"
  /\ \/ Write(Command(KBDCTL_CMD_READ_CONFIG)) /\ pc' = "get_initial" /\ UNCHANGED result
     \/ WriteTimeout /\ Return("unknown")
  /\ UNCHANGED <<outbuf, config, awaits, a20, writing, target, initial, status>>

(* Mutant: a constant that does not fit the byte. *)
NewConfigWide(b) == (b \cap KBDCTL_DEFAULT_CONFIG_MASK) \cup {KBDCTL_CTL_SF, 8}

(* Mutant: the mask is applied to nothing but the translation bit. *)
InterruptsKept(b) == (b \ {KBDCTL_CTL_PS1_TE}) \cup {KBDCTL_CTL_SF}

(* new_config; the interrupt bits are cleared by the mask already *)
NewConfig(b) ==
  ((b \cap KBDCTL_DEFAULT_CONFIG_MASK) \ {KBDCTL_CTL_P1_IE, KBDCTL_CTL_P2_IE})
     \cup {KBDCTL_CTL_SF}

GetInitialConfig ==
  /\ pc = "get_initial"
  /\ \E b \in Byte :
       /\ Receive(b)
       /\ IF b = TimedOut
            THEN Return("unknown") /\ UNCHANGED <<writing, target, initial>>
            ELSE /\ initial' = b /\ target' = NewConfig(b) /\ writing' = "new"
                 /\ pc' = "write_config" /\ UNCHANGED result
  /\ UNCHANGED <<inbuf, config, awaits, a20, status>>

(* kbdctl_write_config(): what its three callers do with the result *)
WriteConfigFailed ==
  CASE writing = "new"    -> Return("faulty")
    [] writing = "old"    -> pc' = "panic" /\ UNCHANGED result
    [] writing = "port 1" -> Return("one device")

WriteConfigDone ==
  CASE writing = "new"    -> pc' = "self_test" /\ UNCHANGED result
    [] writing = "old"    -> Return("faulty")
    [] writing = "port 1" -> Return("one device")

WriteConfigCommand ==
  /\ pc = "write_config"
  /\ \/ Write(Command(KBDCTL_CMD_WRITE_CONFIG)) /\ pc' = "write_data" /\ UNCHANGED result
     \/ WriteTimeout /\ WriteConfigFailed
  /\ UNCHANGED <<outbuf, config, awaits, a20, writing, target, initial, status>>

WriteConfigData ==
  /\ pc = "write_data"
  /\ \/ Write(Data(target)) /\ pc' = "ask_back" /\ UNCHANGED result
     \/ WriteTimeout /\ WriteConfigFailed
  /\ UNCHANGED <<outbuf, config, awaits, a20, writing, target, initial, status>>

WriteConfigAskBack ==
  /\ pc = "ask_back"
  /\ \/ Write(Command(KBDCTL_CMD_READ_CONFIG)) /\ pc' = "read_back" /\ UNCHANGED result
     \/ WriteTimeout /\ IF target = TimedOut THEN WriteConfigDone ELSE WriteConfigFailed
  /\ UNCHANGED <<outbuf, config, awaits, a20, writing, target, initial, status>>

WriteConfigReadBack ==
  /\ pc = "read_back"
  /\ \E b \in Byte :
       Receive(b) /\ IF b = target THEN WriteConfigDone ELSE WriteConfigFailed
  /\ UNCHANGED <<inbuf, config, awaits, a20, writing, target, initial, status>>

(* the configuration that was read is written back *)
FallBack == writing' = "old" /\ target' = initial /\ pc' = "write_config"

(* kbdctl_do_self_test() *)
AskSelfTest ==
  /\ pc = "self_test"
  /\ \/ Write(Command(KBDCTL_CMD_TEST_CTL)) /\ pc' = "self_test_result" /\ UNCHANGED <<writing, target>>
     \/ WriteTimeout /\ FallBack
  /\ UNCHANGED <<outbuf, config, awaits, a20, initial, status, result>>

GetSelfTest ==
  /\ pc = "self_test_result"
  /\ \E b \in Byte :
       /\ Receive(b)
       /\ IF b = KBDCTL_SELFTEST_SUCCESS
            THEN /\ pc' = "a20"
                 /\ status' = [status EXCEPT !.dual_channel = @ \/ KBDCTL_CTL_PS2_CLKE \in initial]
                 /\ UNCHANGED <<writing, target>>
            ELSE FallBack /\ UNCHANGED status
  /\ UNCHANGED <<inbuf, config, awaits, a20, initial, result>>

(* the end of kbdctl_set_default_init() *)
Initialised(a20line) ==
  /\ status' = [status EXCEPT !.a20line_enabled = a20line, !.current_configuration = target]
  /\ Return("initialised")

(* enable_a20line() *)
AskA20 ==
  /\ pc = "a20"
  /\ \/ Write(Command(KBDCTL_CMD_WRITENEXT_CTL_OUT)) /\ pc' = "a20_data" /\ UNCHANGED <<status, result>>
     \/ WriteTimeout /\ Initialised(FALSE)
  /\ UNCHANGED <<outbuf, config, awaits, a20, writing, target, initial>>

(* Mutant: the command goes out without its data byte. *)
A20ByteForgotten ==
  /\ pc = "a20_data"
  /\ UNCHANGED inbuf /\ Initialised(TRUE)
  /\ UNCHANGED <<outbuf, config, awaits, a20, writing, target, initial>>

SendA20 ==
  /\ pc = "a20_data"
  /\ \/ Write(Data(KBDCTL_CMD_ENABLE_A20)) /\ Initialised(TRUE)
     \/ WriteTimeout /\ Initialised(FALSE)
  /\ UNCHANGED <<outbuf, config, awaits, a20, writing, target, initial>>

-----------------------------------------------------------------------------
(* kbdctl_enable_devices(), any number of times. It looks for dual_channel *)
(* in dev->device_data, which nothing ever fills: port 2 is never enabled. *)
CallEnableDevices ==
  /\ pc = "idle" /\ result \in {"initialised", "no device", "one device"}
  /\ \/ Write(Command(KBDCTL_CMD_ENABLE_P1)) /\ pc' = "test_p1" /\ UNCHANGED result
     \/ WriteTimeout /\ Return("no device")
  /\ UNCHANGED <<outbuf, config, awaits, a20, writing, target, initial, status>>

(* kbdctl_test_device() *)
AskPortTest ==
  /\ pc = "test_p1"
  /\ \/ Write(Command(KBDCTL_CMD_TEST_P1)) /\ pc' = "test_p1_result" /\ UNCHANGED result
     \/ WriteTimeout /\ Return("no device")
  /\ UNCHANGED <<outbuf, config, awaits, a20, writing, target, initial, status>>

GetPortTest ==
  /\ pc = "test_p1_result"
  /\ \E b \in Byte :
       Receive(b) /\ IF b # {} THEN Return("no device") ELSE pc' = "port_config" /\ UNCHANGED result
  /\ UNCHANGED <<inbuf, config, awaits, a20, writing, target, initial, status>>

(* conf |= KBDCTL_CTL_P1_IE, also when kbdctl_read_config() gave up *)
EnableInterrupt(conf) ==
  /\ writing' = "port 1" /\ target' = conf \cup {KBDCTL_CTL_P1_IE} /\ pc' = "write_config"

AskPortConfig ==
  /\ pc = "port_config"
  /\ \/ Write(Command(KBDCTL_CMD_READ_CONFIG)) /\ pc' = "get_port_config" /\ UNCHANGED <<writing, target>>
     \/ WriteTimeout /\ EnableInterrupt(TimedOut)
  /\ UNCHANGED <<outbuf, config, awaits, a20, initial, status, result>>

GetPortConfig ==
  /\ pc = "get_port_config"
  /\ \E b \in Byte : Receive(b) /\ EnableInterrupt(b)
  /\ UNCHANGED <<inbuf, config, awaits, a20, initial, status, result>>

(* panic() hangs *)
Halted == pc = "panic" /\ UNCHANGED vars

(* no call is made; init failed, or the firmware goes on *)
Rest == pc = "idle" /\ UNCHANGED vars

Driver ==
  \/ AskInitialConfig \/ GetInitialConfig
  \/ WriteConfigCommand \/ WriteConfigData \/ WriteConfigAskBack \/ WriteConfigReadBack
  \/ AskSelfTest \/ GetSelfTest \/ AskA20 \/ SendA20
  \/ AskPortTest \/ GetPortTest \/ AskPortConfig \/ GetPortConfig

Next == Controller \/ KeyPressed \/ Driver \/ CallEnableDevices \/ Halted \/ Rest

(* The CPU runs a call on; the controller takes what is written to it, but *)
(* not before an answer of its own has been read.                          *)
Spec == Init /\ [][Next]_vars /\ WF_vars(Driver) /\ WF_vars(Controller)

-----------------------------------------------------------------------------
(* Bytes stay bytes, and the driver knows what it is doing.                *)
TypeOK ==
  /\ inbuf \in {Empty} \cup {Command(c) : c \in Byte} \cup {Data(b) : b \in Byte}
  /\ outbuf \in {Empty} \cup {{b} : b \in Byte} /\ config \in Byte
  /\ awaits \in {"none", "config", "output"} /\ a20 \in BOOLEAN
  /\ writing \in {"none", "new", "old", "port 1"} /\ target \in Byte /\ initial \in Byte
  /\ status \in [dual_channel : BOOLEAN, current_configuration : Byte,
                 a20line_enabled : BOOLEAN]
  /\ result \in {"none", "unknown", "faulty", "initialised", "no device", "one device"}

(* What kbdctl_set_default_init() reports is what the controller is set    *)
(* to, whatever bytes the keyboard sent in between and however slow the    *)
(* controller is: after "initialised" the recorded configuration, without  *)
(* interrupts or translation; after a failed self-test the one before.     *)
ConfigAsReported ==
  pc = "idle" =>
    /\ result = "initialised" =>
         /\ config = status.current_configuration
         /\ {KBDCTL_CTL_P1_IE, KBDCTL_CTL_P2_IE, KBDCTL_CTL_PS1_TE} \cap config = {}
    /\ result = "faulty" /\ writing = "old" => config = initial

(* The driver never talks past the controller: whatever data byte it takes *)
(* is for a register it was told of.                                       *)
DataHasPurpose == \A d \in inbuf : d.port = "data" => awaits # "none"

(* A20 reported as enabled is enabled in the end (enable_a20line() returns *)
(* while the byte may still lie in the input buffer).                      *)
A20Follows == status.a20line_enabled ~> a20

(* Every call returns or panics, also with a dead controller.              *)
CallsReturn == (pc # "idle") ~> (pc \in {"idle", "panic"})

-----------------------------------------------------------------------------
(* What the invariants rest on: where the driver is in the protocol, what   *)
(* it put into the input buffer last, and what the controller makes of it.  *)

Steps == {"start", "get_initial", "write_config", "write_data", "ask_back", "read_back",
          "self_test", "self_test_result", "a20", "a20_data", "idle", "panic",
          "test_p1", "test_p1_result", "port_config", "get_port_config"}

(* a data byte for the configuration is still to be taken *)
ConfigPending == awaits = "config" /\ \E d \in inbuf : d.port = "data"

(* the second byte of a command goes out when the first one was taken, and  *)
(* finds the controller waiting for it                                      *)
Handshake ==
  /\ pc = "write_data" =>
       inbuf = Command(KBDCTL_CMD_WRITE_CONFIG) \/ (inbuf = Empty /\ awaits = "config")
  /\ pc = "a20_data" =>
       inbuf = Command(KBDCTL_CMD_WRITENEXT_CTL_OUT) \/ (inbuf = Empty /\ awaits = "output")
  /\ pc = "ask_back" =>
       (inbuf = Data(target) /\ awaits = "config") \/ (inbuf = Empty /\ config = target)

(* target is what the running kbdctl_write_config() writes *)
Targets ==
  /\ pc \in {"write_config", "write_data", "ask_back", "read_back"} => writing # "none"
  /\ writing = "new" => {KBDCTL_CTL_P1_IE, KBDCTL_CTL_P2_IE, KBDCTL_CTL_PS1_TE} \cap target = {}
  /\ writing = "old" => target = initial
  /\ writing \in {"new", "old"} => initial # TimedOut

AfterSelfTest == pc \in {"self_test", "self_test_result", "a20", "a20_data"}

(* the configuration is written, and nothing more is on its way *)
Settled ==
  /\ AfterSelfTest \/ (pc = "idle" /\ result = "initialised") => writing = "new"
  /\ \/ AfterSelfTest \/ pc = "read_back"
     \/ pc = "idle" /\ (result = "initialised" \/ (result = "faulty" /\ writing = "old"))
     => config = target /\ ~ConfigPending
  /\ pc = "idle" /\ result = "initialised" => status.current_configuration = target

KeyboardInv ==
  /\ TypeOK /\ pc \in Steps
  /\ DataHasPurpose /\ Handshake /\ Targets /\ Settled
=============================================================================
