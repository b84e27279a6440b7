------------------------------- MODULE Console -------------------------------
(***************************************************************************)
(* What the firmware prints: blog() and blogf() (console.c) with the       *)
(* conversions of stdlib/itoa.c, the register dump of panic(), and below   *)
(* them the serial driver (drivers/serial), which polls the UART for room  *)
(* before each byte. Until switch_output_device() has run there is no      *)
(* console, and what is printed is dropped.                                *)
(*                                                                         *)
(* A message is a sequence of items; the driver sees its format string and *)
(* its arguments, the properties compare the line with its text. Only      *)
(* numbers below 2^31 are printed: blogf() takes an int, and larger ones   *)
(* come out with their sign extended.                                      *)
(***************************************************************************)
EXTENDS Integers, Sequences, SequencesExt

CONSTANTS Programs,    \* what is printed, one message after the other
          IirValues,   \* what the UART's interrupt identification may read as
          Polls        \* reads of the line status in one wait, 50000

(* characters *)
NUL == 0
NL == 10
CR == 13
SPACE == 32
PERCENT == 37
ZERO == 48
NINE == 57
LETTER_A == 65
BACKSLASH == 92
CONVERSION == [c |-> 99, d |-> 100, s |-> 115, x |-> 120]

(* Nothing enables an interrupt of the UART, so its identification says     *)
(* that none is pending, and what its FIFO is: none, unusable, 16, 64 bytes *)
NothingPending == {1, 129, 193, 225}

ASSUME ConsoleAssumption == Polls \in Nat \ {0} /\ IirValues \subseteq NothingPending

(* the items; width 0 stands for none *)
Text(t)      == [kind |-> "text", arg |-> t, width |-> 0]
Str(t)       == [kind |-> "s", arg |-> t, width |-> 0]
Chr(c)       == [kind |-> "c", arg |-> c, width |-> 0]
Hex(n, w)    == [kind |-> "x", arg |-> n, width |-> w]
Dec(n)       == [kind |-> "d", arg |-> n, width |-> 0]

(* a message; the dump fills up the column of a register                   *)
Message(items)  == [items |-> items, register |-> FALSE]
Register(items) == [items |-> items, register |-> TRUE]

(* What is printed: characters in C strings, and numbers in columns that    *)
(* itoa.c has digits for, decimal ones below 16                             *)
Characters == 1..127
Widths     == 0..16
MAX_INT    == 2147483647
Items ==
  [kind : {"text", "s"}, arg : Seq(Characters), width : {0}]
    \cup [kind : {"c"}, arg : Characters, width : {0}]
    \cup [kind : {"x"}, arg : 0..MAX_INT, width : Widths]
    \cup [kind : {"d"}, arg : 0..15, width : Widths]

(* "%s=%016x " with the name of a register, of two letters or three         *)
IsRegister(items) ==
  /\ Len(items) = 4
  /\ items[1].kind = "s" /\ Len(items[1].arg) \in {2, 3}
  /\ items[2] = Text(<< 61 >>)
  /\ items[3].kind = "x" /\ items[3].width = 16
  /\ items[4] = Text(<< SPACE >>)

Messages == {m \in [items : Seq(Items), register : BOOLEAN] : m.register => IsRegister(m.items)}

ASSUME ProgramsAssumption == Programs \subseteq Seq(Messages)

VARIABLES
  program,    \* the messages
  message,    \* the number of the one that is printed
  enabled,    \* default_console_device.enabled
  opened,     \* the message before which the console was switched on
  pc,
  format,     \* the place in the format string
  arg,        \* the arguments used up
  escaped,
  written,    \* what vfblogf() will return
  text,       \* msg of serial_tx()
  i,          \* and where it is in it
  returned,   \* the carriage return before this newline was sent
  polls,      \* reads left of this wait
  holding,    \* the UART's transmitter: a byte, or none
  line,       \* what it sent
  lcr,        \* the UART's line control
  stray       \* the ports written that are not the UART's

printer == <<message, opened, format, arg, escaped, written>>
tx      == <<text, i, returned, polls>>
uart    == <<holding, line>>
setup   == <<enabled, lcr, stray>>
vars    == <<program, printer, pc, tx, uart, setup>>

Init ==
  /\ program \in Programs
  /\ message = 1 /\ enabled = FALSE /\ opened = 1 /\ pc = "call"
  /\ format = 1 /\ arg = 0 /\ escaped = FALSE /\ written = 0
  /\ text = << >> /\ i = 1 /\ returned = FALSE /\ polls = Polls
  /\ holding = << >> /\ line = << >> /\ lcr = -1 /\ stray = {}

-----------------------------------------------------------------------------
(* Numbers: stdlib/itoa.c and bputint()                                     *)

DIGITS == 16

(* the number after k turns of d >>= 4                                      *)
Shifted(n) ==
  LET d[k \in 0..DIGITS] == IF k = 0 THEN n ELSE d[k - 1] \div 16 IN d

Nibble(n, k) == Shifted(n)[k] % 16

HexDigit(v) == IF v < 10 THEN ZERO + v ELSE LETTER_A + v - 10

itoah(n) == [k \in 1..DIGITS |-> HexDigit(Nibble(n, DIGITS - k))]

(* nibble by nibble with a carry: decimal only below 16                     *)
itoa(n) ==
  LET carry[k \in 0..DIGITS] ==
        IF k = 0 THEN 0 ELSE IF Nibble(n, k - 1) + carry[k - 1] > 9 THEN 1 ELSE 0
  IN [k \in 1..DIGITS |-> ZERO + Nibble(n, DIGITS - k) + carry[DIGITS - k]
                               - 10 * carry[DIGITS - k + 1]]

(* the first digit that counts, the last one if all are 0                   *)
FirstDigit(digits) ==
  LET first == SelectInSeq(Append(digits, NUL), LAMBDA d : d # ZERO) IN
  IF first > DIGITS THEN DIGITS ELSE first

(* leading zeros are digits of the buffer in front of the number            *)
bputint(leading_zeros, digits) ==
  LET start  == FirstDigit(digits)
      length == DIGITS + 1 - start
  IN SubSeq(digits, IF length < leading_zeros THEN start - (leading_zeros - length) ELSE start, DIGITS)

-----------------------------------------------------------------------------
(* The format string of a message, its arguments, and where vfblogf() is.   *)

WidthText(w) == IF w = 0 THEN << >>
                ELSE IF w < 10 THEN << ZERO, ZERO + w >>
                ELSE << ZERO, ZERO + (w \div 10), ZERO + (w % 10) >>

Escaped(t) == FlattenSeq([k \in DOMAIN t |->
                IF t[k] \in {PERCENT, BACKSLASH} THEN << BACKSLASH, t[k] >> ELSE << t[k] >>])

FormatOf(item) == IF item.kind = "text" THEN Escaped(item.arg)
                  ELSE << PERCENT >> \o WidthText(item.width) \o << CONVERSION[item.kind] >>

ArgOf(item) == IF item.kind = "text" THEN << >> ELSE << item >>

Format == FlattenSeq([k \in DOMAIN program[message].items |-> FormatOf(program[message].items[k])])
            \o << NUL >>
Args   == FlattenSeq([k \in DOMAIN program[message].items |-> ArgOf(program[message].items[k])])

(* the conversion after a '%': where its letter is, and the width before it *)
ConversionAt(p) ==
  IF Format[p] # ZERO THEN p
  ELSE SelectInSubSeq(Format, p + 1, Len(Format), LAMBDA c : c > NINE)

Weight(p) == (IF Format[p + 1] <= NINE THEN 10 ELSE 1) * (Format[p] % 16)

LeadingZeros(p) ==
  LET digits == ConversionAt(p) - p - 1
      lc[k \in 0..digits] == IF k = 0 THEN 0 ELSE lc[k - 1] + Weight(p + k)
  IN IF Format[p] # ZERO THEN 0 ELSE lc[digits]

-----------------------------------------------------------------------------
(* switch_output_device() with serial_init_device(), between two messages.  *)

COM == 1016                         \* 0x3f8
IIR == COM + 2

(* outb(value, port); serial.h hands the two over the other way round, and  *)
(* a port becomes a value of 8 bits                                         *)
outb(value, port) == [port |-> port, value |-> value % 256]

serial_interrupts_disable == << outb(COM + 1, 0) >>
serial_dlab_set           == << outb(IIR, 128) >>

(* Mutant: the mask takes the lowest bit with it. *)
MaskWithBit0(iir) == << outb(IIR, (iir % 128) - (iir % 2)) >>

serial_dlab_clear(iir) == << outb(IIR, iir % 128) >>

serial_set_baudrate(brd, iir) ==
  serial_dlab_set \o << outb(COM, brd % 256), outb(COM + 1, brd \div 256) >> \o serial_dlab_clear(iir)

serial_set_linecontrol(value) == << outb(value, COM + 3) >>

serial_init_device(iir) ==
  serial_interrupts_disable \o serial_set_baudrate(12, iir) \o serial_set_linecontrol(3)
    \o << outb(1, IIR), outb(3, COM + 4) >>

UartPorts == COM..(COM + 7)

SwitchOutput ==
  /\ pc = "call" /\ ~enabled
  /\ \E iir \in IirValues : LET writes == ToSet(serial_init_device(iir)) IN
       /\ stray' = {w.port : w \in writes} \ UartPorts
       /\ \E w \in writes : w.port = COM + 3 /\ lcr' = w.value
  /\ enabled' = TRUE /\ opened' = message
  /\ UNCHANGED <<program, message, format, arg, escaped, written, pc, tx, uart>>

-----------------------------------------------------------------------------
(* vfblogf() *)

More == message <= Len(program)

(* nothing happens without a console                                        *)
Dropped ==
  /\ pc = "call" /\ More /\ ~enabled
  /\ message' = message + 1
  /\ UNCHANGED <<program, opened, format, arg, escaped, written, pc, tx, uart, setup>>

Call ==
  /\ pc = "call" /\ More /\ enabled
  /\ format' = 1 /\ arg' = 0 /\ escaped' = FALSE /\ written' = 0 /\ pc' = "format"
  /\ UNCHANGED <<program, message, opened, tx, uart, setup>>

(* serial_tx() is entered *)
Transmit(t) == text' = t /\ i' = 1 /\ returned' = FALSE /\ polls' = Polls

PrintArgument(p) ==
  LET item == Args[arg + 1]   lc == LeadingZeros(format + 1) IN
  /\ arg' = arg + 1 /\ format' = p + 1
  /\ \/ item.kind = "s" /\ Transmit(item.arg) /\ written' = written + Len(item.arg)
     \/ item.kind = "c" /\ Transmit(<< item.arg >>) /\ written' = written + 1
     \/ item.kind = "x" /\ Transmit(bputint(lc, itoah(item.arg))) /\ written' = written + 4 + lc
     \/ item.kind = "d" /\ Transmit(bputint(lc, itoa(item.arg))) /\ written' = written + 4 + lc

(* a turn of the loop, up to the call of serial_tx(); an escaped character  *)
(* is not counted                                                           *)
Turn ==
  /\ pc = "format" /\ format <= Len(Format)
  /\ LET c == Format[format] IN
     \/ /\ escaped
        /\ escaped' = FALSE /\ Transmit(<< c >>) /\ format' = format + 1 /\ pc' = "tx"
        /\ UNCHANGED <<arg, written>>
     \/ /\ ~escaped /\ c = BACKSLASH
        /\ escaped' = TRUE /\ format' = format + 1
        /\ UNCHANGED <<arg, written, pc, tx>>
     \/ /\ ~escaped /\ c = PERCENT
        /\ PrintArgument(ConversionAt(format + 1)) /\ pc' = "tx"
        /\ UNCHANGED escaped
     \/ /\ ~escaped /\ c \notin {BACKSLASH, PERCENT}
        /\ Transmit(<< c >>) /\ written' = written + 1 /\ format' = format + 1 /\ pc' = "tx"
        /\ UNCHANGED <<arg, escaped>>
  /\ UNCHANGED <<program, message, opened, uart, setup>>

(* the loop has printed the final NUL; dump_print_register() adds a space   *)
(* after a register with a name of two letters                              *)
Return ==
  /\ pc = "format" /\ format > Len(Format)
  /\ IF program[message].register /\ written <= 25
       THEN Transmit(<< SPACE >>) /\ pc' = "padding" /\ UNCHANGED message
       ELSE message' = message + 1 /\ pc' = "call" /\ UNCHANGED tx
  /\ UNCHANGED <<program, opened, format, arg, escaped, written, uart, setup>>

-----------------------------------------------------------------------------
(* serial_tx(): byte by byte, with a wait before each                       *)

Sending == pc \in {"tx", "padding"} /\ i <= Len(text)

(* serial_line_status, of which the driver looks at tx_ready; nothing is     *)
(* received here                                                            *)
LineStatus == IF holding = << >> THEN {"tx_ready", "tx_empty"} ELSE {}

(* Mutants: the result of the wait is not looked at; the wait tests the bit *)
(* for received data.                                                       *)
RetryForgotten(status) == "tx_ready" \in status \/ polls = 1

DataReadyTested(status) == "data_ready" \in status

(* serial_wait_for_tx_empty() returned 0 *)
TxEmpty(status) == "tx_ready" \in status

TxByte ==
  /\ Sending /\ TxEmpty(LineStatus)
  /\ polls' = Polls
  /\ IF text[i] = NL /\ ~returned
       THEN holding' = << CR >> /\ returned' = TRUE /\ UNCHANGED i
       ELSE holding' = << text[i] >> /\ returned' = FALSE /\ i' = i + 1
  /\ UNCHANGED <<program, printer, pc, text, line, setup>>

(* a read that finds no room; after the last one the wait starts again      *)
TxBusy ==
  /\ Sending /\ ~TxEmpty(LineStatus)
  /\ polls' = IF polls = 1 THEN Polls ELSE polls - 1
  /\ UNCHANGED <<program, printer, pc, text, i, returned, uart, setup>>

TxDone ==
  /\ pc \in {"tx", "padding"} /\ i > Len(text)
  /\ IF pc = "tx" THEN pc' = "format" /\ UNCHANGED message
                  ELSE pc' = "call" /\ message' = message + 1
  /\ UNCHANGED <<program, opened, format, arg, escaped, written, tx, uart, setup>>

(* the UART sends the byte *)
UartSends ==
  /\ holding # << >>
  /\ line' = line \o holding /\ holding' = << >>
  /\ UNCHANGED <<program, printer, pc, tx, setup>>

Firmware == Dropped \/ Call \/ Turn \/ Return \/ TxByte \/ TxBusy \/ TxDone

Next == Firmware \/ SwitchOutput \/ UartSends

(* The processor runs on, and the UART sends what it was given. Nothing     *)
(* says that a console is ever switched on.                                 *)
Spec == Init /\ [][Next]_vars /\ WF_vars(Firmware) /\ WF_vars(UartSends)

-----------------------------------------------------------------------------
(* What the messages say, without a look at the code                        *)

NumberText(n, base, width) ==
  LET digits[m \in 0..n] ==
        IF m < base THEN << HexDigit(m) >> ELSE Append(digits[m \div base], HexDigit(m % base))
  IN [k \in 1..(width - Len(digits[n])) |-> ZERO] \o digits[n]

TextOf(item) == IF item.kind \in {"text", "s"} THEN item.arg
                ELSE IF item.kind = "c" THEN << item.arg >>
                ELSE NumberText(item.arg, IF item.kind = "x" THEN 16 ELSE 10, item.width)

(* a register fills the column of one with three letters                    *)
MessageText(m) ==
  FlattenSeq([k \in DOMAIN m.items |-> TextOf(m.items[k])]) \o << NUL >>
    \o (IF m.register /\ Len(m.items[1].arg) = 2 THEN << SPACE >> ELSE << >>)

OnTheWire(t) == FlattenSeq([k \in DOMAIN t |-> IF t[k] = NL THEN << CR, NL >> ELSE << t[k] >>])

Expected(first, last) ==
  OnTheWire(FlattenSeq([k \in 1..(last - first + 1) |-> MessageText(program[first + k - 1])]))

(* What the UART sends is, byte for byte and in order, the text of the      *)
(* messages printed since the console was switched on, each with the NUL    *)
(* vfblogf() prints too: no byte is written over one that is not sent yet,  *)
(* no carriage return is missing, and leading zeros come from the digits of *)
(* the number, at widths up to sixteen (console.c:104).                     *)
LineIsMessage ==
  LET sent == line \o holding IN
  /\ ~enabled => sent = << >>
  /\ enabled => /\ IsPrefix(sent, Expected(opened, Len(program)))
                /\ pc = "call" => sent = Expected(opened, message - 1)

(* ports the other drivers write: PIC, PIT channels 0 and 2 and its command *)
(* register, 8042, CMOS; not channel 1 of the PIT (0x41) and the system     *)
(* control port (0x61), which nothing here sets up                          *)
DriverPorts == {32, 33, 160, 161, 64, 66, 67, 96, 100, 112, 113}

(* The port writes with their arguments swapped (serial.h:121, 146, 156,    *)
(* 166) go to ports that no driver writes, one of them to a port whose      *)
(* number is read from the UART, and the line control is set all the same.  *)
(* With a FIFO that port is 0x41 or 0x61: the write lands in a timer        *)
(* channel or a control port that happen not to be used.                    *)
StrayMissesDrivers == enabled => stray \cap DriverPorts = {} /\ lcr = 3

(* Before every newline on the line, or in the transmitter, a carriage      *)
(* return was sent: a wait that starts again between the two (serial.c:102) *)
(* neither drops the first nor lets another byte in between.                *)
NewlinesReturn ==
  /\ \A k \in 1..Len(line) : line[k] = NL => k > 1 /\ line[k - 1] = CR
  /\ holding = << NL >> => Len(line) > 0 /\ line[Len(line)] = CR

(* Once there is a console everything is printed: a wait that gives up is   *)
(* repeated until the UART has room.                                        *)
MessageSent == enabled ~> line = Expected(opened, Len(program))
=============================================================================
