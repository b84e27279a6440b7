----------------------------- MODULE Interrupts -----------------------------
(***************************************************************************)
(* What reaches the processor: the pair of 8259 interrupt controllers      *)
(* (drivers/pic_8259), the 8254 timer (drivers/pit) and the interrupt      *)
(* descriptor table (interrupts/idt.c).                                    *)
(*                                                                         *)
(* The drivers write to ports, one after the other: Out and PitOut are the *)
(* chips after a write. A byte is the set of its 1 bits. The module has no *)
(* state of its own: Boot holds a pair of chips, a timer and a table and   *)
(* calls these operators in the order the firmware does.                   *)
(***************************************************************************)
EXTENDS Integers

Lines == 0..15
Byte  == SUBSET (0..7)
Chips == {"primary", "secondary"}

(* the number a byte stands for *)
Number(b) ==
  LET bit(i, worth) == IF i \in b THEN worth ELSE 0
  IN  bit(0, 1) + bit(1, 2) + bit(2, 4) + bit(3, 8) + bit(4, 16) + bit(5, 32) + bit(6, 64) + bit(7, 128)

ChipOf(line)  == IF line < 8 THEN "primary" ELSE "secondary"
InputOf(line) == line % 8

Highest(s) == CHOOSE i \in s : \A j \in s : i <= j

-----------------------------------------------------------------------------
(* The chips. "expects" counts the initialisation words still to come.     *)

Chip == [expects : 0..3, base : Byte, cascade : Byte, mode : Byte,
         imr : Byte, irr : Byte, isr : Byte, level : Byte, reads : {"irr", "isr"}]

(* include/drivers/pic_8259/pic.h: the bits the chips look at *)
ICW1_BIT    == 4                    \* pic_icw1.icw_1
OCW3_BIT    == 3                    \* pic_ocw3.ident
OCW3_READS  == 1                    \* pic_ocw3.nop_b0
OCW3_ISR    == 0                    \* pic_ocw3.next
PIC_EOI_MSG == {5}                  \* 0x20: non_specific_eoi
CASCADE     == 2                    \* the input the secondary is wired to

CommandWritten(c, b) ==
  IF ICW1_BIT \in b
    THEN [c EXCEPT !.expects = 3, !.imr = {}, !.irr = {}, !.isr = {}, !.reads = "irr"]
  ELSE IF OCW3_BIT \in b
    THEN [c EXCEPT !.reads = IF OCW3_READS \notin b THEN @
                             ELSE IF OCW3_ISR \in b THEN "isr" ELSE "irr"]
  ELSE IF b = PIC_EOI_MSG /\ c.isr # {}
    THEN [c EXCEPT !.isr = @ \ {Highest(@)}]
  ELSE c

DataWritten(c, b) ==
  CASE c.expects = 0 -> [c EXCEPT !.imr = b]
    [] c.expects = 1 -> [c EXCEPT !.expects = 0, !.mode = b]
    [] c.expects = 2 -> [c EXCEPT !.expects = 1, !.cascade = b]
    [] c.expects = 3 -> [c EXCEPT !.expects = 2, !.base = b]

Written(c, port, b) ==
  CASE port = "command" -> CommandWritten(c, b)
    [] port = "data"    -> DataWritten(c, b)
    [] port = "elcr"    -> [c EXCEPT !.level = b]

Out(pic, chip, port, b) == [pic EXCEPT ![chip] = Written(@, port, b)]

Raised(pic, line) == [pic EXCEPT ![ChipOf(line)].irr = @ \cup {InputOf(line)}]

(* the inputs a chip asks for: not masked, and above what is in service *)
Asking(c, irr) == {i \in irr \ c.imr : \A j \in c.isr : i < j}

PrimaryInputs(pic) ==
  pic["primary"].irr \cup (IF Asking(pic["secondary"], pic["secondary"].irr) = {} THEN {} ELSE {CASCADE})

Requests(pic) == Asking(pic["primary"], PrimaryInputs(pic))

Vector(pic, line) == Number(pic[ChipOf(line)].base) + InputOf(line)

Taken(c, i) == [c EXCEPT !.irr = @ \ {i}, !.isr = @ \cup {i}]

(* the line the processor acknowledges, and the chips afterwards *)
AcknowledgedLine(pic) ==
  LET i == Highest(Requests(pic)) IN
  IF i # CASCADE THEN i ELSE 8 + Highest(Asking(pic["secondary"], pic["secondary"].irr))

Acknowledged(pic) ==
  LET line == AcknowledgedLine(pic) IN
  IF line < 8 THEN [pic EXCEPT !["primary"] = Taken(@, line)]
  ELSE [pic EXCEPT !["primary"] = Taken(@, CASCADE), !["secondary"] = Taken(@, line - 8)]

(* the request is gone when the processor asks for it: input 7, not in service *)
SPURIOUS == 7

-----------------------------------------------------------------------------
(* drivers/pic_8259/pic.c *)

ICW1 == {0, ICW1_BIT}               \* icw4_needed, icw_1
ICW4 == {0}                         \* mode

ICW2 == [primary |-> {5}, secondary |-> {3, 5}]             \* 0x20 and 0x28

pic_send_cmd(pic, chip, b)  == Out(pic, chip, "command", b)
pic_send_data(pic, chip, b) == Out(pic, chip, "data", b)

(* the same port of the one chip and then of the other *)
Both(pic, port, primary, secondary) ==
  Out(Out(pic, "primary", port, primary), "secondary", port, secondary)

pic_initialize(pic) ==
  LET icw1 == Both(pic, "command", ICW1, ICW1)
      icw2 == Both(icw1, "data", ICW2["primary"], ICW2["secondary"])
      icw3 == Both(icw2, "data", {CASCADE}, {1})              \* device_map, primary_int
      icw4 == Both(icw3, "data", ICW4, ICW4)
      mask == Both(icw4, "data", (0..7) \ {CASCADE}, 0..7)
  IN  Both(mask, "elcr", pic["primary"].level, pic["secondary"].level \cup {1})

(* Mutant: the line's bit is written, the other bits are forgotten. *)
UnmaskAllOthers(pic, line) == pic_send_data(pic, ChipOf(line), {InputOf(line)})

pic_unmask_irq(pic, line) ==
  pic_send_data(pic, ChipOf(line), pic[ChipOf(line)].imr \ {InputOf(line)})

(* Mutant: the chip is not told. *)
EoiForgotten(pic, irq) == pic

pic_send_eoi(pic, irq) ==
  pic_send_cmd(IF irq >= 8 THEN pic_send_cmd(pic, "secondary", PIC_EOI_MSG) ELSE pic,
               "primary", PIC_EOI_MSG)

(* pic_read_irq(), the commands of which pic_read_isr() and pic_read_irr() give *)
pic_read_irq(pic, ocw) == Both(pic, "command", ocw, ocw)

PIC_READ_ISR_OCW == {OCW3_READS, OCW3_BIT}
PIC_READ_IRR_OCW == {OCW3_ISR, OCW3_READS, OCW3_BIT}

-----------------------------------------------------------------------------
(* The timer: a channel runs once it has the count its command announced.   *)

Pit == [mode : {"any", "square_wave_generator"}, access : {"any", "lo_and_hi_byte"},
        count : 0..2, running : BOOLEAN]

PitOut(pit, w) ==
  IF w.port = "command"
    THEN [mode |-> w.command.operating_mode, access |-> w.command.access_mode,
          count |-> 0, running |-> FALSE]
    ELSE [pit EXCEPT !.count = @ + 1, !.running = pit.access # "lo_and_hi_byte" \/ pit.count = 1]

pit_write_command(pit, cmd) == PitOut(pit, [port |-> "command", command |-> cmd])

(* pit_init(): the command, then the count 0x1000, low byte first *)
PIT_COMMAND == [access_mode |-> "lo_and_hi_byte", binary_mode |-> "binary",
                operating_mode |-> "square_wave_generator", selected_channel |-> "channel_0"]

pit_init(pit) ==
  LET commanded == pit_write_command(pit, PIT_COMMAND)
      low       == PitOut(commanded, [port |-> "channel_0", byte |-> 0])
  IN  PitOut(low, [port |-> "channel_0", byte |-> 16])

TIMER_LINE   == 0
TIMER_VECTOR == 32                  \* 0x20

-----------------------------------------------------------------------------
(* interrupts/idt.c: the handler of every vector *)

Vectors  == 0..255
Handlers == {"none", "default_int_handler", "pit_int_handler"}

NoIdt == [v \in Vectors |-> "none"]

(* Mutant: the table is filled for the exceptions only. *)
ExceptionsOnly == [v \in Vectors |-> IF v < 32 THEN "default_int_handler" ELSE "none"]

init_idt == [v \in Vectors |-> "default_int_handler"]

add_interrupt_handler(idt, entry, handler) == [idt EXCEPT ![entry] = handler]
=============================================================================
