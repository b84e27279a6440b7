---------------------------- MODULE ConsoleProofs ----------------------------
(***************************************************************************)
(* What holds of the console for all programs and every UART without a     *)
(* pending interrupt: its set-up harms no other device, newlines come with *)
(* their carriage returns, and the line carries the text of the messages.  *)
(***************************************************************************)
EXTENDS ConsoleTextProofs

-----------------------------------------------------------------------------
(* The ports serial_init_device() writes                                    *)

PortWrites(iir) ==
  { [port |-> 0, value |-> 249], [port |-> 128, value |-> 250],
    [port |-> 12, value |-> 248], [port |-> iir % 128, value |-> 250],
    [port |-> 1019, value |-> 3], [port |-> 1018, value |-> 1], [port |-> 1020, value |-> 3] }

LEMMA ToSetOfConcat ==
  ASSUME NEW S, NEW s \in Seq(S), NEW t \in Seq(S)
  PROVE  s \o t \in Seq(S) /\ ToSet(s \o t) = ToSet(s) \cup ToSet(t)
<1>1. /\ s \o t \in Seq(S)
      /\ Len(s \o t) = Len(s) + Len(t)
      /\ Len(s) \in Nat /\ Len(t) \in Nat
  OBVIOUS
<1>2. \A k \in 1..Len(s) : (s \o t)[k] = s[k]
  OBVIOUS
<1>3. \A k \in 1..Len(t) : (s \o t)[Len(s) + k] = t[k]
  OBVIOUS
<1>4. ASSUME NEW k \in 1..(Len(s) + Len(t)), k \notin 1..Len(s)
      PROVE  k - Len(s) \in 1..Len(t) /\ k = Len(s) + (k - Len(s))
  BY <1>1, <1>4
<1>5. ASSUME NEW k \in 1..Len(t) PROVE Len(s) + k \in 1..(Len(s) + Len(t))
  BY <1>1
<1>6. DOMAIN s = 1..Len(s) /\ DOMAIN t = 1..Len(t) /\ DOMAIN (s \o t) = 1..(Len(s) + Len(t))
  BY <1>1
<1>7. ASSUME NEW k \in 1..Len(s) PROVE k \in 1..(Len(s) + Len(t))
  BY <1>1
<1>8. ToSet(s \o t) \subseteq ToSet(s) \cup ToSet(t)
  <2>1. SUFFICES ASSUME NEW k \in 1..(Len(s) + Len(t))
                 PROVE  (s \o t)[k] \in ToSet(s) \cup ToSet(t)
    BY <1>6 DEF ToSet
  <2>2. CASE k \in 1..Len(s)
    BY <1>2, <1>6, <2>2 DEF ToSet
  <2>3. CASE k \notin 1..Len(s)
    BY <1>3, <1>4, <1>6, <2>3 DEF ToSet
  <2>. QED
    BY <2>2, <2>3
<1>9. ToSet(s) \cup ToSet(t) \subseteq ToSet(s \o t)
  <2>1. ASSUME NEW k \in 1..Len(s) PROVE s[k] \in ToSet(s \o t)
    BY <1>2, <1>6, <1>7 DEF ToSet
  <2>2. ASSUME NEW k \in 1..Len(t) PROVE t[k] \in ToSet(s \o t)
    BY <1>3, <1>5, <1>6 DEF ToSet
  <2>. QED
    BY <1>6, <2>1, <2>2 DEF ToSet
<1>. QED
  BY <1>1, <1>8, <1>9

LEMMA ToSetOfOne ==
  ASSUME NEW S, NEW a \in S
  PROVE  << a >> \in Seq(S) /\ ToSet(<< a >>) = {a}
BY DEF ToSet

LEMMA ToSetOfTwo ==
  ASSUME NEW S, NEW a \in S, NEW b \in S
  PROVE  << a, b >> \in Seq(S) /\ ToSet(<< a, b >>) = {a, b}
BY DEF ToSet

(* The writes of the whole set-up, with the four swapped ones as the bus    *)
(* sees them.                                                               *)
LEMMA WritesOfInit ==
  ASSUME NEW iir \in Nat
  PROVE  ToSet(serial_init_device(iir)) = PortWrites(iir)
<1>. DEFINE W == [port : Nat, value : Nat]
<1>1. ASSUME NEW v \in Nat, NEW p \in Nat PROVE outb(v, p) \in W
  BY <1>1 DEF outb
<1>2. iir % 128 \in Nat
  OBVIOUS
<1>. HIDE DEF W
<1>3. /\ serial_interrupts_disable \in Seq(W)
      /\ ToSet(serial_interrupts_disable) = {outb(1017, 0)}
  BY <1>1, ToSetOfOne DEF serial_interrupts_disable, COM
<1>4. /\ serial_dlab_set \in Seq(W)
      /\ ToSet(serial_dlab_set) = {outb(1018, 128)}
  BY <1>1, ToSetOfOne DEF serial_dlab_set, COM, IIR
<1>5. /\ serial_dlab_clear(iir) \in Seq(W)
      /\ ToSet(serial_dlab_clear(iir)) = {outb(1018, iir % 128)}
  BY <1>1, <1>2, ToSetOfOne DEF serial_dlab_clear, COM, IIR
<1>6. /\ serial_set_linecontrol(3) \in Seq(W)
      /\ ToSet(serial_set_linecontrol(3)) = {outb(3, 1019)}
  BY <1>1, ToSetOfOne DEF serial_set_linecontrol, COM
<1>7. /\ << outb(COM, 12 % 256), outb(COM + 1, 12 \div 256) >> \in Seq(W)
      /\ ToSet(<< outb(COM, 12 % 256), outb(COM + 1, 12 \div 256) >>) = {outb(1016, 12), outb(1017, 0)}
  <2>1. 12 % 256 = 12 /\ 12 \div 256 = 0 /\ COM = 1016 /\ COM + 1 = 1017
    BY DEF COM
  <2>2. outb(1016, 12) \in W /\ outb(1017, 0) \in W
    BY <1>1
  <2>. QED
    BY <2>1, <2>2, ToSetOfTwo
<1>8. /\ << outb(1, IIR), outb(3, COM + 4) >> \in Seq(W)
      /\ ToSet(<< outb(1, IIR), outb(3, COM + 4) >>) = {outb(1, 1018), outb(3, 1020)}
  <2>1. IIR = 1018 /\ COM + 4 = 1020
    BY DEF COM, IIR
  <2>2. outb(1, 1018) \in W /\ outb(3, 1020) \in W
    BY <1>1
  <2>. QED
    BY <2>1, <2>2, ToSetOfTwo
<1>. DEFINE two == << outb(COM, 12 % 256), outb(COM + 1, 12 \div 256) >>
            last == << outb(1, IIR), outb(3, COM + 4) >>
<1>9. /\ serial_set_baudrate(12, iir) \in Seq(W)
      /\ ToSet(serial_set_baudrate(12, iir)) =
           {outb(1018, 128), outb(1016, 12), outb(1017, 0), outb(1018, iir % 128)}
  <2>1. serial_set_baudrate(12, iir) = serial_dlab_set \o two \o serial_dlab_clear(iir)
    BY DEF serial_set_baudrate
  <2>2. two \in Seq(W) /\ ToSet(two) = {outb(1016, 12), outb(1017, 0)}
    BY <1>7
  <2>. HIDE DEF two
  <2>3. /\ serial_dlab_set \o two \in Seq(W)
        /\ ToSet(serial_dlab_set \o two) = {outb(1018, 128), outb(1016, 12), outb(1017, 0)}
    BY <1>4, <2>2, ToSetOfConcat
  <2>. DEFINE first == serial_dlab_set \o two
  <2>. HIDE DEF first
  <2>4. first \in Seq(W) /\ ToSet(first) = {outb(1018, 128), outb(1016, 12), outb(1017, 0)}
    BY <2>3 DEF first
  <2>5. serial_set_baudrate(12, iir) = first \o serial_dlab_clear(iir)
    BY <2>1 DEF first
  <2>. DEFINE clear == serial_dlab_clear(iir)
  <2>6. clear \in Seq(W) /\ ToSet(clear) = {outb(1018, iir % 128)}
    BY <1>5
  <2>. HIDE DEF clear
  <2>7. first \o clear \in Seq(W) /\ ToSet(first \o clear) = ToSet(first) \cup ToSet(clear)
    BY <2>4, <2>6, ToSetOfConcat
  <2>8. serial_set_baudrate(12, iir) = first \o clear
    BY <2>5 DEF clear
  <2>9. ToSet(first \o clear) =
          {outb(1018, 128), outb(1016, 12), outb(1017, 0), outb(1018, iir % 128)}
    BY <2>4, <2>6, <2>7
  <2>. DEFINE all == serial_set_baudrate(12, iir)
              ports == {outb(1018, 128), outb(1016, 12), outb(1017, 0), outb(1018, iir % 128)}
  <2>10. all = first \o clear
    BY <2>8
  <2>11. ToSet(first \o clear) = ports
    BY <2>9
  <2>. HIDE DEF all, ports
  <2>12. all \in Seq(W) /\ ToSet(all) = ports
    BY <2>7, <2>10, <2>11
  <2>. QED
    BY <2>12 DEF all, ports
<1>10. ToSet(serial_init_device(iir)) =
         {outb(1017, 0), outb(1018, 128), outb(1016, 12), outb(1018, iir % 128),
          outb(3, 1019), outb(1, 1018), outb(3, 1020)}
  <2>. DEFINE one == serial_interrupts_disable \o serial_set_baudrate(12, iir)
              both == one \o serial_set_linecontrol(3)
  <2>1. serial_init_device(iir) = both \o last
    BY DEF serial_init_device
  <2>2. last \in Seq(W) /\ ToSet(last) = {outb(1, 1018), outb(3, 1020)}
    BY <1>8
  <2>. HIDE DEF last
  <2>3. one \in Seq(W) /\ ToSet(one) = {outb(1017, 0)} \cup ToSet(serial_set_baudrate(12, iir))
    BY <1>3, <1>9, ToSetOfConcat
  <2>. HIDE DEF one
  <2>4. both \in Seq(W) /\ ToSet(both) = ToSet(one) \cup {outb(3, 1019)}
    BY <1>6, <2>3, ToSetOfConcat
  <2>. HIDE DEF both
  <2>5. ToSet(both \o last) = ToSet(both) \cup ToSet(last)
    BY <2>2, <2>4, ToSetOfConcat
  <2>. QED
    BY <1>9, <2>1, <2>2, <2>3, <2>4, <2>5
<1>. QED
  BY <1>10 DEF PortWrites, outb

-----------------------------------------------------------------------------
(* StrayMissesDrivers *)

LEMMA SetupMissesDrivers ==
  ASSUME SwitchOutput
  PROVE  StrayMissesDrivers'
<1>1. PICK iir \in IirValues : LET writes == ToSet(serial_init_device(iir)) IN
         /\ stray' = {w.port : w \in writes} \ UartPorts
         /\ \E w \in writes : w.port = COM + 3 /\ lcr' = w.value
  BY DEF SwitchOutput
<1>2. iir \in {1, 129, 193, 225}
  BY ConsoleAssumption DEF NothingPending
<1>3. ToSet(serial_init_device(iir)) = PortWrites(iir)
  BY <1>2, WritesOfInit
<1>4. iir % 128 \in {1, 65, 97}
  BY <1>2
<1>5. {w.port : w \in PortWrites(iir)} = {0, 128, 12, iir % 128, 1019, 1018, 1020}
  BY DEF PortWrites
<1>6. stray' \cap DriverPorts = {}
  BY <1>1, <1>3, <1>4, <1>5 DEF DriverPorts
<1>7. PICK w \in PortWrites(iir) : w.port = 1019 /\ lcr' = w.value
  BY <1>1, <1>3 DEF COM
<1>8. lcr' = 3
  BY <1>4, <1>7 DEF PortWrites
<1>. QED
  BY <1>6, <1>8 DEF StrayMissesDrivers

(* Whatever is printed and whenever the console is switched on, the port    *)
(* writes of the set-up whose arguments are swapped miss every port another *)
(* driver uses, also the one that goes to a port read from the UART.        *)
THEOREM SetupHarmless == Spec => []StrayMissesDrivers
<1>1. Init => StrayMissesDrivers
  BY DEF Init, StrayMissesDrivers
<1>2. StrayMissesDrivers /\ [Next]_vars => StrayMissesDrivers'
  <2>. SUFFICES ASSUME StrayMissesDrivers, [Next]_vars
                PROVE  StrayMissesDrivers'
    OBVIOUS
  <2>1. CASE SwitchOutput
    BY <2>1, SetupMissesDrivers
  <2>2. CASE UNCHANGED setup
    BY <2>2 DEF setup, StrayMissesDrivers
  <2>3. CASE Firmware \/ UartSends
    <3>1. UNCHANGED setup
      BY <2>3 DEF Firmware, Dropped, Call, Turn, Return, TxByte, TxBusy, TxDone, UartSends
    <3>. QED
      BY <3>1, <2>2
  <2>4. CASE UNCHANGED vars
    BY <2>2, <2>4 DEF vars
  <2>. QED
    BY <2>1, <2>3, <2>4 DEF Next
<1>. QED
  BY <1>1, <1>2, PTL DEF Spec

-----------------------------------------------------------------------------
(* Newlines *)

(* line and transmitter hold characters of some kind *)
SentCharacters == \E S : line \in Seq(S) /\ holding \in Seq(S)

(* while returned is set, the carriage return is what was sent last         *)
ReturnIsLast ==
  returned => \/ holding = << CR >>
              \/ holding = << >> /\ Len(line) > 0 /\ line[Len(line)] = CR

(* the transmitter holds one byte *)
OneByte == Len(holding) <= 1

NewlineInv == SentCharacters /\ OneByte /\ ReturnIsLast /\ NewlinesReturn

LEMMA NewlineInit == Init => NewlineInv
<1>. SUFFICES ASSUME Init PROVE NewlineInv
  OBVIOUS
<1>1. line = << >> /\ holding = << >> /\ returned = FALSE
  BY DEF Init
<1>2. SentCharacters
  BY <1>1 DEF SentCharacters
<1>3. << >> # << NL >>
  OBVIOUS
<1>. QED
  BY <1>1, <1>2, <1>3 DEF NewlineInv, OneByte, ReturnIsLast, NewlinesReturn

(* What hands the UART no byte and lets it send none leaves it alone, and   *)
(* returned is set by nothing else.                                         *)
LEMMA NewlineQuiet ==
  ASSUME NewlineInv, UNCHANGED uart, returned' => returned
  PROVE  NewlineInv'
BY DEF NewlineInv, SentCharacters, OneByte, ReturnIsLast, NewlinesReturn, uart

LEMMA NewlineTurn ==
  ASSUME NewlineInv, Turn
  PROVE  NewlineInv'
<1>1. UNCHANGED uart
  BY DEF Turn
<1>2. returned' => returned
  <2>1. ASSUME NEW p, PrintArgument(p) PROVE returned' = FALSE
    BY <2>1 DEF PrintArgument, Transmit
  <2>. QED
    BY <2>1 DEF Turn, Transmit, tx
<1>. QED
  BY <1>1, <1>2, NewlineQuiet

LEMMA NewlineTxByte ==
  ASSUME NewlineInv, TxByte
  PROVE  NewlineInv'
<1>1. holding = << >> /\ line' = line
  BY DEF TxByte, TxEmpty, LineStatus
<1>2. PICK S : line \in Seq(S) /\ holding \in Seq(S)
  BY DEF NewlineInv, SentCharacters
<1>3. CASE text[i] = NL /\ ~returned
  <2>1. holding' = << CR >> /\ returned'
    BY <1>3 DEF TxByte
  <2>2. line' \in Seq(S \cup {CR}) /\ holding' \in Seq(S \cup {CR})
    BY <1>1, <1>2, <2>1
  <2>3. SentCharacters'
    BY <2>2 DEF SentCharacters
  <2>4. << CR >> # << NL >>
    BY DEF CR, NL
  <2>5. NewlinesReturn'
    BY <1>1, <2>1, <2>4 DEF NewlineInv, NewlinesReturn
  <2>. QED
    BY <2>1, <2>3, <2>5 DEF NewlineInv, OneByte, ReturnIsLast
<1>4. CASE ~(text[i] = NL /\ ~returned)
  <2>1. holding' = << text[i] >> /\ ~returned'
    BY <1>4 DEF TxByte
  <2>2. line' \in Seq(S \cup {text[i]}) /\ holding' \in Seq(S \cup {text[i]})
    BY <1>1, <1>2, <2>1
  <2>3. SentCharacters'
    BY <2>2 DEF SentCharacters
  <2>4. holding' = << NL >> => returned
    BY <1>4, <2>1
  <2>5. << >> # << CR >>
    OBVIOUS
  <2>6. returned => Len(line) > 0 /\ line[Len(line)] = CR
    BY <1>1, <2>5 DEF NewlineInv, ReturnIsLast
  <2>7. NewlinesReturn'
    BY <1>1, <2>4, <2>6 DEF NewlineInv, NewlinesReturn
  <2>. QED
    BY <2>1, <2>3, <2>7 DEF NewlineInv, OneByte, ReturnIsLast
<1>. QED
  BY <1>3, <1>4

LEMMA SentOne ==
  ASSUME NEW S, NEW s \in Seq(S), NEW c \in S
  PROVE  /\ s \o << c >> \in Seq(S)
         /\ Len(s \o << c >>) = Len(s) + 1
         /\ \A k \in 1..Len(s) : (s \o << c >>)[k] = s[k]
         /\ (s \o << c >>)[Len(s) + 1] = c
<1>1. << c >> \in Seq(S) /\ Len(<< c >>) = 1 /\ << c >>[1] = c
  OBVIOUS
<1>. QED
  BY <1>1

LEMMA NewlineUartSends ==
  ASSUME NewlineInv, UartSends
  PROVE  NewlineInv'
<1>1. line' = line \o holding /\ holding' = << >> /\ returned' = returned /\ holding # << >>
  BY DEF UartSends, tx
<1>2. PICK S : line \in Seq(S) /\ holding \in Seq(S)
  BY DEF NewlineInv, SentCharacters
<1>. DEFINE c == holding[1]
<1>3. Len(holding) = 1 /\ holding = << c >> /\ c \in S
  <2>1. Len(holding) \in Nat /\ Len(holding) # 0 /\ Len(holding) <= 1
    BY <1>1, <1>2, EmptySeq DEF NewlineInv, OneByte
  <2>2. ASSUME NEW n \in Nat, n # 0, n <= 1 PROVE n = 1
    BY <2>2
  <2>3. Len(holding) = 1
    BY <2>1, <2>2
  <2>4. c \in S
    BY <1>2, <2>3
  <2>5. << c >> \in Seq(S) /\ Len(<< c >>) = 1 /\ << c >>[1] = c
    BY <2>4
  <2>. QED
    BY <1>2, <2>3, <2>4, <2>5
<1>4. /\ line' \in Seq(S)
      /\ Len(line') = Len(line) + 1
      /\ \A k \in 1..Len(line) : line'[k] = line[k]
      /\ line'[Len(line) + 1] = c
  <2>1. line' = line \o << c >>
    BY <1>1, <1>3
  <2>2. c \in S /\ line \in Seq(S)
    BY <1>2, <1>3
  <2>. HIDE DEF c
  <2>. QED
    BY <2>1, <2>2, SentOne
<1>5. SentCharacters' /\ OneByte'
  BY <1>1, <1>4 DEF SentCharacters, OneByte
<1>6. ReturnIsLast'
  <2>1. SUFFICES ASSUME returned PROVE Len(line') > 0 /\ line'[Len(line')] = CR
    BY <1>1 DEF ReturnIsLast
  <2>2. holding = << CR >>
    BY <1>1, <2>1 DEF NewlineInv, ReturnIsLast
  <2>3. c = CR
    BY <2>2
  <2>. QED
    BY <1>2, <1>4, <2>3
<1>7. NewlinesReturn'
  <2>1. ASSUME NEW k \in 1..Len(line'), line'[k] = NL
        PROVE  k > 1 /\ line'[k - 1] = CR
    <3>1. CASE k \in 1..Len(line)
      <4>1. line[k] = NL
        BY <1>4, <2>1, <3>1
      <4>2. k > 1 /\ line[k - 1] = CR
        BY <3>1, <4>1 DEF NewlineInv, NewlinesReturn
      <4>3. k - 1 \in 1..Len(line)
        BY <3>1, <4>2
      <4>. QED
        BY <1>4, <4>2, <4>3
    <3>2. CASE k = Len(line) + 1
      <4>1. c = NL
        BY <1>4, <2>1, <3>2
      <4>2. holding = << NL >>
        BY <1>3, <4>1
      <4>3. Len(line) > 0 /\ line[Len(line)] = CR
        BY <4>2 DEF NewlineInv, NewlinesReturn
      <4>. QED
        BY <1>2, <1>4, <3>2, <4>3
    <3>. QED
      BY <1>2, <1>4, <3>1, <3>2
  <2>2. holding' # << NL >>
    BY <1>1
  <2>. QED
    BY <2>1, <2>2 DEF NewlinesReturn
<1>. QED
  BY <1>5, <1>6, <1>7 DEF NewlineInv

(* The inductive invariant behind the next theorem: the byte sent before    *)
(* the one that is waited for is a carriage return exactly when the driver  *)
(* is between the two bytes of a newline.                                   *)
THEOREM NewlineInvariant == Spec => []NewlineInv
<1>1. NewlineInv /\ [Next]_vars => NewlineInv'
  <2>. SUFFICES ASSUME NewlineInv, [Next]_vars
                PROVE  NewlineInv'
    OBVIOUS
  <2>1. CASE Turn
    BY <2>1, NewlineTurn
  <2>2. CASE TxByte
    BY <2>2, NewlineTxByte
  <2>3. CASE UartSends
    BY <2>3, NewlineUartSends
  <2>4. CASE Dropped \/ Call \/ TxDone \/ SwitchOutput
    <3>1. UNCHANGED <<uart, tx>>
      BY <2>4 DEF Dropped, Call, TxDone, SwitchOutput
    <3>. QED
      BY <3>1, NewlineQuiet DEF tx
  <2>5. CASE TxBusy
    <3>1. UNCHANGED <<uart, returned>>
      BY <2>5 DEF TxBusy
    <3>. QED
      BY <3>1, NewlineQuiet
  <2>6. CASE Return
    <3>1. UNCHANGED uart /\ (returned' => returned)
      BY <2>6 DEF Return, Transmit, tx
    <3>. QED
      BY <3>1, NewlineQuiet
  <2>7. CASE UNCHANGED vars
    BY <2>7, NewlineQuiet DEF vars, tx
  <2>. QED
    BY <2>1, <2>2, <2>3, <2>4, <2>5, <2>6, <2>7 DEF Next, Firmware
<1>. QED
  BY <1>1, NewlineInit, PTL DEF Spec

(* Whatever is printed and however slow the UART is, every newline on the   *)
(* line comes right after a carriage return.                                *)
THEOREM NewlinesHaveReturns == Spec => []NewlinesReturn
<1>1. NewlineInv => NewlinesReturn
  BY DEF NewlineInv
<1>. QED
  BY <1>1, NewlineInvariant, PTL

-----------------------------------------------------------------------------
(* What is sent: a text, and the texts of several messages                  *)

(* a newline is two bytes on the line                                       *)
WireFn  == [c \in Nat |-> IF c = NL THEN << CR, NL >> ELSE << c >>]
Wire(t) == Joined(WireFn, t)

MessageFn == [m \in Messages |-> MessageText(m)]

(* the text of the messages from first to last                              *)
TextFrom(p, first, last) == Joined(MessageFn, SubSeq(p, first, last))

(* One or two bytes for each character. *)
LEMMA WireType ==
  /\ WireFn \in Fcns(Nat, Seq(Nat))
  /\ WireFn[NL] = << CR, NL >>
  /\ \A c \in Nat : c # NL => WireFn[c] = << c >>
  /\ CR \in Nat /\ NL \in Nat /\ CR # NL
<1>1. PICK b, l \in Nat : b = CR /\ l = NL /\ b # l
  BY DEF CR, NL
<1>2. ASSUME NEW c \in Nat PROVE (IF c = NL THEN << CR, NL >> ELSE << c >>) \in Seq(Nat)
  <2>1. << b, l >> \in Seq(Nat)
    BY TwoNat
  <2>. QED BY <1>1, <2>1, SeqOfOne
<1>3. WireFn \in Fcns(Nat, Seq(Nat))
  BY <1>2 DEF WireFn, Fcns
<1>. QED BY <1>1, <1>3 DEF WireFn

(* Two texts are sent one after the other. *)
LEMMA WireConcat ==
  ASSUME NEW a \in Seq(Nat), NEW b \in Seq(Nat)
  PROVE  Wire(a) \in Seq(Nat) /\ Wire(a \o b) = Wire(a) \o Wire(b)
<1>1. WireFn \in Fcns(Nat, Seq(Nat))
  BY WireType
<1>2. Joined(WireFn, a) \in Seq(Nat)
  BY <1>1, JoinedType
<1>3. Joined(WireFn, a \o b) = Joined(WireFn, a) \o Joined(WireFn, b)
  BY <1>1, JoinedConcatNat
<1>. QED BY <1>2, <1>3 DEF Wire

(* A character more. *)
LEMMA WireAppend ==
  ASSUME NEW s \in Seq(Nat), NEW c \in Nat
  PROVE  Wire(Append(s, c)) = Wire(s) \o WireFn[c]
BY WireType, JoinedAppend DEF Wire

(* Nothing is sent of nothing. *)
LEMMA WireEmpty == Wire(<< >>) = << >>
BY JoinedEmpty DEF Wire

(* The reference says the same of a text. *)
LEMMA OnTheWireIs ==
  ASSUME NEW t \in Seq(Nat)
  PROVE  OnTheWire(t) = Wire(t)
<1>1. \A k \in DOMAIN t : WireFn[t[k]] = IF t[k] = NL THEN << CR, NL >> ELSE << t[k] >>
  BY DEF WireFn
<1>2. [k \in DOMAIN t |-> WireFn[t[k]]] = [k \in DOMAIN t |-> IF t[k] = NL THEN << CR, NL >> ELSE << t[k] >>]
  BY <1>1
<1>. QED BY <1>2 DEF OnTheWire, Wire, Joined

(* The space after a register. *)
LEMMA SpaceType == << SPACE >> \in Seq(Nat) /\ << >> \in Seq(Nat)
BY DEF SPACE

(* The text of units is characters. *)
LEMMA UnitTexts ==
  ASSUME NEW us \in Seq(Unit)
  PROVE  Joined(TextFn, us) \in Seq(Nat)
<1>1. << >> \in Seq(Unit)
  OBVIOUS
<1>. QED BY <1>1, TextType, JoinedConcat

(* The text of a message is characters. *)
LEMMA MessageTextType == MessageFn \in Fcns(Messages, Seq(Nat))
<1>1. ASSUME NEW m \in Messages PROVE MessageText(m) \in Seq(Nat)
  <2>1. PICK a \in Seq(Nat) : a = Joined(TextFn, Units(m))
    BY MessageType, UnitTexts
  <2>2. PICK b \in Seq(Nat) : b = IF m.register /\ Len(m.items[1].arg) = 2 THEN << SPACE >> ELSE << >>
    BY SpaceType
  <2>3. a \o b \in Seq(Nat)
    BY ConcatProperties
  <2>. QED BY <2>1, <2>2, <2>3, MessageTextIs
<1>. QED BY <1>1 DEF MessageFn, Fcns

-----------------------------------------------------------------------------
(* The text of several messages *)

(* Some of the messages. *)
LEMMA SomeMessages ==
  ASSUME NEW p \in Seq(Messages), NEW first \in Nat, NEW last \in Int, 1 <= first, last <= Len(p)
  PROVE  \E s \in Seq(Messages) : s = SubSeq(p, first, last)
<1>1. \A k \in first..last : p[k] \in Messages
  OBVIOUS
<1>2. SubSeq(p, first, last) \in Seq(Messages)
  BY <1>1, SubSeqProperties
<1>. QED BY <1>2, Zenon

(* Their text is characters. *)
LEMMA TextFromType ==
  ASSUME NEW p \in Seq(Messages), NEW first \in Nat, NEW last \in Int, 1 <= first, last <= Len(p)
  PROVE  TextFrom(p, first, last) \in Seq(Nat)
<1>2. << >> \in Seq(Messages)
  OBVIOUS
<1>3. PICK s \in Seq(Messages) : s = SubSeq(p, first, last)
  BY SomeMessages
<1>4. Joined(MessageFn, s) \in Seq(Nat)
  BY <1>2, MessageTextType, JoinedConcat
<1>. QED BY <1>3, <1>4 DEF TextFrom

(* No messages, no text. *)
LEMMA TextFromEmpty ==
  ASSUME NEW p, NEW first \in Nat
  PROVE  TextFrom(p, first, first - 1) = << >>
<1>1. SubSeq(p, first, first - 1) = << >>
  BY SubSeqEmpty
<1>. QED BY <1>1, JoinedEmpty DEF TextFrom

(* The first messages, and then the others. *)
LEMMA TextFromSplit ==
  ASSUME NEW p \in Seq(Messages), NEW first \in Nat, NEW k \in Nat, NEW last \in Nat,
         1 <= first, first <= k + 1, k <= last, last <= Len(p)
  PROVE  TextFrom(p, first, last) = TextFrom(p, first, k) \o TextFrom(p, k + 1, last)
<1>1. SubSeq(p, first, k) \o SubSeq(p, k + 1, last) = SubSeq(p, first, last)
  <2>1. first \in 1..(Len(p) + 1) /\ k \in (first - 1)..Len(p) /\ last \in k..Len(p)
    OBVIOUS
  <2>. QED BY <2>1, ConcatAdjacentSubSeq
<1>2. PICK a \in Seq(Messages) : a = SubSeq(p, first, k)
  <2>1. k <= Len(p)
    OBVIOUS
  <2>. QED BY <2>1, SomeMessages
<1>3. PICK b \in Seq(Messages) : b = SubSeq(p, k + 1, last)
  <2>1. PICK q \in Nat : q = k + 1
    OBVIOUS
  <2>2. 1 <= q /\ last \in Int
    BY <2>1
  <2>3. \E t \in Seq(Messages) : t = SubSeq(p, q, last)
    BY <2>2, SomeMessages
  <2>. QED BY <2>1, <2>3
<1>4. Joined(MessageFn, a \o b) = Joined(MessageFn, a) \o Joined(MessageFn, b)
  BY MessageTextType, JoinedConcat
<1>. QED BY <1>1, <1>2, <1>3, <1>4 DEF TextFrom

(* One message. *)
LEMMA TextFromOne ==
  ASSUME NEW p \in Seq(Messages), NEW k \in Nat, 1 <= k, k <= Len(p)
  PROVE  p[k] \in Messages /\ TextFrom(p, k, k) = MessageText(p[k])
<1>1. p[k] \in Messages
  OBVIOUS
<1>2. SubSeq(p, k, k) = << p[k] >>
  <2>1. k \in 1..Len(p) /\ k \in k..Len(p)
    OBVIOUS
  <2>2. SubSeq(p, k, k) = << p[k] >> \o SubSeq(p, k + 1, k)
    BY <2>1, SubSeqRecursiveFirst
  <2>3. SubSeq(p, k + 1, k) = << >>
    BY SubSeqEmpty
  <2>4. PICK o \in Seq(Messages) : o = << p[k] >>
    BY <1>1, SeqOfOne
  <2>5. o \o << >> = o
    BY ConcatEmptySeq
  <2>. QED BY <2>2, <2>3, <2>4, <2>5
<1>3. Joined(MessageFn, << p[k] >>) = MessageFn[p[k]]
  BY <1>1, MessageTextType, JoinedOne
<1>. QED BY <1>1, <1>2, <1>3 DEF TextFrom, MessageFn

(* One message more. *)
LEMMA TextFromNext ==
  ASSUME NEW p \in Seq(Messages), NEW first \in Nat, NEW m \in Nat,
         1 <= first, first <= m, m <= Len(p)
  PROVE  TextFrom(p, first, m) = TextFrom(p, first, m - 1) \o MessageText(p[m])
<1>1. PICK k \in Nat : k = m - 1
  OBVIOUS
<1>2. first <= k + 1 /\ k <= m /\ k + 1 = m /\ 1 <= m
  BY <1>1
<1>3. TextFrom(p, first, m) = TextFrom(p, first, k) \o TextFrom(p, k + 1, m)
  BY <1>2, TextFromSplit
<1>4. TextFrom(p, m, m) = MessageText(p[m])
  BY <1>2, TextFromOne
<1>. QED BY <1>1, <1>2, <1>3, <1>4

(* What is expected on the line is what is sent of this text. *)
LEMMA ExpectedIs ==
  ASSUME program \in Seq(Messages), NEW first \in Nat, NEW last \in Nat,
         1 <= first, first <= last + 1, last <= Len(program)
  PROVE  Expected(first, last) = Wire(TextFrom(program, first, last))
<1>1. PICK s \in Seq(Messages) : s = SubSeq(program, first, last)
  BY SomeMessages
<1>2. DOMAIN s = 1..(last - first + 1) /\ \A k \in 1..(last - first + 1) : s[k] = program[first + k - 1]
  <2>1. \A k \in first..last : program[k] \in Messages
    OBVIOUS
  <2>2. Len(s) = last - first + 1 /\ \A k \in 1..(last - first + 1) : s[k] = program[first + k - 1]
    <3>1. /\ Len(s) = IF first <= last THEN last - first + 1 ELSE 0
          /\ \A k \in 1..(last - first + 1) : s[k] = program[first + k - 1]
      BY <1>1, <2>1, SubSeqProperties
    <3>2. ~(first <= last) => last - first + 1 = 0
      OBVIOUS
    <3>. QED BY <3>1, <3>2
  <2>. QED BY <2>2
<1>3. \A k \in DOMAIN s : s[k] \in Messages
  OBVIOUS
<1>4. [k \in DOMAIN s |-> MessageFn[s[k]]]
        = [k \in 1..(last - first + 1) |-> MessageText(program[first + k - 1])]
  <2>1. \A k \in DOMAIN s : MessageFn[s[k]] = MessageText(program[first + k - 1])
    BY <1>2, <1>3 DEF MessageFn
  <2>. QED BY <1>2, <2>1
<1>5. FlattenSeq([k \in 1..(last - first + 1) |-> MessageText(program[first + k - 1])])
        = TextFrom(program, first, last)
  BY <1>1, <1>4 DEF TextFrom, Joined
<1>6. TextFrom(program, first, last) \in Seq(Nat)
  BY TextFromType
<1>. QED BY <1>5, <1>6, OnTheWireIs DEF Expected

-----------------------------------------------------------------------------
(* What has been sent while serial_tx() is at place k of t                  *)

(* what the line has of s, and a carriage return if back                    *)
Carried(s, back) == IF back THEN Append(Wire(s), CR) ELSE Wire(s)

(* With and without the carriage return. *)
LEMMA CarriedIs == \A s : Carried(s, FALSE) = Wire(s) /\ Carried(s, TRUE) = Append(Wire(s), CR)
BY DEF Carried

(* Three sequences. *)
LEMMA Associate ==
  ASSUME NEW s \in Seq(Nat), NEW o \in Seq(Nat), NEW r \in Seq(Nat)
  PROVE  s \o (o \o r) = (s \o o) \o r
BY ConcatAssociative

(* before t[k], after a carriage return if back; whole is what is sent when *)
(* t has been                                                               *)
InTransit(sent, t, k, back, whole) ==
  /\ t \in Seq(Nat) /\ k \in Nat /\ 1 <= k /\ k <= Len(t) + 1 /\ back \in BOOLEAN
  /\ back => k <= Len(t) /\ t[k] = NL
  /\ \E s \in Seq(Nat) : /\ sent = Carried(s, back)
                         /\ whole = s \o SubSeq(t, k, Len(t))

(* serial_tx() is entered. *)
LEMMA TransitStart ==
  ASSUME NEW base \in Seq(Nat), NEW t \in Seq(Nat)
  PROVE  InTransit(Wire(base), t, 1, FALSE, base \o t)
<1>1. SubSeq(t, 1, Len(t)) = t
  BY SubSeqFull
<1>2. Len(t) \in Nat /\ 1 \in Nat /\ 1 <= Len(t) + 1 /\ FALSE \in BOOLEAN
      /\ 1 <= 1 /\ (FALSE => 1 <= Len(t) /\ t[1] = NL)
  OBVIOUS
<1>3. \E s \in Seq(Nat) : /\ Wire(base) = Carried(s, FALSE)
                          /\ base \o t = s \o SubSeq(t, 1, Len(t))
  BY <1>1, CarriedIs
<1>. QED BY <1>2, <1>3, Zenon DEF InTransit

(* At the end of t all of it is sent. *)
LEMMA TransitDone ==
  ASSUME NEW sent, NEW t, NEW k, NEW back, NEW whole,
         InTransit(sent, t, k, back, whole), k > Len(t)
  PROVE  sent = Wire(whole) /\ ~back
<1>1. t \in Seq(Nat) /\ k \in Nat /\ back \in BOOLEAN /\ (back => k <= Len(t))
  BY DEF InTransit
<1>2. ~back
  BY <1>1
<1>3. PICK s \in Seq(Nat) : sent = Wire(s) /\ whole = s \o SubSeq(t, k, Len(t))
  BY <1>2, CarriedIs DEF InTransit
<1>4. SubSeq(t, k, Len(t)) = << >>
  BY <1>1, SubSeqEmpty
<1>5. s \o << >> = s
  BY ConcatEmptySeq
<1>. QED BY <1>2, <1>3, <1>4, <1>5

(* The carriage return before a newline. *)
LEMMA TransitReturn ==
  ASSUME NEW sent, NEW t, NEW k, NEW whole,
         InTransit(sent, t, k, FALSE, whole), k <= Len(t), t[k] = NL
  PROVE  InTransit(Append(sent, CR), t, k, TRUE, whole)
<1>1. PICK s \in Seq(Nat) : sent = Wire(s) /\ whole = s \o SubSeq(t, k, Len(t))
  BY CarriedIs DEF InTransit
<1>2. Append(sent, CR) = Carried(s, TRUE)
  BY <1>1, CarriedIs
<1>3. t \in Seq(Nat) /\ k \in Nat /\ 1 <= k /\ k <= Len(t) + 1 /\ TRUE \in BOOLEAN
  BY DEF InTransit
<1>. QED BY <1>1, <1>2, <1>3, Zenon DEF InTransit

(* A byte of t, a newline only after its carriage return. *)
LEMMA TransitByte ==
  ASSUME NEW sent, NEW t, NEW k, NEW back, NEW whole,
         InTransit(sent, t, k, back, whole), k <= Len(t), ~(t[k] = NL /\ ~back)
  PROVE  InTransit(Append(sent, t[k]), t, k + 1, FALSE, whole)
<1>1. t \in Seq(Nat) /\ k \in Nat /\ 1 <= k /\ back \in BOOLEAN /\ (back => t[k] = NL)
  BY DEF InTransit
<1>2. PICK s \in Seq(Nat) : /\ sent = Carried(s, back)
                           /\ whole = s \o SubSeq(t, k, Len(t))
  BY DEF InTransit
<1>3. PICK c \in Nat : c = t[k]
  BY <1>1
<1>4. PICK ws \in Seq(Nat) : ws = Wire(s)
  BY WireConcat
<1>10. sent = IF back THEN Append(ws, CR) ELSE ws
  BY <1>1, <1>2, <1>4, CarriedIs
<1>5. Wire(Append(s, c)) = Append(sent, c)
  <2>1. Wire(Append(s, c)) = ws \o WireFn[c]
    BY <1>4, WireAppend
  <2>2. CASE c = NL
    <3>1. sent = Append(ws, CR)
      BY <1>1, <1>3, <1>10, <2>2
    <3>2. PICK b, l \in Nat : b = CR /\ l = NL /\ WireFn[l] = << b, l >>
      BY WireType
    <3>3. ws \o << b, l >> = Append(Append(ws, b), l)
      OBVIOUS
    <3>. QED BY <2>1, <2>2, <3>1, <3>2, <3>3
  <2>3. CASE c # NL
    <3>1. sent = ws
      BY <1>1, <1>3, <1>10, <2>3
    <3>2. WireFn[c] = << c >>
      BY <2>3, WireType
    <3>3. Append(ws, c) = ws \o << c >>
      BY AppendIsConcat
    <3>. QED BY <2>1, <3>1, <3>2, <3>3
  <2>. QED BY <2>2, <2>3
<1>6. whole = Append(s, c) \o SubSeq(t, k + 1, Len(t))
  <2>1. k \in 1..Len(t) /\ Len(t) \in k..Len(t)
    BY <1>1
  <2>2. SubSeq(t, k, Len(t)) = << c >> \o SubSeq(t, k + 1, Len(t))
    BY <1>1, <1>3, <2>1, SubSeqRecursiveFirst
  <2>3. PICK r \in Seq(Nat) : r = SubSeq(t, k + 1, Len(t))
    <3>1. \A j \in (k + 1)..Len(t) : t[j] \in Nat
      BY <1>1
    <3>2. k + 1 \in Int /\ Len(t) \in Int
      BY <1>1
    <3>. QED BY <3>1, <3>2, SubSeqProperties
  <2>4. PICK o \in Seq(Nat) : o = << c >>
    BY SeqOfOne
  <2>5. s \o (o \o r) = (s \o o) \o r
    BY Associate
  <2>6. Append(s, c) = s \o << c >>
    BY AppendIsConcat
  <2>. QED BY <1>2, <2>2, <2>3, <2>4, <2>5, <2>6
<1>7. Append(s, c) \in Seq(Nat)
  BY AppendProperties
<1>8. k + 1 \in Nat /\ 1 <= k + 1 /\ k + 1 <= Len(t) + 1
  BY <1>1
<1>9. PICK v \in Seq(Nat) : v = Append(s, c)
  BY <1>7
<1>11. Append(sent, t[k]) = Carried(v, FALSE) /\ whole = v \o SubSeq(t, k + 1, Len(t))
  BY <1>3, <1>5, <1>6, <1>9, CarriedIs
<1>. QED BY <1>1, <1>8, <1>11, Zenon DEF InTransit

(* What is sent so far begins what is sent in the end.                      *)
Begun(a, b) == \E z \in Seq(Nat) : b = a \o z

(* A beginning of a beginning. *)
LEMMA BegunTransitive ==
  ASSUME NEW a \in Seq(Nat), NEW b, NEW c, Begun(a, b), Begun(b, c)
  PROVE  Begun(a, c)
<1>1. PICK y \in Seq(Nat) : b = a \o y
  BY DEF Begun
<1>2. PICK z \in Seq(Nat) : c = b \o z
  BY DEF Begun
<1>3. (a \o y) \o z = a \o (y \o z)
  BY ConcatAssociative
<1>4. y \o z \in Seq(Nat)
  BY ConcatProperties
<1>. QED BY <1>1, <1>2, <1>3, <1>4 DEF Begun

(* What begins a text is sent first. *)
LEMMA BegunWire ==
  ASSUME NEW a \in Seq(Nat), NEW b, Begun(a, b)
  PROVE  Begun(Wire(a), Wire(b))
<1>1. PICK z \in Seq(Nat) : b = a \o z
  BY DEF Begun
<1>2. Wire(a \o z) = Wire(a) \o Wire(z) /\ Wire(z) \in Seq(Nat)
  BY WireConcat
<1>. QED BY <1>1, <1>2 DEF Begun

(* Behind the same text. *)
LEMMA BegunConcat ==
  ASSUME NEW a \in Seq(Nat), NEW b \in Seq(Nat), NEW c, Begun(b, c)
  PROVE  Begun(a \o b, a \o c)
<1>1. PICK z \in Seq(Nat) : c = b \o z
  BY DEF Begun
<1>2. a \o (b \o z) = (a \o b) \o z
  BY ConcatAssociative
<1>. QED BY <1>1, <1>2 DEF Begun

(* IsPrefix says the same. *)
LEMMA BegunIsPrefix ==
  ASSUME NEW a \in Seq(Nat), NEW b, Begun(a, b)
  PROVE  IsPrefix(a, b)
<1>1. PICK z \in Seq(Nat) : b = a \o z
  BY DEF Begun
<1>2. /\ b \in Seq(Nat) /\ Len(b) = Len(a) + Len(z)
      /\ \A k \in 1..(Len(a) + Len(z)) : b[k] = IF k <= Len(a) THEN a[k] ELSE z[k - Len(a)]
  BY <1>1, ConcatProperties
<1>3. Len(a) \in Nat /\ Len(z) \in Nat
  OBVIOUS
<1>4. SubSeq(a, 1, Len(a)) = a
  BY SubSeqFull
<1>5. \A k \in 1..Len(a) : b[k] \in Nat /\ b[k] = a[k]
  BY <1>2, <1>3
<1>6. PICK x : x = SubSeq(b, 1, Len(a))
  OBVIOUS
<1>7. x \in Seq(Nat) /\ Len(x) = Len(a) /\ \A k \in 1..Len(a) : x[k] = b[k]
  <2>1. 1 \in Int /\ Len(a) \in Int /\ Len(a) - 1 + 1 = Len(a)
    BY <1>3
  <2>2. /\ SubSeq(b, 1, Len(a)) \in Seq(Nat)
        /\ Len(SubSeq(b, 1, Len(a))) = IF 1 <= Len(a) THEN Len(a) - 1 + 1 ELSE 0
        /\ \A k \in 1..(Len(a) - 1 + 1) : SubSeq(b, 1, Len(a))[k] = b[1 + k - 1]
    BY <1>5, <2>1, SubSeqProperties
  <2>3. \A k \in 1..Len(a) : 1 + k - 1 = k
    BY <1>3
  <2>. QED BY <1>3, <1>6, <2>1, <2>2, <2>3
<1>8. x = a
  BY <1>5, <1>7, SeqEqual
<1>. QED BY <1>2, <1>3, <1>4, <1>6, <1>8 DEF IsPrefix

(* While t is sent, what is sent begins the whole. *)
LEMMA TransitBegun ==
  ASSUME NEW sent, NEW t, NEW k, NEW back, NEW whole, InTransit(sent, t, k, back, whole)
  PROVE  sent \in Seq(Nat) /\ Begun(sent, Wire(whole))
<1>1. t \in Seq(Nat) /\ k \in Nat /\ 1 <= k /\ back \in BOOLEAN /\ (back => k <= Len(t) /\ t[k] = NL)
  BY DEF InTransit
<1>2. PICK s \in Seq(Nat) : /\ sent = Carried(s, back)
                           /\ whole = s \o SubSeq(t, k, Len(t))
  BY DEF InTransit
<1>3. PICK ws \in Seq(Nat) : ws = Wire(s)
  BY WireConcat
<1>4. PICK r \in Seq(Nat) : r = SubSeq(t, k, Len(t))
  <2>1. \A j \in k..Len(t) : t[j] \in Nat
    BY <1>1
  <2>2. k \in Int /\ Len(t) \in Int
    BY <1>1
  <2>. QED BY <2>1, <2>2, SubSeqProperties
<1>5. PICK wr \in Seq(Nat) : wr = Wire(r)
  BY WireConcat
<1>6. Wire(whole) = ws \o wr
  BY <1>2, <1>3, <1>4, <1>5, WireConcat
<1>7. CASE ~back
  <2>1. sent = ws
    BY <1>2, <1>3, <1>7 DEF Carried
  <2>. QED BY <1>6, <2>1 DEF Begun
<1>8. CASE back
  <2>1. InTransit(Append(sent, t[k]), t, k + 1, FALSE, whole)
    BY <1>1, <1>8, TransitByte
  <2>2. PICK s2 \in Seq(Nat) : /\ Append(sent, t[k]) = Wire(s2)
                              /\ whole = s2 \o SubSeq(t, k + 1, Len(t))
    BY <2>1, CarriedIs DEF InTransit
  <2>3. PICK b \in Nat : b = CR
    BY WireType
  <2>4. sent \in Seq(Nat)
    <3>1. Append(ws, b) \in Seq(Nat)
      BY AppendProperties
    <3>. QED BY <1>2, <1>3, <1>8, <2>3, <3>1 DEF Carried
  <2>5. PICK c \in Nat : c = t[k]
    BY <1>1, <1>8
  <2>6. Begun(sent, Wire(s2))
    <3>1. Append(sent, c) = sent \o << c >>
      BY <2>4, AppendIsConcat
    <3>2. << c >> \in Seq(Nat)
      BY SeqOfOne
    <3>. QED BY <2>2, <2>5, <3>1, <3>2 DEF Begun
  <2>7. PICK r2 \in Seq(Nat) : r2 = SubSeq(t, k + 1, Len(t))
    <3>1. \A j \in (k + 1)..Len(t) : t[j] \in Nat
      BY <1>1
    <3>2. k + 1 \in Int /\ Len(t) \in Int
      BY <1>1
    <3>. QED BY <3>1, <3>2, SubSeqProperties
  <2>8. Begun(s2, whole)
    BY <2>2, <2>7 DEF Begun
  <2>9. Begun(Wire(s2), Wire(whole))
    BY <2>8, BegunWire
  <2>. QED BY <2>4, <2>6, <2>9, BegunTransitive
<1>. QED BY <1>1, <1>7, <1>8

-----------------------------------------------------------------------------
(* The invariant of the line                                                *)

(* Where the printer is, and what it has sent: past is the text before this *)
(* message, us the units of the message                                     *)

AtFormat(sent, past, us, f, a, w) ==
  \E done, rest : At(us, done, rest, f, a, w) /\ sent = Wire(past \o Joined(TextFn, done))

(* a backslash is behind it *)
AtEscape(sent, past, us, f, a, w) ==
  \E done, rest, r : \E u \in Unit :
    /\ At(us, done, rest, f - 1, a, w) /\ r \in Seq(Unit) /\ Split(us, done, u, r)
    /\ u.kind = "text" /\ u.arg[1] \in {PERCENT, BACKSLASH}
    /\ sent = Wire(past \o Joined(TextFn, done))

(* in serial_tx() with the last unit that is done *)
AtTx(sent, past, us, f, a, w, t, k, back) ==
  \E done, rest : /\ At(us, done, rest, f, a, w)
                  /\ InTransit(sent, t, k, back, past \o Joined(TextFn, done))

(* in serial_tx() with the space after a register *)
AtPadding(sent, past, m, t, k, back) ==
  /\ m.register /\ Len(m.items[1].arg) = 2
  /\ InTransit(sent, t, k, back, past \o MessageText(m))

Sent == line \o holding
Past == TextFrom(program, opened, message - 1)
Us   == Units(program[message])

LineTypes ==
  /\ program \in Seq(Messages) /\ line \in Seq(Nat) /\ holding \in Seq(Nat)
  /\ message \in Nat /\ opened \in Nat
  /\ 1 <= opened /\ opened <= message /\ message <= Len(program) + 1
  /\ escaped \in BOOLEAN /\ enabled \in BOOLEAN /\ format \in Nat

LineQuiet ==
  /\ ~enabled => Sent = << >> /\ pc = "call"
  /\ enabled /\ pc = "call" => Sent = Wire(Past)

LineBusy ==
  pc # "call" =>
    /\ enabled /\ message <= Len(program)
    /\ \/ pc = "format" /\ ~escaped /\ AtFormat(Sent, Past, Us, format, arg, written)
       \/ pc = "format" /\ escaped /\ AtEscape(Sent, Past, Us, format, arg, written)
       \/ pc = "tx" /\ ~escaped /\ AtTx(Sent, Past, Us, format, arg, written, text, i, returned)
       \/ pc = "padding" /\ AtPadding(Sent, Past, program[message], text, i, returned)

LineInv == LineTypes /\ LineQuiet /\ LineBusy

-----------------------------------------------------------------------------

(* The text before this message. *)
LEMMA PastType ==
  ASSUME NEW p \in Seq(Messages), NEW o \in Nat, NEW m \in Nat,
         1 <= o, o <= m, m <= Len(p) + 1
  PROVE  TextFrom(p, o, m - 1) \in Seq(Nat)
<1>1. PICK last \in Int : last = m - 1
  OBVIOUS
<1>2. last <= Len(p)
  BY <1>1
<1>. QED BY <1>1, <1>2, TextFromType

(* The text after one more unit. *)
LEMMA TextAfter ==
  ASSUME NEW past \in Seq(Nat), NEW done \in Seq(Unit), NEW u \in Unit
  PROVE  /\ past \o Joined(TextFn, done) \in Seq(Nat) /\ TextFn[u] \in Seq(Nat)
         /\ (past \o Joined(TextFn, done)) \o TextFn[u] = past \o Joined(TextFn, Append(done, u))
<1>1. PICK a \in Seq(Nat) : a = Joined(TextFn, done)
  BY UnitTexts
<1>2. PICK b \in Seq(Nat) : b = TextFn[u]
  BY TextType DEF Fcns
<1>3. Joined(TextFn, Append(done, u)) = Joined(TextFn, done) \o TextFn[u]
  BY TextType, JoinedAppend
<1>4. past \o (a \o b) = (past \o a) \o b
  BY Associate
<1>5. past \o a \in Seq(Nat)
  BY ConcatNat
<1>. QED BY <1>1, <1>2, <1>3, <1>4, <1>5

(* what is sent before the message ends begins its text *)
LEMMA PartBegun ==
  ASSUME NEW m \in Messages, NEW done \in Seq(Unit), NEW rest \in Seq(Unit), Units(m) = done \o rest
  PROVE  Begun(Joined(TextFn, done), MessageText(m))
<1>1. PICK a \in Seq(Nat) : a = Joined(TextFn, done)
  BY UnitTexts
<1>2. PICK b \in Seq(Nat) : b = Joined(TextFn, rest)
  BY UnitTexts
<1>3. PICK c \in Seq(Nat) : c = IF m.register /\ Len(m.items[1].arg) = 2 THEN << SPACE >> ELSE << >>
  BY SpaceType
<1>4. Joined(TextFn, done \o rest) = Joined(TextFn, done) \o Joined(TextFn, rest)
  BY TextType, JoinedBoth
<1>5. MessageText(m) = (a \o b) \o c
  BY <1>1, <1>2, <1>3, <1>4, MessageTextIs
<1>6. a \o (b \o c) = (a \o b) \o c
  BY Associate
<1>7. PICK z \in Seq(Nat) : z = b \o c
  BY ConcatNat
<1>. QED BY <1>1, <1>5, <1>6, <1>7 DEF Begun

(* the text of the messages up to k begins that of all *)
LEMMA SomeBegun ==
  ASSUME NEW p \in Seq(Messages), NEW o \in Nat, NEW k \in Nat, 1 <= o, o <= k + 1, k <= Len(p)
  PROVE  /\ TextFrom(p, o, k) \in Seq(Nat)
         /\ Begun(TextFrom(p, o, k), TextFrom(p, o, Len(p)))
<1>1. TextFrom(p, o, k) \in Seq(Nat)
  BY TextFromType
<1>2. PICK l \in Nat : l = Len(p)
  OBVIOUS
<1>3. TextFrom(p, o, l) = TextFrom(p, o, k) \o TextFrom(p, k + 1, l)
  <2>1. 1 <= o /\ o <= k + 1 /\ k <= l /\ l <= Len(p)
    BY <1>2
  <2>. QED BY <2>1, TextFromSplit
<1>4. PICK q \in Nat : q = k + 1
  OBVIOUS
<1>5. 1 <= q /\ l \in Int /\ l <= Len(p)
  BY <1>2, <1>4
<1>6. TextFrom(p, q, l) \in Seq(Nat)
  BY <1>5, TextFromType
<1>. QED BY <1>1, <1>2, <1>3, <1>4, <1>6 DEF Begun

(* and what is sent by then begins what will have been sent *)
LEMMA SentBegun ==
  ASSUME NEW p \in Seq(Messages), NEW o \in Nat, NEW k \in Nat, 1 <= o, o <= k + 1, k <= Len(p),
         NEW s \in Seq(Nat), Begun(s, Wire(TextFrom(p, o, k)))
  PROVE  Begun(s, Wire(TextFrom(p, o, Len(p))))
<1>1. PICK t \in Seq(Nat) : t = TextFrom(p, o, k)
  BY SomeBegun
<1>2. Begun(t, TextFrom(p, o, Len(p)))
  BY <1>1, SomeBegun
<1>3. Begun(Wire(t), Wire(TextFrom(p, o, Len(p))))
  BY <1>2, BegunWire
<1>. QED BY <1>1, <1>3, BegunTransitive

-----------------------------------------------------------------------------
(* The invariant says what LineIsMessage says *)

(* While a message is printed, the line has the beginning of all the text. *)
LEMMA BusyBegun ==
  ASSUME LineInv, pc # "call"
  PROVE  Sent \in Seq(Nat) /\ Begun(Sent, Wire(TextFrom(program, opened, Len(program))))
<1>. DEFINE m == program[message]
<1>0. LineTypes /\ message <= Len(program)
  BY DEF LineInv, LineBusy
<1>1. m \in Messages
  BY <1>0, TextFromOne DEF LineTypes
<1>2. PICK past \in Seq(Nat) : past = Past
  BY <1>0, PastType DEF LineTypes, Past
<1>3. TextFrom(program, opened, message) = past \o MessageText(m)
  BY <1>0, <1>2, TextFromNext DEF LineTypes, Past
<1>4. PICK mt \in Seq(Nat) : mt = MessageText(m)
  BY <1>1, MessageTextType DEF MessageFn, Fcns
<1>5. SUFFICES Sent \in Seq(Nat) /\ Begun(Sent, Wire(past \o MessageText(m)))
  <2>1. message <= Len(program) /\ opened <= message + 1 /\ 1 <= opened /\ message \in Nat /\ opened \in Nat
        /\ program \in Seq(Messages)
    BY <1>0 DEF LineTypes
  <2>2. PICK s \in Seq(Nat) : s = Sent
    BY <1>5
  <2>3. Begun(s, Wire(TextFrom(program, opened, message)))
    BY <1>3, <1>5, <2>2
  <2>. QED BY <2>1, <2>2, <2>3, SentBegun
<1>6. ASSUME NEW done, NEW rest, NEW f, At(Us, done, rest, f, arg, written)
      PROVE  /\ past \o Joined(TextFn, done) \in Seq(Nat)
             /\ Wire(past \o Joined(TextFn, done)) \in Seq(Nat)
             /\ Begun(Wire(past \o Joined(TextFn, done)), Wire(past \o MessageText(m)))
  <2>1. done \in Seq(Unit) /\ rest \in Seq(Unit) /\ Units(m) = done \o rest
    BY <1>6 DEF At, Us
  <2>2. Begun(Joined(TextFn, done), MessageText(m))
    BY <1>1, <2>1, PartBegun
  <2>3. PICK j \in Seq(Nat) : j = Joined(TextFn, done)
    BY <2>1, UnitTexts
  <2>4. Begun(past \o j, past \o MessageText(m))
    BY <2>2, <2>3, BegunConcat
  <2>5. PICK pj \in Seq(Nat) : pj = past \o j
    BY ConcatNat
  <2>6. Begun(Wire(pj), Wire(past \o MessageText(m)))
    BY <2>4, <2>5, BegunWire
  <2>7. Wire(pj) \in Seq(Nat)
    BY WireConcat
  <2>. QED BY <2>3, <2>5, <2>6, <2>7
<1>7. CASE AtFormat(Sent, Past, Us, format, arg, written)
  <2>1. PICK done, rest : At(Us, done, rest, format, arg, written) /\ Sent = Wire(past \o Joined(TextFn, done))
    BY <1>2, <1>7 DEF AtFormat
  <2>. QED BY <1>6, <2>1
<1>8. CASE AtEscape(Sent, Past, Us, format, arg, written)
  <2>1. PICK done, rest : At(Us, done, rest, format - 1, arg, written) /\ Sent = Wire(past \o Joined(TextFn, done))
    BY <1>2, <1>8 DEF AtEscape
  <2>. QED BY <1>6, <2>1
<1>9. CASE AtTx(Sent, Past, Us, format, arg, written, text, i, returned)
  <2>1. PICK done, rest : /\ At(Us, done, rest, format, arg, written)
                          /\ InTransit(Sent, text, i, returned, past \o Joined(TextFn, done))
    BY <1>2, <1>9 DEF AtTx
  <2>2. Sent \in Seq(Nat) /\ Begun(Sent, Wire(past \o Joined(TextFn, done)))
    BY <2>1, TransitBegun
  <2>3. Begun(Wire(past \o Joined(TextFn, done)), Wire(past \o MessageText(m)))
    BY <1>6, <2>1
  <2>. QED BY <2>2, <2>3, BegunTransitive
<1>10. CASE AtPadding(Sent, Past, m, text, i, returned)
  <2>1. InTransit(Sent, text, i, returned, past \o MessageText(m))
    BY <1>2, <1>10 DEF AtPadding
  <2>. QED BY <2>1, TransitBegun
<1>. QED BY <1>7, <1>8, <1>9, <1>10 DEF LineInv, LineBusy

(* The invariant says what LineIsMessage says. *)
LEMMA LineInvShows == LineInv => LineIsMessage
<1>. SUFFICES ASSUME LineInv PROVE LineIsMessage
  OBVIOUS
<1>0. LineTypes /\ LineQuiet /\ LineBusy
  BY DEF LineInv
<1>1. CASE ~enabled
  BY <1>0, <1>1 DEF LineQuiet, Sent, LineIsMessage
<1>2. CASE enabled
  <2>1. PICK k \in Nat : k = message - 1 /\ k + 1 = message
    BY <1>0 DEF LineTypes
  <2>2. opened \in Nat /\ 1 <= opened /\ opened <= k + 1 /\ k <= Len(program) /\ program \in Seq(Messages)
        /\ Len(program) \in Nat /\ opened <= Len(program) + 1 /\ Len(program) <= Len(program)
    BY <1>0, <2>1 DEF LineTypes
  <2>3. Expected(opened, k) = Wire(TextFrom(program, opened, k))
    BY <2>2, ExpectedIs
  <2>4. PICK l \in Nat : l = Len(program)
    BY <2>2
  <2>5. Expected(opened, l) = Wire(TextFrom(program, opened, l))
    BY <2>2, <2>4, ExpectedIs
  <2>6. pc = "call" => Sent = Wire(TextFrom(program, opened, k))
    BY <1>0, <1>2, <2>1 DEF LineQuiet, Past
  <2>7. Sent \in Seq(Nat) /\ Begun(Sent, Wire(TextFrom(program, opened, l)))
    <3>1. CASE pc = "call"
      <4>1. PICK t \in Seq(Nat) : t = TextFrom(program, opened, k)
        BY <2>2, SomeBegun
      <4>2. Begun(t, TextFrom(program, opened, l))
        BY <2>2, <2>4, <4>1, SomeBegun
      <4>3. Begun(Wire(t), Wire(TextFrom(program, opened, l))) /\ Wire(t) \in Seq(Nat)
        BY <4>2, BegunWire, WireConcat
      <4>. QED BY <2>6, <3>1, <4>1, <4>3
    <3>2. CASE pc # "call"
      BY <2>4, <3>2, BusyBegun
    <3>. QED BY <3>1, <3>2
  <2>8. IsPrefix(Sent, Expected(opened, Len(program)))
    BY <2>4, <2>5, <2>7, BegunIsPrefix
  <2>9. pc = "call" => Sent = Expected(opened, message - 1)
    BY <2>1, <2>3, <2>6
  <2>. QED BY <1>2, <2>8, <2>9 DEF Sent, LineIsMessage
<1>. QED BY <1>0, <1>1, <1>2 DEF LineTypes

-----------------------------------------------------------------------------
(* Each step keeps it                                                       *)

(* What the steps need to know of the message that is printed. *)
LEMMA MessageFacts ==
  ASSUME LineTypes, message <= Len(program)
  PROVE  /\ program[message] \in Messages /\ Us \in Seq(Unit) /\ Past \in Seq(Nat)
         /\ Format = Joined(FormatFn, Us) /\ Args = Joined(ArgFn, Us)
         /\ TextFrom(program, opened, message) = Past \o MessageText(program[message])
<1>1. program[message] \in Messages
  BY TextFromOne DEF LineTypes
<1>2. Us \in Seq(Unit)
  BY <1>1, MessageType DEF Us
<1>3. Past \in Seq(Nat)
  BY PastType DEF LineTypes, Past
<1>4. Format = Joined(FormatFn, Us)
  BY <1>1, MessageFormat DEF Format, Us
<1>5. Args = Joined(ArgFn, Us)
  BY <1>1, MessageArgs DEF Args, Us
<1>6. TextFrom(program, opened, message) = Past \o MessageText(program[message])
  BY TextFromNext DEF LineTypes, Past
<1>. QED BY <1>1, <1>2, <1>3, <1>4, <1>5, <1>6

(* Before the first unit. *)
LEMMA AtStart ==
  ASSUME NEW us \in Seq(Unit), NEW past \in Seq(Nat)
  PROVE  AtFormat(Wire(past), past, us, 1, 0, 0)
<1>0. << >> \in Seq(Unit)
  OBVIOUS
<1>1. PICK e \in Seq(Unit) : e = << >>
  BY <1>0, Zenon
<1>2. e \o us = us
  BY <1>1, ConcatEmptySeq
<1>3. Joined(FormatFn, e) = << >> /\ Joined(ArgFn, e) = << >> /\ Joined(TallyFn, e) = << >> /\ Joined(TextFn, e) = << >>
  BY <1>1, JoinedEmpty
<1>4. Len(<< >>) = 0 /\ 0 + 1 = 1
  OBVIOUS
<1>5. At(us, e, us, 1, 0, 0)
  BY <1>2, <1>3, <1>4 DEF At
<1>6. past \o Joined(TextFn, e) = past
  BY <1>3, ConcatEmptySeq
<1>. QED BY <1>5, <1>6 DEF AtFormat

(* a step that prints nothing and does not touch the printer *)
LEMMA LineSame ==
  ASSUME LineInv, Sent' = Sent, line' \in Seq(Nat), holding' \in Seq(Nat),
         UNCHANGED <<program, printer, pc, text, i, returned, enabled>>
  PROVE  LineInv'
<1>1. /\ program' = program /\ message' = message /\ opened' = opened /\ format' = format
      /\ arg' = arg /\ escaped' = escaped /\ written' = written /\ pc' = pc
      /\ text' = text /\ i' = i /\ returned' = returned /\ enabled' = enabled
  BY DEF printer
<1>2. Past' = Past /\ Us' = Us
  BY <1>1 DEF Past, Us
<1>3. LineTypes'
  BY <1>1 DEF LineInv, LineTypes
<1>4. LineQuiet'
  BY <1>1, <1>2 DEF LineInv, LineQuiet
<1>5. LineBusy'
  BY <1>1, <1>2 DEF LineInv, LineBusy
<1>. QED BY <1>3, <1>4, <1>5 DEF LineInv

(* Nothing is printed yet. *)
LEMMA LineInit == Init => LineInv
<1>. SUFFICES ASSUME Init PROVE LineInv
  OBVIOUS
<1>1. program \in Seq(Messages)
  BY ProgramsAssumption DEF Init
<1>2. line = << >> /\ holding = << >> /\ pc = "call" /\ enabled = FALSE
  BY DEF Init
<1>3. Sent = << >>
  BY <1>2 DEF Sent
<1>4. LineTypes
  <2>1. Len(program) \in Nat
    BY <1>1
  <2>2. message = 1 /\ opened = 1 /\ escaped = FALSE /\ format = 1
    BY DEF Init
  <2>3. 1 <= 1 /\ 1 <= Len(program) + 1 /\ 1 \in Nat
    BY <2>1
  <2>4. line \in Seq(Nat) /\ holding \in Seq(Nat)
    BY <1>2
  <2>. QED BY <1>1, <1>2, <2>2, <2>3, <2>4, Zenon DEF LineTypes
<1>. QED BY <1>2, <1>3, <1>4 DEF LineInv, LineQuiet, LineBusy

(* The console is switched on before this message: the line is empty. *)
LEMMA LineSwitchOutput ==
  ASSUME LineInv, SwitchOutput
  PROVE  LineInv'
<1>1. /\ program' = program /\ message' = message /\ opened' = message /\ format' = format
      /\ escaped' = escaped /\ pc' = "call" /\ enabled' = TRUE /\ line' = line /\ holding' = holding
      /\ ~enabled
  BY DEF SwitchOutput, uart
<1>2. Sent' = << >>
  BY <1>1 DEF LineInv, LineQuiet, Sent
<1>3. Past' = << >>
  <2>1. TextFrom(program, message, message - 1) = << >>
    BY TextFromEmpty DEF LineInv, LineTypes
  <2>. QED BY <1>1, <2>1 DEF Past
<1>4. LineTypes'
  BY <1>1 DEF LineInv, LineTypes
<1>. QED BY <1>1, <1>2, <1>3, <1>4, WireEmpty DEF LineInv, LineQuiet, LineBusy

(* A message without a console. *)
LEMMA LineDropped ==
  ASSUME LineInv, Dropped
  PROVE  LineInv'
<1>1. /\ program' = program /\ message' = message + 1 /\ opened' = opened /\ format' = format
      /\ escaped' = escaped /\ pc' = "call" /\ enabled' = enabled /\ line' = line /\ holding' = holding
      /\ ~enabled /\ message <= Len(program)
  BY DEF Dropped, uart, setup, More
<1>2. Sent' = << >>
  BY <1>1 DEF LineInv, LineQuiet, Sent
<1>3. LineTypes'
  BY <1>1 DEF LineInv, LineTypes
<1>. QED BY <1>1, <1>2, <1>3 DEF LineInv, LineQuiet, LineBusy

(* The loop starts. *)
LEMMA LineCall ==
  ASSUME LineInv, Call
  PROVE  LineInv'
<1>1. /\ program' = program /\ message' = message /\ opened' = opened /\ format' = 1 /\ arg' = 0
      /\ written' = 0
      /\ escaped' = FALSE /\ pc' = "format" /\ enabled' = enabled /\ line' = line /\ holding' = holding
      /\ enabled /\ message <= Len(program) /\ pc = "call"
  BY DEF Call, uart, setup, More
<1>2. Sent' = Sent /\ Past' = Past /\ Us' = Us
  BY <1>1 DEF Sent, Past, Us
<1>3. LineTypes'
  BY <1>1 DEF LineInv, LineTypes
<1>4. Sent = Wire(Past) /\ Us \in Seq(Unit) /\ Past \in Seq(Nat)
  BY <1>1, MessageFacts DEF LineInv, LineQuiet
<1>5. AtFormat(Sent, Past, Us, 1, 0, 0)
  BY <1>4, AtStart
<1>6. LineQuiet'
  BY <1>1 DEF LineInv, LineQuiet
<1>7. LineBusy'
  BY <1>1, <1>2, <1>5 DEF LineInv, LineBusy
<1>. QED BY <1>3, <1>6, <1>7 DEF LineInv

(* A wait changes nothing on the line. *)
LEMMA LineTxBusy ==
  ASSUME LineInv, TxBusy
  PROVE  LineInv'
<1>1. Sent' = Sent /\ line' = line /\ holding' = holding
  BY DEF TxBusy, Sent, uart
<1>2. UNCHANGED <<program, printer, pc, text, i, returned, enabled>>
  BY DEF TxBusy, setup
<1>. QED BY <1>1, <1>2, LineSame DEF LineInv, LineTypes

(* The byte moves from the transmitter to the line. *)
LEMMA LineUartSends ==
  ASSUME LineInv, UartSends
  PROVE  LineInv'
<1>1. line \in Seq(Nat) /\ holding \in Seq(Nat)
  BY DEF LineInv, LineTypes
<1>2. PICK s \in Seq(Nat) : s = line \o holding
  BY <1>1, ConcatNat
<1>3. s \o << >> = s /\ << >> \in Seq(Nat)
  BY ConcatEmptySeq
<1>4. line' = s /\ holding' = << >>
  BY <1>2 DEF UartSends
<1>5. Sent' = Sent
  BY <1>2, <1>3, <1>4 DEF Sent
<1>6. UNCHANGED <<program, printer, pc, text, i, returned, enabled>>
  BY DEF UartSends, tx, setup
<1>. QED BY <1>3, <1>4, <1>5, <1>6, LineSame

(* serial_tx() has a byte to send, and the UART room for it *)
LEMMA LineTxByte ==
  ASSUME LineInv, TxByte
  PROVE  LineInv'
<1>. DEFINE k == IF text[i] = NL /\ ~returned THEN i ELSE i + 1
            back == text[i] = NL /\ ~returned
            c == IF text[i] = NL /\ ~returned THEN CR ELSE text[i]
<1>1. /\ program' = program /\ message' = message /\ opened' = opened /\ format' = format
      /\ arg' = arg /\ written' = written
      /\ escaped' = escaped /\ pc' = pc /\ enabled' = enabled /\ line' = line /\ text' = text
  BY DEF TxByte, printer, setup
<1>2. holding = << >> /\ pc \in {"tx", "padding"} /\ i <= Len(text)
  BY DEF TxByte, TxEmpty, LineStatus, Sending
<1>3. holding' = << c >> /\ i' = k /\ returned' = back
  BY DEF TxByte
<1>4. LineTypes /\ LineQuiet /\ LineBusy
  BY DEF LineInv
<1>5. Past' = Past /\ Us' = Us
  BY <1>1 DEF Past, Us
<1>6. line \in Seq(Nat)
  BY <1>4 DEF LineTypes
<1>7. Sent = line
  BY <1>2, <1>6, ConcatEmptySeq DEF Sent
<1>8. ASSUME NEW whole, InTransit(Sent, text, i, returned, whole)
      PROVE  /\ InTransit(Append(Sent, c), text, k, back, whole)
             /\ c \in Nat
  <2>1. CASE back
    <3>1. InTransit(Sent, text, i, FALSE, whole) /\ text[i] = NL
      <4>1. returned = FALSE
        BY <1>8, <2>1 DEF InTransit
      <4>. QED BY <1>8, <2>1, <4>1
    <3>2. InTransit(Append(Sent, CR), text, i, TRUE, whole)
      BY <1>2, <3>1, TransitReturn
    <3>3. back = TRUE /\ c = CR /\ k = i
      BY <2>1
    <3>. QED BY <3>2, <3>3, WireType
  <2>2. CASE ~back
    <3>1. InTransit(Append(Sent, text[i]), text, i + 1, FALSE, whole)
      BY <1>2, <1>8, <2>2, TransitByte
    <3>2. text[i] \in Nat
      BY <1>2, <1>8 DEF InTransit
    <3>3. back = FALSE /\ c = text[i] /\ k = i + 1
      BY <2>2
    <3>. QED BY <3>1, <3>2, <3>3
  <2>. QED BY <2>1, <2>2
<1>9. \/ pc = "tx" /\ ~escaped /\ AtTx(Sent, Past, Us, format, arg, written, text, i, returned)
      \/ pc = "padding" /\ AtPadding(Sent, Past, program[message], text, i, returned)
  BY <1>2, <1>4 DEF LineBusy
<1>. HIDE DEF c, k, back
<1>10. /\ c \in Nat
       /\ \/ pc = "tx" /\ ~escaped /\ AtTx(Append(Sent, c), Past, Us, format, arg, written, text, k, back)
          \/ pc = "padding" /\ AtPadding(Append(Sent, c), Past, program[message], text, k, back)
  <2>1. CASE pc = "tx" /\ ~escaped /\ AtTx(Sent, Past, Us, format, arg, written, text, i, returned)
    <3>1. PICK done, rest : /\ At(Us, done, rest, format, arg, written)
                            /\ InTransit(Sent, text, i, returned, Past \o Joined(TextFn, done))
      BY <2>1 DEF AtTx
    <3>. QED BY <1>8, <2>1, <3>1 DEF AtTx
  <2>2. CASE pc = "padding" /\ AtPadding(Sent, Past, program[message], text, i, returned)
    BY <1>8, <2>2 DEF AtPadding
  <2>. QED BY <1>9, <2>1, <2>2
<1>11. Sent' = Append(Sent, c) /\ holding' \in Seq(Nat)
  <2>1. Append(line, c) = line \o << c >>
    BY <1>6, <1>10, AppendIsConcat
  <2>2. << c >> \in Seq(Nat)
    BY <1>10, SeqOfOne
  <2>. QED BY <1>1, <1>3, <1>7, <2>1, <2>2 DEF Sent
<1>12. LineTypes'
  BY <1>1, <1>4, <1>11 DEF LineTypes
<1>13. LineQuiet'
  BY <1>1, <1>2, <1>4 DEF LineQuiet
<1>14. LineBusy'
  <2>1. enabled /\ message <= Len(program)
    BY <1>2, <1>4 DEF LineBusy
  <2>. QED BY <1>1, <1>3, <1>5, <1>10, <1>11, <2>1 DEF LineBusy
<1>. QED BY <1>12, <1>13, <1>14 DEF LineInv

(* the message is over *)
LEMMA LineNext ==
  ASSUME LineTypes, message <= Len(program), enabled, Sent' = Wire(Past \o MessageText(program[message])),
         pc' = "call", message' = message + 1,
         UNCHANGED <<program, opened, format, escaped, enabled, uart>>
  PROVE  LineInv'
<1>1. LineTypes'
  BY DEF LineTypes, uart
<1>2. Past' = Past \o MessageText(program[message])
  <2>1. PICK n \in Nat : n = message
    BY DEF LineTypes
  <2>2. (n + 1) - 1 = n
    OBVIOUS
  <2>3. Past' = TextFrom(program, opened, message)
    BY <2>1, <2>2 DEF Past
  <2>. QED BY <2>3, MessageFacts
<1>. QED BY <1>1, <1>2 DEF LineInv, LineQuiet, LineBusy

(* serial_tx() returns. *)
LEMMA LineTxDone ==
  ASSUME LineInv, TxDone
  PROVE  LineInv'
<1>1. /\ program' = program /\ opened' = opened /\ format' = format
      /\ arg' = arg /\ written' = written
      /\ escaped' = escaped /\ enabled' = enabled /\ line' = line /\ holding' = holding
      /\ i > Len(text) /\ pc \in {"tx", "padding"}
  BY DEF TxDone, tx, uart, setup
<1>2. LineTypes /\ LineQuiet /\ LineBusy
  BY DEF LineInv
<1>3. enabled /\ message <= Len(program)
  BY <1>1, <1>2 DEF LineBusy
<1>4. Sent' = Sent
  BY <1>1 DEF Sent
<1>5. CASE pc = "tx"
  <2>1. pc' = "format" /\ message' = message
    BY <1>5 DEF TxDone
  <2>2. ~escaped /\ AtTx(Sent, Past, Us, format, arg, written, text, i, returned)
    BY <1>2, <1>5 DEF LineBusy
  <2>3. PICK done, rest : /\ At(Us, done, rest, format, arg, written)
                          /\ InTransit(Sent, text, i, returned, Past \o Joined(TextFn, done))
    BY <2>2 DEF AtTx
  <2>4. Sent = Wire(Past \o Joined(TextFn, done))
    BY <1>1, <2>3, TransitDone
  <2>5. AtFormat(Sent, Past, Us, format, arg, written)
    BY <2>3, <2>4 DEF AtFormat
  <2>6. Past' = Past /\ Us' = Us
    BY <1>1, <2>1 DEF Past, Us
  <2>7. LineTypes'
    BY <1>1, <1>2, <2>1 DEF LineTypes
  <2>8. LineQuiet'
    BY <1>1, <1>3, <2>1 DEF LineQuiet
  <2>9. LineBusy'
    BY <1>1, <1>3, <1>4, <2>1, <2>2, <2>5, <2>6 DEF LineBusy
  <2>. QED BY <2>7, <2>8, <2>9 DEF LineInv
<1>6. CASE pc # "tx"
  <2>1. pc' = "call" /\ message' = message + 1 /\ pc = "padding"
    BY <1>1, <1>6 DEF TxDone
  <2>2. InTransit(Sent, text, i, returned, Past \o MessageText(program[message]))
    BY <1>2, <2>1 DEF LineBusy, AtPadding
  <2>3. Sent = Wire(Past \o MessageText(program[message]))
    BY <1>1, <2>2, TransitDone
  <2>. QED BY <1>1, <1>2, <1>3, <1>4, <2>1, <2>3, LineNext DEF uart
<1>. QED BY <1>5, <1>6

(* the rest of the format is empty when nothing of it is left *)
LEMMA NothingLeft ==
  ASSUME NEW us, NEW done, NEW rest, NEW f, NEW a, NEW w, At(us, done, rest, f, a, w)
  PROVE  /\ f <= Len(Joined(FormatFn, us)) =>
              \E u \in Unit, r \in Seq(Unit) : Split(us, done, u, r)
         /\ f > Len(Joined(FormatFn, us)) => us = done
<1>1. done \in Seq(Unit) /\ rest \in Seq(Unit) /\ us = done \o rest /\ f = Len(Joined(FormatFn, done)) + 1
  BY DEF At
<1>2. Joined(FormatFn, done) \in Seq(Nat)
  BY <1>1, FormatType, JoinedType
<1>3. PICK n \in Nat : n = Len(Joined(FormatFn, done))
  BY <1>2
<1>4. CASE rest = << >>
  <2>1. us = done
    BY <1>1, <1>4, ConcatEmptySeq
  <2>2. ~(n + 1 <= n)
    OBVIOUS
  <2>. QED BY <1>1, <1>3, <2>1, <2>2
<1>5. CASE rest # << >>
  <2>1. PICK u \in Unit, r \in Seq(Unit) : done \o rest = Append(done, u) \o r
    BY <1>1, <1>5, NextUnit
  <2>2. Split(us, done, u, r)
    BY <1>1, <2>1 DEF Split
  <2>3. /\ Len(Joined(FormatFn, us)) = Len(Joined(FormatFn, done)) + Len(FormatFn[u]) + Len(Joined(FormatFn, r))
        /\ Len(FormatFn[u]) \in Nat /\ Len(Joined(FormatFn, r)) \in Nat
    BY <1>1, <2>2, FormatType, MemberAt
  <2>4. Len(FormatFn[u]) >= 1
    <3>1. CASE u.kind = "text"
      <4>1. PICK c \in Characters \cup {NUL} : u = Text(<< c >>)
        BY <3>1, UnitKinds
      <4>2. FormatFn[u] = IF c \in {PERCENT, BACKSLASH} THEN << BACKSLASH, c >> ELSE << c >>
        BY <4>1, FormatOfText DEF FormatFn
      <4>3. c \in Nat
        BY CharNat
      <4>4. PICK b \in Nat : b = BACKSLASH
        BY DEF BACKSLASH
      <4>. QED BY <4>2, <4>3, <4>4, TwoNat, SeqOfOne
    <3>2. CASE u.kind # "text"
      <4>1. PICK x \in Seq(Nat) : Len(FormatFn[u]) = Len(x) + 2
        BY <3>2, ConversionFormat
      <4>2. Len(x) \in Nat
        OBVIOUS
      <4>. QED BY <4>1, <4>2
    <3>. QED BY <3>1, <3>2
  <2>5. PICK p \in Nat, q \in Nat : p = Len(FormatFn[u]) /\ q = Len(Joined(FormatFn, r))
    BY <2>3
  <2>6. ~(f > Len(Joined(FormatFn, us)))
    <3>1. p >= 1 => ~(n + 1 > n + p + q)
      OBVIOUS
    <3>. QED BY <1>1, <1>3, <2>3, <2>4, <2>5, <3>1
  <2>. QED BY <2>2, <2>6
<1>. QED BY <1>4, <1>5

(* the turn that hands over the text of a unit *)
LEMMA LineHands ==
  ASSUME LineInv, message <= Len(program), enabled, NEW f, f = format - (IF escaped THEN 1 ELSE 0),
         NEW done, NEW rest, At(Us, done, rest, f, arg, written),
         NEW u \in Unit, NEW r \in Seq(Unit), Split(Us, done, u, r),
         Sent = Wire(Past \o Joined(TextFn, done)),
         Hands(u), UNCHANGED <<program, message, opened, uart, setup>>
  PROVE  LineInv'
<1>1. /\ program' = program /\ message' = message /\ opened' = opened /\ enabled' = enabled
      /\ line' = line /\ holding' = holding
  BY DEF uart, setup
<1>2. /\ escaped' = FALSE /\ pc' = "tx" /\ text' = TextFn[u] /\ i' = 1 /\ returned' = FALSE
      /\ format' = f + Len(FormatFn[u])
      /\ arg' = arg + Len(ArgFn[u]) /\ written' = written + Count(u)
  BY DEF Hands
<1>3. Sent' = Sent /\ Past' = Past /\ Us' = Us
  BY <1>1 DEF Sent, Past, Us
<1>4. LineTypes
  BY DEF LineInv
<1>5. done \in Seq(Unit)
  BY DEF At
<1>6. PICK past \in Seq(Nat) : past = Past
  BY <1>4, MessageFacts
<1>7. /\ past \o Joined(TextFn, done) \in Seq(Nat) /\ TextFn[u] \in Seq(Nat)
      /\ (past \o Joined(TextFn, done)) \o TextFn[u] = past \o Joined(TextFn, Append(done, u))
  BY <1>5, TextAfter
<1>8. PICK base \in Seq(Nat) : base = past \o Joined(TextFn, done)
  BY <1>7
<1>9. InTransit(Wire(base), TextFn[u], 1, FALSE, base \o TextFn[u])
  BY <1>7, TransitStart
<1>10. At(Us, Append(done, u), r, f + Len(FormatFn[u]), arg + Len(ArgFn[u]), written + Count(u))
  BY AtAfter
<1>11. InTransit(Sent, TextFn[u], 1, FALSE, Past \o Joined(TextFn, Append(done, u)))
  BY <1>6, <1>7, <1>8, <1>9
<1>12. AtTx(Sent, Past, Us, f + Len(FormatFn[u]), arg + Len(ArgFn[u]), written + Count(u), TextFn[u], 1, FALSE)
  BY <1>10, <1>11 DEF AtTx
<1>13. format' \in Nat
  <2>1. f + Len(FormatFn[u]) = Len(Joined(FormatFn, Append(done, u))) + 1
    BY <1>10 DEF At
  <2>2. Len(Joined(FormatFn, Append(done, u))) \in Nat
    BY <1>5, FormatType, AppendLength
  <2>. QED BY <1>2, <2>1, <2>2
<1>14. LineTypes'
  BY <1>1, <1>2, <1>4, <1>13 DEF LineTypes
<1>15. LineQuiet'
  BY <1>1, <1>2 DEF LineQuiet
<1>16. LineBusy'
  BY <1>1, <1>2, <1>3, <1>12 DEF LineBusy
<1>. QED BY <1>14, <1>15, <1>16 DEF LineInv

(* A turn of the loop. *)
LEMMA LineTurn ==
  ASSUME LineInv, Turn
  PROVE  LineInv'
<1>1. /\ UNCHANGED <<program, message, opened, uart, setup>>
      /\ pc = "format" /\ format <= Len(Format)
  BY DEF Turn
<1>2. LineTypes /\ LineQuiet /\ LineBusy
  BY DEF LineInv
<1>3. enabled /\ message <= Len(program)
  BY <1>1, <1>2 DEF LineBusy
<1>4. /\ Us \in Seq(Unit) /\ Past \in Seq(Nat)
      /\ Format = Joined(FormatFn, Us) /\ Args = Joined(ArgFn, Us)
  BY <1>2, <1>3, MessageFacts
<1>5. escaped \in BOOLEAN /\ format \in Nat /\ format \in Int
  BY <1>2 DEF LineTypes
<1>6. CASE ~escaped
  <2>1. AtFormat(Sent, Past, Us, format, arg, written)
    BY <1>1, <1>2, <1>6 DEF LineBusy
  <2>2. PICK done, rest : At(Us, done, rest, format, arg, written) /\ Sent = Wire(Past \o Joined(TextFn, done))
    BY <2>1 DEF AtFormat
  <2>3. PICK u \in Unit, r \in Seq(Unit) : Split(Us, done, u, r)
    BY <1>1, <1>4, <2>2, NothingLeft
  <2>4. format = format - (IF escaped THEN 1 ELSE 0) /\ format = IF escaped THEN format - 1 ELSE format
    BY <1>5, <1>6
  <2>5. CASE Hands(u)
    BY <1>1, <1>3, <2>2, <2>3, <2>4, <2>5, LineHands
  <2>6. CASE ~Hands(u)
    <3>1. u.kind = "text"
      BY <1>4, <1>6, <2>2, <2>3, <2>6, TurnConversion
    <3>2. At(Us, done, rest, IF escaped THEN format - 1 ELSE format, arg, written)
      BY <2>2, <2>4
    <3>3. /\ escaped' = TRUE /\ u.arg[1] \in {PERCENT, BACKSLASH}
          /\ format' = format + 1 /\ UNCHANGED <<arg, written, pc, tx>>
      BY <1>4, <1>5, <1>6, <2>3, <2>6, <3>1, <3>2, TurnCharacter
    <3>4. /\ Sent' = Sent /\ Past' = Past /\ Us' = Us /\ arg' = arg /\ written' = written /\ pc' = pc
          /\ enabled' = enabled /\ program' = program /\ message' = message /\ opened' = opened
          /\ line' = line /\ holding' = holding
      BY <1>1, <3>3 DEF Sent, Past, Us, uart, setup
    <3>5. (format + 1) - 1 = format /\ format + 1 \in Nat
      BY <1>5
    <3>6. AtEscape(Sent, Past, Us, format + 1, arg, written)
      <4>1. At(Us, done, rest, (format + 1) - 1, arg, written)
        BY <2>2, <3>5
      <4>. QED BY <2>2, <2>3, <3>1, <3>3, <4>1 DEF AtEscape
    <3>7. LineTypes'
      BY <1>2, <3>3, <3>4, <3>5 DEF LineTypes
    <3>8. LineQuiet'
      BY <1>1, <1>3, <3>4 DEF LineQuiet
    <3>9. LineBusy'
      BY <1>1, <1>3, <3>3, <3>4, <3>6 DEF LineBusy
    <3>. QED BY <3>7, <3>8, <3>9 DEF LineInv
  <2>. QED BY <2>5, <2>6
<1>7. CASE escaped
  <2>1. AtEscape(Sent, Past, Us, format, arg, written)
    BY <1>1, <1>2, <1>7 DEF LineBusy
  <2>2. PICK done, rest, r : \E u \in Unit :
          /\ At(Us, done, rest, format - 1, arg, written) /\ r \in Seq(Unit) /\ Split(Us, done, u, r)
          /\ u.kind = "text" /\ u.arg[1] \in {PERCENT, BACKSLASH}
          /\ Sent = Wire(Past \o Joined(TextFn, done))
    BY <2>1 DEF AtEscape
  <2>3. PICK u \in Unit :
          /\ At(Us, done, rest, format - 1, arg, written) /\ r \in Seq(Unit) /\ Split(Us, done, u, r)
          /\ u.kind = "text" /\ u.arg[1] \in {PERCENT, BACKSLASH}
          /\ Sent = Wire(Past \o Joined(TextFn, done))
    BY <2>2
  <2>4. PICK f : f = format - 1
    OBVIOUS
  <2>5. f = format - (IF escaped THEN 1 ELSE 0) /\ f = IF escaped THEN format - 1 ELSE format
    BY <1>7, <2>4
  <2>6. At(Us, done, rest, IF escaped THEN format - 1 ELSE format, arg, written)
    BY <2>3, <2>4, <2>5
  <2>7. Hands(u)
    BY <1>4, <1>5, <1>7, <2>3, <2>6, TurnCharacter
  <2>. QED BY <1>1, <1>3, <2>3, <2>4, <2>5, <2>7, LineHands
<1>. QED BY <1>5, <1>6, <1>7

(* after a backslash there is a character *)
LEMMA EscapeLeft ==
  ASSUME NEW us, NEW done \in Seq(Unit), NEW u \in Unit, NEW r \in Seq(Unit), Split(us, done, u, r),
         u.kind = "text", u.arg[1] \in {PERCENT, BACKSLASH}, NEW f \in Int,
         f - 1 = Len(Joined(FormatFn, done)) + 1
  PROVE  f <= Len(Joined(FormatFn, us))
<1>1. /\ Len(Joined(FormatFn, us)) = Len(Joined(FormatFn, done)) + Len(FormatFn[u]) + Len(Joined(FormatFn, r))
      /\ Len(Joined(FormatFn, done)) \in Nat /\ Len(Joined(FormatFn, r)) \in Nat
  BY FormatType, MemberAt
<1>2. Len(FormatFn[u]) = 2
  <2>1. PICK c \in Nat : c \in Characters \cup {NUL} /\ u = Text(<< c >>) /\ u.arg = << c >>
    BY UnitKinds, CharNat
  <2>2. u.arg[1] = c
    BY <2>1
  <2>3. FormatFn[u] = << BACKSLASH, c >>
    BY <2>1, <2>2, FormatOfText DEF FormatFn
  <2>4. PICK b \in Nat : b = BACKSLASH
    BY DEF BACKSLASH
  <2>. QED BY <2>3, <2>4, TwoNat
<1>. QED BY <1>1, <1>2

(* The loop ends where the units end, and the count tells whether a space   *)
(* is missing.                                                              *)
LEMMA LineReturn ==
  ASSUME LineInv, Return
  PROVE  LineInv'
<1>1. /\ program' = program /\ opened' = opened /\ format' = format /\ arg' = arg /\ written' = written
      /\ escaped' = escaped /\ enabled' = enabled /\ line' = line /\ holding' = holding
      /\ pc = "format" /\ format > Len(Format)
  BY DEF Return, uart, setup
<1>2. LineTypes /\ LineQuiet /\ LineBusy
  BY DEF LineInv
<1>3. enabled /\ message <= Len(program)
  BY <1>1, <1>2 DEF LineBusy
<1>. DEFINE m == program[message]
<1>4. /\ m \in Messages /\ Us \in Seq(Unit) /\ Past \in Seq(Nat) /\ Format = Joined(FormatFn, Us)
  BY <1>2, <1>3, MessageFacts
<1>5. Sent' = Sent
  BY <1>1 DEF Sent
<1>6. escaped \in BOOLEAN /\ format \in Nat /\ format \in Int
  BY <1>2 DEF LineTypes
<1>7. ~escaped
  <2>1. SUFFICES ASSUME escaped PROVE FALSE
    BY <1>6
  <2>2. AtEscape(Sent, Past, Us, format, arg, written)
    BY <1>1, <1>2, <2>1 DEF LineBusy
  <2>3. PICK done, rest, r : \E u \in Unit :
          /\ At(Us, done, rest, format - 1, arg, written) /\ r \in Seq(Unit) /\ Split(Us, done, u, r)
          /\ u.kind = "text" /\ u.arg[1] \in {PERCENT, BACKSLASH}
    BY <2>2 DEF AtEscape
  <2>4. PICK u \in Unit :
          /\ At(Us, done, rest, format - 1, arg, written) /\ r \in Seq(Unit) /\ Split(Us, done, u, r)
          /\ u.kind = "text" /\ u.arg[1] \in {PERCENT, BACKSLASH}
    BY <2>3
  <2>5. done \in Seq(Unit) /\ format - 1 = Len(Joined(FormatFn, done)) + 1
    BY <2>4 DEF At
  <2>6. format <= Len(Joined(FormatFn, Us))
    BY <1>6, <2>4, <2>5, EscapeLeft
  <2>7. Len(Joined(FormatFn, Us)) \in Nat
    <3>1. Joined(FormatFn, Us) \in Seq(Nat)
      BY <1>4, FormatType, JoinedType
    <3>. QED BY <3>1
  <2>. QED BY <1>1, <1>4, <1>6, <2>6, <2>7
<1>8. AtFormat(Sent, Past, Us, format, arg, written)
  BY <1>1, <1>2, <1>7 DEF LineBusy
<1>9. PICK done, rest : At(Us, done, rest, format, arg, written) /\ Sent = Wire(Past \o Joined(TextFn, done))
  BY <1>8 DEF AtFormat
<1>10. Us = done
  BY <1>1, <1>4, <1>9, NothingLeft
<1>11. Sent = Wire(Past \o Joined(TextFn, Us)) /\ written = Len(Joined(TallyFn, Us))
  BY <1>9, <1>10 DEF At
<1>12. PICK j \in Seq(Nat) : j = Joined(TextFn, Us)
  BY <1>4, UnitTexts
<1>13. PICK base \in Seq(Nat) : base = Past \o j
  BY <1>4, ConcatNat
<1>14. m.register => /\ Len(m.items[1].arg) \in {2, 3}
                     /\ written = Len(m.items[1].arg) + 23
  BY <1>4, <1>11, RegisterTally DEF Us
<1>17. PICK l : l = Len(m.items[1].arg)
  OBVIOUS
<1>18. m.register => (written <= 25 <=> l = 2)
  <2>1. m.register => l \in {2, 3} /\ written = l + 23
    BY <1>14, <1>17
  <2>2. 2 + 23 <= 25 /\ ~(3 + 23 <= 25)
    OBVIOUS
  <2>. HIDE DEF m
  <2>. QED BY <2>1, <2>2
<1>15. CASE m.register /\ written <= 25
  <2>1. Len(m.items[1].arg) = 2
    BY <1>15, <1>17, <1>18
  <2>2. /\ text' = << SPACE >> /\ i' = 1 /\ returned' = FALSE /\ pc' = "padding" /\ message' = message
    BY <1>15 DEF Return, Transmit
  <2>3. MessageText(m) = Joined(TextFn, Us) \o << SPACE >>
    <3>1. MessageText(m) = Joined(TextFn, Us)
                            \o (IF m.register /\ Len(m.items[1].arg) = 2 THEN << SPACE >> ELSE << >>)
      BY <1>4, MessageTextIs DEF Us
    <3>. QED BY <1>15, <2>1, <3>1
  <2>4. PICK sp \in Seq(Nat) : sp = << SPACE >>
    BY SpaceType
  <2>5. InTransit(Wire(base), sp, 1, FALSE, base \o sp)
    BY TransitStart
  <2>6. Past \o (j \o sp) = (Past \o j) \o sp
    BY <1>4, Associate
  <2>7. InTransit(Sent, << SPACE >>, 1, FALSE, Past \o MessageText(m))
    BY <1>11, <1>12, <1>13, <2>3, <2>4, <2>5, <2>6
  <2>8. AtPadding(Sent, Past, m, << SPACE >>, 1, FALSE)
    BY <1>15, <2>1, <2>7 DEF AtPadding
  <2>9. Past' = Past /\ program'[message'] = m
    BY <1>1, <2>2 DEF Past
  <2>10. LineTypes'
    BY <1>1, <1>2, <2>2 DEF LineTypes
  <2>11. LineQuiet'
    BY <1>1, <1>3, <2>2 DEF LineQuiet
  <2>12. LineBusy'
    BY <1>1, <1>3, <1>5, <2>2, <2>8, <2>9 DEF LineBusy
  <2>. QED BY <2>10, <2>11, <2>12 DEF LineInv
<1>16. CASE ~(m.register /\ written <= 25)
  <2>1. message' = message + 1 /\ pc' = "call"
    BY <1>16 DEF Return
  <2>2. ~(m.register /\ Len(m.items[1].arg) = 2)
    BY <1>16, <1>17, <1>18
  <2>3. MessageText(m) = j
    <3>1. MessageText(m) = Joined(TextFn, Us)
                            \o (IF m.register /\ Len(m.items[1].arg) = 2 THEN << SPACE >> ELSE << >>)
      BY <1>4, MessageTextIs DEF Us
    <3>2. j \o << >> = j
      BY ConcatEmptySeq
    <3>. QED BY <1>12, <2>2, <3>1, <3>2
  <2>4. Sent' = Wire(Past \o MessageText(m))
    BY <1>5, <1>11, <1>12, <2>3
  <2>. QED BY <1>1, <1>2, <1>3, <2>1, <2>4, LineNext DEF uart
<1>. QED BY <1>15, <1>16

(* The inductive invariant: the printer is between two units of the         *)
(* message, or in the middle of the text of one, and what is sent is the    *)
(* text of the messages before and of the units it has done.                *)
THEOREM LineInvariant == Spec => []LineInv
<1>1. LineInv /\ [Next]_vars => LineInv'
  <2>. SUFFICES ASSUME LineInv, [Next]_vars
                PROVE  LineInv'
    OBVIOUS
  <2>1. CASE Dropped
    BY <2>1, LineDropped
  <2>2. CASE Call
    BY <2>2, LineCall
  <2>3. CASE Turn
    BY <2>3, LineTurn
  <2>4. CASE Return
    BY <2>4, LineReturn
  <2>5. CASE TxByte
    BY <2>5, LineTxByte
  <2>6. CASE TxBusy
    BY <2>6, LineTxBusy
  <2>7. CASE TxDone
    BY <2>7, LineTxDone
  <2>8. CASE SwitchOutput
    BY <2>8, LineSwitchOutput
  <2>9. CASE UartSends
    BY <2>9, LineUartSends
  <2>10. CASE UNCHANGED vars
    <3>1. Sent' = Sent /\ line' = line /\ holding' = holding
      BY <2>10 DEF vars, uart, Sent
    <3>2. UNCHANGED <<program, printer, pc, text, i, returned, enabled>>
      BY <2>10 DEF vars, tx, setup
    <3>. QED BY <3>1, <3>2, LineSame DEF LineInv, LineTypes
  <2>. QED
    BY <2>1, <2>2, <2>3, <2>4, <2>5, <2>6, <2>7, <2>8, <2>9, <2>10 DEF Next, Firmware
<1>. QED BY <1>1, LineInit, PTL DEF Spec

(* Whatever messages are printed, whenever the console is switched on and   *)
(* however slow the UART is: what is on the line, with the byte in the      *)
(* transmitter, is the beginning of their text, and all of it between two   *)
(* messages.                                                                *)
THEOREM LineCarriesMessages == Spec => []LineIsMessage
BY LineInvariant, LineInvShows, PTL
==============================================================================
