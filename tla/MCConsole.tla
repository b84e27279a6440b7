------------------------------ MODULE MCConsole ------------------------------
(* Short programs for Console; the formats are ones the firmware uses.      *)
EXTENDS Console

Ascii(a, b, c, d) == SelectSeq(<< a, b, c, d >>, LAMBDA x : x # NUL)
Free      == Ascii(70, 82, 69, NUL)
Hundred   == Ascii(49, 48, PERCENT, BACKSLASH)
Equals    == Ascii(61, NUL, NUL, NUL)
Newline   == Ascii(NL, NUL, NUL, NUL)

(* "0x%08x %s\n", "%04x:%x\n" *)
RegionLine(n)  == Message(<< Text(Ascii(48, 120, NUL, NUL)), Hex(n, 8), Text(<< SPACE >>), Str(Free), Text(Newline) >>)
PciLine(n, m)  == Message(<< Hex(n, 4), Text(<< 58 >>), Hex(m, 0), Text(Newline) >>)

(* "%s=%016x ", and the other conversions *)
Dump(name, n) == Register(<< Str(name), Text(Equals), Hex(n, 16), Text(<< SPACE >>) >>)
Other         == Message(<< Text(Hundred), Chr(33), Dec(15), Text(Newline) >>)

McPrograms ==
  { << RegionLine(n), Other >> : n \in {0, 2147483647} }
    \cup { << PciLine(n, m), PciLine(m, n) >> : n \in {31, 65536}, m \in {0, 4096} }
    \cup { << Dump(<< 114, 56 >>, 43981), Dump(<< 114, 97, 120 >>, 16777215) >> }
=============================================================================
