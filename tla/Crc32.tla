------------------------------- MODULE Crc32 -------------------------------
(***************************************************************************)
(* The checksum of src/disk/page.rs, which log records carry: CRC-32 by    *)
(* four tables, four bytes in a step and the rest byte by byte.            *)
(*                                                                         *)
(* A word is the set of the positions of its 1 bits: exclusive or is the   *)
(* symmetric difference, a shift moves the positions, and 32 bits do not   *)
(* meet the limits of TLC's integers.  A byte is a word within 0 .. 7.     *)
(***************************************************************************)
EXTENDS Integers, Sequences

Bytes == SUBSET (0 .. 7)

Bits(n, width) == {b \in 0 .. width - 1 : (n \div 2^b) % 2 = 1}

Byte(n) == Bits(n, 8)

Xor(v, w) == (v \ w) \cup (w \ v)

ShiftRight(w, n) == {b - n : b \in w \ 0 .. n - 1}

\* The byte of w that starts at bit n: (w >> n) & 0xFF.
ByteAt(w, n) == {b - n : b \in w \cap n .. n + 7}

\* from_le_bytes of the four bytes of data that follow the first i.
LittleEndian(data, i) ==
  UNION {{b + 8 * j : b \in data[i + j + 1]} : j \in 0 .. 3}

Ones == 0 .. 31

\* 0xEDB88320
Polynomial == {b + 16 : b \in Bits(60856, 16)} \cup Bits(33568, 16)

\* One step of the shift register.
Shift(w) == IF 0 \in w THEN Xor(ShiftRight(w, 1), Polynomial) ELSE ShiftRight(w, 1)

-----------------------------------------------------------------------------
Table0 == [i \in Bytes |-> Shift(Shift(Shift(Shift(Shift(Shift(Shift(Shift(i))))))))]

NextTable(t) == [i \in Bytes |-> Xor(ShiftRight(t[i], 8), Table0[ByteAt(t[i], 0)])]

Table1 == NextTable(Table0)
Table2 == NextTable(Table1)
Table3 == NextTable(Table2)

\* Variant of FourBytes: the tables in the order of the bytes.
FourBytesInOrder(crc, data, i) ==
  LET d == Xor(crc, LittleEndian(data, i))
  IN Xor(Xor(Table0[ByteAt(d, 0)], Table1[ByteAt(d, 8)]),
         Xor(Table2[ByteAt(d, 16)], Table3[ByteAt(d, 24)]))

FourBytes(crc, data, i) ==
  LET d == Xor(crc, LittleEndian(data, i))
  IN Xor(Xor(Table3[ByteAt(d, 0)], Table2[ByteAt(d, 8)]),
         Xor(Table1[ByteAt(d, 16)], Table0[ByteAt(d, 24)]))

OneByte(crc, byte) == Xor(ShiftRight(crc, 8), Table0[ByteAt(Xor(crc, byte), 0)])

Crc32(data) ==
  LET chunks == Len(data) \div 4
      four[crc \in SUBSET Ones, i \in Nat] == FourBytes(crc, data, i)
      one[crc \in SUBSET Ones, i \in Nat] == OneByte(crc, data[i])
      by4[c \in 0 .. chunks] == IF c = 0 THEN Ones ELSE four[by4[c - 1], 4 * (c - 1)]
      by1[i \in 4 * chunks .. Len(data)] ==
        IF i = 4 * chunks THEN by4[chunks] ELSE one[by1[i - 1], i]
  IN Xor(by1[Len(data)], Ones)

-----------------------------------------------------------------------------
\* Reference: the shift register of the polynomial, without tables: a byte is added to
\* its low end and shifted out, bit by bit.
BitwiseCrc(data) ==
  LET shifted[w \in SUBSET Ones] == Shift(Shift(Shift(Shift(Shift(Shift(Shift(Shift(w))))))))
      reg[i \in 0 .. Len(data)] ==
        IF i = 0 THEN Ones ELSE shifted[Xor(reg[i - 1], data[i])]
  IN Xor(reg[Len(data)], Ones)

\* The known value of the test of page.rs: "123456789" has the checksum 0xCBF43926.
ASSUME KnownValue ==
  BitwiseCrc([i \in 1 .. 9 |-> Byte(48 + i)])
    = {b + 16 : b \in Bits(52212, 16)} \cup Bits(14630, 16)

=============================================================================
