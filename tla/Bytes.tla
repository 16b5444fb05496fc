-------------------------------- MODULE Bytes --------------------------------
(***************************************************************************)
(* Bytes on a socket, as the protocols read and write them: encoding/binary *)
(* in big-endian order, and the two table-driven checksums of internal/crc. *)
(* A sequence of bytes is a sequence of 0..255; `at` is the number of bytes *)
(* already read of it, Eof the outcome of a read past its end.              *)
(***************************************************************************)
EXTENDS Integers, Sequences

Byte == 0..255

Eof == -1

\* The position after reading n bytes at a position.
Advance(b, at, n) ==
    IF at # Eof /\ at + n <= Len(b) THEN at + n ELSE Eof

Slice(b, at, n) == SubSeq(b, at + 1, at + n)

\* A sequence, of anything.
IsSequence(s) == s \in Seq({s[i] : i \in DOMAIN s})

\* What becomes of a stream whose bytes are not (yet) a message: it ends, or it
\* waits for more of them, and ends if no more will come.
Ends  == [kind |-> "ends"]
Waits == [kind |-> "waits"]

\* A message of so many bytes, the status and the response it puts into the
\* queues, at most one of each, and the acknowledgement written after that.
Message(size, status, response, ack) ==
    [kind |-> "message", size |-> size, status |-> status, response |-> response,
     ack |-> ack]

\* Unsigned numbers in the bytes after a position.
Uint8(b, at)  == b[at + 1]
Uint16(b, at) == b[at + 1] * 256 + b[at + 2]
Uint32(b, at) == Uint16(b, at) * 65536 + Uint16(b, at + 2)
Uint64(b, at) == Uint32(b, at) * 65536 * 65536 + Uint32(b, at + 4)

\* A number of one or two bytes.
UintN(b, at, n) == IF n = 1 THEN Uint8(b, at) ELSE Uint16(b, at)

\* int32 of a uint32: two's complement.
Int32(b, at) ==
    ((IF b[at + 1] < 128 THEN b[at + 1] ELSE b[at + 1] - 256) * 256 + b[at + 2]) * 65536
        + Uint16(b, at + 2)

\* Go's integer division truncates.
Quotient(a, d) == IF a < 0 THEN -((-a) \div d) ELSE a \div d

\* The w low bytes of a number, negative ones in two's complement.
Put(n, w) == [i \in 1..w |-> (n \div 256 ^ (w - i)) % 256]

-----------------------------------------------------------------------------
(* Checksums.                                                                *)

Bit(n, i) == (n \div 2 ^ i) % 2

XorNibble ==
    [a, b \in 0..15 |->
        LET bit(i) == ((Bit(a, i) + Bit(b, i)) % 2) * 2 ^ i
        IN  bit(0) + bit(1) + bit(2) + bit(3)]

XorByte(a, b) ==
    16 * XorNibble[a \div 16, b \div 16] + XorNibble[a % 16, b % 16]

Xor(a, b) == 256 * XorByte(a \div 256, b \div 256) + XorByte(a % 256, b % 256)

\* One byte through a reflected CRC register, bit by bit.
Shifted(polynomial, register) ==
    LET f[i \in 0..8] ==
            IF i = 0 THEN register
            ELSE LET r == f[i - 1]
                 IN  IF r % 2 = 1 THEN Xor(r \div 2, polynomial) ELSE r \div 2
    IN  f[8]

\* The 256 literals of each table are the values of this function: the tables
\* of the polynomials A001 and 8408.
teltonika_crc_table == [b \in Byte |-> Shifted(40961, b)]

wanway_crc_table == [b \in Byte |-> Shifted(33800, b)]

\* One byte through a table: its entry, and the register shifted out of it.
\* (With the register zero this is the entry; the case of its own has TLC
\* evaluate the register first, which keeps its stack short.)
Lookup(table, register, b) ==
    IF register = 0 THEN table[b]
    ELSE Xor(register \div 256, table[XorByte(register % 256, b)])

CrcTeltonika(buf) ==
    LET crc[i \in 0..Len(buf)] ==
            IF i = 0 THEN 0 ELSE Lookup(teltonika_crc_table, crc[i - 1], buf[i])
    IN  crc[Len(buf)]

CrcWanway(buf) ==
    LET fcs[i \in 0..Len(buf)] ==
            IF i = 0 THEN 65535 ELSE Lookup(wanway_crc_table, fcs[i - 1], buf[i])
    IN  65535 - fcs[Len(buf)]

==============================================================================
