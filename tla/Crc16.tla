-------------------------------- MODULE Crc16 --------------------------------
(***************************************************************************)
(* Utilities::crc16, the function the examples pass to the slave as its    *)
(* Crc16 pointer.  It lives in a submodule; this is the CRC-16 of the      *)
(* Modbus serial line (polynomial A001 reflected, start value FFFF), high  *)
(* byte first as the library puts it on the wire.  Only the TLC models use *)
(* it: the specifications leave Crc open.  Tables keep it fast.            *)
(***************************************************************************)
EXTENDS Integers, Sequences, Bitwise

XorTable == [x \in 0 .. 15, y \in 0 .. 15 |-> x ^^ y]

XorByte(x, y) ==
    16 * XorTable[x \div 16, y \div 16] + XorTable[x % 16, y % 16]

(* What eight shifts make of a low byte. *)
ShiftTable ==
    LET shifted[i \in 0 .. 8, b \in 0 .. 255] ==
            IF i = 0 THEN b
            ELSE LET crc == shifted[i - 1, b]
                 IN  IF crc % 2 = 1 THEN (crc \div 2) ^^ 40961 ELSE crc \div 2
    IN  [b \in 0 .. 255 |-> shifted[8, b]]

CrcByte(crc, byte) ==
    LET shifted == ShiftTable[XorByte(crc % 256, byte)]
    IN  256 * (shifted \div 256) + XorByte(shifted % 256, crc \div 256)

(* crc after the bytes from first to last, by halves: TLC evaluates the    *)
(* arguments of a function once and the recursion stays shallow.           *)
Crc16(bytes) ==
    LET after[crc \in Nat, first \in Nat, last \in Nat] ==
            IF first > last THEN crc
            ELSE IF first = last THEN CrcByte(crc, bytes[first])
            ELSE LET middle == (first + last) \div 2
                 IN  after[after[crc, first, middle], middle + 1, last]
    IN  after[65535, 1, Len(bytes)]
=============================================================================
