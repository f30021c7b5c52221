-------------------------- MODULE ByteFieldsProofs --------------------------
(***************************************************************************)
(* ByteFieldController, RegisterController and Accessor for every set of   *)
(* blocks: which accesses are granted, that a granted one stays in the     *)
(* first block, and that what is written is read back.                     *)
(***************************************************************************)
EXTENDS ByteFields, SequenceTheorems, WellFoundedInduction, TLAPS

USE DEF Controllers

(* Every block has a register and ends below the top of the address space. *)
(* The constructor does not ask for it: the block_end of one without       *)
(* registers at address 0 wraps to the highest size_t, and find_block      *)
(* takes it for every address.                                             *)
BlocksHaveRegisters ==
    \A c \in Controllers : \A i \in DOMAIN Fields[c] :
        /\ Fields[c][i].length > 0
        /\ Fields[c][i].address + Fields[c][i].length < SizeMod

(* Less-than as a set of pairs. *)
Below == {p \in Nat \X Nat : p[1] < p[2]}

(* A set of naturals has a least element. *)
LEMMA LeastElement ==
  ASSUME NEW T, T \subseteq Nat, T # {}
  PROVE  \E n \in T : \A m \in T : n <= m
  <1>1. IsWellFoundedOn(Below, Nat)
    BY NatLessThanWellFounded DEF OpToRel, Below
  <1>2. PICK n \in T : \A m \in T : <<m, n>> \notin Below
    BY <1>1, WFMin
  <1>3. ASSUME NEW m \in T PROVE n <= m
    <2>1. m \in Nat /\ n \in Nat /\ <<m, n>> \notin Below
      BY <1>2
    <2>2. <<m, n>> \in Nat \X Nat /\ <<m, n>>[1] = m /\ <<m, n>>[2] = n
      BY <2>1
    <2>3. ~(m < n)
      BY <2>1, <2>2 DEF Below
    <2> QED BY <2>1, <2>3
  <1> QED BY <1>3

(* What FieldsAssumption says of a block. *)
LEMMA BlockFacts ==
  ASSUME NEW c \in Controllers
  PROVE  /\ DOMAIN Fields[c] = 1 .. Len(Fields[c]) /\ Len(Fields[c]) \in Nat
         /\ \A i \in DOMAIN Fields[c] : /\ Fields[c][i].address \in Nat
                                        /\ Fields[c][i].length \in Nat
                                        /\ Fields[c][i].size \in Nat
  <1>1. Fields[c] \in Seq(FieldType)
    BY FieldsAssumption
  <1>2. DOMAIN Fields[c] = 1 .. Len(Fields[c]) /\ Len(Fields[c]) \in Nat
    BY <1>1, LenProperties
  <1>3. \A i \in DOMAIN Fields[c] : Fields[c][i] \in FieldType
    BY <1>1, <1>2, ElementOfSeq
  <1> QED BY <1>2, <1>3 DEF FieldType

(* Arithmetic in size_t that does not wrap. *)
LEMMA FitsSize ==
  ASSUME NEW e \in Nat, NEW m \in Nat, e < m
  PROVE  e % m = e
  OBVIOUS

(* A block ends where its last register is. *)
LEMMA BlockEnd ==
  ASSUME BlocksHaveRegisters, NEW c \in Controllers, NEW i \in DOMAIN Fields[c]
  PROVE  block_end(Fields[c][i]) = Fields[c][i].address + Fields[c][i].length - 1
  <1>1. PICK a \in Nat, n \in Nat : a = Fields[c][i].address /\ n = Fields[c][i].length
    BY BlockFacts
  <1>2. n > 0 /\ a + n < SizeMod
    BY <1>1 DEF BlocksHaveRegisters
  <1>3. (a + n - 1) % SizeMod = a + n - 1
    <2>1. a + n - 1 \in Nat /\ SizeMod \in Nat /\ a + n - 1 < SizeMod
      BY <1>2, FieldsAssumption
    <2> QED BY <2>1, FitsSize
  <1> QED BY <1>1, <1>3 DEF block_end

(* fields_are_sorted compares neighbours; every block lies behind every    *)
(* earlier one.                                                            *)
LEMMA BlocksApart ==
  ASSUME BlocksHaveRegisters, NEW c \in Controllers,
         NEW i \in DOMAIN Fields[c], NEW j \in DOMAIN Fields[c], i < j
  PROVE  Fields[c][i].address + Fields[c][i].length <= Fields[c][j].address
  <1> DEFINE start(k) == Fields[c][k].address
             end(k)   == Fields[c][k].address + Fields[c][k].length
             later    == {k \in DOMAIN Fields[c] : i < k /\ ~(end(i) <= start(k))}
  <1>1. DOMAIN Fields[c] = 1 .. Len(Fields[c]) /\ Len(Fields[c]) \in Nat
    BY BlockFacts
  <1>2. \A k \in DOMAIN Fields[c] : start(k) \in Nat /\ end(k) \in Nat /\ start(k) <= end(k)
    <2> SUFFICES ASSUME NEW k \in DOMAIN Fields[c]
                 PROVE  start(k) \in Nat /\ end(k) \in Nat /\ start(k) <= end(k)
      OBVIOUS
    <2>1. PICK a \in Nat, n \in Nat : a = Fields[c][k].address /\ n = Fields[c][k].length
      BY BlockFacts
    <2>2. a + n \in Nat /\ a <= a + n
      OBVIOUS
    <2> QED BY <2>1, <2>2
  <1>3. \A k \in DOMAIN Fields[c] : k - 1 \in DOMAIN Fields[c] => end(k - 1) <= start(k)
    <2> SUFFICES ASSUME NEW k \in DOMAIN Fields[c], k - 1 \in DOMAIN Fields[c]
                 PROVE  end(k - 1) <= start(k)
      OBVIOUS
    <2>1. PICK e \in Nat : e = end(k - 1)
      BY <1>2
    <2>2. e < SizeMod
      BY <2>1 DEF BlocksHaveRegisters
    <2>3. e % SizeMod = e
      BY <2>2, FieldsAssumption, FitsSize
    <2>4. k \in 2 .. Len(Fields[c])
      BY <1>1
    <2>5. start(k) >= e % SizeMod
      BY <2>1, <2>4, FieldsAssumption DEF fields_are_sorted
    <2> QED BY <1>2, <2>1, <2>3, <2>5
  <1> HIDE DEF start, end
  <1>4. SUFFICES ASSUME ~(end(i) <= start(j)) PROVE FALSE
    BY DEF start, end
  <1>5. later \subseteq Nat /\ later # {}
    BY <1>1, <1>4
  <1>6. PICK k \in later : \A m \in later : k <= m
    BY <1>5, LeastElement
  <1>7. k \in 1 .. Len(Fields[c]) /\ i \in 1 .. Len(Fields[c]) /\ i < k /\ k - 1 \notin later
    BY <1>1, <1>6
  <1>8. k - 1 \in DOMAIN Fields[c] /\ end(k - 1) <= start(k)
    BY <1>1, <1>3, <1>7
  <1>9. CASE k - 1 = i
    BY <1>6, <1>8, <1>9
  <1>10. CASE i < k - 1
    <2>1. end(i) <= start(k - 1)
      BY <1>7, <1>8, <1>10
    <2>2. end(i) <= start(k)
      BY <1>2, <1>8, <2>1
    <2> QED BY <1>6, <2>2
  <1> QED BY <1>7, <1>9, <1>10

-----------------------------------------------------------------------------
(* find_block finds the first block that does not end before address. *)
LEMMA BlockFound ==
  ASSUME NEW c \in Controllers, NEW address,
         \E i \in DOMAIN Fields[c] : address <= block_end(Fields[c][i])
  PROVE  LET b == find_block(Fields[c], address)
         IN  /\ b \in DOMAIN Fields[c]
             /\ address <= block_end(Fields[c][b])
             /\ \A i \in DOMAIN Fields[c] : address <= block_end(Fields[c][i]) => b <= i
  <1> DEFINE hits == {i \in DOMAIN Fields[c] : address <= block_end(Fields[c][i])}
  <1>1. hits \subseteq Nat /\ hits # {}
    BY BlockFacts
  <1>2. \E i \in hits : \A j \in hits : i <= j
    BY <1>1, LeastElement
  <1>3. find_block(Fields[c], address) = CHOOSE i \in hits : \A j \in hits : i <= j
    BY <1>1 DEF find_block
  <1>4. /\ find_block(Fields[c], address) \in hits
        /\ \A j \in hits : find_block(Fields[c], address) <= j
    BY <1>2, <1>3
  <1> QED BY <1>4

(* Without one it gives the place behind the last block. *)
LEMMA NoBlockFound ==
  ASSUME NEW c \in Controllers, NEW address, Found(Fields[c], address)
  PROVE  \E i \in DOMAIN Fields[c] : address <= block_end(Fields[c][i])
  <1>1. SUFFICES ASSUME {i \in DOMAIN Fields[c] : address <= block_end(Fields[c][i])} = {}
                 PROVE  FALSE
    OBVIOUS
  <1>2. find_block(Fields[c], address) = Len(Fields[c]) + 1
    BY <1>1 DEF find_block
  <1> QED BY <1>2, BlockFacts DEF Found

(* The size_t arithmetic of an access does not wrap. *)
LEMMA NoWrap ==
  ASSUME NEW address \in 0 .. MaxAddress, NEW length \in 1 .. MaxLength
  PROVE  (address + length - 1) % SizeMod = address + length - 1
  <1>1. PICK x \in Nat : x = address + length - 1 /\ x < SizeMod
    BY FieldsAssumption
  <1>2. x % SizeMod = x
    BY <1>1, FieldsAssumption, FitsSize
  <1> QED BY <1>1, <1>2

(* access_valid, once a block is found: one block covers the access. *)
LEMMA AccessValidExact ==
  ASSUME BlocksHaveRegisters, NEW c \in Controllers,
         NEW address \in 0 .. MaxAddress, NEW length \in 1 .. MaxLength,
         \E i \in DOMAIN Fields[c] : address <= block_end(Fields[c][i]),
         NEW valid \in access_valid(Fields[c], address, length)
  PROVE  valid <=> \E i \in DOMAIN Fields[c] : Covers(Fields[c][i], address, length)
  <1>1. PICK b \in DOMAIN Fields[c] :
           /\ b = find_block(Fields[c], address)
           /\ address <= block_end(Fields[c][b])
           /\ \A i \in DOMAIN Fields[c] : address <= block_end(Fields[c][i]) => b <= i
    BY BlockFound
  <1>2. address \in Nat /\ length \in Nat /\ length > 0
    OBVIOUS
  <1>3. (address + length - 1) % SizeMod = address + length - 1
    BY NoWrap
  <1>4. valid <=> /\ address >= Fields[c][b].address
                  /\ address + length - 1 <= block_end(Fields[c][b])
    BY <1>1, <1>3 DEF access_valid, Found
  <1>5. valid <=> Covers(Fields[c][b], address, length)
    <2>1. PICK a \in Nat, n \in Nat : a = Fields[c][b].address /\ n = Fields[c][b].length
      BY BlockFacts
    <2>2. block_end(Fields[c][b]) = a + n - 1
      BY <2>1, BlockEnd
    <2>3. address + length - 1 <= a + n - 1 <=> address + length <= a + n
      BY <1>2
    <2>4. valid <=> address >= a /\ address + length <= a + n
      BY <1>4, <2>1, <2>2, <2>3
    <2> QED BY <2>1, <2>4 DEF Covers
  <1>6. ASSUME NEW i \in DOMAIN Fields[c], Covers(Fields[c][i], address, length)
        PROVE  i = b
    <2>1. PICK a \in Nat, n \in Nat : a = Fields[c][i].address /\ n = Fields[c][i].length
      BY BlockFacts
    <2>2. a <= address /\ address + length <= a + n
      BY <1>2, <1>6, <2>1 DEF Covers
    <2>5. address <= block_end(Fields[c][i])
      <3>1. block_end(Fields[c][i]) = a + n - 1
        BY <2>1, BlockEnd
      <3> QED BY <1>2, <2>2, <3>1
    <2>3. b <= i
      BY <1>1, <2>5
    <2>4. ~(b < i)
      <3>1. ASSUME b < i PROVE FALSE
        <4>1. PICK a0 \in Nat, n0 \in Nat :
                 a0 = Fields[c][b].address /\ n0 = Fields[c][b].length
          BY BlockFacts
        <4>2. a0 + n0 <= a
          BY <2>1, <3>1, <4>1, BlocksApart
        <4>3. block_end(Fields[c][b]) = a0 + n0 - 1
          BY <4>1, BlockEnd
        <4>4. address <= a0 + n0 - 1
          BY <1>1, <4>3
        <4> QED BY <1>2, <2>2, <4>2, <4>4
      <3> QED BY <3>1
    <2> QED BY <2>3, <2>4, BlockFacts
  <1> QED BY <1>5, <1>6

-----------------------------------------------------------------------------
(* The calls, one case for each kind. *)
LEMMA StepCases ==
  ASSUME FieldsNext
  PROVE  \E space \in Spaces, address \in 0 .. MaxAddress, length \in 0 .. MaxLength :
             \/ Query(space, address, length)
             \/ \E size \in BufferSizes : Read(space, address, length, size)
             \/ \E size \in BufferSizes : Write(space, address, length, Payload(size))
  BY DEF FieldsNext

(* What a call leaves in last, whatever becomes of it. *)
LEMMA ReadNotes ==
  ASSUME NEW space, NEW address, NEW length, NEW size, Read(space, address, length, size)
  PROVE  /\ last'.op = "read" /\ last'.space = space
         /\ last'.address = address /\ last'.length = length
         /\ joint' = joint /\ memory' = memory
  <1>1. CASE NoController("read", space, address, length)
    BY <1>1 DEF NoController, Note
  <1>2. CASE Refused("read", space, address, length)
    BY <1>2 DEF Refused, Note
  <1>3. ASSUME NEW n, NEW data, Note("read", space, address, length, n, data), memory' = memory
        PROVE  /\ last'.op = "read" /\ last'.space = space
               /\ last'.address = address /\ last'.length = length
               /\ joint' = joint /\ memory' = memory
    BY <1>3 DEF Note
  <1> QED BY <1>1, <1>2, <1>3, Zenon DEF Read

(* What is remembered of a write, granted or not: its operation, space,
   address and length. *)
LEMMA WriteNotes ==
  ASSUME NEW space, NEW address, NEW length, NEW data, Write(space, address, length, data)
  PROVE  /\ last'.op = "write" /\ last'.space = space
         /\ last'.address = address /\ last'.length = length /\ joint' = joint
  <1>1. CASE NoController("write", space, address, length)
    BY <1>1 DEF NoController, Note
  <1>2. CASE Refused("write", space, address, length)
    BY <1>2 DEF Refused, Note
  <1>3. ASSUME NEW n, NEW bytes, Note("write", space, address, length, n, bytes)
        PROVE  /\ last'.op = "write" /\ last'.space = space
               /\ last'.address = address /\ last'.length = length /\ joint' = joint
    BY <1>3 DEF Note
  <1> QED BY <1>1, <1>2, <1>3, Zenon DEF Write

(* Every call is counted. *)
LEMMA CallsCounted ==
  ASSUME NEW space, NEW address, NEW length,
         \/ Query(space, address, length)
         \/ \E size \in BufferSizes : Read(space, address, length, size)
         \/ \E size \in BufferSizes : Write(space, address, length, Payload(size))
  PROVE  calls' = calls + 1
  <1>1. ASSUME NEW op, NEW s, NEW a, NEW l, NEW result, NEW data,
               Note(op, s, a, l, result, data)
        PROVE  calls' = calls + 1
    BY <1>1 DEF Note
  <1> QED BY <1>1, Zenon DEF Query, Read, Write, NoController, Refused

(* A query leaves what access_valid says. *)
LEMMA QueryAnswer ==
  ASSUME BlocksHaveRegisters,
         NEW space \in Spaces, NEW address \in 0 .. MaxAddress, NEW length \in 0 .. MaxLength,
         Query(space, address, length)
  PROVE  ValidIsInOneBlock'
  <1>1. SUFFICES ASSUME last'.op = "valid", last'.length > 0, HasController(last'.space),
                        \E i \in DOMAIN Fields[Controller(last.space)'] :
                            last'.address <= block_end(Fields[Controller(last.space)'][i])
                 PROVE  last'.result = 1
                            <=> \E i \in DOMAIN Fields[Controller(last.space)'] :
                                   Covers(Fields[Controller(last.space)'][i],
                                          last'.address, last'.length)
    BY DEF ValidIsInOneBlock
  <1>2. /\ joint' = joint /\ last'.space = space
        /\ last'.address = address /\ last'.length = length
    BY DEF Query, NoController, Note
  <1>3. PICK c \in Controllers : c = Controller(space)
    BY DEF Controller
  <1>4. Controller(last.space)' = c
    BY <1>2, <1>3 DEF Controller
  <1>5. PICK valid \in access_valid(Fields[c], address, length) :
           last'.result = IF valid THEN 1 ELSE 0
    BY <1>1, <1>2, <1>3 DEF Query, NoController, Note
  <1>6. length \in 1 .. MaxLength
    BY <1>1, <1>2
  <1>7. valid <=> \E i \in DOMAIN Fields[c] : Covers(Fields[c][i], address, length)
    BY <1>1, <1>2, <1>4, <1>5, <1>6, AccessValidExact
  <1> QED BY <1>2, <1>4, <1>5, <1>7

(* access_valid grants exactly the accesses that one block holds, for all  *)
(* sorted blocks: the binary comparison of neighbours that the constructor *)
(* asserts and the search for the first block together decide it.          *)
THEOREM ValidCorrect == BlocksHaveRegisters => (FieldsSpec => []ValidIsInOneBlock)
  <1> SUFFICES ASSUME BlocksHaveRegisters PROVE FieldsSpec => []ValidIsInOneBlock
    OBVIOUS
  <1>1. FieldsInit => ValidIsInOneBlock
    BY DEF FieldsInit, ValidIsInOneBlock
  <1>2. ValidIsInOneBlock /\ [FieldsNext]_fieldVars => ValidIsInOneBlock'
    <2> SUFFICES ASSUME ValidIsInOneBlock, [FieldsNext]_fieldVars PROVE ValidIsInOneBlock'
      OBVIOUS
    <2>1. CASE FieldsNext
      <3>1. PICK space \in Spaces, address \in 0 .. MaxAddress, length \in 0 .. MaxLength :
               \/ Query(space, address, length)
               \/ \E size \in BufferSizes : Read(space, address, length, size)
               \/ \E size \in BufferSizes : Write(space, address, length, Payload(size))
        BY <2>1, StepCases
      <3>2. CASE Query(space, address, length)
        BY <3>2, QueryAnswer
      <3>3. CASE \E size \in BufferSizes : Read(space, address, length, size)
        <4>1. last'.op = "read"
          BY <3>3, ReadNotes
        <4> QED BY <4>1 DEF ValidIsInOneBlock
      <3>4. CASE \E size \in BufferSizes : Write(space, address, length, Payload(size))
        <4>1. last'.op = "write"
          BY <3>4, WriteNotes
        <4> QED BY <4>1 DEF ValidIsInOneBlock
      <3> QED BY <3>1, <3>2, <3>3, <3>4
    <2>2. CASE UNCHANGED fieldVars
      BY <2>2 DEF fieldVars, ValidIsInOneBlock, Controller
    <2> QED BY <2>1, <2>2
  <1> QED BY <1>1, <1>2, PTL DEF FieldsSpec

-----------------------------------------------------------------------------
(* A call that goes through: the registers it moves are at most as many as *)
(* it asks for and as the caller's and the block's buffer hold.            *)
LEMMA TransferBounds ==
  ASSUME NEW space, NEW address, NEW length \in Nat, NEW size \in Nat,
         Granted(space, address, length)
  PROVE  /\ Controller(space) \in Controllers
         /\ Block(space, address) \in DOMAIN Fields[Controller(space)]
         /\ Moved(space, address, length, size) \in Nat
         /\ Moved(space, address, length, size) <= length
         /\ 2 * Moved(space, address, length, size) <= size
         /\ 2 * Moved(space, address, length, size)
                <= Fields[Controller(space)][Block(space, address)].size
  <1>1. PICK c \in Controllers : c = Controller(space)
    BY DEF Controller
  <1>2. PICK b \in DOMAIN Fields[c] : b = Block(space, address)
    BY <1>1 DEF Granted, Found, Block
  <1>3. PICK room \in Nat : room = Fields[c][b].size
    BY BlockFacts
  <1>4. PICK m \in Nat : m = Smaller(size, room) /\ m <= size /\ m <= room
    BY DEF Smaller
  <1>5. m \div 2 \in Nat /\ 2 * (m \div 2) <= m
    BY <1>4
  <1>6. PICK h \in Nat : h = m \div 2 /\ 2 * h <= m
    BY <1>5
  <1>7. Moved(space, address, length, size) = Smaller(h, length)
    BY <1>1, <1>2, <1>3, <1>4, <1>6 DEF Moved, transfer_length
  <1>8. /\ Smaller(h, length) \in Nat /\ Smaller(h, length) <= length
        /\ 2 * Smaller(h, length) <= size /\ 2 * Smaller(h, length) <= room
    BY <1>4, <1>6 DEF Smaller
  <1> QED BY <1>1, <1>2, <1>3, <1>7, <1>8

(* In a block at address 0 with all its bytes a transfer of no more than   *)
(* was granted ends in the block's buffer: the byte index is at most twice *)
(* a register address.  From address 0 on the index is a byte number.      *)
LEMMA FirstBlockHolds ==
  ASSUME BlocksHaveRegisters,
         NEW space, NEW address \in 0 .. MaxAddress, NEW length \in 0 .. MaxLength,
         Granted(space, address, length), NEW n \in Nat, n > 0, n <= length,
         NEW c \in Controllers, c = Controller(space),
         NEW b \in DOMAIN Fields[c], b = Block(space, address),
         2 * n <= Fields[c][b].size, Fields[c][b].address = 0,
         address = 0 \/ Fields[c][b].size >= 2 * Fields[c][b].length
  PROVE  "outside" \notin TransferFaults(Fields[c][b], address, n)
  <1>1. PICK room \in Nat, regs \in Nat : room = Fields[c][b].size /\ regs = Fields[c][b].length
    BY BlockFacts
  <1>2. block_end(Fields[c][b]) = regs - 1
    <2>1. block_end(Fields[c][b]) = 0 + regs - 1
      BY <1>1, BlockEnd, Zenon
    <2> QED BY <2>1
  <1>3. (address + length - 1) % SizeMod <= block_end(Fields[c][b])
    BY DEF Granted, Block, access_valid
  <1>4. length \in 1 .. MaxLength /\ address \in Nat
    OBVIOUS
  <1>5. (address + length - 1) % SizeMod = address + length - 1
    BY <1>4, NoWrap
  <1>6. address + length <= regs
    <2>1. address + length - 1 <= regs - 1
      BY <1>2, <1>3, <1>5, Zenon
    <2> QED BY <1>4, <2>1
  <1>7. address + (2 * n - 1) < room
    <2>1. CASE address = 0
      BY <1>1, <2>1
    <2>2. CASE room >= 2 * regs
      BY <1>4, <1>6, <2>2
    <2> QED BY <1>1, <2>1, <2>2
  <1>8. ~(entry_address(address, 2 * n - 1) >= Fields[c][b].size)
    BY <1>1, <1>4, <1>7 DEF entry_address
  <1> QED BY <1>8 DEF TransferFaults

(* What a call leaves: nothing moved, or a granted transfer. *)
LEMMA ReadOutcome ==
  ASSUME NEW space, NEW address, NEW length, NEW size, Read(space, address, length, size)
  PROVE  \/ last'.result = 0
         \/ /\ Granted(space, address, length)
            /\ last'.result = Moved(space, address, length, size)
            /\ last'.data = Copied(memory[Controller(space)][Block(space, address)], address,
                                   Moved(space, address, length, size))
            /\ faults' = faults \cup
                   TransferFaults(Fields[Controller(space)][Block(space, address)], address,
                                  Moved(space, address, length, size))
  <1>1. CASE NoController("read", space, address, length)
    BY <1>1 DEF NoController, Note
  <1>2. CASE Refused("read", space, address, length)
    BY <1>2 DEF Refused, Note
  <1>3. ASSUME NEW n, NEW data, Note("read", space, address, length, n, data)
        PROVE  last'.result = n /\ last'.data = data
    BY <1>3 DEF Note
  <1> QED BY <1>1, <1>2, <1>3, Zenon DEF Read

(* A write either moves nothing and reports nothing, or it is granted and
   puts the first Moved bytes of the data into the block of its address. *)
LEMMA WriteOutcome ==
  ASSUME NEW space, NEW address, NEW length, NEW data, Write(space, address, length, data)
  PROVE  \/ last'.result = 0 /\ last'.data = << >> /\ memory' = memory
         \/ /\ Granted(space, address, length)
            /\ last'.result = Moved(space, address, length, Len(data))
            /\ last'.data = SubSeq(data, 1, 2 * Moved(space, address, length, Len(data)))
            /\ memory' = [memory EXCEPT ![Controller(space)][Block(space, address)] =
                             Overwritten(@, address,
                                         Moved(space, address, length, Len(data)), data)]
            /\ faults' = faults \cup
                   TransferFaults(Fields[Controller(space)][Block(space, address)], address,
                                  Moved(space, address, length, Len(data)))
  <1>1. CASE NoController("write", space, address, length)
    BY <1>1 DEF NoController, Note
  <1>2. CASE Refused("write", space, address, length)
    BY <1>2 DEF Refused, Note
  <1>3. ASSUME NEW n, NEW bytes, Note("write", space, address, length, n, bytes)
        PROVE  last'.result = n /\ last'.data = bytes
    BY <1>3 DEF Note
  <1> QED BY <1>1, <1>2, <1>3, Zenon DEF Write

(* A function on 1 .. n is a sequence. *)
LEMMA FunctionIsSeq ==
  ASSUME NEW S, NEW n \in Nat, NEW s \in [1 .. n -> S]
  PROVE  s \in Seq(S) /\ Len(s) = n
  <1>1. s \in Seq(S)
    BY SeqDef
  <1>2. DOMAIN s = 1 .. Len(s) /\ Len(s) \in Nat
    BY <1>1, LenProperties
  <1>3. 1 .. n = 1 .. Len(s)
    BY <1>2
  <1> QED BY <1>1, <1>2, <1>3

(* A caller's data has the size of its buffer. *)
LEMMA PayloadBytes ==
  ASSUME NEW size \in Nat
  PROVE  /\ Len(Payload(size)) = size
         /\ calls \in Nat => Payload(size) \in [1 .. size -> Nat]
  <1>1. Payload(size) \in [1 .. size -> {Payload(size)[i] : i \in 1 .. size}]
    BY DEF Payload
  <1>2. Len(Payload(size)) = size
    BY <1>1, FunctionIsSeq
  <1> QED BY <1>2 DEF Payload

(* FirstBlockIsNeverLeft after a transfer that was granted. *)
LEMMA FirstBlockStep ==
  ASSUME BlocksHaveRegisters,
         NEW space, NEW address \in 0 .. MaxAddress, NEW length \in 0 .. MaxLength,
         NEW size \in Nat, Granted(space, address, length),
         last'.space = space, last'.address = address, joint' = joint,
         last'.result = Moved(space, address, length, size)
  PROVE  FirstBlockIsNeverLeft'
  <1>1. length \in Nat
    OBVIOUS
  <1>0. PICK c \in Controllers : c = Controller(space)
    BY <1>1, TransferBounds
  <1>2. PICK b \in DOMAIN Fields[c] : b = Block(space, address)
    BY <1>0, <1>1, TransferBounds
  <1>3. /\ Moved(space, address, length, size) \in Nat
        /\ Moved(space, address, length, size) <= length
        /\ 2 * Moved(space, address, length, size) <= Fields[c][b].size
    BY <1>0, <1>1, <1>2, TransferBounds
  <1>4. PICK n \in Nat : n = last'.result /\ n <= length /\ 2 * n <= Fields[c][b].size
    BY <1>3
  <1>5. Controller(last.space)' = c /\ Block(last.space, last.address)' = b
    BY <1>0, <1>2 DEF Controller, Block
  <1>6. ASSUME n > 0, Fields[c][b].address = 0,
               address = 0 \/ Fields[c][b].size >= 2 * Fields[c][b].length
        PROVE  "outside" \notin TransferFaults(Fields[c][b], address, n)
    BY <1>0, <1>2, <1>4, <1>6, FirstBlockHolds
  <1> QED BY <1>4, <1>5, <1>6 DEF FirstBlockIsNeverLeft

(* A transfer out of a block that starts at address 0 never leaves the     *)
(* block's buffer if it starts at address 0 itself, whatever the sizes of  *)
(* the block, its buffer and the caller's, or if the buffer has two bytes  *)
(* for every register.                                                     *)
THEOREM FirstBlockCorrect == BlocksHaveRegisters => (FieldsSpec => []FirstBlockIsNeverLeft)
  <1> SUFFICES ASSUME BlocksHaveRegisters PROVE FieldsSpec => []FirstBlockIsNeverLeft
    OBVIOUS
  <1>1. FieldsInit => FirstBlockIsNeverLeft
    BY DEF FieldsInit, FirstBlockIsNeverLeft
  <1>2. FirstBlockIsNeverLeft /\ [FieldsNext]_fieldVars => FirstBlockIsNeverLeft'
    <2> SUFFICES ASSUME FirstBlockIsNeverLeft, [FieldsNext]_fieldVars
                 PROVE  FirstBlockIsNeverLeft'
      OBVIOUS
    <2>0. ASSUME last'.result = 0 PROVE FirstBlockIsNeverLeft'
      BY <2>0 DEF FirstBlockIsNeverLeft
    <2>1. CASE FieldsNext
      <3>1. PICK space \in Spaces, address \in 0 .. MaxAddress, length \in 0 .. MaxLength :
               \/ Query(space, address, length)
               \/ \E size \in BufferSizes : Read(space, address, length, size)
               \/ \E size \in BufferSizes : Write(space, address, length, Payload(size))
        BY <2>1, StepCases
      <3>2. CASE Query(space, address, length)
        <4>1. last'.op = "valid"
          BY <3>2 DEF Query, NoController, Note
        <4> QED BY <4>1 DEF FirstBlockIsNeverLeft
      <3>3. ASSUME NEW size \in BufferSizes, Read(space, address, length, size)
            PROVE  FirstBlockIsNeverLeft'
        <4>1. size \in Nat
          BY FieldsAssumption
        <4> QED BY <2>0, <3>3, <4>1, ReadNotes, ReadOutcome, FirstBlockStep
      <3>4. ASSUME NEW size \in BufferSizes, Write(space, address, length, Payload(size))
            PROVE  FirstBlockIsNeverLeft'
        <4>1. size \in Nat /\ Len(Payload(size)) \in Nat
          BY FieldsAssumption, PayloadBytes
        <4> QED BY <2>0, <3>4, <4>1, WriteNotes, WriteOutcome, FirstBlockStep
      <3> QED BY <3>1, <3>2, <3>3, <3>4
    <2>2. CASE UNCHANGED fieldVars
      BY <2>2 DEF fieldVars, FirstBlockIsNeverLeft, Controller, Block
    <2> QED BY <2>1, <2>2
  <1> QED BY <1>1, <1>2, PTL DEF FieldsSpec

-----------------------------------------------------------------------------
(* Every block buffer has its size. *)
BlocksTyped ==
    /\ memory = [c \in Controllers |-> memory[c]]
    /\ \A c \in Controllers :
          /\ memory[c] = [i \in DOMAIN Fields[c] |-> memory[c][i]]
          /\ \A i \in DOMAIN Fields[c] : memory[c][i] \in [1 .. Fields[c][i].size -> Nat]

(* One block buffer changes. *)
LEMMA BlockReplaced ==
  ASSUME BlocksTyped, NEW c \in Controllers, NEW b \in DOMAIN Fields[c],
         NEW new \in [1 .. Fields[c][b].size -> Nat],
         memory' = [memory EXCEPT ![c][b] = new]
  PROVE  BlocksTyped' /\ memory'[c][b] = new
  <1>1. \A d \in Controllers : d # c => memory'[d] = memory[d]
    BY DEF BlocksTyped
  <1>2. memory'[c] = [memory[c] EXCEPT ![b] = new]
    BY DEF BlocksTyped
  <1>3. /\ memory'[c] = [i \in DOMAIN Fields[c] |-> memory'[c][i]]
        /\ memory'[c][b] = new
        /\ \A i \in DOMAIN Fields[c] : memory'[c][i] \in [1 .. Fields[c][i].size -> Nat]
    BY <1>2 DEF BlocksTyped
  <1>4. memory' = [d \in Controllers |-> memory'[d]]
    BY DEF BlocksTyped
  <1> QED BY <1>1, <1>3, <1>4 DEF BlocksTyped

(* What the last write moved is still in the block buffer. *)
WrittenThere ==
    last.op = "write" /\ faults = {} =>
        \A k \in 1 .. 2 * last.result :
            memory[Controller(last.space)][Block(last.space, last.address)][last.address + k]
                = last.data[k]

(* The inductive invariant behind reading back. *)
FieldsInv ==
    /\ BlocksTyped
    /\ calls \in Nat
    /\ last.result \in Nat
    /\ WrittenThere

(* A transfer without a fault stays in the block buffer. *)
LEMMA NoFaultStaysInside ==
  ASSUME NEW field, NEW room \in Nat, room = field.size,
         NEW address \in Nat, NEW n \in Nat, TransferFaults(field, address, n) = {}
  PROVE  \A k \in 1 .. 2 * n : address + k \in 1 .. room
  <1>1. ASSUME n > 0 PROVE address + 2 * n - 1 < room
    <2>1. ~(entry_address(address, 2 * n - 1) >= room)
      BY <1>1 DEF TransferFaults
    <2> QED BY <2>1 DEF entry_address
  <1> QED BY <1>1

(* A buffer of room bytes that has n registers of data behind address. *)
HasData(bytes, room, address, n, data) ==
    /\ bytes \in [1 .. room -> Nat]
    /\ \A k \in 1 .. 2 * n : address + k \in 1 .. room => bytes[address + k] = data[k]

(* The block buffer after a write. *)
LEMMA OverwrittenBytes ==
  ASSUME NEW room \in Nat, NEW old \in [1 .. room -> Nat],
         NEW size \in Nat, NEW data \in [1 .. size -> Nat],
         NEW address \in Nat, NEW n \in Nat, 2 * n <= size
  PROVE  HasData(Overwritten(old, address, n, data), room, address, n, data)
  <1>1. Len(old) = room
    BY FunctionIsSeq
  <1>2. Overwritten(old, address, n, data)
            = [k \in 1 .. room |-> IF k - address \in 1 .. 2 * n THEN data[k - address]
                                   ELSE old[k]]
    BY <1>1 DEF Overwritten
  <1>3. \A k \in 1 .. room :
           (IF k - address \in 1 .. 2 * n THEN data[k - address] ELSE old[k]) \in Nat
    OBVIOUS
  <1>4. \A k \in 1 .. 2 * n : (address + k) - address = k
    OBVIOUS
  <1> QED BY <1>2, <1>3, <1>4 DEF HasData

(* The bytes of a read that stays in the block buffer. *)
LEMMA CopiedBytes ==
  ASSUME NEW room \in Nat, NEW bytes \in [1 .. room -> Nat],
         NEW address \in Nat, NEW n \in Nat, NEW k \in 1 .. 2 * n, address + k \in 1 .. room
  PROVE  Copied(bytes, address, n)[k] = bytes[address + k]
  <1>1. Len(bytes) = room
    BY FunctionIsSeq
  <1>2. entry_address(address, k - 1) = address + k - 1 /\ address + k - 1 + 1 = address + k
    BY DEF entry_address
  <1>3. address + k - 1 < room
    OBVIOUS
  <1> QED BY <1>1, <1>2, <1>3 DEF Copied

(* A write leaves its bytes where it says. *)
LEMMA WriteLeaves ==
  ASSUME FieldsInv, NEW space \in Spaces, NEW address \in 0 .. MaxAddress,
         NEW length \in 0 .. MaxLength, NEW size \in Nat,
         Write(space, address, length, Payload(size))
  PROVE  BlocksTyped' /\ last'.result \in Nat /\ WrittenThere'
  <1>1. /\ last'.op = "write" /\ last'.space = space /\ last'.address = address
        /\ joint' = joint
    BY WriteNotes
  <1>2. CASE last'.result = 0 /\ memory' = memory
    <2>1. BlocksTyped'
      BY <1>2 DEF FieldsInv, BlocksTyped
    <2>2. 1 .. 2 * last'.result = {}
      BY <1>2
    <2>3. WrittenThere'
      BY <2>2 DEF WrittenThere
    <2> QED BY <1>2, <2>1, <2>3
  <1>3. CASE ~(last'.result = 0 /\ memory' = memory)
    <2>1. address \in Nat /\ length \in Nat /\ calls \in Nat
      BY DEF FieldsInv
    <2>2. PICK data \in [1 .. size -> Nat] : data = Payload(size) /\ Len(data) = size
      BY <2>1, PayloadBytes
    <2>3. Granted(space, address, length) /\ last'.result = Moved(space, address, length, size)
      BY <1>3, <2>2, WriteOutcome
    <2>4. PICK c \in Controllers : c = Controller(space)
      BY <2>1, <2>3, TransferBounds
    <2>5. PICK b \in DOMAIN Fields[c] : b = Block(space, address)
      BY <2>1, <2>3, <2>4, TransferBounds
    <2>6. PICK n \in Nat : n = Moved(space, address, length, size) /\ 2 * n <= size
      BY <2>1, <2>3, TransferBounds
    <2>7. PICK room \in Nat : room = Fields[c][b].size
      BY BlockFacts
    <2>8. PICK old \in [1 .. room -> Nat] : old = memory[c][b]
      BY <2>7 DEF FieldsInv, BlocksTyped
    <2>9. PICK new \in [1 .. room -> Nat] :
             /\ new = Overwritten(old, address, n, data)
             /\ \A k \in 1 .. 2 * n : address + k \in 1 .. room => new[address + k] = data[k]
      <3>1. HasData(Overwritten(old, address, n, data), room, address, n, data)
        <4>1. /\ room \in Nat /\ old \in [1 .. room -> Nat] /\ data \in [1 .. size -> Nat]
              /\ address \in Nat /\ n \in Nat /\ size \in Nat /\ 2 * n <= size
          BY <2>1, <2>2, <2>6, <2>7, <2>8
        <4> QED BY <4>1, OverwrittenBytes, Zenon
      <3> QED BY <3>1, Zenon DEF HasData
    <2>10. /\ memory' = [memory EXCEPT ![c][b] = new]
           /\ last'.data = SubSeq(data, 1, 2 * n)
           /\ faults' = faults \cup TransferFaults(Fields[c][b], address, n)
      BY <1>3, <2>2, <2>4, <2>5, <2>6, <2>8, <2>9, WriteOutcome
    <2>11. BlocksTyped' /\ memory'[c][b] = new
      BY <2>7, <2>10, BlockReplaced, ZenonT(40) DEF FieldsInv
    <2>12. Controller(last.space)' = c /\ Block(last.space, last.address)' = b
      BY <1>1, <2>4, <2>5 DEF Controller, Block
    <2>13. WrittenThere'
      <3>1. SUFFICES ASSUME faults' = {}, NEW k \in 1 .. 2 * n
                     PROVE  memory'[c][b][address + k] = last'.data[k]
        BY <1>1, <2>3, <2>6, <2>12 DEF WrittenThere
      <3>2. address + k \in 1 .. room
        BY <2>1, <2>7, <2>10, <3>1, NoFaultStaysInside, ZenonT(40)
      <3>3. last'.data[k] = data[k]
        <4>1. \A i \in 1 .. 2 * n : data[i] \in Nat
          BY <2>6
        <4>2. 1 \in Int /\ 2 * n \in Int /\ 2 * n - 1 + 1 = 2 * n /\ 1 + k - 1 = k
          OBVIOUS
        <4>3. SubSeq(data, 1, 2 * n)[k] = data[1 + k - 1]
          BY <4>1, <4>2, SubSeqProperties
        <4> QED BY <2>10, <4>2, <4>3
      <3> QED BY <2>9, <2>11, <3>2, <3>3
    <2> QED BY <2>3, <2>6, <2>11, <2>13
  <1> QED BY <1>2, <1>3

(* A read gives back what the step before it wrote. *)
LEMMA ReadGives ==
  ASSUME FieldsInv, NEW space \in Spaces, NEW address \in 0 .. MaxAddress,
         NEW length \in 0 .. MaxLength, NEW size \in Nat, Read(space, address, length, size)
  PROVE  last'.result \in Nat /\ ReadBackStep
  <1>1. /\ last'.op = "read" /\ last'.space = space /\ last'.address = address
        /\ joint' = joint /\ memory' = memory
    BY ReadNotes
  <1>2. CASE last'.result = 0
    <2>1. 1 .. 2 * Smaller(last.result, last'.result) = {}
      BY <1>2 DEF Smaller, FieldsInv
    <2> QED BY <1>2, <2>1 DEF ReadBackStep
  <1>3. CASE last'.result # 0
    <2>1. address \in Nat /\ length \in Nat
      OBVIOUS
    <2>2. Granted(space, address, length)
      BY <1>3, ReadOutcome
    <2>3. PICK c \in Controllers : c = Controller(space)
      BY <2>1, <2>2, TransferBounds
    <2>4. PICK b \in DOMAIN Fields[c] : b = Block(space, address)
      BY <2>1, <2>2, <2>3, TransferBounds
    <2>5. PICK n \in Nat : n = Moved(space, address, length, size)
      BY <2>1, <2>2, TransferBounds
    <2>6. PICK room \in Nat : room = Fields[c][b].size
      BY BlockFacts
    <2>7. PICK bytes \in [1 .. room -> Nat] : bytes = memory[c][b]
      BY <2>6 DEF FieldsInv, BlocksTyped
    <2>8. /\ last'.result = n /\ last'.data = Copied(bytes, address, n)
          /\ faults' = faults \cup TransferFaults(Fields[c][b], address, n)
      BY <1>3, <2>3, <2>4, <2>5, <2>7, ReadOutcome
    <2>9. ReadBackStep
      <3>1. SUFFICES ASSUME last.op = "write", last.address = address,
                            \/ last.space = space
                            \/ joint /\ {last.space, space} \subseteq
                                            {"kHoldingRegister", "kInputRegister"},
                            faults' = {},
                            NEW k \in 1 .. 2 * Smaller(last.result, n)
                     PROVE  last.data[k] = Copied(bytes, address, n)[k]
        BY <1>1, <2>8 DEF ReadBackStep
      <3>2. Controller(last.space) = c
        BY <2>3, <3>1 DEF Controller
      <3>3. Block(last.space, last.address) = b
        BY <2>3, <2>4, <3>1, <3>2 DEF Block
      <3>4. k \in 1 .. 2 * n /\ k \in 1 .. 2 * last.result
        BY DEF Smaller, FieldsInv
      <3>5. faults = {} /\ TransferFaults(Fields[c][b], address, n) = {}
        BY <2>8, <3>1
      <3>6. address + k \in 1 .. room
        BY <2>1, <2>6, <3>4, <3>5, NoFaultStaysInside
      <3>7. bytes[address + k] = last.data[k]
        BY <2>7, <3>1, <3>2, <3>3, <3>4, <3>5 DEF FieldsInv, WrittenThere
      <3>8. Copied(bytes, address, n)[k] = bytes[address + k]
        <4>1. PICK j \in 1 .. 2 * n : j = k
          BY <3>4
        <4>2. /\ room \in Nat /\ bytes \in [1 .. room -> Nat] /\ address \in Nat
              /\ n \in Nat /\ j \in 1 .. 2 * n /\ address + j \in 1 .. room
          BY <2>1, <2>5, <2>6, <2>7, <3>6, <4>1
        <4>3. Copied(bytes, address, n)[j] = bytes[address + j]
          BY <4>2, CopiedBytes, ZenonT(40)
        <4> QED BY <4>1, <4>3
      <3> QED BY <3>7, <3>8
    <2> QED BY <2>8, <2>9
  <1> QED BY <1>2, <1>3

-----------------------------------------------------------------------------
(* Freshly built blocks and controllers satisfy the inductive invariant. *)
LEMMA FieldsInvInit == FieldsInit => FieldsInv
  <1> SUFFICES ASSUME FieldsInit PROVE FieldsInv
    OBVIOUS
  <1>1. BlocksTyped
    BY DEF FieldsInit, BlocksTyped
  <1> QED BY <1>1 DEF FieldsInit, FieldsInv, WrittenThere

(* Every step keeps the invariant and reads back what was written. *)
LEMMA FieldsStep ==
  ASSUME FieldsInv, [FieldsNext]_fieldVars
  PROVE  FieldsInv' /\ [ReadBackStep]_fieldVars
  <1>1. CASE FieldsNext
    <2>1. PICK space \in Spaces, address \in 0 .. MaxAddress, length \in 0 .. MaxLength :
             \/ Query(space, address, length)
             \/ \E size \in BufferSizes : Read(space, address, length, size)
             \/ \E size \in BufferSizes : Write(space, address, length, Payload(size))
      BY <1>1, StepCases
    <2>2. calls' \in Nat
      <3>1. calls' = calls + 1
        BY <2>1, CallsCounted
      <3> QED BY <3>1 DEF FieldsInv
    <2>3. CASE Query(space, address, length)
      <3>1. last'.op = "valid" /\ last'.result \in Nat /\ memory' = memory
        BY <2>3 DEF Query, NoController, Note
      <3> QED BY <2>2, <3>1 DEF FieldsInv, BlocksTyped, WrittenThere, ReadBackStep
    <2>4. ASSUME NEW size \in BufferSizes, Read(space, address, length, size)
          PROVE  FieldsInv' /\ ReadBackStep
      <3>1. last'.op = "read" /\ memory' = memory
        BY <2>4, ReadNotes
      <3>2. size \in Nat
        BY FieldsAssumption
      <3>3. last'.result \in Nat /\ ReadBackStep
        BY <2>4, <3>2, ReadGives
      <3> QED BY <2>2, <3>1, <3>3 DEF FieldsInv, BlocksTyped, WrittenThere
    <2>5. ASSUME NEW size \in BufferSizes, Write(space, address, length, Payload(size))
          PROVE  FieldsInv' /\ ReadBackStep
      <3>1. last'.op = "write"
        BY <2>5, WriteNotes
      <3>2. size \in Nat
        BY FieldsAssumption
      <3>3. BlocksTyped' /\ last'.result \in Nat /\ WrittenThere'
        BY <2>5, <3>2, WriteLeaves
      <3> QED BY <2>2, <3>1, <3>3 DEF FieldsInv, ReadBackStep
    <2> QED BY <2>1, <2>3, <2>4, <2>5
  <1>2. CASE UNCHANGED fieldVars
    BY <1>2 DEF fieldVars, FieldsInv, BlocksTyped, WrittenThere, Controller, Block
  <1> QED BY <1>1, <1>2

(* The inductive invariant holds in every state of every sequence of calls. *)
LEMMA FieldsInvAlways == FieldsSpec => []FieldsInv
  <1>1. FieldsInv /\ [FieldsNext]_fieldVars => FieldsInv'
    BY FieldsStep
  <1> QED BY <1>1, FieldsInvInit, PTL DEF FieldsSpec

(* RegisterController's write and read use the same bytes of a block: what *)
(* one puts there the other gives back, in blocks of every shape, even the *)
(* ones whose indices are not what their registers suggest.                *)
THEOREM WrittenIsRead == FieldsSpec => ReadGivesWritten
  <1>1. FieldsInv /\ [FieldsNext]_fieldVars => [ReadBackStep]_fieldVars
    BY FieldsStep
  <1> QED BY <1>1, FieldsInvAlways, PTL DEF FieldsSpec, ReadGivesWritten
=============================================================================
