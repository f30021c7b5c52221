------------------------- MODULE MappedStoreProofs -------------------------
(***************************************************************************)
(* MappedRegisterDataStore behind the register controllers, for every map  *)
(* whose entries follow one another: a command reaches the field it names  *)
(* and no other, and no field is ever torn.                                *)
(***************************************************************************)
EXTENDS MappedStore, SequenceTheorems, TLAPS

USE DEF Byte

(* What MapAssumption says of an entry. *)
LEMMA MapFacts ==
  /\ DOMAIN Map = Entries /\ Len(Map) \in Nat \ {0}
  /\ \A i \in Entries : Map[i].offset \in Nat /\ Map[i].words \in Nat \ {0}
  /\ \A i \in Entries : Offsets(Map)[i] = Map[i].offset
  /\ \A i \in Entries : EndPoints(Map)[i] = Map[i].offset + Map[i].words - 1
  <1>1. Map \in Seq(EntryType) /\ Map # << >>
    BY MapAssumption
  <1>2. DOMAIN Map = Entries /\ Len(Map) \in Nat \ {0}
    BY <1>1, LenProperties, EmptySeq DEF Entries
  <1>3. \A i \in Entries : Map[i] \in EntryType
    BY <1>1, ElementOfSeq DEF Entries
  <1>4. \A i \in Entries : Map[i].offset \in Nat /\ Map[i].words \in Nat \ {0}
    BY <1>3 DEF EntryType
  <1> QED BY <1>2, <1>4 DEF Offsets, EndPoints

(* Entries do not overlap, so no two of them start at one address. *)
LEMMA EntriesApart ==
  ASSUME NEW i \in Entries, NEW j \in Entries, i < j
  PROVE  Map[i].offset + Map[i].words <= Map[j].offset
  <1>1. EndPoints(Map)[i] < Map[j].offset
    BY MapAssumption DEF Entries
  <1> QED BY <1>1, MapFacts

(* Two entries never start at the same register: GetMemoryMapEntryIndex finds
   at most one entry for an address. *)
LEMMA StartsApart ==
  ASSUME NEW i \in Entries, NEW j \in Entries, Map[i].offset = Map[j].offset
  PROVE  i = j
  <1>1. i \in Int /\ j \in Int
    BY MapFacts DEF Entries
  <1>2. ~(i < j) /\ ~(j < i)
    BY EntriesApart, MapFacts
  <1> QED BY <1>1, <1>2

(* GetMemoryMapEntryIndex finds the entry that starts at an address. *)
LEMMA EntryFound ==
  ASSUME NEW i \in Entries
  PROVE  GetMemoryMapEntryIndex(Map, Map[i].offset) = i
  <1> DEFINE places == {k \in DOMAIN Offsets(Map) : Offsets(Map)[k] = Map[i].offset}
  <1>1. DOMAIN Offsets(Map) = Entries
    BY MapFacts DEF Offsets
  <1>2. places = {i}
    BY <1>1, MapFacts, StartsApart
  <1>3. i \in Int /\ i <= Len(Map)
    BY MapFacts DEF Entries
  <1>4. (CHOOSE k \in places : \A j \in places : k <= j) = i
    BY <1>2, <1>3
  <1>5. get_matching_index(Map[i].offset, Offsets(Map)) = i
    <2>1. places # {}
      BY <1>2
    <2> QED BY <1>4, <2>1 DEF get_matching_index
  <1> QED BY <1>3, <1>5, MapFacts DEF GetMemoryMapEntryIndex

(* An accepted range starts with an entry and takes all of it, unless it   *)
(* takes no register at all.                                               *)
LEMMA AcceptedRange ==
  ASSUME NEW address \in Nat, NEW count \in Nat, check_location_valid(Map, address, count)
  PROVE  \E i \in Entries : Map[i].offset = address /\ (count = 0 \/ count >= Map[i].words)
  <1>1. PICK i \in Entries : Map[i].offset = address
    BY MapFacts DEF check_location_valid
  <1>2. PICK j \in Entries : Map[j].offset + Map[j].words - 1 = address + count - 1
    BY MapFacts DEF check_location_valid
  <1>3. i \in Int /\ j \in Int
    BY MapFacts DEF Entries
  <1>4. CASE i = j
    BY <1>1, <1>2, <1>4, MapFacts
  <1>5. CASE i < j
    <2>1. Map[i].offset + Map[i].words <= Map[j].offset
      BY <1>5, EntriesApart
    <2>2. count >= Map[i].words
      <3>1. PICK oi \in Nat, wi \in Nat : oi = Map[i].offset /\ wi = Map[i].words
        BY MapFacts
      <3>2. PICK oj \in Nat, wj \in Nat : oj = Map[j].offset /\ wj = Map[j].words
        BY MapFacts
      <3>3. oi = address /\ oj + wj - 1 = address + count - 1 /\ oi + wi <= oj
        BY <1>1, <1>2, <2>1, <3>1, <3>2
      <3>4. count >= wi
        BY <3>3
      <3> QED BY <3>1, <3>4
    <2> QED BY <1>1, <2>2
  <1>6. CASE j < i
    BY <1>1, <1>2, <1>6, EntriesApart, MapFacts, SMTT(30)
  <1> QED BY <1>1, <1>3, <1>4, <1>5, <1>6

(* The range of exactly one entry is accepted. *)
LEMMA EntryAccepted ==
  ASSUME NEW i \in Entries, NEW address, NEW count, IsEntry(i, address, count)
  PROVE  check_location_valid(Map, address, count)
  BY MapFacts DEF IsEntry, check_location_valid

-----------------------------------------------------------------------------
(* A function on 1 .. n is a sequence. *)
LEMMA FunctionIsSeq ==
  ASSUME NEW S, NEW n \in Nat, NEW s \in [1 .. n -> S]
  PROVE  s \in Seq(S) /\ Len(s) = n
  <1>1. s \in Seq(S)
    BY SeqDef
  <1>2. DOMAIN s = 1 .. Len(s) /\ Len(s) \in Nat
    BY <1>1, LenProperties
  <1>3. 1 .. n = 1 .. Len(s)
    BY <1>2
  <1> QED BY <1>1, <1>2, <1>3

(* The banks, entry by entry. *)
LEMMA BankTyped ==
  ASSUME NEW b
  PROVE  b \in BankType(Map)
             <=> /\ b = [i \in Entries |-> b[i]]
                 /\ \A i \in Entries : b[i] \in [1 .. Width(Map[i]) -> Byte]
  <1>1. \A i \in Entries : Width(Map[i]) \in Nat
    BY MapFacts DEF Width
  <1>2. \A i \in Entries : \A s :
           s \in Seq(Byte) /\ Len(s) = Width(Map[i]) <=> s \in [1 .. Width(Map[i]) -> Byte]
    <2> SUFFICES ASSUME NEW i \in Entries, NEW s
                 PROVE  s \in Seq(Byte) /\ Len(s) = Width(Map[i])
                            <=> s \in [1 .. Width(Map[i]) -> Byte]
      OBVIOUS
    <2>1. PICK n \in Nat : n = Width(Map[i])
      BY <1>1
    <2>2. ASSUME s \in Seq(Byte), Len(s) = n PROVE s \in [1 .. n -> Byte]
      BY <2>2, LenProperties
    <2>3. ASSUME s \in [1 .. n -> Byte] PROVE s \in Seq(Byte) /\ Len(s) = n
      BY <2>3, FunctionIsSeq
    <2> QED BY <2>1, <2>2, <2>3
  <1>3. b \in BankType(Map)
            <=> /\ b \in [Entries -> Seq(Byte)]
                /\ \A i \in Entries : Len(b[i]) = Width(Map[i])
    BY MapFacts DEF BankType
  <1>4. b \in [Entries -> Seq(Byte)]
            <=> b = [i \in Entries |-> b[i]] /\ \A i \in Entries : b[i] \in Seq(Byte)
    OBVIOUS
  <1> HIDE DEF Byte
  <1> QED BY <1>2, <1>3, <1>4, Zenon

-----------------------------------------------------------------------------
(* n bytes that are one word over and over. *)
Repeating(n) ==
    {s \in [1 .. n -> Byte] : \A k \in 1 .. n : s[k] = s[2 - (k % 2)]}

(* Commands and set_<field> carry such bytes. *)
LEMMA PayloadRepeats ==
  ASSUME NEW count \in Nat, NEW data \in Payloads(count)
  PROVE  data \in Repeating(2 * count)
  <1>1. PICK d \in Data : data = [k \in 1 .. 2 * count |-> d[2 - (k % 2)]]
    BY DEF Payloads
  <1>2. d[1] \in Byte /\ d[2] \in Byte
    BY MapAssumption, SMTT(30)
  <1>3. \A k \in 1 .. 2 * count :
           /\ 2 - (k % 2) \in 1 .. 2 * count
           /\ 2 - (k % 2) \in {1, 2}
           /\ 2 - ((2 - (k % 2)) % 2) = 2 - (k % 2)
    OBVIOUS
  <1>4. \A k \in 1 .. 2 * count : d[2 - (k % 2)] \in Byte
    BY <1>2, <1>3
  <1>5. data \in [1 .. 2 * count -> Byte]
    BY <1>1, <1>4
  <1>6. \A k \in 1 .. 2 * count : data[k] = data[2 - (k % 2)]
    BY <1>1, <1>3
  <1> QED BY <1>5, <1>6 DEF Repeating

(* What SetField makes of an entry when the data is as long as the entry   *)
(* or longer, or empty: its first bytes, its last bytes, the entry as it   *)
(* was or zeros, and the data itself when the sizes agree.                 *)
LEMMA FieldSet ==
  ASSUME NEW w \in Nat \ {0}, NEW count \in Nat, count = 0 \/ count >= w,
         NEW old \in Repeating(2 * w), NEW data \in Repeating(2 * count),
         NEW new \in {CopyToArray(old, data)} \cup MakeMSBInteger(data, 2 * w)
  PROVE  /\ new \in Repeating(2 * w)
         /\ count = w => new = data
  <1>1. /\ old \in [1 .. 2 * w -> Byte]
        /\ \A k \in 1 .. 2 * w : old[k] = old[2 - (k % 2)]
    BY DEF Repeating
  <1>2. /\ data \in [1 .. 2 * count -> Byte]
        /\ \A k \in 1 .. 2 * count : data[k] = data[2 - (k % 2)]
    BY DEF Repeating
  <1>3. Len(old) = 2 * w /\ Len(data) = 2 * count
    BY <1>1, <1>2, FunctionIsSeq
  <1>4. \A k \in 1 .. 2 * w : 2 - (k % 2) \in 1 .. 2 * w
    OBVIOUS
  <1>5. CASE new = CopyToArray(old, data)
    <2>1. new = [i \in 1 .. 2 * w |-> IF i <= 2 * count THEN data[i] ELSE old[i]]
      BY <1>3, <1>5 DEF CopyToArray
    <2>2. CASE count = 0
      <3>1. \A i \in 1 .. 2 * w : new[i] = old[i]
        BY <2>1, <2>2
      <3>2. new = old
        BY <1>1, <2>1, <3>1
      <3> QED BY <2>2, <3>2
    <2>3. CASE count >= w
      <3>1. \A i \in 1 .. 2 * w : new[i] = data[i] /\ i \in 1 .. 2 * count
        BY <2>1, <2>3
      <3>2. new \in [1 .. 2 * w -> Byte]
        BY <1>2, <2>1, <3>1, SMTT(30)
      <3>3. \A k \in 1 .. 2 * w : new[k] = new[2 - (k % 2)]
        BY <1>2, <1>4, <3>1
      <3>4. count = w => new = data
        BY <1>2, <2>1, <3>1
      <3> QED BY <3>2, <3>3, <3>4 DEF Repeating
    <2> QED BY <2>2, <2>3
  <1>6. CASE new = [i \in 1 .. 2 * w |-> IF i <= 2 * count THEN data[i] ELSE 0]
    <2>1. CASE count = 0
      <3>1. \A i \in 1 .. 2 * w : new[i] = 0
        BY <1>6, <2>1
      <3>2. new \in [1 .. 2 * w -> Byte]
        BY <1>6, <3>1
      <3> QED BY <1>4, <2>1, <3>1, <3>2 DEF Repeating
    <2>2. CASE count >= w
      <3>1. \A i \in 1 .. 2 * w : new[i] = data[i] /\ i \in 1 .. 2 * count
        BY <1>6, <2>2
      <3>2. new \in [1 .. 2 * w -> Byte]
        BY <1>2, <1>6, <3>1, SMTT(30)
      <3>3. \A k \in 1 .. 2 * w : new[k] = new[2 - (k % 2)]
        BY <1>2, <1>4, <3>1
      <3>4. count = w => new = data
        BY <1>2, <1>6, <3>1
      <3> QED BY <3>2, <3>3, <3>4 DEF Repeating
    <2> QED BY <2>1, <2>2
  <1>7. CASE new = [i \in 1 .. 2 * w |-> IF i + 2 * count > 2 * w
                                         THEN data[i + 2 * count - 2 * w] ELSE 0]
    <2>1. CASE count = 0
      <3>1. \A i \in 1 .. 2 * w : new[i] = 0
        BY <1>7, <2>1
      <3>2. new \in [1 .. 2 * w -> Byte]
        <4>1. new = [i \in 1 .. 2 * w |-> new[i]]
          BY <1>7
        <4> QED BY <3>1, <4>1
      <3> QED BY <1>4, <2>1, <3>1, <3>2 DEF Repeating
    <2>2. CASE count >= w
      <3>1. PICK d \in Nat : count = w + d
        BY <2>2
      <3>2. \A i \in 1 .. 2 * w : new[i] = data[i + 2 * d] /\ i + 2 * d \in 1 .. 2 * count
        BY <1>7, <3>1
      <3>3. new \in [1 .. 2 * w -> Byte]
        BY <1>2, <1>7, <3>2, SMTT(30)
      <3>4. ASSUME NEW k \in 1 .. 2 * w PROVE new[k] = new[2 - (k % 2)]
        <4>1. (k + 2 * d) % 2 = k % 2 /\ (2 - (k % 2) + 2 * d) % 2 = k % 2
          OBVIOUS
        <4>2. new[k] = data[k + 2 * d] /\ data[k + 2 * d] = data[2 - (k % 2)]
          BY <1>2, <3>2, <4>1
        <4>3. /\ new[2 - (k % 2)] = data[2 - (k % 2) + 2 * d]
              /\ data[2 - (k % 2) + 2 * d] = data[2 - (k % 2)]
          BY <1>2, <1>4, <3>2, <4>1
        <4> QED BY <4>2, <4>3
      <3>5. count = w => new = data
        <4>1. ASSUME count = w PROVE new = data
          <5>1. \A i \in 1 .. 2 * w : new[i] = data[i]
            BY <3>1, <3>2, <4>1
          <5> QED BY <1>2, <3>3, <4>1, <5>1
        <4> QED BY <4>1
      <3> QED BY <3>3, <3>4, <3>5 DEF Repeating
    <2> QED BY <2>1, <2>2
  <1> QED BY <1>3, <1>5, <1>6, <1>7 DEF MakeMSBInteger

-----------------------------------------------------------------------------
(* The inductive invariant: all of the store's invariants, and every field *)
(* one word over and over.                                                 *)
Untorn == /\ bank = [i \in Entries |-> bank[i]]
          /\ \A i \in Entries : bank[i] \in Repeating(2 * Map[i].words)

StoreInv ==
    /\ Untorn
    /\ EntryHoldsLastValue
    /\ seen \in BankType(Map)
    /\ new_data \in BOOLEAN
    /\ FlagTellsOfCommands

(* Fields that are whole values have their types and are not torn. *)
LEMMA UntornTyped == ASSUME Untorn PROVE bank \in BankType(Map) /\ NeverTorn
  <1>1. \A i \in Entries : bank[i] \in [1 .. Width(Map[i]) -> Byte]
    BY DEF Untorn, Repeating, Width
  <1>2. bank \in BankType(Map)
    BY <1>1, BankTyped DEF Untorn
  <1> QED BY <1>2 DEF Untorn, Repeating, NeverTorn, Width

(* One entry gets a new value of its size. *)
LEMMA EntryReplaced ==
  ASSUME Untorn, NEW i \in Entries, NEW new \in Repeating(2 * Map[i].words),
         bank' = [bank EXCEPT ![i] = new]
  PROVE  /\ Untorn' /\ bank'[i] = new
         /\ \A j \in Entries : j # i => bank'[j] = bank[j]
  BY DEF Untorn

(* A command that writes: the entry it names gets the data, the entry it   *)
(* starts at is whole, the others stay.                                    *)
LEMMA WriteCommand ==
  ASSUME StoreInv, NEW address \in Nat, NEW count \in Nat, NEW data \in Payloads(count),
         Write(address, count, data)
  PROVE  /\ StoreInv'
         /\ \A i \in Entries : IsEntry(i, address, count) => bank'[i] = data
  <1>1. CASE ~check_location_valid(Map, address, count)
    <2>1. UNCHANGED <<bank, given, seen, new_data>>
      BY <1>1 DEF Write, RaiseFlag, StoreInv
    <2>2. \A i \in Entries : ~IsEntry(i, address, count)
      BY <1>1, EntryAccepted
    <2>3. StoreInv'
      BY <2>1 DEF StoreInv, Untorn, EntryHoldsLastValue, FlagTellsOfCommands
    <2> QED BY <2>2, <2>3
  <1>2. CASE check_location_valid(Map, address, count)
    <2>1. PICK i \in Entries : /\ Map[i].offset = address
                               /\ count = 0 \/ count >= Map[i].words
      BY <1>2, AcceptedRange
    <2>2. /\ bank' \in SetField(Map, bank, i, data)
          /\ seen' = seen
          /\ given' = [j \in Entries |->
                         IF Map[j].offset # address THEN given[j]
                         ELSE IF IsEntry(j, address, count) THEN data
                         ELSE bank'[j]]
      <3>1. GetMemoryMapEntryIndex(Map, address) = i
        BY <2>1, EntryFound
      <3> QED BY <1>2, <3>1 DEF Write, MappedSetRegisters
    <2>3. new_data' = TRUE
      BY <1>2 DEF Write, RaiseFlag, StoreInv
    <2>4. PICK new \in {CopyToArray(bank[i], data)}
                           \cup MakeMSBInteger(data, 2 * Map[i].words) :
             bank' = [bank EXCEPT ![i] = new]
      BY <2>2 DEF SetField, Width
    <2>5. /\ Map[i].words \in Nat \ {0} /\ bank[i] \in Repeating(2 * Map[i].words)
          /\ data \in Repeating(2 * count)
      BY MapFacts, PayloadRepeats DEF StoreInv, Untorn
    <2>6. new \in Repeating(2 * Map[i].words) /\ (count = Map[i].words => new = data)
      BY <2>1, <2>4, <2>5, FieldSet
    <2>7. /\ Untorn' /\ bank'[i] = new
          /\ \A j \in Entries : j # i => bank'[j] = bank[j]
      BY <2>4, <2>6, EntryReplaced DEF StoreInv
    <2>8. \A j \in Entries : Map[j].offset = address <=> j = i
      BY <2>1, StartsApart
    <2>9. \A j \in Entries : IsEntry(j, address, count) => bank'[j] = data
      BY <2>1, <2>6, <2>7, <2>8 DEF IsEntry
    <2>10. EntryHoldsLastValue'
      <3>1. bank = given
        BY DEF StoreInv, EntryHoldsLastValue
      <3>2. \A j \in Entries : given'[j] = bank'[j]
        BY <2>2, <2>7, <2>8, <2>9, <3>1
      <3>3. bank' = [j \in Entries |-> bank'[j]] /\ given' = [j \in Entries |-> given'[j]]
        BY <2>2, <2>7 DEF Untorn
      <3> QED BY <3>2, <3>3 DEF EntryHoldsLastValue
    <2>11. StoreInv'
      BY <2>2, <2>3, <2>7, <2>10 DEF StoreInv, FlagTellsOfCommands
    <2> QED BY <2>9, <2>11
  <1> QED BY <1>1, <1>2

(* A command that reads: the entry it names as it is. *)
LEMMA ReadCommand ==
  ASSUME StoreInv, NEW address \in Nat, NEW count \in Nat, Read(address, count)
  PROVE  /\ StoreInv'
         /\ \A i \in Entries : IsEntry(i, address, count) => command'.data = given[i]
  <1>1. StoreInv'
    BY DEF Read, StoreInv, Untorn, EntryHoldsLastValue, FlagTellsOfCommands
  <1>2. ASSUME NEW i \in Entries, IsEntry(i, address, count)
        PROVE  command'.data = given[i]
    <2>1. command'.data = MappedGetRegisters(Map, bank, address, count)
      BY <1>2, EntryAccepted DEF Read
    <2>2. GetMemoryMapEntryIndex(Map, address) = i /\ count = Map[i].words
      BY <1>2, EntryFound DEF IsEntry
    <2>3. command'.data = [k \in 1 .. 2 * count |-> IF k <= Width(Map[i]) THEN bank[i][k] ELSE 0]
      BY <2>1, <2>2 DEF MappedGetRegisters, GetField
    <2>4. bank[i] \in [1 .. 2 * count -> Byte] /\ count \in Nat /\ Width(Map[i]) = 2 * count
      BY <2>2 DEF StoreInv, Untorn, Repeating, Width
    <2>5. command'.data = bank[i]
      BY <2>3, <2>4
    <2> QED BY <2>5 DEF StoreInv, EntryHoldsLastValue
  <1> QED BY <1>1, <1>2

(* set_<field> of the application. *)
LEMMA SetEntryKeeps ==
  ASSUME StoreInv, NEW i \in Entries, NEW value \in Payloads(Map[i].words),
         SetEntry(i, value)
  PROVE  StoreInv'
  <1>1. value \in Repeating(2 * Map[i].words)
    BY MapFacts, PayloadRepeats
  <1>2. Untorn'
    BY <1>1, EntryReplaced DEF SetEntry, StoreInv
  <1>3. EntryHoldsLastValue'
    BY DEF SetEntry, StoreInv, EntryHoldsLastValue
  <1>4. seen' \in BankType(Map)
    <2>1. /\ seen = [j \in Entries |-> seen[j]]
          /\ \A j \in Entries : seen[j] \in [1 .. Width(Map[j]) -> Byte]
      BY BankTyped DEF StoreInv
    <2>2. value \in [1 .. Width(Map[i]) -> Byte]
      BY <1>1 DEF Repeating, Width
    <2>3. /\ seen' = [j \in Entries |-> seen'[j]]
          /\ \A j \in Entries : seen'[j] \in [1 .. Width(Map[j]) -> Byte]
      BY <2>1, <2>2 DEF SetEntry
    <2> QED BY <2>3, BankTyped
  <1>5. new_data' \in BOOLEAN /\ FlagTellsOfCommands'
    BY DEF SetEntry, StoreInv, FlagTellsOfCommands
  <1> QED BY <1>2, <1>3, <1>4, <1>5 DEF StoreInv

(* The store as it is constructed satisfies the inductive invariant. *)
LEMMA StoreInvInit == StoreInit => StoreInv
  <1> SUFFICES ASSUME StoreInit PROVE StoreInv
    OBVIOUS
  <1>1. bank = [i \in Entries |-> Zeros(Width(Map[i]))]
    BY DEF StoreInit
  <1>2. ASSUME NEW i \in Entries PROVE Zeros(Width(Map[i])) \in Repeating(2 * Map[i].words)
    <2>1. PICK w \in Nat \ {0} : w = Map[i].words
      BY MapFacts
    <2>2. [k \in 1 .. 2 * w |-> 0] \in Repeating(2 * w)
      BY DEF Repeating
    <2> QED BY <2>1, <2>2 DEF Zeros, Width
  <1>3. Untorn
    BY <1>1, <1>2 DEF Untorn
  <1>4. seen \in BankType(Map)
    BY <1>3, UntornTyped DEF StoreInit
  <1> QED BY <1>3, <1>4 DEF StoreInit, StoreInv, EntryHoldsLastValue, FlagTellsOfCommands

(* Every step keeps the invariant and serves the command it runs. *)
LEMMA StoreStep ==
  ASSUME StoreInv, [StoreNext]_storeVars
  PROVE  StoreInv' /\ [ServeStep]_storeVars
  <1>1. 0 .. Top \subseteq Nat
    BY DEF Top
  <1>2. ASSUME NEW address \in 0 .. Top, NEW count \in 0 .. Top,
               NEW data \in Payloads(count), Write(address, count, data)
        PROVE  StoreInv' /\ ServeStep
    <2>1. address \in Nat /\ count \in Nat
      BY <1>1
    <2>2. /\ StoreInv'
          /\ \A i \in Entries : IsEntry(i, address, count) => bank'[i] = data
      BY <1>2, <2>1, WriteCommand
    <2>3. /\ command'.op = "write" /\ command'.address = address
          /\ command'.count = count /\ command'.data = data
      BY <1>2 DEF Write
    <2> QED BY <2>2, <2>3 DEF ServeStep
  <1>3. ASSUME NEW address \in 0 .. Top, NEW count \in 0 .. Top, Read(address, count)
        PROVE  StoreInv' /\ ServeStep
    <2>1. address \in Nat /\ count \in Nat
      BY <1>1
    <2>2. /\ StoreInv'
          /\ \A i \in Entries : IsEntry(i, address, count) => command'.data = given[i]
      BY <1>3, <2>1, ReadCommand
    <2>3. /\ command'.op = "read" /\ command'.address = address /\ command'.count = count
      BY <1>3 DEF Read
    <2> QED BY <2>2, <2>3 DEF ServeStep
  <1>4. ASSUME NEW i \in Entries, NEW value \in Payloads(Map[i].words), SetEntry(i, value)
        PROVE  StoreInv' /\ ServeStep
    BY <1>4, SetEntryKeeps DEF SetEntry, ServeStep
  <1>5. ASSUME SetNewData(FALSE) PROVE StoreInv' /\ ServeStep
    <2>1. UNCHANGED <<bank, given, command>> /\ seen' = bank /\ new_data' = FALSE
      BY <1>5 DEF SetNewData
    <2>2. Untorn' /\ EntryHoldsLastValue' /\ FlagTellsOfCommands'
      BY <2>1 DEF StoreInv, Untorn, EntryHoldsLastValue, FlagTellsOfCommands
    <2>3. seen' \in BankType(Map)
      BY <2>1, UntornTyped DEF StoreInv
    <2> QED BY <2>1, <2>2, <2>3 DEF StoreInv, ServeStep
  <1>6. CASE UNCHANGED storeVars
    BY <1>6 DEF storeVars, StoreInv, Untorn, EntryHoldsLastValue, FlagTellsOfCommands
  <1> QED BY <1>2, <1>3, <1>4, <1>5, <1>6 DEF StoreNext

(* The inductive invariant holds whatever commands and application do. *)
LEMMA StoreInvAlways == StoreSpec => []StoreInv
  <1>1. StoreInv /\ [StoreNext]_storeVars => StoreInv'
    BY StoreStep
  <1> QED BY <1>1, StoreInvInit, PTL DEF StoreSpec

(* Whatever commands come, accepted or not, whole entries, spans of them   *)
(* or none, the struct keeps a value of its size for every field.          *)
THEOREM StoreTypeCorrect == StoreSpec => []StoreTypeOK
  <1>1. StoreInv => StoreTypeOK
    BY UntornTyped DEF StoreInv, StoreTypeOK, EntryHoldsLastValue
  <1> QED BY <1>1, StoreInvAlways, PTL

(* The validation of the store and the wrapper's SetField together: a      *)
(* field has the value it was last given, and no command for another       *)
(* entry, for a part of one or for the padding reaches it, in every map.   *)
THEOREM LastValueKept == StoreSpec => []EntryHoldsLastValue
  <1>1. StoreInv => EntryHoldsLastValue
    BY DEF StoreInv
  <1> QED BY <1>1, StoreInvAlways, PTL

(* No field is a mixture of two writes, arrays and integers of every size  *)
(* and whichever end Make_MSB_IntegerTypeFromArray cuts: an accepted range *)
(* is empty or covers the entry it starts at.                              *)
THEOREM FieldsNeverTorn == StoreSpec => []NeverTorn
  <1>1. StoreInv => NeverTorn
    BY UntornTyped DEF StoreInv
  <1> QED BY <1>1, StoreInvAlways, PTL

(* An application that polls NewData misses no command's write. *)
THEOREM FlagCorrect == StoreSpec => []FlagTellsOfCommands
  <1>1. StoreInv => FlagTellsOfCommands
    BY DEF StoreInv
  <1> QED BY <1>1, StoreInvAlways, PTL

(* GetMemoryMapEntryIndex finds the entry of every command that names one: *)
(* SetRegisters leaves the command's bytes in it, GetRegisters gives them  *)
(* back.                                                                   *)
THEOREM EntriesServed == StoreSpec => EntryServed
  <1>1. StoreInv /\ [StoreNext]_storeVars => [ServeStep]_storeVars
    BY StoreStep
  <1> QED BY <1>1, StoreInvAlways, PTL DEF StoreSpec, EntryServed
=============================================================================
