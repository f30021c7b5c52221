----------------------- MODULE ConnectedDeviceProofs -----------------------
(***************************************************************************)
(* The connected device example, for every set of fields the application   *)
(* updates and any number of lost messages: the literals of the master's   *)
(* script fit the padded structs of the device, so the master's copy holds *)
(* whole fields of one moment each, and what it reads back is what it      *)
(* wrote.                                                                  *)
(***************************************************************************)
EXTENDS ConnectedDevice, SequenceTheorems, TLAPS

-----------------------------------------------------------------------------
(* The layout of the structs.                                              *)

(* The sizes of the fields; every integer is aligned to its size. *)
InputSizes   == <<64, 64, 64, 64, 40, 2, 4, 4, 4, 4, 4, 4, 4, 4, 4, 4, 4>>
HoldingSizes == <<4, 4, 4, 4, 2, 4, 4>>

(* Where the fields end, in bytes. *)
InputEnds   == <<64, 128, 192, 256, 296, 298, 304, 308, 312, 316, 320, 324,
                 328, 332, 336, 340, 344>>
HoldingEnds == <<4, 8, 12, 16, 18, 24, 28>>

(* Where they start, in registers: behind fault_status and slave_address   *)
(* one register is padding.                                                *)
InputStarts   == <<0, 32, 64, 96, 128, 148, 150, 152, 154, 156, 158, 160,
                   162, 164, 166, 168, 170>>
HoldingStarts == <<0, 2, 4, 6, 8, 10, 12>>

(* The fields of struct HoldingRegisters. *)
LEMMA HoldingFields ==
  /\ Len(HoldingRegisters) = 7
  /\ \A i \in 1 .. 7 : /\ HoldingRegisters[i].size = HoldingSizes[i]
                       /\ HoldingRegisters[i].align = HoldingSizes[i]
                       /\ HoldingRegisters[i].kind = "integer"
  BY DEF HoldingRegisters, HoldingSizes, Integer

(* The fields of struct InputRegisters. *)
LEMMA InputFields ==
  /\ Len(InputRegisters) = 17
  /\ \A i \in 1 .. 17 : /\ InputRegisters[i].size = InputSizes[i]
                        /\ InputRegisters[i].align = IF i <= 5 THEN 1 ELSE InputSizes[i]
                        /\ InputRegisters[i].kind \in {"bytes", "integer"}
  <1> DEFINE texts    == <<Array(64), Array(64), Array(64), Array(64), Array(40), Integer(2)>>
             readings == [i \in 1 .. 11 |-> Integer(4)]
  <1>1. Len(texts) = 6 /\ texts \in Seq({Array(64), Array(40), Integer(2)})
    OBVIOUS
  <1>2. Len(readings) = 11 /\ readings \in Seq({Integer(4)})
    OBVIOUS
  <1>3. /\ Len(texts \o readings) = 17
        /\ \A i \in 1 .. 17 :
              (texts \o readings)[i] = IF i <= 6 THEN texts[i] ELSE readings[i - 6]
    BY <1>1, <1>2
  <1>4. \A i \in 1 .. 17 :
           InputRegisters[i] = IF i <= 5 THEN Array(InputSizes[i]) ELSE Integer(InputSizes[i])
    BY <1>3 DEF InputRegisters, InputSizes
  <1> QED BY <1>3, <1>4 DEF InputRegisters, Array, Integer

(* A function that satisfies the recursion of Ends shows that Ends does. *)
LEMMA EndsRecursion ==
  ASSUME NEW fields, NEW g,
         g = [i \in 0 .. Len(fields) |->
                IF i = 0 THEN 0 ELSE RoundUp(g[i - 1], fields[i].align) + fields[i].size]
  PROVE  Ends(fields) =
           [i \in 0 .. Len(fields) |->
              IF i = 0 THEN 0
              ELSE RoundUp(Ends(fields)[i - 1], fields[i].align) + fields[i].size]
  BY DEF Ends

(* Each number of a list follows from the one before as the end of a field *)
(* follows from the end of the field before it.                            *)
FollowsFields(ends, fields) ==
    \A i \in 1 .. Len(fields) : ends[i] =
        RoundUp(IF i = 1 THEN 0 ELSE ends[i - 1], fields[i].align) + fields[i].size

(* Where there is such a list, Ends is one. *)
LEMMA EndsExist ==
  ASSUME NEW fields, Len(fields) \in Nat, NEW ends, FollowsFields(ends, fields)
  PROVE  /\ Ends(fields)[0] = 0
         /\ \A i \in 1 .. Len(fields) : Ends(fields)[i] =
               RoundUp(Ends(fields)[i - 1], fields[i].align) + fields[i].size
  <1> DEFINE n == Len(fields)
             g == [i \in 0 .. n |-> IF i = 0 THEN 0 ELSE ends[i]]
             h == [i \in 0 .. n |->
                     IF i = 0 THEN 0 ELSE RoundUp(g[i - 1], fields[i].align) + fields[i].size]
  <1>1. \A i \in 0 .. n : g[i] = h[i]
    <2> SUFFICES ASSUME NEW i \in 0 .. n PROVE g[i] = h[i]
      OBVIOUS
    <2>1. CASE i = 0
      BY <2>1
    <2>2. CASE i # 0
      <3>1. i \in 1 .. n /\ i - 1 \in 0 .. n
        BY <2>2
      <3>2. g[i - 1] = IF i = 1 THEN 0 ELSE ends[i - 1]
        BY <3>1
      <3>3. g[i] = ends[i] /\ h[i] = RoundUp(g[i - 1], fields[i].align) + fields[i].size
        BY <2>2, <3>1
      <3>4. ends[i] = RoundUp(IF i = 1 THEN 0 ELSE ends[i - 1], fields[i].align) + fields[i].size
        BY <3>1 DEF FollowsFields
      <3> HIDE DEF g, h
      <3> QED BY <3>2, <3>3, <3>4, Zenon
    <2> QED BY <2>1, <2>2
  <1>2. g = h
    BY <1>1
  <1>3. Ends(fields) =
           [i \in 0 .. n |->
              IF i = 0 THEN 0
              ELSE RoundUp(Ends(fields)[i - 1], fields[i].align) + fields[i].size]
    <2> HIDE DEF g, h
    <2> QED BY <1>2, EndsRecursion DEF h
  <1> QED BY <1>3

(* The ends of the holding fields. *)
LEMMA HoldingEndsAre ==
  Ends(HoldingRegisters)[0] = 0 /\ \A i \in 1 .. 7 : Ends(HoldingRegisters)[i] = HoldingEnds[i]
  <1> DEFINE E == Ends(HoldingRegisters)
  <1>1. FollowsFields(HoldingEnds, HoldingRegisters)
    BY HoldingFields DEF FollowsFields, HoldingEnds, HoldingSizes, RoundUp
  <1>2. /\ E[0] = 0
        /\ \A i \in 1 .. 7 :
              E[i] = RoundUp(E[i - 1], HoldingRegisters[i].align) + HoldingRegisters[i].size
    <2>1. Len(HoldingRegisters) \in Nat
      BY HoldingFields
    <2>2. /\ E[0] = 0
          /\ \A i \in 1 .. Len(HoldingRegisters) :
                E[i] = RoundUp(E[i - 1], HoldingRegisters[i].align) + HoldingRegisters[i].size
      BY <1>1, <2>1, EndsExist
    <2> QED BY <2>2, HoldingFields
  <1>3. \A i \in 1 .. 7 : E[i] = RoundUp(E[i - 1], HoldingSizes[i]) + HoldingSizes[i]
    BY <1>2, HoldingFields
  <1> HIDE DEF E
  <1>4. E[1] = 4 /\ E[2] = 8 /\ E[3] = 12 /\ E[4] = 16 /\ E[5] = 18 /\ E[6] = 24 /\ E[7] = 28
    BY <1>2, <1>3 DEF HoldingSizes, RoundUp
  <1> QED BY <1>2, <1>4 DEF E, HoldingEnds

(* The ends of the input fields. *)
LEMMA InputEndsAre ==
  Ends(InputRegisters)[0] = 0 /\ \A i \in 1 .. 17 : Ends(InputRegisters)[i] = InputEnds[i]
  <1> DEFINE E == Ends(InputRegisters)
  <1>1. FollowsFields(InputEnds, InputRegisters)
    BY InputFields DEF FollowsFields, InputEnds, InputSizes, RoundUp
  <1>2. /\ E[0] = 0
        /\ \A i \in 1 .. 17 :
              E[i] = RoundUp(E[i - 1], InputRegisters[i].align) + InputRegisters[i].size
    <2>1. Len(InputRegisters) \in Nat
      BY InputFields
    <2>2. /\ E[0] = 0
          /\ \A i \in 1 .. Len(InputRegisters) :
                E[i] = RoundUp(E[i - 1], InputRegisters[i].align) + InputRegisters[i].size
      BY <1>1, <2>1, EndsExist
    <2> QED BY <2>2, InputFields
  <1>3. \A i \in 1 .. 17 :
           E[i] = RoundUp(E[i - 1], IF i <= 5 THEN 1 ELSE InputSizes[i]) + InputSizes[i]
    BY <1>2, InputFields
  <1> HIDE DEF E
  <1>4. E[1] = 64 /\ E[2] = 128 /\ E[3] = 192 /\ E[4] = 256 /\ E[5] = 296 /\ E[6] = 298
    BY <1>2, <1>3 DEF InputSizes, RoundUp
  <1>5. E[7] = 304 /\ E[8] = 308 /\ E[9] = 312 /\ E[10] = 316 /\ E[11] = 320 /\ E[12] = 324
    BY <1>3, <1>4 DEF InputSizes, RoundUp
  <1>6. E[13] = 328 /\ E[14] = 332 /\ E[15] = 336 /\ E[16] = 340 /\ E[17] = 344
    BY <1>3, <1>5 DEF InputSizes, RoundUp
  <1> QED BY <1>2, <1>4, <1>5, <1>6 DEF E, InputEnds

(* HoldingMap, field by field. *)
LEMMA HoldingMapIs ==
  /\ DOMAIN HoldingMap = 1 .. 7 /\ Len(HoldingMap) = 7
  /\ \A i \in 1 .. 7 : /\ HoldingMap[i].offset = HoldingStarts[i]
                       /\ HoldingMap[i].words = HoldingSizes[i] \div 2
                       /\ HoldingMap[i].kind = "integer"
  <1> DEFINE E == Ends(HoldingRegisters)
  <1>1. HoldingMap = [i \in 1 .. 7 |->
           [offset |-> RoundUp(E[i - 1], HoldingRegisters[i].align) \div 2,
            words  |-> HoldingRegisters[i].size \div 2,
            kind   |-> HoldingRegisters[i].kind]]
    BY HoldingFields DEF HoldingMap, entry_positions
  <1> HIDE DEF E
  <1>2. \A i \in 1 .. 7 : /\ HoldingMap[i].offset = RoundUp(E[i - 1], HoldingSizes[i]) \div 2
                          /\ HoldingMap[i].words = HoldingSizes[i] \div 2
                          /\ HoldingMap[i].kind = "integer"
    BY <1>1, HoldingFields
  <1>3. \A i \in 1 .. 7 : E[i - 1] = IF i = 1 THEN 0 ELSE HoldingEnds[i - 1]
    BY HoldingEndsAre DEF E
  <1>4. \A i \in 1 .. 7 : RoundUp(E[i - 1], HoldingSizes[i]) \div 2 = HoldingStarts[i]
    BY <1>3 DEF HoldingEnds, HoldingSizes, HoldingStarts, RoundUp
  <1> QED BY <1>1, <1>2, <1>4

(* InputMap, field by field. *)
LEMMA InputMapIs ==
  /\ DOMAIN InputMap = 1 .. 17 /\ Len(InputMap) = 17
  /\ \A i \in 1 .. 17 : /\ InputMap[i].offset = InputStarts[i]
                        /\ InputMap[i].words = InputSizes[i] \div 2
                        /\ InputMap[i].kind \in {"bytes", "integer"}
  <1> DEFINE E == Ends(InputRegisters)
  <1>1. InputMap = [i \in 1 .. 17 |->
           [offset |-> RoundUp(E[i - 1], InputRegisters[i].align) \div 2,
            words  |-> InputRegisters[i].size \div 2,
            kind   |-> InputRegisters[i].kind]]
    BY InputFields DEF InputMap, entry_positions
  <1> HIDE DEF E
  <1>2. \A i \in 1 .. 17 :
           /\ InputMap[i].offset = RoundUp(E[i - 1], IF i <= 5 THEN 1 ELSE InputSizes[i]) \div 2
           /\ InputMap[i].words = InputSizes[i] \div 2
           /\ InputMap[i].kind \in {"bytes", "integer"}
    BY <1>1, InputFields
  <1>3. \A i \in 1 .. 17 : E[i - 1] = IF i = 1 THEN 0 ELSE InputEnds[i - 1]
    BY InputEndsAre DEF E
  <1>4. \A i \in 1 .. 17 :
           RoundUp(E[i - 1], IF i <= 5 THEN 1 ELSE InputSizes[i]) \div 2 = InputStarts[i]
    BY <1>3 DEF InputEnds, InputSizes, InputStarts, RoundUp
  <1>5. DOMAIN InputMap = 1 .. 17 /\ Len(InputMap) = 17
    BY <1>1
  <1>6. \A i \in 1 .. 17 : InputMap[i].offset = InputStarts[i]
    BY <1>2, <1>4
  <1> QED BY <1>2, <1>5, <1>6

(* One sequence of m elements and behind it another of n. *)
IsJoin(both, s, t, m, n) ==
    /\ Len(both) = m + n
    /\ \A i \in 1 .. m : both[i] = s[i]
    /\ \A j \in 1 .. n : both[m + j] = t[j]

(* Two sequences joined, place by place. *)
LEMMA Joined ==
  ASSUME NEW S, NEW s \in Seq(S), NEW t \in Seq(S)
  PROVE  s \o t \in Seq(S) /\ IsJoin(s \o t, s, t, Len(s), Len(t))
  <1>1. /\ s \o t \in Seq(S) /\ Len(s \o t) = Len(s) + Len(t)
        /\ \A i \in 1 .. Len(s) + Len(t) :
              (s \o t)[i] = IF i <= Len(s) THEN s[i] ELSE t[i - Len(s)]
    BY ConcatProperties
  <1>2. PICK m \in Nat, n \in Nat : m = Len(s) /\ n = Len(t)
    BY LenProperties
  <1>3. ASSUME NEW j \in 1 .. n PROVE (s \o t)[m + j] = t[j]
    <2>1. m + j \in 1 .. m + n /\ ~(m + j <= m) /\ (m + j) - m = j
      OBVIOUS
    <2> QED BY <1>1, <1>2, <2>1
  <1>4. ASSUME NEW i \in 1 .. m PROVE (s \o t)[i] = s[i]
    BY <1>1, <1>2
  <1>5. IsJoin(s \o t, s, t, m, n)
    BY <1>1, <1>2, <1>3, <1>4, Zenon DEF IsJoin
  <1> QED BY <1>1, <1>2, <1>5

(* The script, call by call: it reads every input field where the struct   *)
(* has it, and writes and reads back every holding field likewise.         *)
LEMMA ScriptIs ==
  /\ Len(Script) = 31
  /\ \A i \in 1 .. 17 : Script[i] = Call("read", InputStarts[i], InputSizes[i] \div 2)
  /\ \A k \in 1 .. 7 :
        /\ Script[16 + 2 * k] = Call("write", HoldingStarts[k], HoldingSizes[k] \div 2)
        /\ Script[17 + 2 * k] = Call("print", HoldingStarts[k], HoldingSizes[k] \div 2)
  <1> DEFINE C == [op : {"read", "write", "print"}, address : Nat, count : Nat]
  <1>1. TextReads \in Seq(C) /\ Len(TextReads) = 5
    BY DEF TextReads, Call
  <1>2. StatusReads \in Seq(C) /\ Len(StatusReads) = 6
    BY DEF StatusReads, Call
  <1>3. MoreReads \in Seq(C) /\ Len(MoreReads) = 6
    BY DEF MoreReads, Call
  <1>4. WriteAndReadBack \in Seq(C) /\ Len(WriteAndReadBack) = 14
    BY DEF WriteAndReadBack, Call
  <1> HIDE DEF C
  <1> DEFINE T == TextReads \o StatusReads
             R == T \o MoreReads
  <1>5. /\ T \in Seq(C) /\ Len(T) = 11
        /\ \A i \in 1 .. 5 : T[i] = TextReads[i]
        /\ \A j \in 1 .. 6 : T[5 + j] = StatusReads[j]
    <2>1. T \in Seq(C) /\ IsJoin(T, TextReads, StatusReads, 5, 6)
      BY <1>1, <1>2, Joined
    <2> HIDE DEF T
    <2> QED BY <2>1 DEF IsJoin
  <1> HIDE DEF T
  <1>6. /\ R \in Seq(C) /\ Len(R) = 17
        /\ \A i \in 1 .. 11 : R[i] = T[i]
        /\ \A j \in 1 .. 6 : R[11 + j] = MoreReads[j]
    <2>1. R \in Seq(C) /\ IsJoin(R, T, MoreReads, 11, 6)
      BY <1>3, <1>5, Joined, ZenonT(40)
    <2> HIDE DEF R
    <2> QED BY <2>1 DEF IsJoin
  <1>7. Script = R \o WriteAndReadBack
    BY DEF Script, T
  <1> HIDE DEF R
  <1>8. /\ Len(Script) = 31
        /\ \A i \in 1 .. 17 : Script[i] = R[i]
        /\ \A j \in 1 .. 14 : Script[17 + j] = WriteAndReadBack[j]
    <2>1. Script \in Seq(C) /\ IsJoin(Script, R, WriteAndReadBack, 17, 14)
      BY <1>4, <1>6, <1>7, Joined, ZenonT(60)
    <2> QED BY <2>1 DEF IsJoin
  <1>9. \A i \in 1 .. 17 : Script[i] = Call("read", InputStarts[i], InputSizes[i] \div 2)
    <2>1. /\ \A i \in 1 .. 5 : Script[i] = TextReads[i]
          /\ \A i \in 1 .. 6 : Script[5 + i] = StatusReads[i]
          /\ \A i \in 1 .. 6 : Script[11 + i] = MoreReads[i]
      <3>1. \A i \in 1 .. 11 : Script[i] = T[i]
        <4>1. \A i \in 1 .. 11 : i \in 1 .. 17
          OBVIOUS
        <4> QED BY <1>6, <1>8, <4>1, Zenon
      <3>2. \A i \in 1 .. 6 : Script[11 + i] = R[11 + i]
        BY <1>8
      <3>3. \A i \in 1 .. 6 : 5 + i \in 1 .. 11
        OBVIOUS
      <3> QED BY <1>5, <1>6, <3>1, <3>2, <3>3, SMTT(30)
    <2>2. \A i \in 1 .. 5 : TextReads[i] = Call("read", InputStarts[i], InputSizes[i] \div 2)
      BY DEF TextReads, InputStarts, InputSizes
    <2>3. \A i \in 1 .. 6 :
             StatusReads[i] = Call("read", InputStarts[5 + i], InputSizes[5 + i] \div 2)
      BY DEF StatusReads, InputStarts, InputSizes
    <2>4. \A i \in 1 .. 6 :
             MoreReads[i] = Call("read", InputStarts[11 + i], InputSizes[11 + i] \div 2)
      BY DEF MoreReads, InputStarts, InputSizes
    <2>5. \A i \in 1 .. 17 : \/ i \in 1 .. 5
                             \/ \E j \in 1 .. 6 : i = 5 + j
                             \/ \E j \in 1 .. 6 : i = 11 + j
      <3> SUFFICES ASSUME NEW i \in 1 .. 17, i > 5
                   PROVE  (\E j \in 1 .. 6 : i = 5 + j) \/ (\E j \in 1 .. 6 : i = 11 + j)
        OBVIOUS
      <3>1. (i - 5 \in 1 .. 6 /\ i = 5 + (i - 5)) \/ (i - 11 \in 1 .. 6 /\ i = 11 + (i - 11))
        OBVIOUS
      <3> QED BY <3>1
    <2> QED BY <2>1, <2>2, <2>3, <2>4, <2>5
  <1>10. \A k \in 1 .. 7 :
           /\ Script[16 + 2 * k] = Call("write", HoldingStarts[k], HoldingSizes[k] \div 2)
           /\ Script[17 + 2 * k] = Call("print", HoldingStarts[k], HoldingSizes[k] \div 2)
    <2>1. \A k \in 1 .. 7 : /\ Script[16 + 2 * k] = WriteAndReadBack[2 * k - 1]
                            /\ Script[17 + 2 * k] = WriteAndReadBack[2 * k]
      BY <1>8
    <2>2. \A k \in 1 .. 7 :
             /\ WriteAndReadBack[2 * k - 1] = Call("write", HoldingStarts[k], HoldingSizes[k] \div 2)
             /\ WriteAndReadBack[2 * k] = Call("print", HoldingStarts[k], HoldingSizes[k] \div 2)
      BY DEF WriteAndReadBack, HoldingStarts, HoldingSizes
    <2> QED BY <2>1, <2>2
  <1> QED BY <1>8, <1>9, <1>10

(* The calls of the script, by the entries of the maps. *)
ReadCall(i)  == Call("read", InputMap[i].offset, InputMap[i].words)
WriteCall(k) == Call("write", HoldingMap[k].offset, HoldingMap[k].words)
PrintCall(k) == Call("print", HoldingMap[k].offset, HoldingMap[k].words)

(* Every literal address and count of the master is the place of a field   *)
(* in the device's struct, padding included.                               *)
LEMMA ScriptFitsMaps ==
  /\ Len(Script) = 31
  /\ \A i \in 1 .. 17 : Script[i] = ReadCall(i)
  /\ \A k \in 1 .. 7 : Script[16 + 2 * k] = WriteCall(k) /\ Script[17 + 2 * k] = PrintCall(k)
  BY ScriptIs, InputMapIs, HoldingMapIs DEF ReadCall, WriteCall, PrintCall

(* The place of a call in the script says what it is. *)
LEMMA ScriptPlaces ==
  ASSUME NEW p \in 1 .. 31
  PROVE  \/ p \in 1 .. 17
         \/ \E k \in 1 .. 7 : p = 16 + 2 * k
         \/ \E k \in 1 .. 7 : p = 17 + 2 * k
  <1> SUFFICES ASSUME p > 17
               PROVE  \E k \in 1 .. 7 : p = 16 + 2 * k \/ p = 17 + 2 * k
    OBVIOUS
  <1>1. (p - 16) \div 2 \in 1 .. 7
    OBVIOUS
  <1>2. p = 16 + 2 * ((p - 16) \div 2) \/ p = 17 + 2 * ((p - 16) \div 2)
    OBVIOUS
  <1> QED BY <1>1, <1>2

(* The fields of both maps have registers, and no two of them start at one *)
(* address.                                                                *)
WellPlaced(map, n) ==
    /\ n \in Nat /\ DOMAIN map = 1 .. n /\ Len(map) = n
    /\ \A i \in 1 .. n : /\ map[i].offset \in Nat /\ map[i].words \in Nat \ {0}
                         /\ map[i].kind \in {"bytes", "integer"}
    /\ \A i, j \in 1 .. n : map[i].offset = map[j].offset => i = j

(* ... for the holding registers ... *)
LEMMA HoldingPlaced ==
  WellPlaced(HoldingMap, 7) /\ \A k \in 1 .. 7 : HoldingMap[k].kind = "integer"
  <1>1. \A i \in 1 .. 7 : HoldingStarts[i] = 2 * (i - 1)
    BY DEF HoldingStarts
  <1>2. \A i \in 1 .. 7 : HoldingSizes[i] \div 2 \in Nat \ {0}
    BY DEF HoldingSizes
  <1>3. \A i, j \in 1 .. 7 : HoldingMap[i].offset = HoldingMap[j].offset => i = j
    BY <1>1, HoldingMapIs
  <1>4. \A i \in 1 .. 7 : HoldingMap[i].offset \in Nat /\ HoldingMap[i].words \in Nat \ {0}
    BY <1>1, <1>2, HoldingMapIs
  <1> QED BY <1>3, <1>4, HoldingMapIs DEF WellPlaced

(* ... and for the input registers. *)
LEMMA InputPlaced == WellPlaced(InputMap, 17)
  <1>1. \A i \in 1 .. 17 : InputStarts[i] = IF i <= 5 THEN 32 * (i - 1)
                                            ELSE IF i = 6 THEN 148 ELSE 136 + 2 * i
    BY DEF InputStarts
  <1>2. \A i \in 1 .. 17 : InputSizes[i] \div 2 \in Nat \ {0}
    BY DEF InputSizes
  <1>3. \A i, j \in 1 .. 17 : InputStarts[i] = InputStarts[j] => i = j
    BY <1>1
  <1>4. \A i \in 1 .. 17 : InputMap[i].offset \in Nat /\ InputMap[i].words \in Nat \ {0}
    <2>1. \A i \in 1 .. 17 : InputStarts[i] \in Nat
      BY <1>1
    <2> QED BY <1>2, <2>1, InputMapIs
  <1>5. \A i, j \in 1 .. 17 : InputMap[i].offset = InputMap[j].offset => i = j
    BY <1>3, InputMapIs
  <1> QED BY <1>4, <1>5, InputMapIs DEF WellPlaced

-----------------------------------------------------------------------------
(* The store.                                                              *)

(* GetMemoryMapEntryIndex finds the field that starts at an address. *)
LEMMA FieldFound ==
  ASSUME NEW map, NEW n \in Nat, WellPlaced(map, n), NEW i \in 1 .. n
  PROVE  GetMemoryMapEntryIndex(map, map[i].offset) = i
  <1> DEFINE places == {k \in DOMAIN Offsets(map) : Offsets(map)[k] = map[i].offset}
  <1>1. DOMAIN Offsets(map) = 1 .. n /\ Len(map) = n
    BY DEF Offsets, WellPlaced
  <1>2. places = {i}
    BY <1>1 DEF WellPlaced, Offsets
  <1>3. (CHOOSE k \in places : \A j \in places : k <= j) = i
    BY <1>2
  <1>4. get_matching_index(map[i].offset, Offsets(map)) = i
    <2>1. places # {}
      BY <1>2
    <2> QED BY <1>3, <2>1 DEF get_matching_index
  <1> QED BY <1>1, <1>4 DEF GetMemoryMapEntryIndex

(* The store accepts the range of a field. *)
LEMMA FieldAccepted ==
  ASSUME NEW map, NEW n \in Nat, WellPlaced(map, n), NEW i \in 1 .. n
  PROVE  check_location_valid(map, map[i].offset, map[i].words)
  BY DEF WellPlaced, check_location_valid, Offsets, EndPoints

(* A field of w bytes. *)
FieldOf(w) == [1 .. w -> Byte]

(* SetRegisters puts data into field i and nothing anywhere else. *)
SetsField(map, bank, i, data) ==
    MappedSetRegisters(map, bank, map[i].offset, data) = {[bank EXCEPT ![i] = data]}

(* So it does with the bytes of a whole field. *)
LEMMA FieldSet ==
  ASSUME NEW map, NEW n \in Nat, WellPlaced(map, n), NEW i \in 1 .. n,
         NEW bank, NEW data \in FieldOf(Width(map[i])), bank[i] \in FieldOf(Width(map[i]))
  PROVE  SetsField(map, bank, i, data)
  <1>1. PICK w \in Nat : w = Width(map[i])
    BY DEF WellPlaced, Width
  <1>2. /\ data \in [1 .. w -> Byte] /\ Len(data) = w
        /\ bank[i] \in [1 .. w -> Byte] /\ Len(bank[i]) = w
    BY <1>1 DEF FieldOf
  <1>3. CopyToArray(bank[i], data) = data
    BY <1>2 DEF CopyToArray
  <1>4. MakeMSBInteger(data, w) = {data}
    <2>1. [k \in 1 .. w |-> IF k <= w THEN data[k] ELSE 0] = data
      BY <1>2
    <2>2. [k \in 1 .. w |-> IF k + w > w THEN data[k + w - w] ELSE 0] = data
      <3>1. \A k \in 1 .. w : k + w > w /\ k + w - w = k
        OBVIOUS
      <3> QED BY <1>2, <3>1
    <2> QED BY <1>2, <2>1, <2>2 DEF MakeMSBInteger
  <1>5. GetMemoryMapEntryIndex(map, map[i].offset) = i
    BY FieldFound
  <1> QED BY <1>1, <1>3, <1>4, <1>5 DEF MappedSetRegisters, SetField, SetsField

(* GetRegisters of a whole field gives its bytes. *)
LEMMA FieldGot ==
  ASSUME NEW map, NEW n \in Nat, WellPlaced(map, n), NEW i \in 1 .. n,
         NEW bank, bank[i] \in FieldOf(Width(map[i]))
  PROVE  MappedGetRegisters(map, bank, map[i].offset, map[i].words) = bank[i]
  <1>1. PICK w \in Nat : w = Width(map[i]) /\ w = 2 * map[i].words
    BY DEF WellPlaced, Width
  <1>2. bank[i] \in [1 .. w -> Byte]
    BY <1>1 DEF FieldOf
  <1>3. [k \in 1 .. w |-> IF k <= w THEN bank[i][k] ELSE 0] = bank[i]
    BY <1>2
  <1>4. GetMemoryMapEntryIndex(map, map[i].offset) = i
    BY FieldFound
  <1> QED BY <1>1, <1>3, <1>4 DEF MappedGetRegisters, GetField

-----------------------------------------------------------------------------
(* Registers and bytes.                                                    *)

(* A byte of a word is a byte, and its two bytes make it up. *)
LEMMA WordOfBytes ==
  ASSUME NEW w \in Word
  PROVE  /\ GetByte(w, 0) \in Byte /\ GetByte(w, 1) \in Byte
         /\ MakeMSB(GetByte(w, 1), GetByte(w, 0)) = w
  <1>1. w \in Nat /\ w < 65536
    BY SMTT(30) DEF Word, kMaxWord
  <1>2. GetByte(w, 0) = w % 256 /\ GetByte(w, 1) = (w \div 256) % 256
    BY DEF GetByte
  <1>3. w \div 256 \in 0 .. 255
    BY <1>1
  <1>4. (w \div 256) % 256 = w \div 256
    BY <1>3
  <1>5. w % 256 \in 0 .. 255 /\ 256 * (w \div 256) + (w % 256) = w
    BY <1>1
  <1>6. MakeMSB(GetByte(w, 1), GetByte(w, 0)) = 256 * (w \div 256) + (w % 256)
    BY <1>2, <1>4, ZenonT(40) DEF MakeMSB
  <1>7. GetByte(w, 0) \in 0 .. 255 /\ GetByte(w, 1) \in 0 .. 255
    BY <1>2, <1>3, <1>4, <1>5, ZenonT(40)
  <1>8. MakeMSB(GetByte(w, 1), GetByte(w, 0)) = w
    BY <1>5, <1>6
  <1> QED BY <1>7, <1>8, Zenon DEF Byte

(* The bytes of a word made of two bytes are these two. *)
LEMMA BytesOfWord ==
  ASSUME NEW high \in Byte, NEW low \in Byte
  PROVE  GetByte(MakeMSB(high, low), 1) = high /\ GetByte(MakeMSB(high, low), 0) = low
  <1> USE DEF Byte
  <1>1. (256 * high + low) % 256 = low /\ (256 * high + low) \div 256 = high
    OBVIOUS
  <1>2. high % 256 = high
    OBVIOUS
  <1>3. /\ GetByte(256 * high + low, 1) = ((256 * high + low) \div 256) % 256
        /\ GetByte(256 * high + low, 0) = (256 * high + low) % 256
    BY DEF GetByte
  <1>4. GetByte(256 * high + low, 1) = high /\ GetByte(256 * high + low, 0) = low
    BY <1>1, <1>2, <1>3
  <1> QED BY <1>4, Zenon DEF MakeMSB

(* The register a byte belongs to, and which of its two bytes it is. *)
LEMMA ByteOfRegister ==
  ASSUME NEW n \in Nat, NEW i \in 1 .. 2 * n
  PROVE  \E k \in 1 .. n :
            /\ (i + 1) \div 2 = k /\ 2 * k - 1 \in 1 .. 2 * n /\ 2 * k \in 1 .. 2 * n
            /\ \/ i = 2 * k - 1 /\ i % 2 = 1
               \/ i = 2 * k /\ i % 2 = 0
  <1>1. (i + 1) \div 2 \in 1 .. n
    OBVIOUS
  <1>2. PICK k \in 1 .. n : (i + 1) \div 2 = k
    BY <1>1
  <1>3. i = 2 * k - 1 \/ i = 2 * k
    BY <1>2
  <1>4. (2 * k - 1) % 2 = 1 /\ (2 * k) % 2 = 0
    OBVIOUS
  <1>5. 2 * k - 1 \in 1 .. 2 * n /\ 2 * k \in 1 .. 2 * n
    OBVIOUS
  <1>6. (i = 2 * k - 1 /\ i % 2 = 1) \/ (i = 2 * k /\ i % 2 = 0)
    BY <1>3, <1>4
  <1> QED BY <1>2, <1>5, <1>6, Zenon

(* The bytes of a field survive the way through a reply into the buffer of *)
(* the master and from there into its struct: the byte orders agree.       *)
LEMMA BytesThroughRegisters ==
  ASSUME NEW n \in Nat, NEW bytes \in FieldOf(2 * n)
  PROVE  MakeRegistersToBytes(RegistersOf(bytes)) = bytes
  <1>1. /\ bytes \in [1 .. 2 * n -> Byte] /\ Len(bytes) = 2 * n
        /\ Len(bytes) \div 2 = n
    BY DEF FieldOf
  <1> DEFINE R == RegistersOf(bytes)
  <1>2. R = [k \in 1 .. n |-> MakeMSB(bytes[2 * k - 1], bytes[2 * k])]
    BY <1>1 DEF RegistersOf
  <1>3. Len(R) = n
    BY <1>2
  <1> HIDE DEF R
  <1>4. MakeRegistersToBytes(R) = [i \in 1 .. 2 * n |-> GetByte(R[(i + 1) \div 2], i % 2)]
    BY <1>3 DEF MakeRegistersToBytes
  <1>5. ASSUME NEW i \in 1 .. 2 * n
        PROVE  GetByte(R[(i + 1) \div 2], i % 2) = bytes[i]
    <2>1. PICK k \in 1 .. n :
            /\ (i + 1) \div 2 = k /\ 2 * k - 1 \in 1 .. 2 * n /\ 2 * k \in 1 .. 2 * n
            /\ \/ i = 2 * k - 1 /\ i % 2 = 1
               \/ i = 2 * k /\ i % 2 = 0
      BY ByteOfRegister
    <2>2. R[k] = MakeMSB(bytes[2 * k - 1], bytes[2 * k])
      BY <1>2
    <2>3. bytes[2 * k - 1] \in Byte /\ bytes[2 * k] \in Byte
      BY <1>1, <2>1
    <2>4. GetByte(R[k], 1) = bytes[2 * k - 1] /\ GetByte(R[k], 0) = bytes[2 * k]
      BY <2>2, <2>3, BytesOfWord
    <2> QED BY <2>1, <2>4, Zenon
  <1>6. MakeRegistersToBytes(R) = [i \in 1 .. 2 * n |-> bytes[i]]
    BY <1>4, <1>5, Zenon
  <1> QED BY <1>1, <1>6 DEF R

(* Registers survive the way through a request into the device's field and *)
(* back.                                                                   *)
LEMMA RegistersThroughBytes ==
  ASSUME NEW n \in Nat, NEW registers \in [1 .. n -> Word]
  PROVE  /\ BytesOf(registers) \in FieldOf(2 * n)
         /\ RegistersOf(BytesOf(registers)) = registers
  <1>1. Len(registers) = n
    OBVIOUS
  <1> DEFINE B == BytesOf(registers)
  <1>2. B = [i \in 1 .. 2 * n |-> GetByte(registers[(i + 1) \div 2], i % 2)]
    BY <1>1 DEF BytesOf
  <1> HIDE DEF B
  <1>3. ASSUME NEW i \in 1 .. 2 * n PROVE B[i] \in Byte
    <2>1. PICK k \in 1 .. n : (i + 1) \div 2 = k /\ (i % 2 = 1 \/ i % 2 = 0)
      BY ByteOfRegister
    <2>2. B[i] = GetByte(registers[k], i % 2)
      BY <1>2, <2>1
    <2>3. registers[k] \in Word
      OBVIOUS
    <2> QED BY <2>1, <2>2, <2>3, WordOfBytes
  <1>4. B \in FieldOf(2 * n)
    BY <1>2, <1>3 DEF FieldOf
  <1>5. Len(B) \div 2 = n
    <2>1. Len(B) = 2 * n
      BY <1>2
    <2> QED BY <2>1
  <1>6. ASSUME NEW k \in 1 .. n
        PROVE  MakeMSB(B[2 * k - 1], B[2 * k]) = registers[k]
    <2>1. /\ 2 * k - 1 \in 1 .. 2 * n /\ ((2 * k - 1) + 1) \div 2 = k /\ (2 * k - 1) % 2 = 1
          /\ 2 * k \in 1 .. 2 * n /\ (2 * k + 1) \div 2 = k /\ (2 * k) % 2 = 0
      OBVIOUS
    <2>2. B[2 * k - 1] = GetByte(registers[k], 1) /\ B[2 * k] = GetByte(registers[k], 0)
      BY <1>2, <2>1
    <2> QED BY <2>2, WordOfBytes
  <1>7. RegistersOf(B) = [k \in 1 .. n |-> registers[k]]
    BY <1>5, <1>6 DEF RegistersOf
  <1> QED BY <1>4, <1>7 DEF B

(* Zero registers are zero bytes. *)
LEMMA ZeroRegisters ==
  ASSUME NEW n \in Nat
  PROVE  MakeRegistersToBytes(Zeros(n)) = Zeros(2 * n) /\ Zeros(2 * n) \in FieldOf(2 * n)
  <1>1. Len(Zeros(n)) = n /\ \A k \in 1 .. n : Zeros(n)[k] = 0
    BY DEF Zeros
  <1>2. ASSUME NEW i \in 1 .. 2 * n PROVE GetByte(Zeros(n)[(i + 1) \div 2], i % 2) = 0
    <2>1. PICK k \in 1 .. n : (i + 1) \div 2 = k /\ (i % 2 = 1 \/ i % 2 = 0)
      BY ByteOfRegister
    <2>2. Zeros(n)[(i + 1) \div 2] = 0
      BY <1>1, <2>1
    <2>3. GetByte(0, 0) = 0 /\ GetByte(0, 1) = 0
      BY DEF GetByte
    <2> QED BY <2>1, <2>2, <2>3
  <1>3. MakeRegistersToBytes(Zeros(n)) = [i \in 1 .. 2 * n |-> 0]
    BY <1>1, <1>2 DEF MakeRegistersToBytes
  <1> QED BY <1>3 DEF Zeros, FieldOf, Byte

(* A value of a field is made of bytes. *)
LEMMA ValueIsField ==
  ASSUME NEW v \in Nat, NEW w \in Nat
  PROVE  Value(v, w) \in FieldOf(w)
  BY DEF Value, FieldOf, Byte

(* What the master writes are words. *)
LEMMA WriteBufferWords ==
  ASSUME NEW n \in 1 .. 2
  PROVE  WriteBuffer(n) \in [1 .. n -> Word]
  <1>1. \A k \in 1 .. n : kMaxWord - (k - 1) \in Word
    <2>1. kMaxWord \in Nat /\ kMaxWord >= 2
      BY DEF kMaxWord
    <2>2. PICK m \in Nat : m = kMaxWord /\ m >= 2
      BY <2>1
    <2>3. \A k \in 1 .. n : m - (k - 1) \in 0 .. m
      BY <2>2
    <2> QED BY <2>2, <2>3 DEF Word
  <1> QED BY <1>1 DEF WriteBuffer

-----------------------------------------------------------------------------
(* The inductive invariant.                                                *)

(* What the master's copy of a field has to be once the field was read. *)
Snapshot(i) == IF taken[i] # 0 THEN Value(taken[i], Width(InputMap[i]))
                               ELSE Zeros(Width(InputMap[i]))

(* The bytes of a holding field after the script's write of it. *)
Written(k) == BytesOf(WriteBuffer(HoldingMap[k].words))

(* The variables hold what the program puts there. *)
DeviceTypes ==
    /\ version \in [1 .. 17 -> Nat \ {0}] /\ taken \in [1 .. 17 -> Nat]
    /\ DOMAIN mirror = 1 .. 17 /\ DOMAIN holding = 1 .. 7
    /\ DOMAIN printed = {HoldingMap[k].offset : k \in DOMAIN HoldingMap}
    /\ pos \in 1 .. 32 /\ (pos = 32 => phase = "call")
    /\ phase \in {"call", "reply", "back"} /\ ok \in BOOLEAN

(* While a call is under way the buffer holds what the history says it     *)
(* met: a read the value of its moment or zeros, a write that will be      *)
(* acknowledged has reached the field, a read back has the field.          *)
CallInv ==
    phase # "call" =>
        /\ \A i \in 1 .. 17 : pos = i => MakeRegistersToBytes(buffer) = Snapshot(i)
        /\ \A k \in 1 .. 7 :
              /\ pos = 16 + 2 * k /\ ok => holding[k] = Written(k)
              /\ pos = 17 + 2 * k /\ ok => buffer = RegistersOf(holding[k])

(* Nothing is printed for a field before its turn: an acknowledged write   *)
(* always comes before the print that is compared with it.                 *)
PrintInv ==
    \A k \in 1 .. 7 : pos <= 17 + 2 * k => printed[HoldingMap[k].offset] = << >>

DeviceInv == DeviceTypes /\ CallInv /\ PrintInv /\ MirrorIsSnapshot /\ WrittenAndReadBack

(* The current call, while the script reads input fields ... *)
LEMMA CurrentRead ==
  ASSUME NEW i \in 1 .. 17, pos = i
  PROVE  /\ pos <= Len(Script) /\ Current.op = "read"
         /\ Current.address = InputMap[i].offset /\ Current.count = InputMap[i].words
  BY ScriptFitsMaps DEF Current, ReadCall, Call

(* ... writes a holding field ... *)
LEMMA CurrentWrite ==
  ASSUME NEW k \in 1 .. 7, pos = 16 + 2 * k
  PROVE  /\ pos <= Len(Script) /\ Current.op = "write"
         /\ Current.address = HoldingMap[k].offset /\ Current.count = HoldingMap[k].words
  BY ScriptFitsMaps DEF Current, WriteCall, Call

(* ... and reads it back. *)
LEMMA CurrentPrint ==
  ASSUME NEW k \in 1 .. 7, pos = 17 + 2 * k
  PROVE  /\ pos <= Len(Script) /\ Current.op = "print"
         /\ Current.address = HoldingMap[k].offset /\ Current.count = HoldingMap[k].words
  BY ScriptFitsMaps DEF Current, PrintCall, Call

(* The copy of a field, before and after its read. *)
LEMMA MirrorIs ==
  MirrorIsSnapshot <=>
    \A i \in 1 .. 17 : mirror[i] = IF pos > i THEN Snapshot(i) ELSE Zeros(Width(InputMap[i]))
  BY InputMapIs DEF MirrorIsSnapshot, Snapshot

(* What WrittenAndReadBack says of one holding field. *)
FieldInv(k) ==
    /\ holding[k] \in {Zeros(Width(HoldingMap[k])), Written(k)}
    /\ HoldingMap[k].offset \in acked => holding[k] = Written(k)
    /\ HoldingMap[k].offset \in acked /\ printed[HoldingMap[k].offset] # << >> =>
          printed[HoldingMap[k].offset] = WriteBuffer(HoldingMap[k].words)

(* It is said field by field. *)
LEMMA WrittenIs == WrittenAndReadBack <=> \A k \in 1 .. 7 : FieldInv(k)
  BY HoldingMapIs DEF WrittenAndReadBack, FieldInv, Written

(* Snapshots and written fields have the bytes of their field. *)
LEMMA SnapshotIsField ==
  ASSUME DeviceTypes, NEW i \in 1 .. 17
  PROVE  /\ Snapshot(i) \in FieldOf(Width(InputMap[i]))
         /\ Zeros(Width(InputMap[i])) \in FieldOf(Width(InputMap[i]))
  <1>1. PICK n \in Nat : n = InputMap[i].words /\ Width(InputMap[i]) = 2 * n /\ 2 * n \in Nat
    BY InputPlaced DEF WellPlaced, Width
  <1>2. Zeros(2 * n) \in FieldOf(2 * n)
    BY ZeroRegisters
  <1>3. taken[i] \in Nat
    BY DEF DeviceTypes
  <1>4. Value(taken[i], 2 * n) \in FieldOf(2 * n)
    BY <1>1, <1>3, ValueIsField
  <1> QED BY <1>1, <1>2, <1>4 DEF Snapshot

(* What is written to a holding field fits it and comes back. *)
LEMMA WrittenIsField ==
  ASSUME NEW k \in 1 .. 7
  PROVE  /\ Written(k) \in FieldOf(Width(HoldingMap[k]))
         /\ Zeros(Width(HoldingMap[k])) \in FieldOf(Width(HoldingMap[k]))
         /\ RegistersOf(Written(k)) = WriteBuffer(HoldingMap[k].words)
  <1>1. HoldingMap[k].words \in 1 .. 2
    <2>1. HoldingSizes[k] \div 2 \in 1 .. 2
      BY DEF HoldingSizes
    <2> QED BY <2>1, HoldingMapIs
  <1>2. PICK n \in 1 .. 2 : n = HoldingMap[k].words
    BY <1>1
  <1>3. Width(HoldingMap[k]) = 2 * n /\ n \in Nat
    BY <1>2 DEF Width
  <1>4. WriteBuffer(n) \in [1 .. n -> Word]
    BY WriteBufferWords
  <1>5. BytesOf(WriteBuffer(n)) \in FieldOf(2 * n) /\ RegistersOf(BytesOf(WriteBuffer(n))) = WriteBuffer(n)
    BY <1>3, <1>4, RegistersThroughBytes
  <1>6. Zeros(2 * n) \in FieldOf(2 * n)
    BY <1>3, ZeroRegisters
  <1> QED BY <1>2, <1>3, <1>5, <1>6 DEF Written

-----------------------------------------------------------------------------
(* Every step keeps the invariant.                                         *)

(* The device's application changes the values that later reads meet. *)
LEMMA UpdateStep ==
  ASSUME DeviceInv, NEW j \in Volatile, Update(j)
  PROVE  DeviceInv'
  <1>1. UNCHANGED <<holding, mirror, pos, phase, buffer, ok, taken, acked, printed>>
    BY DEF Update, masterVars, noteVars
  <1>2. version' \in [1 .. 17 -> Nat \ {0}]
    <2>1. /\ version \in [1 .. 17 -> Nat \ {0}]
          /\ version' = [version EXCEPT ![j] = version[j] + 1]
      BY DEF Update, DeviceInv, DeviceTypes
    <2>2. CASE j \in 1 .. 17
      <3>1. version[j] + 1 \in Nat \ {0}
        BY <2>1, <2>2
      <3> QED BY <2>1, <3>1
    <2>3. CASE j \notin 1 .. 17
      BY <2>1, <2>3
    <2> QED BY <2>2, <2>3
  <1>3. DeviceTypes'
    BY <1>1, <1>2 DEF DeviceInv, DeviceTypes
  <1>4. CallInv' /\ PrintInv' /\ MirrorIsSnapshot' /\ WrittenAndReadBack'
    BY <1>1 DEF DeviceInv, CallInv, PrintInv, MirrorIsSnapshot, WrittenAndReadBack, Snapshot
  <1> QED BY <1>3, <1>4 DEF DeviceInv

(* The reply arrives. *)
LEMMA ReturnStep ==
  ASSUME DeviceInv, Return
  PROVE  DeviceInv'
  <1>1. /\ UNCHANGED <<version, holding, mirror, pos, buffer, ok, taken, acked, printed>>
        /\ phase = "reply" /\ phase' = "back"
    BY DEF Return, noteVars
  <1>2. DeviceTypes'
    BY <1>1 DEF DeviceInv, DeviceTypes
  <1>3. CallInv' /\ PrintInv' /\ MirrorIsSnapshot' /\ WrittenAndReadBack'
    BY <1>1 DEF DeviceInv, CallInv, PrintInv, MirrorIsSnapshot, WrittenAndReadBack, Snapshot
  <1> QED BY <1>2, <1>3 DEF DeviceInv

(* A call's end, while the script reads: the step shows only in the copy   *)
(* of the field that is being read.                                        *)
LEMMA ReadKeepsFields ==
  ASSUME DeviceInv, UNCHANGED <<holding, acked, printed>>, pos' >= pos, pos' \in Nat
  PROVE  WrittenAndReadBack' /\ PrintInv'
  <1>1. WrittenAndReadBack'
    BY DEF DeviceInv, WrittenAndReadBack
  <1>2. pos \in Nat
    BY DEF DeviceInv, DeviceTypes
  <1>3. PrintInv'
    BY <1>2, SMTT(30) DEF DeviceInv, PrintInv
  <1> QED BY <1>1, <1>3

(* The history of the current read is all that a served or lost read       *)
(* changes of the snapshots.                                               *)
LEMMA TakenKeepsMirror ==
  ASSUME DeviceInv, UNCHANGED <<mirror, pos>>,
         \A i \in 1 .. 17 : i # pos => taken'[i] = taken[i]
  PROVE  MirrorIsSnapshot'
  <1>1. \A i \in 1 .. 17 : mirror[i] = IF pos > i THEN Snapshot(i) ELSE Zeros(Width(InputMap[i]))
    BY MirrorIs DEF DeviceInv
  <1>2. pos \in Nat
    BY DEF DeviceInv, DeviceTypes
  <1>3. ASSUME NEW i \in 1 .. 17
        PROVE  mirror'[i] = IF pos' > i /\ taken'[i] # 0 THEN Value(taken'[i], Width(InputMap[i]))
                                                         ELSE Zeros(Width(InputMap[i]))
    <2>1. CASE pos > i
      <3>1. i # pos
        BY <1>2, <2>1
      <3> QED BY <1>1, <2>1, <3>1 DEF Snapshot
    <2>2. CASE ~(pos > i)
      BY <1>1, <2>2
    <2> QED BY <2>1, <2>2
  <1> QED BY <1>3, InputMapIs DEF MirrorIsSnapshot

(* A read is served: the buffer gets the field of this moment. *)
LEMMA ServeReadStep ==
  ASSUME DeviceInv, Serve, NEW i \in 1 .. 17, pos = i
  PROVE  DeviceInv'
  <1>1. /\ Current.op = "read" /\ Current.address = InputMap[i].offset
        /\ Current.count = InputMap[i].words
    BY CurrentRead
  <1>2. DeviceTypes
    BY DEF DeviceInv
  <1>3. PICK n \in Nat : n = InputMap[i].words /\ Width(InputMap[i]) = 2 * n /\ 2 * n \in Nat
    BY InputPlaced DEF WellPlaced, Width
  <1>4. 17 \in Nat /\ WellPlaced(InputMap, 17)
    BY InputPlaced
  <1>5. check_location_valid(InputMap, InputMap[i].offset, InputMap[i].words)
    BY <1>4, FieldAccepted
  <1>6. /\ phase' = "reply" /\ ok' = TRUE
        /\ UNCHANGED <<version, mirror, pos, acked, printed, holding>>
        /\ taken' = [taken EXCEPT ![i] = version[i]]
    BY <1>1, <1>5 DEF Serve
  <1>7. buffer' = RegistersOf(MappedGetRegisters(InputMap, Inputs, InputMap[i].offset, InputMap[i].words))
    BY <1>1, <1>6 DEF Serve
  <1>8. version[i] \in Nat \ {0} /\ taken \in [1 .. 17 -> Nat]
    BY <1>2 DEF DeviceTypes
  <1>9. /\ taken' \in [1 .. 17 -> Nat] /\ taken'[i] = version[i]
        /\ \A j \in 1 .. 17 : j # pos => taken'[j] = taken[j]
    BY <1>6, <1>8
  <1>10. Inputs[i] = Value(version[i], Width(InputMap[i])) /\ Inputs[i] \in FieldOf(2 * n)
    BY <1>3, <1>8, InputMapIs, ValueIsField DEF Inputs
  <1>11. MappedGetRegisters(InputMap, Inputs, InputMap[i].offset, InputMap[i].words) = Inputs[i]
    BY <1>3, <1>4, <1>10, FieldGot
  <1>12. MakeRegistersToBytes(buffer') = Inputs[i]
    BY <1>7, <1>10, <1>11, BytesThroughRegisters
  <1>13. MakeRegistersToBytes(buffer') = Snapshot(i)'
    BY <1>8, <1>9, <1>10, <1>12 DEF Snapshot
  <1>14. DeviceTypes'
    BY <1>2, <1>6, <1>9 DEF DeviceTypes
  <1>15. CallInv'
    <2>1. \A k \in 1 .. 7 : pos' # 16 + 2 * k /\ pos' # 17 + 2 * k
      BY <1>6
    <2>2. \A j \in 1 .. 17 : pos' = j => j = i
      BY <1>6
    <2> QED BY <1>13, <2>1, <2>2 DEF CallInv
  <1>16. WrittenAndReadBack' /\ PrintInv'
    <2>1. pos' >= pos /\ pos' \in Nat
      BY <1>6
    <2> QED BY <1>6, <2>1, ReadKeepsFields
  <1>17. MirrorIsSnapshot'
    BY <1>6, <1>9, TakenKeepsMirror
  <1> QED BY <1>14, <1>15, <1>16, <1>17 DEF DeviceInv

(* A write is served: the field becomes, as a whole, what is written. *)
LEMMA ServeWriteStep ==
  ASSUME DeviceInv, Serve, NEW k \in 1 .. 7, pos = 16 + 2 * k
  PROVE  DeviceInv'
  <1>1. /\ Current.op = "write" /\ Current.address = HoldingMap[k].offset
        /\ Current.count = HoldingMap[k].words
    BY CurrentWrite
  <1>2. DeviceTypes /\ \A j \in 1 .. 7 : FieldInv(j)
    BY WrittenIs DEF DeviceInv
  <1>3. 7 \in Nat /\ WellPlaced(HoldingMap, 7)
    BY HoldingPlaced
  <1>4. check_location_valid(HoldingMap, HoldingMap[k].offset, HoldingMap[k].words)
    BY <1>3, FieldAccepted
  <1>5. /\ phase' = "reply" /\ ok' = TRUE
        /\ UNCHANGED <<version, mirror, pos, acked, printed, taken>>
        /\ holding' \in HoldingSetField(HoldingMap[k].offset, WriteBuffer(HoldingMap[k].words))
    BY <1>1, <1>4 DEF Serve
  <1>6. holding[k] \in FieldOf(Width(HoldingMap[k])) /\ Written(k) \in FieldOf(Width(HoldingMap[k]))
    BY <1>2, WrittenIsField DEF FieldInv
  <1>7. SetsField(HoldingMap, holding, k, Written(k))
    BY <1>3, <1>6, FieldSet, ZenonT(40)
  <1>8. holding' = [holding EXCEPT ![k] = Written(k)]
    BY <1>5, <1>7 DEF HoldingSetField, Written, SetsField
  <1>9. /\ DOMAIN holding' = 1 .. 7 /\ holding'[k] = Written(k)
        /\ \A j \in 1 .. 7 : j # k => holding'[j] = holding[j]
    BY <1>2, <1>8 DEF DeviceTypes
  <1>10. DeviceTypes'
    <2>1. pos' # 32
      BY <1>5
    <2> QED BY <1>2, <1>5, <1>9, <2>1 DEF DeviceTypes
  <1>11. CallInv'
    <2>1. \A j \in 1 .. 17 : pos' # j
      BY <1>5
    <2>2. \A j \in 1 .. 7 : pos' # 17 + 2 * j /\ (pos' = 16 + 2 * j => j = k)
      BY <1>5
    <2> QED BY <1>9, <2>1, <2>2 DEF CallInv, Written
  <1>12. \A j \in 1 .. 7 : FieldInv(j)'
    <2>1. ASSUME NEW j \in 1 .. 7, j # k PROVE FieldInv(j)'
      BY <1>2, <1>5, <1>9, <2>1 DEF FieldInv, Written
    <2>2. FieldInv(k)'
      BY <1>2, <1>5, <1>9 DEF FieldInv, Written
    <2> QED BY <2>1, <2>2
  <1>13. WrittenAndReadBack'
    BY <1>12, HoldingMapIs DEF WrittenAndReadBack, FieldInv, Written
  <1>14. PrintInv'
    BY <1>5 DEF DeviceInv, PrintInv
  <1>15. MirrorIsSnapshot'
    BY <1>5, TakenKeepsMirror
  <1> QED BY <1>10, <1>11, <1>13, <1>14, <1>15 DEF DeviceInv

(* A read back is served: the buffer gets the field. *)
LEMMA ServePrintStep ==
  ASSUME DeviceInv, Serve, NEW k \in 1 .. 7, pos = 17 + 2 * k
  PROVE  DeviceInv'
  <1>1. /\ Current.op = "print" /\ Current.address = HoldingMap[k].offset
        /\ Current.count = HoldingMap[k].words
    BY CurrentPrint
  <1>2. DeviceTypes /\ \A j \in 1 .. 7 : FieldInv(j)
    BY WrittenIs DEF DeviceInv
  <1>3. 7 \in Nat /\ WellPlaced(HoldingMap, 7)
    BY HoldingPlaced
  <1>4. check_location_valid(HoldingMap, HoldingMap[k].offset, HoldingMap[k].words)
    BY <1>3, FieldAccepted
  <1>5. /\ phase' = "reply" /\ ok' = TRUE
        /\ UNCHANGED <<version, mirror, pos, acked, printed, taken, holding>>
    BY <1>1, <1>4 DEF Serve
  <1>6. buffer' = RegistersOf(HoldingGetField(HoldingMap[k].offset, HoldingMap[k].words))
    BY <1>1, <1>5 DEF Serve
  <1>7. holding[k] \in FieldOf(Width(HoldingMap[k]))
    BY <1>2, WrittenIsField DEF FieldInv
  <1>8. HoldingGetField(HoldingMap[k].offset, HoldingMap[k].words) = holding[k]
    BY <1>3, <1>7, FieldGot DEF HoldingGetField
  <1>9. DeviceTypes'
    <2>1. pos' # 32
      BY <1>5
    <2> QED BY <1>2, <1>5, <2>1 DEF DeviceTypes
  <1>10. CallInv'
    <2>1. \A j \in 1 .. 17 : pos' # j
      BY <1>5
    <2>2. \A j \in 1 .. 7 : pos' # 16 + 2 * j /\ (pos' = 17 + 2 * j => j = k)
      BY <1>5
    <2> QED BY <1>5, <1>6, <1>8, <2>1, <2>2 DEF CallInv
  <1>11. WrittenAndReadBack' /\ PrintInv'
    <2>1. pos' >= pos /\ pos' \in Nat
      BY <1>5
    <2> QED BY <1>5, <2>1, ReadKeepsFields
  <1>12. MirrorIsSnapshot'
    BY <1>5, TakenKeepsMirror
  <1> QED BY <1>9, <1>10, <1>11, <1>12 DEF DeviceInv

(* A request or its reply is lost: the buffer is zero and the call failed. *)
LEMMA TimeoutStep ==
  ASSUME DeviceInv, Timeout
  PROVE  DeviceInv'
  <1>1. DeviceTypes
    BY DEF DeviceInv
  <1>2. /\ phase' = "back" /\ ok' = FALSE
        /\ UNCHANGED <<version, holding, mirror, pos, acked, printed>>
    BY DEF Timeout
  <1>3. pos \in 1 .. 31
    BY <1>1, ScriptFitsMaps DEF Timeout, DeviceTypes
  <1>4. /\ taken' \in [1 .. 17 -> Nat]
        /\ \A j \in 1 .. 17 : j # pos => taken'[j] = taken[j]
    <2>1. taken \in [1 .. 17 -> Nat]
      BY <1>1 DEF DeviceTypes
    <2>2. taken' = [taken EXCEPT ![pos] = 0] \/ taken' = taken
      BY DEF Timeout
    <2> QED BY <2>1, <2>2
  <1>5. ASSUME NEW i \in 1 .. 17, pos = i PROVE MakeRegistersToBytes(buffer') = Snapshot(i)'
    <2>1. Current.op = "read" /\ Current.count = InputMap[i].words
      BY <1>5, CurrentRead
    <2>2. PICK n \in Nat : n = InputMap[i].words /\ Width(InputMap[i]) = 2 * n
      BY InputPlaced DEF WellPlaced, Width
    <2>3. buffer' = Zeros(n)
      BY <2>1, <2>2 DEF Timeout, Fresh
    <2>4. taken'[i] = 0
      BY <1>1, <1>5, <2>1 DEF Timeout, DeviceTypes
    <2>5. MakeRegistersToBytes(buffer') = Zeros(2 * n)
      BY <2>3, ZeroRegisters
    <2> QED BY <2>2, <2>4, <2>5 DEF Snapshot
  <1>6. DeviceTypes'
    <2>1. pos' # 32
      BY <1>2, <1>3
    <2> QED BY <1>1, <1>2, <1>4, <2>1 DEF DeviceTypes
  <1>7. CallInv'
    BY <1>2, <1>5 DEF CallInv
  <1>8. WrittenAndReadBack' /\ PrintInv'
    <2>1. pos' >= pos /\ pos' \in Nat
      BY <1>2, <1>3
    <2> QED BY <1>2, <2>1, ReadKeepsFields
  <1>9. MirrorIsSnapshot'
    BY <1>2, <1>4, TakenKeepsMirror
  <1> QED BY <1>6, <1>7, <1>8, <1>9 DEF DeviceInv

(* After a read the buffer goes to the copy: the field is the snapshot. *)
LEMMA ContinueReadStep ==
  ASSUME DeviceInv, Continue, NEW i \in 1 .. 17, pos = i
  PROVE  DeviceInv'
  <1>1. Current.op = "read" /\ Current.address = InputMap[i].offset
    BY CurrentRead
  <1>2. DeviceTypes /\ CallInv
    BY DEF DeviceInv
  <1>3. /\ phase = "back" /\ phase' = "call" /\ pos' = i + 1
        /\ UNCHANGED <<version, holding, ok, taken, acked, printed>>
        /\ mirror' \in MappedSetRegisters(InputMap, mirror, InputMap[i].offset,
                                          MakeRegistersToBytes(buffer))
    BY <1>1 DEF Continue, StoreField
  <1>4. MakeRegistersToBytes(buffer) = Snapshot(i)
    BY <1>2, <1>3 DEF CallInv
  <1>5. \A j \in 1 .. 17 : mirror[j] = IF pos > j THEN Snapshot(j) ELSE Zeros(Width(InputMap[j]))
    BY MirrorIs DEF DeviceInv
  <1>6. /\ Snapshot(i) \in FieldOf(Width(InputMap[i]))
        /\ mirror[i] \in FieldOf(Width(InputMap[i]))
    <2>1. mirror[i] = Zeros(Width(InputMap[i]))
      BY <1>5
    <2> QED BY <1>2, <2>1, SnapshotIsField
  <1>7. 17 \in Nat /\ WellPlaced(InputMap, 17)
    BY InputPlaced
  <1>8. SetsField(InputMap, mirror, i, Snapshot(i))
    BY <1>6, <1>7, FieldSet, ZenonT(40)
  <1>9. mirror' = [mirror EXCEPT ![i] = Snapshot(i)]
    BY <1>3, <1>4, <1>8 DEF SetsField
  <1>10. /\ DOMAIN mirror' = 1 .. 17 /\ mirror'[i] = Snapshot(i)
         /\ \A j \in 1 .. 17 : j # i => mirror'[j] = mirror[j]
    BY <1>2, <1>9 DEF DeviceTypes
  <1>11. DeviceTypes'
    <2>1. pos' \in 1 .. 32
      BY <1>3
    <2> QED BY <1>2, <1>3, <1>10, <2>1 DEF DeviceTypes
  <1>12. CallInv'
    BY <1>3 DEF CallInv
  <1>13. MirrorIsSnapshot'
    <2>1. ASSUME NEW j \in 1 .. 17
          PROVE  mirror'[j] = IF pos' > j THEN Snapshot(j) ELSE Zeros(Width(InputMap[j]))
      <3>1. CASE j = i
        BY <1>3, <1>10, <3>1
      <3>2. CASE j # i
        <4>1. pos' > j <=> pos > j
          BY <1>3, <3>2
        <4> QED BY <1>5, <1>10, <3>2, <4>1
      <3> QED BY <3>1, <3>2
    <2> QED BY <1>3, <2>1, InputMapIs DEF MirrorIsSnapshot, Snapshot
  <1>14. WrittenAndReadBack' /\ PrintInv'
    <2>1. pos' >= pos /\ pos' \in Nat
      BY <1>3
    <2> QED BY <1>3, <2>1, ReadKeepsFields
  <1> QED BY <1>11, <1>12, <1>13, <1>14 DEF DeviceInv

(* All fields are read when the script comes to the holding registers. *)
LEMMA LaterKeepsMirror ==
  ASSUME DeviceInv, UNCHANGED <<mirror, taken>>, pos > 17, pos' = pos + 1
  PROVE  MirrorIsSnapshot'
  <1>1. pos \in Nat
    BY DEF DeviceInv, DeviceTypes
  <1>2. \A i \in 1 .. 17 : pos > i /\ pos' > i
    BY <1>1
  <1> QED BY <1>2, InputMapIs DEF DeviceInv, MirrorIsSnapshot

(* After a write: an acknowledged one has reached the field, and nothing   *)
(* is printed for it yet.                                                  *)
LEMMA ContinueWriteStep ==
  ASSUME DeviceInv, Continue, NEW k \in 1 .. 7, pos = 16 + 2 * k
  PROVE  DeviceInv'
  <1>1. Current.op = "write" /\ Current.address = HoldingMap[k].offset
    BY CurrentWrite
  <1>2. DeviceTypes /\ CallInv /\ PrintInv /\ \A j \in 1 .. 7 : FieldInv(j)
    BY WrittenIs DEF DeviceInv
  <1>3. /\ phase = "back" /\ phase' = "call" /\ pos' = pos + 1
        /\ UNCHANGED <<version, holding, ok, taken, mirror, printed>>
        /\ acked' = IF ok THEN acked \cup {HoldingMap[k].offset} ELSE acked
    BY <1>1 DEF Continue, NoteWrite
  <1>4. DeviceTypes'
    <2>1. pos' \in 1 .. 32
      BY <1>3
    <2> QED BY <1>2, <1>3, <2>1 DEF DeviceTypes
  <1>5. CallInv'
    BY <1>3 DEF CallInv
  <1>6. MirrorIsSnapshot'
    <2>1. pos > 17
      OBVIOUS
    <2> QED BY <1>3, <2>1, LaterKeepsMirror
  <1>7. PrintInv'
    BY <1>2, <1>3 DEF PrintInv
  <1>8. ASSUME NEW j \in 1 .. 7 PROVE FieldInv(j)'
    <2>1. CASE HoldingMap[j].offset \in acked' <=> HoldingMap[j].offset \in acked
      BY <1>2, <1>3, <2>1 DEF FieldInv, Written
    <2>2. CASE ~(HoldingMap[j].offset \in acked' <=> HoldingMap[j].offset \in acked)
      <3>1. ok /\ HoldingMap[j].offset = HoldingMap[k].offset
        BY <1>3, <2>2
      <3>2. j = k
        BY <3>1, HoldingPlaced DEF WellPlaced
      <3>3. holding[k] = Written(k)
        BY <1>2, <1>3, <3>1 DEF CallInv
      <3>4. printed[HoldingMap[k].offset] = << >>
        <4>1. pos <= 17 + 2 * k
          OBVIOUS
        <4> QED BY <1>2, <4>1 DEF PrintInv
      <3> QED BY <1>2, <1>3, <3>2, <3>3, <3>4 DEF FieldInv, Written
    <2> QED BY <2>1, <2>2
  <1>9. WrittenAndReadBack'
    BY <1>8, HoldingMapIs DEF WrittenAndReadBack, FieldInv, Written
  <1> QED BY <1>4, <1>5, <1>6, <1>7, <1>9 DEF DeviceInv

(* After a read back: what is printed is the field. *)
LEMMA ContinuePrintStep ==
  ASSUME DeviceInv, Continue, NEW k \in 1 .. 7, pos = 17 + 2 * k
  PROVE  DeviceInv'
  <1>1. Current.op = "print" /\ Current.address = HoldingMap[k].offset
    BY CurrentPrint
  <1>2. DeviceTypes /\ CallInv /\ PrintInv /\ \A j \in 1 .. 7 : FieldInv(j)
    BY WrittenIs DEF DeviceInv
  <1>3. /\ phase = "back" /\ phase' = "call" /\ pos' = pos + 1
        /\ UNCHANGED <<version, holding, ok, taken, mirror, acked>>
        /\ printed' = IF ok THEN [printed EXCEPT ![HoldingMap[k].offset] = buffer] ELSE printed
    BY <1>1 DEF Continue, ReadPrint
  <1>4. /\ DOMAIN printed' = DOMAIN printed
        /\ \A j \in 1 .. 7 : j # k => printed'[HoldingMap[j].offset] = printed[HoldingMap[j].offset]
        /\ ok => printed'[HoldingMap[k].offset] = buffer
        /\ ~ok => printed'[HoldingMap[k].offset] = printed[HoldingMap[k].offset]
    <2>1. \A j \in 1 .. 7 : HoldingMap[j].offset \in DOMAIN printed
      BY <1>2, HoldingMapIs DEF DeviceTypes
    <2>2. \A j \in 1 .. 7 : j # k => HoldingMap[j].offset # HoldingMap[k].offset
      BY HoldingPlaced DEF WellPlaced
    <2> QED BY <1>3, <2>1, <2>2
  <1>5. DeviceTypes'
    <2>1. pos' \in 1 .. 32
      BY <1>3
    <2> QED BY <1>2, <1>3, <1>4, <2>1 DEF DeviceTypes
  <1>6. CallInv'
    BY <1>3 DEF CallInv
  <1>7. MirrorIsSnapshot'
    <2>1. pos > 17
      OBVIOUS
    <2> QED BY <1>3, <2>1, LaterKeepsMirror
  <1>8. PrintInv'
    <2>1. \A j \in 1 .. 7 : pos' <= 17 + 2 * j => j # k /\ pos <= 17 + 2 * j
      BY <1>3
    <2> QED BY <1>2, <1>4, <2>1 DEF PrintInv
  <1>9. ASSUME NEW j \in 1 .. 7 PROVE FieldInv(j)'
    <2>1. CASE j # k \/ ~ok
      BY <1>2, <1>3, <1>4, <2>1 DEF FieldInv, Written
    <2>2. CASE j = k /\ ok
      <3>1. buffer = RegistersOf(holding[k])
        BY <1>2, <1>3, <2>2 DEF CallInv
      <3>2. holding[k] = Written(k) => buffer = WriteBuffer(HoldingMap[k].words)
        BY <3>1, WrittenIsField
      <3> QED BY <1>2, <1>3, <1>4, <2>2, <3>2 DEF FieldInv, Written
    <2> QED BY <2>1, <2>2
  <1>10. WrittenAndReadBack'
    BY <1>9, HoldingMapIs DEF WrittenAndReadBack, FieldInv, Written
  <1> QED BY <1>5, <1>6, <1>7, <1>8, <1>10 DEF DeviceInv

-----------------------------------------------------------------------------
(* At the start nothing is read, written or printed. *)
LEMMA DeviceInvInit == DeviceInit => DeviceInv
  <1> SUFFICES ASSUME DeviceInit PROVE DeviceInv
    OBVIOUS
  <1>1. DeviceTypes
    <2>1. version \in [1 .. 17 -> Nat \ {0}] /\ taken \in [1 .. 17 -> Nat]
      BY InputMapIs DEF DeviceInit
    <2>2. DOMAIN mirror = 1 .. 17 /\ DOMAIN holding = 1 .. 7
      BY InputMapIs, HoldingMapIs DEF DeviceInit
    <2>3. DOMAIN printed = {HoldingMap[k].offset : k \in DOMAIN HoldingMap}
      BY DEF DeviceInit
    <2>4. pos = 1 /\ phase = "call" /\ ok = FALSE
      BY Zenon DEF DeviceInit
    <2>5. pos \in 1 .. 32 /\ pos # 32
      BY <2>4
    <2>6. phase \in {"call", "reply", "back"} /\ ok \in BOOLEAN
      BY <2>4, Zenon
    <2> QED BY <2>1, <2>2, <2>3, <2>5, <2>6 DEF DeviceTypes
  <1>2. CallInv
    BY DEF DeviceInit, CallInv
  <1>3. PrintInv
    BY HoldingMapIs DEF DeviceInit, PrintInv
  <1>4. MirrorIsSnapshot
    BY InputMapIs DEF DeviceInit, MirrorIsSnapshot
  <1>5. WrittenAndReadBack
    BY HoldingMapIs DEF DeviceInit, WrittenAndReadBack
  <1> QED BY <1>1, <1>2, <1>3, <1>4, <1>5 DEF DeviceInv

(* DeviceInv is inductive. *)
LEMMA DeviceInvStep ==
  ASSUME DeviceInv, [DeviceNext]_deviceVars
  PROVE  DeviceInv'
  <1>1. CASE UNCHANGED deviceVars
    <2>1. UNCHANGED <<version, holding, mirror, pos, phase, buffer, ok, taken, acked, printed>>
      BY <1>1 DEF deviceVars, inputVars, masterVars, noteVars
    <2> QED BY <2>1 DEF DeviceInv, DeviceTypes, CallInv, PrintInv, MirrorIsSnapshot,
                        WrittenAndReadBack, Snapshot
  <1>2. CASE Serve
    <2>1. pos \in 1 .. 31
      BY <1>2, ScriptFitsMaps DEF Serve, DeviceInv, DeviceTypes
    <2> QED BY <1>2, <2>1, ScriptPlaces, ServeReadStep, ServeWriteStep, ServePrintStep
  <1>3. CASE Continue
    <2>1. pos \in 1 .. 31
      BY <1>3 DEF Continue, DeviceInv, DeviceTypes
    <2> QED BY <1>3, <2>1, ScriptPlaces, ContinueReadStep, ContinueWriteStep, ContinuePrintStep
  <1> QED BY <1>1, <1>2, <1>3, UpdateStep, ReturnStep, TimeoutStep DEF DeviceNext, Master

(* It holds in every state, whatever is lost and updated meanwhile. *)
LEMMA DeviceInvAlways == DeviceSpec => []DeviceInv
  <1>1. DeviceInv /\ [DeviceNext]_deviceVars => DeviceInv'
    BY DeviceInvStep
  <1> QED BY <1>1, DeviceInvInit, PTL DEF DeviceSpec

(* For every set of fields the application updates, any number of updates  *)
(* and any number of lost messages: the master's copy of a field is zero   *)
(* or one whole value the device had while the call was served.            *)
THEOREM CopyIsSnapshot == DeviceSpec => []MirrorIsSnapshot
  <1>1. DeviceInv => MirrorIsSnapshot
    BY DEF DeviceInv
  <1> QED BY <1>1, DeviceInvAlways, PTL

(* Likewise a holding field is zero or as a whole what the script writes   *)
(* to it, and what is printed behind an acknowledged write is what was     *)
(* written, also when other writes or read backs were lost.                *)
THEOREM ReadBackIsWritten == DeviceSpec => []WrittenAndReadBack
  <1>1. DeviceInv => WrittenAndReadBack
    BY DEF DeviceInv
  <1> QED BY <1>1, DeviceInvAlways, PTL
=============================================================================
