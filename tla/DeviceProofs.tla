---------------------------- MODULE DeviceProofs -----------------------------
(***************************************************************************)
(* What init_camera and what it calls do to the camera.  First             *)
(* camera_setting, for every camera: whatever formats its table has and in *)
(* whatever lengths it is told, whichever requests fail, and whatever the  *)
(* unit's registers and the V4L2 controls are.  Then the buffers of the    *)
(* driver, for every number of them that it may grant.                     *)
(***************************************************************************)
EXTENDS CameraSetting, VideoDevice, TLAPS


-----------------------------------------------------------------------------
(* The bytes of a table.                                                    *)

LEMMA TableFacts ==
  ASSUME NEW t \in Tables
  PROVE  /\ t.formats \in Seq(Format) /\ t.bytes \in Seq(Byte)
         /\ Len(t.formats) \in Nat /\ DOMAIN t.formats = 1..Len(t.formats)
         /\ \A k \in 1..(Len(t.formats) + 1) :
              t.at[k] \in Nat /\ t.at[k] <= Len(t.bytes)
         /\ t.at[1] = 0 /\ t.at[Len(t.formats) + 1] = Len(t.bytes)
         /\ \A k \in 1..Len(t.formats) :
              /\ t.formats[k] \in Format
              /\ t.at[k + 1] = t.at[k] + Size(Len(t.formats[k].FrPay))
              /\ Written(t.formats[k], t.bytes, t.at[k])
<1>1. /\ t.formats \in Seq(Format) /\ t.bytes \in Seq(Byte) /\ t.at \in Seq(Nat)
  BY TablesAssumption DEF Table
<1>2. /\ Len(t.formats) \in Nat /\ DOMAIN t.formats = 1..Len(t.formats)
      /\ DOMAIN t.at = 1..(Len(t.formats) + 1)
      /\ \A k \in DOMAIN t.at : t.at[k] \in Nat
      /\ \A k \in DOMAIN t.formats : t.formats[k] \in Format
  BY <1>1, TablesAssumption
<1> QED BY <1>1, <1>2, TablesAssumption

LEMMA DataTyped ==
  ASSUME FormatTypeOK, NEW i \in Nat
  PROVE  Data(i) \in Byte
<1>1. fwData \in Seq(Byte) /\ fwLen = Len(fwData) /\ fwLen \in Nat /\ beyond \in {0, 1}
  BY DEF FormatTypeOK
<1>2. CASE i < fwLen
  <2>1. i + 1 \in 1..Len(fwData)
    BY <1>1, <1>2
  <2> QED BY <1>1, <1>2, <2>1 DEF Data
<1>3. CASE ~(i < fwLen)
  BY <1>1, <1>3 DEF Data, Byte
<1> QED BY <1>2, <1>3

LEMMA SameBytes ==
  ASSUME NEW s \in Seq(Byte), NEW t \in Seq(Byte), Len(s) = Len(t),
         \A i \in 1..Len(s) : s[i] = t[i]
  PROVE  s = t
<1>1. s \in [1..Len(s) -> Byte] /\ t \in [1..Len(s) -> Byte]
  OBVIOUS
<1> QED BY <1>1

LEMMA TwoBytes ==
  ASSUME NEW w \in Nat, NEW q, q = w \div 256, NEW r, r = w % 256
  PROVE  q * 256 + r = w
  OBVIOUS

LEMMA SizeTyped == \A n \in Nat : Size(n) \in Nat /\ Size(n) > 0
  BY DEF Size

LEMMA WordAtTyped ==
  ASSUME FormatTypeOK, NEW i \in Nat
  PROVE  WordAt(i) \in Word
<1>1. \A k \in 1..4 : i + k - 1 \in Nat
  OBVIOUS
<1>2. \A k \in 1..4 : Data(i + k - 1) \in Byte
  BY <1>1, DataTyped
<1> QED BY <1>2 DEF WordAt, Word

LEMMA FormatAtTyped ==
  ASSUME FormatTypeOK, NEW i \in Nat
  PROVE  FormatAt(i) \in Format
<1> DEFINE f == FormatAt(i)
           n == Data(i + 4)
<1>1. \A k \in 0..4 : Data(i + k) \in Nat /\ Data(i + k) < 256
  BY DataTyped DEF Byte
<1>2. Data(i) \in Nat /\ Data(i) < 256
  BY DataTyped DEF Byte
<1>3. /\ Data(i) * 256 + Data(i + 1) \in Short
      /\ Data(i + 2) * 256 + Data(i + 3) \in Short
  BY <1>1, <1>2 DEF Short
<1>4. WordAt(i + 5) \in Word
  BY WordAtTyped
<1>5. \A k \in 1..n : i + 9 + 4 * (k - 1) \in Nat
  BY <1>1
<1>6. \A k \in 1..n : WordAt(i + 9 + 4 * (k - 1)) \in Word
  BY <1>5, WordAtTyped
<1>7. n \in Nat
  BY <1>1
<1>8. [k \in 1..n |-> WordAt(i + 9 + 4 * (k - 1))] \in Seq(Word)
  BY <1>6, <1>7
<1> QED BY <1>3, <1>4, <1>8 DEF FormatAt, Format

(* Where a format of the table begins, what is parsed is this format, and   *)
(* the next one begins behind it.                                           *)
LEMMA FormatRead ==
  ASSUME FormatTypeOK, fwData = table.bytes, NEW k \in DOMAIN table.formats
  PROVE  /\ FormatAt(table.at[k]) = table.formats[k]
         /\ table.at[k + 1] = table.at[k] + Size(Data(table.at[k] + 4))
<1> DEFINE f == table.formats[k]
           b == table.bytes
           i == table.at[k]
           n == Len(f.FrPay)
<1>1. /\ table \in Tables /\ fwLen = Len(b) /\ fwLen \in Nat
  BY DEF FormatTypeOK
<1>2. /\ f \in Format /\ i \in Nat /\ Written(f, b, i)
      /\ table.at[k + 1] = i + Size(n) /\ i + Size(n) <= fwLen
  <2>1. k \in 1..Len(table.formats) /\ k + 1 \in 1..(Len(table.formats) + 1)
    BY <1>1, TableFacts
  <2>2. /\ table.formats \in Seq(Format)
        /\ \A j \in 1..(Len(table.formats) + 1) :
             table.at[j] \in Nat /\ table.at[j] <= Len(table.bytes)
        /\ \A j \in DOMAIN table.formats :
             /\ table.at[j + 1] = table.at[j] + Size(Len(table.formats[j].FrPay))
             /\ Written(table.formats[j], table.bytes, table.at[j])
    BY <1>1, TableFacts
  <2>3. f \in Format
    BY <2>2
  <2>4. i \in Nat /\ table.at[k + 1] <= fwLen
    BY <2>1, <2>2, <1>1
  <2> QED BY <2>2, <2>3, <2>4
<1>3. n \in Nat /\ f.FrPay \in Seq(Word) /\ f.FrameSize \in Word
      /\ f.wWidth \in Nat /\ f.wHeight \in Nat
      /\ DOMAIN f.FrPay = 1..n
  BY <1>2 DEF Format, Short
<1>4. f = [wWidth |-> f.wWidth, wHeight |-> f.wHeight,
           FrameSize |-> f.FrameSize, FrPay |-> f.FrPay]
  BY <1>2 DEF Format
<1> HIDE DEF f, b, i, n
<1>5. ASSUME NEW j \in Nat, j >= i, j < i + 9 + n * 4
      PROVE  Data(j) = b[j + 1]
  <2>1. j < fwLen
    BY <1>1, <1>2, <1>3, <1>5 DEF Size
  <2> QED BY <2>1 DEF Data, b
<1>0. ASSUME NEW m \in 0..8
      PROVE  Data(i + m) = b[i + m + 1]
  <2>1. i + m \in Nat /\ i + m >= i /\ i + m < i + 9 + n * 4
    BY <1>2, <1>3
  <2> QED BY <2>1, <1>5
<1>6. /\ Data(i) * 256 + Data(i + 1) = f.wWidth
      /\ Data(i + 2) * 256 + Data(i + 3) = f.wHeight
      /\ Data(i + 4) = n
  <2>1. /\ i + 0 = i /\ i + 0 + 1 = i + 1 /\ i + 1 + 1 = i + 2 /\ i + 2 + 1 = i + 3
        /\ i + 3 + 1 = i + 4 /\ i + 4 + 1 = i + 5
    BY <1>2
  <2>2. /\ Data(i) = b[i + 1] /\ Data(i + 1) = b[i + 2] /\ Data(i + 2) = b[i + 3]
        /\ Data(i + 3) = b[i + 4] /\ Data(i + 4) = b[i + 5]
    BY <2>1, <1>0
  <2>3. /\ b[i + 1] = f.wWidth \div 256  /\ b[i + 2] = f.wWidth % 256
        /\ b[i + 3] = f.wHeight \div 256 /\ b[i + 4] = f.wHeight % 256
        /\ b[i + 5] = n
    BY <1>2 DEF Written, n
  <2>4. /\ f.wWidth \in Nat /\ Data(i) = f.wWidth \div 256
        /\ Data(i + 1) = f.wWidth % 256
        /\ f.wHeight \in Nat /\ Data(i + 2) = f.wHeight \div 256
        /\ Data(i + 3) = f.wHeight % 256
    BY <1>3, <2>2, <2>3
  <2>5. Data(i) * 256 + Data(i + 1) = f.wWidth
    BY <2>4, TwoBytes
  <2>6. Data(i + 2) * 256 + Data(i + 3) = f.wHeight
    BY <2>4, TwoBytes
  <2> QED BY <2>2, <2>3, <2>5, <2>6
<1>7. WordAt(i + 5) = f.FrameSize
  <2>1. \A m \in 1..4 : Data((i + 5) + m - 1) = f.FrameSize[m]
    <3>1. ASSUME NEW m \in 1..4 PROVE Data((i + 5) + m - 1) = b[i + 5 + m]
      <4>1. /\ 4 + m \in 0..8 /\ (i + 5) + m - 1 = i + (4 + m)
            /\ i + (4 + m) + 1 = i + 5 + m
        BY <1>2
      <4> QED BY <4>1, <1>0
    <3> QED BY <3>1, <1>2 DEF Written
  <2> QED BY <2>1, <1>3 DEF WordAt, Word
<1>8. [j \in 1..n |-> WordAt(i + 9 + 4 * (j - 1))] = f.FrPay
  <2>1. ASSUME NEW j \in 1..n
        PROVE  WordAt(i + 9 + 4 * (j - 1)) = f.FrPay[j]
    <3>1. ASSUME NEW m \in 1..4
          PROVE  Data((i + 9 + 4 * (j - 1)) + m - 1) = f.FrPay[j][m]
      <4>1. b[i + 9 + 4 * (j - 1) + m] = f.FrPay[j][m]
        BY <1>2, <1>3 DEF Written
      <4>2. Data((i + 9 + 4 * (j - 1)) + m - 1) = b[(i + 9 + 4 * (j - 1)) + m - 1 + 1]
        BY <1>2, <1>3, <1>5
      <4> QED BY <4>1, <4>2, <1>2, <1>3
    <3>2. f.FrPay[j] \in [1..4 -> Byte]
      BY <1>3 DEF Word
    <3> QED BY <3>1, <3>2 DEF WordAt
  <2> QED BY <2>1, <1>3
<1> QED BY <1>2, <1>4, <1>6, <1>7, <1>8 DEF FormatAt, f, i, n

-----------------------------------------------------------------------------
(* Counting and parsing.                                                    *)

(* There is a walk from the first byte on, each step of which is the size   *)
(* that the bytes tell, whatever they are; both passes follow it.           *)
Walk(m) ==
  /\ m[1] = 0
  /\ \A k \in 1..(Len(m) - 1) : /\ m[k] < fwLen
                                /\ m[k + 1] = m[k] + Size(Data(m[k] + 4))

Walked ==
  /\ pc = "count" => \E m \in Seq(Nat) : /\ Len(m) = cnt + 1 /\ Walk(m)
                                         /\ m[cnt + 1] = cur_len
  /\ pc = "parse" /\ allocated > 0 =>
       \E m \in Seq(Nat) : /\ Len(m) = allocated + 1 /\ Walk(m)
                           /\ m[allocated + 1] = fwLen
                           /\ cnt <= allocated /\ m[cnt + 1] = cur_len

FormatIInv == /\ FormatTypeOK /\ Counted /\ Walked
              /\ ReadAsDevice /\ WalkAsDevice
              /\ pc = "set" => Len(gH264fmt) = allocated /\ success = 1

LEMMA WalkBegins ==
  /\ <<0>> \in Seq(Nat) /\ Len(<<0>>) = 1 /\ Walk(<<0>>) /\ <<0>>[1] = 0
  BY DEF Walk

(* The walk that was counted ends when as many formats are parsed, and not  *)
(* before.                                                                  *)
LEMMA PassesMeet ==
  ASSUME FormatTypeOK, Walked, pc = "parse", allocated > 0
  PROVE  /\ cur_len < fwLen => cnt < allocated
         /\ cur_len >= fwLen => cnt = allocated /\ cur_len = fwLen
<1>1. PICK m \in Seq(Nat) : /\ Len(m) = allocated + 1 /\ Walk(m)
                            /\ m[allocated + 1] = fwLen
                            /\ cnt <= allocated /\ m[cnt + 1] = cur_len
  BY DEF Walked
<1>2. cnt \in Nat /\ allocated \in Nat /\ cur_len \in Nat /\ fwLen \in Nat
  BY DEF FormatTypeOK
<1>3. cnt < allocated => m[cnt + 1] < fwLen
  <2>1. cnt < allocated => cnt + 1 \in 1..(Len(m) - 1)
    BY <1>1, <1>2
  <2> QED BY <2>1, <1>1 DEF Walk
<1> QED BY <1>1, <1>2, <1>3

LEMMA FormatInitIInv == FormatInit => FormatIInv
<1> SUFFICES ASSUME FormatInit PROVE FormatIInv
  OBVIOUS
<1> USE DEF FormatInit
<1>1. FormatTypeOK
  BY DEF FormatTypeOK
<1> QED
  BY <1>1 DEF FormatIInv, Counted, Walked, ReadAsDevice, WalkAsDevice

LEMMA InitFormatIInv ==
  ASSUME FormatIInv, InitFormat
  PROVE  FormatIInv'
<1>1. FormatTypeOK /\ Counted /\ pc = "init" /\ Copyleft = 0
      /\ UNCHANGED <<Copyleft, table, beyond, cur_len, cnt, allocated, gH264fmt,
                     success, committed>>
      /\ cur_len = 0 /\ cnt = 0
  BY DEF FormatIInv, InitFormat, Counted, Reading
<1>2. CASE pc' = "length" /\ UNCHANGED <<fwLen, fwData, healthy>>
  <2>1. FormatTypeOK'
    BY <1>1, <1>2 DEF FormatTypeOK
  <2>2. Counted'
    BY <1>1, <1>2 DEF Counted
  <2> QED
    BY <2>1, <2>2, <1>1, <1>2 DEF FormatIInv, Walked, ReadAsDevice, WalkAsDevice
<1>3. CASE /\ pc' = "count" /\ healthy' = FALSE
           /\ fwLen' = Len(Default_fwData) /\ fwData' = Default_fwData
  <2>1. Default_fwData \in Seq(Byte) /\ Len(Default_fwData) = 13
    BY DEF Default_fwData, Byte
  <2>2. FormatTypeOK'
    <3>1. /\ fwData' \in Seq(Byte) /\ fwLen' = Len(fwData')
          /\ Copyleft' \in 0..fwLen' /\ healthy' \in BOOLEAN
      <4>1. healthy' \in BOOLEAN
        BY <1>3, Zenon
      <4>2. fwLen' = 13 /\ fwData' \in Seq(Byte) /\ Len(fwData') = 13
        BY <1>3, <2>1, Zenon
      <4>3. Copyleft' = 0
        BY <1>1
      <4> QED BY <4>1, <4>2, <4>3
    <3> QED BY <1>1, <1>3, <3>1 DEF FormatTypeOK
  <2>3. Counted'
    BY <1>1, <1>3 DEF Counted
  <2>4. Walk(<<0>>)'
    BY DEF Walk
  <2>5. Walked'
    <3>1. /\ <<0>> \in Seq(Nat) /\ Len(<<0>>) = cnt' + 1
          /\ <<0>>[cnt' + 1] = cur_len'
      BY <1>1, WalkBegins
    <3> QED BY <1>3, <2>4, <3>1 DEF Walked
  <2> QED
    BY <2>2, <2>3, <2>5, <1>3 DEF FormatIInv, ReadAsDevice, WalkAsDevice
<1> QED BY <1>2, <1>3 DEF InitFormat

LEMMA GetFormatLengthIInv ==
  ASSUME FormatIInv, GetFormatLength
  PROVE  FormatIInv'
<1>1. /\ FormatTypeOK /\ Counted /\ pc = "length" /\ pc' = "data"
      /\ UNCHANGED <<table, beyond, cur_len, cnt, allocated, gH264fmt,
                     success, committed>>
      /\ Copyleft' = fwLen' /\ fwData' = Zeros(fwLen')
      /\ healthy' = (fwLen' = Len(table.bytes))
  BY DEF FormatIInv, GetFormatLength, Reading
<1>2. fwLen' \in Nat
  <2>1. Len(table.bytes) \in Nat
    BY <1>1, TableFacts DEF FormatTypeOK
  <2> QED BY <2>1, LengthsAssumption DEF GetFormatLength, Short
<1>3. /\ \A n \in Nat : Zeros(n) \in Seq(Byte) /\ Len(Zeros(n)) = n
  BY DEF Zeros, Byte
<1>4. FormatTypeOK'
  <2>1. healthy' \in BOOLEAN
    BY <1>1, Zenon
  <2> QED BY <2>1, <1>1, <1>2, <1>3 DEF FormatTypeOK
<1>5. Counted'
  BY <1>1 DEF Counted
<1>6. ReadAsDevice'
  <2>1. fwLen' - Copyleft' = 0
    <3>1. Copyleft' = fwLen'
      BY <1>1
    <3>2. \A n \in Nat : n - n = 0
      OBVIOUS
    <3> QED BY <3>1, <3>2, <1>2, Zenon
  <2>2. healthy' => fwLen' = Len(table'.bytes)
    BY <1>1
  <2> QED BY <2>1, <2>2, <1>1 DEF ReadAsDevice
<1> QED BY <1>1, <1>4, <1>5, <1>6 DEF FormatIInv, Walked, WalkAsDevice

(* A block more: what is read is the device's, as far as it is read.        *)
LEMMA GetBlockIInv ==
  ASSUME FormatIInv, GetBlock
  PROVE  FormatIInv'
<1> DEFINE from == fwLen - Copyleft
           byte(i) == IF i \in from + 1..from + Block(Copyleft)
                      THEN IF i <= Len(table.bytes) THEN table.bytes[i] ELSE 0
                      ELSE fwData[i]
<1>1. /\ FormatTypeOK /\ Counted /\ pc = "data" /\ Copyleft > 0
      /\ UNCHANGED <<table, beyond, cur_len, cnt, allocated, gH264fmt,
                     success, committed, pc, fwLen, healthy>>
      /\ fwData' = [i \in 1..fwLen |-> byte(i)]
      /\ Copyleft' = IF Copyleft >= 11 THEN Copyleft - 11 ELSE 0
  BY DEF FormatIInv, GetBlock, Reading, BlockLen
<1>2. /\ fwLen \in Nat /\ Copyleft \in Nat /\ Copyleft <= fwLen
      /\ table.bytes \in Seq(Byte) /\ fwData \in Seq(Byte) /\ fwLen = Len(fwData)
      /\ Block(Copyleft) = IF Copyleft >= 11 THEN 11 ELSE Copyleft
  BY <1>1, TableFacts DEF FormatTypeOK, Block, BlockLen
<1>3. ASSUME NEW i \in 1..fwLen PROVE byte(i) \in Byte
  BY <1>2 DEF Byte
<1>4. fwData' \in Seq(Byte) /\ Len(fwData') = fwLen
  BY <1>1, <1>2, <1>3
<1>5. FormatTypeOK'
  <2>1. Copyleft' \in 0..fwLen
    BY <1>1, <1>2
  <2> QED BY <2>1, <1>1, <1>4 DEF FormatTypeOK
<1>6. Counted'
  BY <1>1 DEF Counted
<1>7. ReadAsDevice'
  <2>1. ASSUME healthy, NEW i \in 1..(fwLen - Copyleft')
        PROVE  fwData'[i] = table.bytes[i]
    <3>1. /\ fwLen = Len(table.bytes)
          /\ \A j \in 1..from : fwData[j] = table.bytes[j]
      BY <2>1, <1>1 DEF FormatIInv, ReadAsDevice
    <3>2. i \in 1..fwLen /\ (i \in 1..from \/ i \in from + 1..from + Block(Copyleft))
      BY <1>1, <1>2
    <3>3. fwData'[i] = byte(i)
      BY <1>1, <3>2
    <3> QED BY <3>1, <3>2, <3>3, <1>2
  <2>2. healthy => fwLen = Len(table.bytes)
    BY <1>1 DEF FormatIInv, ReadAsDevice
  <2> QED BY <2>1, <2>2, <1>1 DEF ReadAsDevice
<1> QED BY <1>1, <1>5, <1>6, <1>7 DEF FormatIInv, Walked, WalkAsDevice

LEMMA DataEndsIInv ==
  ASSUME FormatIInv, DataEnds
  PROVE  FormatIInv'
<1>1. /\ FormatTypeOK /\ Counted /\ pc = "data" /\ pc' = "count"
      /\ UNCHANGED <<table, beyond, cur_len, cnt, allocated, gH264fmt,
                     success, committed, fwLen, fwData, Copyleft>>
      /\ healthy' = (healthy /\ Copyleft = 0)
      /\ cur_len = 0 /\ cnt = 0
  BY DEF FormatIInv, DataEnds, Reading, Counted
<1>2. FormatTypeOK'
  <2>1. healthy' \in BOOLEAN
    BY <1>1, Zenon
  <2> QED BY <2>1, <1>1 DEF FormatTypeOK
<1>3. Counted'
  BY <1>1 DEF Counted
<1>4. Walked'
  <2>1. Walk(<<0>>)'
    BY DEF Walk
  <2>2. /\ <<0>> \in Seq(Nat) /\ Len(<<0>>) = cnt' + 1
        /\ <<0>>[cnt' + 1] = cur_len'
    BY <1>1, WalkBegins
  <2> QED BY <1>1, <2>1, <2>2 DEF Walked
<1>5. /\ table \in Tables /\ table.bytes \in Seq(Byte) /\ fwData \in Seq(Byte)
      /\ fwLen = Len(fwData)
  BY <1>1, TableFacts DEF FormatTypeOK
<1>6. ReadAsDevice'
  <2>1. ASSUME healthy, Copyleft = 0
        PROVE  fwLen = Len(table.bytes) /\ fwData = table.bytes
    <3>1. /\ fwLen = Len(table.bytes)
          /\ \A i \in 1..fwLen : fwData[i] = table.bytes[i]
      BY <2>1, <1>1, <1>5 DEF FormatIInv, ReadAsDevice
    <3> QED BY <3>1, <1>5, SameBytes
  <2> QED BY <2>1, <1>1 DEF ReadAsDevice
<1>7. WalkAsDevice'
  BY <1>1, <1>5, TableFacts DEF WalkAsDevice
<1> QED BY <1>1, <1>2, <1>3, <1>4, <1>6, <1>7 DEF FormatIInv

(* One format counted: the walk is a step longer, and where the device's    *)
(* next format begins.                                                      *)
LEMMA CountFormatIInv ==
  ASSUME FormatIInv, CountFormat
  PROVE  FormatIInv'
<1> DEFINE d == Data(cur_len + 4)
<1>1. /\ FormatTypeOK /\ Counted /\ pc = "count" /\ pc' = "count" /\ cur_len < fwLen
      /\ cur_len' = cur_len + Size(d) /\ cnt' = cnt + 1
      /\ UNCHANGED <<table, beyond, healthy, fwLen, fwData, Copyleft, committed,
                     allocated, gH264fmt, success>>
  BY DEF FormatIInv, CountFormat, Walking
<1>2. /\ cur_len \in Nat /\ cnt \in Nat /\ fwLen \in Nat /\ table \in Tables
      /\ cur_len' \in Nat
  <2>1. cur_len \in Nat /\ cnt \in Nat /\ fwLen \in Nat /\ table \in Tables
    BY <1>1 DEF FormatTypeOK
  <2>2. d \in Nat
    BY <1>1, <2>1, DataTyped DEF Byte
  <2> QED BY <1>1, <2>1, <2>2, SizeTyped
<1>3. FormatTypeOK'
  BY <1>1, <1>2 DEF FormatTypeOK
<1>4. Counted'
  BY <1>1 DEF Counted
<1>5. Walked'
  <2>1. PICK m \in Seq(Nat) : Len(m) = cnt + 1 /\ Walk(m) /\ m[cnt + 1] = cur_len
    BY <1>1 DEF FormatIInv, Walked
  <2>2. PICK w \in Seq(Nat) : /\ Len(w) = cnt' + 1 /\ w[cnt' + 1] = cur_len'
                             /\ \A k \in 1..Len(m) : w[k] = m[k]
    <3>1. /\ Append(m, cur_len') \in Seq(Nat)
          /\ Len(Append(m, cur_len')) = cnt' + 1
          /\ Append(m, cur_len')[cnt' + 1] = cur_len'
          /\ \A k \in 1..Len(m) : Append(m, cur_len')[k] = m[k]
      BY <2>1, <1>1, <1>2
    <3> QED BY <3>1
  <2>3. ASSUME NEW k \in 1..(Len(w) - 1)
        PROVE  w[k] < fwLen /\ w[k + 1] = w[k] + Size(Data(w[k] + 4))
    <3>1. CASE k = cnt + 1
      BY <3>1, <2>1, <2>2, <1>1, <1>2
    <3>2. CASE k # cnt + 1
      <4>1. k \in 1..(Len(m) - 1) /\ k \in 1..Len(m) /\ k + 1 \in 1..Len(m)
        BY <3>2, <2>1, <2>2, <1>1, <1>2
      <4> QED BY <4>1, <2>1, <2>2 DEF Walk
    <3> QED BY <3>1, <3>2
  <2>4. w[1] = 0
    <3>1. 1 \in 1..Len(m)
      BY <2>1, <1>2
    <3> QED BY <3>1, <2>1, <2>2 DEF Walk
  <2>5. Walk(w)'
    <3>1. \A k \in 1..(Len(w) - 1) :
            /\ w[k] < fwLen'
            /\ w[k + 1] = w[k] + Size(Data(w[k] + 4)')
      BY <2>3, <1>1 DEF Data
    <3> QED BY <3>1, <2>4 DEF Walk
  <2>6. \E v \in Seq(Nat) : /\ Len(v) = cnt' + 1 /\ Walk(v)'
                            /\ v[cnt' + 1] = cur_len'
    BY <2>2, <2>5
  <2> QED BY <1>1, <2>6 DEF Walked
<1>6. ReadAsDevice'
  BY <1>1 DEF FormatIInv, ReadAsDevice
<1>7. WalkAsDevice'
  <2>1. ASSUME healthy
        PROVE  cnt' <= Len(table.formats) /\ cur_len' = table.at[cnt' + 1]
    <3>1. /\ fwLen = Len(table.bytes) /\ fwData = table.bytes
          /\ cnt <= Len(table.formats) /\ cur_len = table.at[cnt + 1]
      BY <2>1, <1>1 DEF FormatIInv, ReadAsDevice, WalkAsDevice
    <3>2. cnt < Len(table.formats)
      BY <3>1, <1>1, <1>2, TableFacts
    <3>3. cnt + 1 \in DOMAIN table.formats
      BY <3>2, <1>2, TableFacts
    <3>4. table.at[cnt + 2] = cur_len + Size(d)
      BY <3>1, <3>3, <1>1, <1>2, FormatRead
    <3> QED BY <3>2, <3>4, <1>1, <1>2, TableFacts
  <2> QED BY <2>1, <1>1 DEF WalkAsDevice
<1> QED BY <1>1, <1>3, <1>4, <1>5, <1>6, <1>7 DEF FormatIInv

LEMMA AllocateIInv ==
  ASSUME FormatIInv, Allocate
  PROVE  FormatIInv'
<1>1. /\ FormatTypeOK /\ Counted /\ pc = "count" /\ pc' = "parse" /\ cur_len >= fwLen
      /\ allocated' = (IF cur_len = fwLen THEN cnt ELSE 0)
      /\ cur_len' = 0 /\ cnt' = 0
      /\ UNCHANGED <<table, beyond, healthy, fwLen, fwData, Copyleft, committed,
                     gH264fmt, success>>
      /\ gH264fmt = << >>
  BY DEF FormatIInv, Allocate, Walking, Counted
<1>2. /\ cur_len \in Nat /\ cnt \in Nat /\ fwLen \in Nat /\ table \in Tables
  BY <1>1 DEF FormatTypeOK
<1>3. FormatTypeOK'
  BY <1>1, <1>2 DEF FormatTypeOK
<1>4. Counted'
  BY <1>1, <1>2 DEF Counted
<1>5. Walked'
  <2>1. ASSUME allocated' > 0
        PROVE  \E m \in Seq(Nat) : /\ Len(m) = allocated' + 1 /\ Walk(m)'
                                   /\ m[allocated' + 1] = fwLen'
                                   /\ cnt' <= allocated' /\ m[cnt' + 1] = cur_len'
    <3>1. PICK m \in Seq(Nat) : Len(m) = cnt + 1 /\ Walk(m) /\ m[cnt + 1] = cur_len
      BY <1>1 DEF FormatIInv, Walked
    <3>2. allocated' = cnt /\ cur_len = fwLen
      BY <2>1, <1>1, <1>2
    <3>3. Walk(m)'
      BY <3>1, <1>1 DEF Walk, Data
    <3>4. m[cnt' + 1] = cur_len' /\ cnt' <= allocated'
      BY <3>1, <3>2, <1>1, <1>2 DEF Walk
    <3> QED BY <3>1, <3>2, <3>3, <3>4, <1>1
  <2> QED BY <2>1, <1>1 DEF Walked
<1>6. ReadAsDevice'
  BY <1>1 DEF FormatIInv, ReadAsDevice
<1>7. WalkAsDevice'
  <2>1. ASSUME healthy
        PROVE  allocated' = Len(table.formats)
    <3>1. /\ fwLen = Len(table.bytes) /\ fwData = table.bytes
          /\ cnt <= Len(table.formats) /\ cur_len = table.at[cnt + 1]
      BY <2>1, <1>1 DEF FormatIInv, ReadAsDevice, WalkAsDevice
    <3>2. CASE cnt < Len(table.formats)
      <4>1. cnt + 1 \in 1..Len(table.formats) /\ cnt + 2 \in 1..(Len(table.formats) + 1)
        BY <3>2, <1>2, TableFacts
      <4>2. /\ table.at[(cnt + 1) + 1]
                = table.at[cnt + 1] + Size(Len(table.formats[cnt + 1].FrPay))
            /\ table.formats[cnt + 1] \in Format
            /\ table.at[cnt + 2] <= fwLen
        BY <4>1, <3>1, <1>2, TableFacts
      <4>3. Len(table.formats[cnt + 1].FrPay) \in Nat
        BY <4>2 DEF Format
      <4>4. /\ Size(Len(table.formats[cnt + 1].FrPay)) \in Nat
            /\ Size(Len(table.formats[cnt + 1].FrPay)) > 0
        BY <4>3, SizeTyped
      <4>5. table.at[(cnt + 1) + 1] <= fwLen /\ (cnt + 1) + 1 = cnt + 2
        BY <4>2, <1>2
      <4>6. FALSE
        BY <4>2, <4>4, <4>5, <3>1, <1>1, <1>2
      <4> QED BY <4>6
    <3>3. CASE cnt = Len(table.formats)
      BY <3>1, <3>3, <1>1, <1>2, TableFacts
    <3> QED BY <3>1, <3>2, <3>3, <1>2, TableFacts
  <2> QED BY <2>1, <1>1, <1>2, TableFacts DEF WalkAsDevice
<1> QED BY <1>1, <1>3, <1>4, <1>5, <1>6, <1>7 DEF FormatIInv

(* One format parsed: there is room for it, and the device has it so.       *)
LEMMA ParseFormatIInv ==
  ASSUME FormatIInv, ParseFormat
  PROVE  FormatIInv'
<1> DEFINE d == Data(cur_len + 4)
<1>1. /\ FormatTypeOK /\ Counted /\ pc = "parse" /\ pc' = "parse"
      /\ cur_len < fwLen /\ allocated > 0
      /\ gH264fmt' = Append(gH264fmt, FormatAt(cur_len))
      /\ cur_len' = cur_len + Size(d) /\ cnt' = cnt + 1
      /\ UNCHANGED <<table, beyond, healthy, fwLen, fwData, Copyleft, committed,
                     allocated, success>>
  BY DEF FormatIInv, ParseFormat, Walking
<1>2. /\ cur_len \in Nat /\ cnt \in Nat /\ fwLen \in Nat /\ table \in Tables
      /\ allocated \in Nat /\ cur_len' \in Nat /\ gH264fmt \in Seq(Format)
  <2>1. /\ cur_len \in Nat /\ cnt \in Nat /\ fwLen \in Nat /\ table \in Tables
        /\ allocated \in Nat /\ gH264fmt \in Seq(Format)
    BY <1>1 DEF FormatTypeOK
  <2>2. d \in Nat
    BY <1>1, <2>1, DataTyped DEF Byte
  <2>3. Size(d) \in Nat
    BY <2>2, SizeTyped
  <2>4. cur_len' = cur_len + Size(d)
    BY <1>1
  <2>5. cur_len' \in Nat
    BY <2>1, <2>3, <2>4
  <2> QED BY <2>1, <2>5
<1>3. cnt < allocated
  BY <1>1, PassesMeet DEF FormatIInv
<1>4. /\ gH264fmt' \in Seq(Format) /\ Len(gH264fmt') = cnt' /\ Len(gH264fmt) = cnt
      /\ DOMAIN gH264fmt' = 1..cnt' /\ DOMAIN gH264fmt = 1..cnt
      /\ gH264fmt'[cnt'] = FormatAt(cur_len)
      /\ \A k \in 1..cnt : gH264fmt'[k] = gH264fmt[k]
  <2>1. FormatAt(cur_len) \in Format /\ Len(gH264fmt) = cnt
    BY <1>1, <1>2, FormatAtTyped DEF Counted
  <2> QED BY <2>1, <1>1, <1>2
<1>5. FormatTypeOK'
  BY <1>1, <1>2, <1>3, <1>4 DEF FormatTypeOK
<1>6. Counted'
  BY <1>1, <1>4 DEF Counted
<1>7. Walked'
  <2>1. PICK m \in Seq(Nat) : /\ Len(m) = allocated + 1 /\ Walk(m)
                              /\ m[allocated + 1] = fwLen
                              /\ cnt <= allocated /\ m[cnt + 1] = cur_len
    BY <1>1 DEF FormatIInv, Walked
  <2>2. Walk(m)'
    BY <2>1, <1>1 DEF Walk, Data
  <2>3. m[cnt' + 1] = cur_len'
    <3>1. cnt + 1 \in 1..(Len(m) - 1)
      BY <2>1, <1>2, <1>3
    <3>2. m[(cnt + 1) + 1] = m[cnt + 1] + Size(Data(m[cnt + 1] + 4))
      BY <2>1, <3>1 DEF Walk
    <3> QED BY <3>2, <2>1, <1>1
  <2>4. cnt' <= allocated'
    BY <1>1, <1>2, <1>3
  <2> QED BY <2>1, <2>2, <2>3, <2>4, <1>1 DEF Walked
<1>8. ReadAsDevice'
  BY <1>1 DEF FormatIInv, ReadAsDevice
<1>9. WalkAsDevice'
  <2>1. ASSUME healthy
        PROVE  /\ cnt' <= Len(table.formats) /\ cur_len' = table.at[cnt' + 1]
               /\ allocated = Len(table.formats)
               /\ \A k \in 1..cnt' : gH264fmt'[k] = table.formats[k]
    <3>1. /\ fwData = table.bytes /\ cur_len = table.at[cnt + 1]
          /\ allocated = Len(table.formats)
          /\ \A k \in 1..cnt : gH264fmt[k] = table.formats[k]
      BY <2>1, <1>1, <1>4 DEF FormatIInv, ReadAsDevice, WalkAsDevice
    <3>2. cnt + 1 \in DOMAIN table.formats
      BY <3>1, <1>2, <1>3, TableFacts
    <3>3. /\ FormatAt(cur_len) = table.formats[cnt + 1]
          /\ table.at[(cnt + 1) + 1] = cur_len + Size(d)
      BY <3>1, <3>2, <1>1, FormatRead
    <3>4. \A k \in 1..cnt' : k \in 1..cnt \/ k = cnt'
      BY <1>1, <1>2
    <3> QED BY <3>1, <3>3, <3>4, <1>1, <1>2, <1>3, <1>4
  <2> QED BY <2>1, <1>1, <1>4 DEF WalkAsDevice
<1> QED BY <1>1, <1>5, <1>6, <1>7, <1>8, <1>9 DEF FormatIInv

LEMMA ParseNowhereIInv ==
  ASSUME FormatIInv, ParseNowhere
  PROVE  FormatIInv'
<1>1. /\ FormatTypeOK /\ pc' = "crashed"
      /\ UNCHANGED <<table, beyond, healthy, fwLen, fwData, Copyleft, committed,
                     cur_len, cnt, allocated, gH264fmt, success>>
  BY DEF FormatIInv, ParseNowhere, Walking
<1>2. FormatTypeOK'
  BY <1>1 DEF FormatTypeOK
<1> QED
  BY <1>1, <1>2 DEF FormatIInv, Counted, Walked, ReadAsDevice, WalkAsDevice

LEMMA ParseEndsIInv ==
  ASSUME FormatIInv, ParseEnds
  PROVE  FormatIInv'
<1>1. /\ FormatTypeOK /\ Counted /\ pc = "parse" /\ pc' = "set"
      /\ cur_len >= fwLen
      /\ success' = (IF cur_len = fwLen THEN 1 ELSE 0)
      /\ fwLen' = 0 /\ fwData' = << >> /\ Copyleft' = 0
      /\ cur_len' = 0 /\ cnt' = 0
      /\ UNCHANGED <<table, beyond, healthy, allocated, gH264fmt, committed>>
  BY DEF FormatIInv, ParseEnds
<1>2. /\ cur_len \in Nat /\ fwLen \in Nat /\ allocated \in Nat
  BY <1>1 DEF FormatTypeOK
<1>3. Len(gH264fmt) = cnt /\ cnt = allocated /\ cur_len = fwLen
  <2>1. Len(gH264fmt) = cnt
    BY <1>1 DEF Counted
  <2>2. CASE allocated > 0
    BY <2>1, <2>2, <1>1, PassesMeet DEF FormatIInv
  <2>3. CASE allocated = 0
    BY <2>1, <2>3, <1>1, <1>2 DEF Counted
  <2> QED BY <2>2, <2>3, <1>2
<1>4. FormatTypeOK'
  BY <1>1 DEF FormatTypeOK
<1>5. Counted' /\ Walked' /\ ReadAsDevice'
  BY <1>1 DEF Counted, Walked, ReadAsDevice
<1>6. WalkAsDevice'
  BY <1>1, <1>3 DEF FormatIInv, WalkAsDevice
<1> QED BY <1>1, <1>3, <1>4, <1>5, <1>6 DEF FormatIInv

(* The request for a format; the device may refuse it, or there is nothing  *)
(* to ask for.                                                              *)
LEMMA SetNoneIInv ==
  ASSUME FormatIInv, SetNothing \/ SetDivides \/ SetRefused
  PROVE  FormatIInv'
<1>1. /\ FormatTypeOK /\ pc = "set"
      /\ UNCHANGED <<table, beyond, fwLen, fwData, Copyleft, cur_len, cnt,
                     allocated, gH264fmt, success, committed>>
      /\ \/ pc' = "done" /\ healthy' = FALSE
         \/ pc' = "done" /\ UNCHANGED healthy /\ allocated = 0
         \/ pc' = "crashed" /\ UNCHANGED healthy
  BY DEF FormatIInv, SetNothing, SetDivides, SetRefused, Setting
<1>2. FormatTypeOK'
  <2>1. healthy' \in BOOLEAN
    BY <1>1, Zenon DEF FormatTypeOK
  <2> QED BY <1>1, <2>1 DEF FormatTypeOK
<1>3. Counted' /\ Walked' /\ ReadAsDevice'
  BY <1>1 DEF Counted, Walked, ReadAsDevice
<1>4. WalkAsDevice'
  <2>1. CASE pc' = "done" /\ healthy' = FALSE
    BY <2>1 DEF WalkAsDevice
  <2>2. CASE pc' = "crashed"
    BY <2>2 DEF WalkAsDevice
  <2>3. CASE pc' = "done" /\ UNCHANGED healthy /\ allocated = 0
    <3>1. healthy => Len(table.formats) = 0
      BY <2>3, <1>1 DEF FormatIInv, WalkAsDevice
    <3>2. table.formats \in Seq(Format)
      BY <1>1, TableFacts DEF FormatTypeOK
    <3>3. healthy => CommitsTable'
      BY <3>1, <3>2, <1>1 DEF CommitsTable
    <3> QED BY <3>3, <2>3, <1>1 DEF FormatIInv, WalkAsDevice
  <2> QED BY <1>1, <2>1, <2>2, <2>3
<1> QED BY <1>1, <1>2, <1>3, <1>4 DEF FormatIInv

LEMMA SetFormatIInv ==
  ASSUME FormatIInv, SetFormat
  PROVE  FormatIInv'
<1> DEFINE f == gH264fmt[1]
           c == Commit(Rate, f.FrameSize)
<1>1. /\ FormatTypeOK /\ pc = "set" /\ pc' = "done" /\ allocated > 0
      /\ committed' = c
      /\ UNCHANGED <<table, beyond, fwLen, fwData, Copyleft, cur_len, cnt,
                     allocated, gH264fmt, success, healthy>>
      /\ Len(gH264fmt) = allocated /\ allocated \in Nat
      /\ gH264fmt \in Seq(Format)
  BY DEF FormatIInv, SetFormat, Setting, FormatTypeOK
<1>2. /\ 1 \in DOMAIN gH264fmt /\ f \in Format
  BY <1>1
<1>3. /\ f.FrameSize \in Word /\ f.FrPay \in Seq(Word)
  BY <1>2 DEF Format
<1>4. Rate \in Word
  <2>1. CASE Len(f.FrPay) > 1
    <3>1. 2 \in 1..Len(f.FrPay)
      BY <2>1, <1>3
    <3> QED BY <2>1, <3>1, <1>3 DEF Rate, FrameRateId
  <2>2. CASE ~(Len(f.FrPay) > 1)
    <3>1. beyond \in Byte
      BY <1>1 DEF FormatTypeOK, Byte
    <3> QED BY <2>2, <3>1 DEF Rate, FrameRateId, Word
  <2> QED BY <2>1, <2>2
<1>5. c \in [1..10 -> Byte]
  <2>1. \A k \in 1..4 : Rate[k] \in Byte /\ f.FrameSize[k] \in Byte
    BY <1>3, <1>4 DEF Word
  <2>2. 1 \in Byte /\ 2 \in Byte
    BY DEF Byte
  <2> QED BY <2>1, <2>2 DEF Commit
<1>6. FormatTypeOK'
  BY <1>1, <1>5 DEF FormatTypeOK
<1>7. Counted' /\ Walked' /\ ReadAsDevice'
  BY <1>1 DEF Counted, Walked, ReadAsDevice
<1>8. healthy => CommitsTable'
  <2>1. SUFFICES ASSUME healthy PROVE CommitsTable'
    OBVIOUS
  <2>2. f = table.formats[1]
    BY <2>1, <1>1, <1>2 DEF FormatIInv, WalkAsDevice
  <2>3. Len(f.FrPay) > 1 => Rate = f.FrPay[2]
    BY DEF Rate, FrameRateId
  <2>4. /\ c[3] = 1 /\ c[4] = Rate[1] /\ c[5] = Rate[2] /\ c[9] = Rate[3]
        /\ c[10] = Rate[4] /\ c[6] = f.FrameSize[2] /\ c[7] = f.FrameSize[3]
        /\ c[8] = f.FrameSize[4]
    BY DEF Commit
  <2> HIDE DEF c
  <2>5. \A k \in 1..4 : c[<<4, 5, 9, 10>>[k]] = Rate[k]
    BY <2>4
  <2>6. \A k \in 2..4 : c[k + 4] = f.FrameSize[k]
    BY <2>4
  <2> QED BY <2>2, <2>3, <2>4, <2>5, <2>6, <1>1 DEF CommitsTable, FrameRateId
<1>9. WalkAsDevice'
  BY <1>1, <1>8 DEF FormatIInv, WalkAsDevice
<1> QED BY <1>1, <1>6, <1>7, <1>9 DEF FormatIInv

LEMMA FormatNextIInv ==
  ASSUME FormatIInv, FormatNext
  PROVE  FormatIInv'
  BY InitFormatIInv, GetFormatLengthIInv, GetBlockIInv, DataEndsIInv,
     CountFormatIInv, AllocateIInv, ParseFormatIInv, ParseNowhereIInv,
     ParseEndsIInv, SetNoneIInv, SetFormatIInv DEF FormatNext, GetFormat, Set
-----------------------------------------------------------------------------
(* The other controls.                                                      *)

ControlsIInv == ControlsTypeOK /\ RegistersAsAsked

LEMMA InfoTyped ==
  ASSUME NEW c \in Controls
  PROVE  /\ Info[c].minimum \in Int /\ Info[c].maximum \in Int
         /\ Info[c].step \in Nat /\ Info[c].step > 0
         /\ Info[c].default_value \in Int
         /\ Info[c].minimum <= Info[c].default_value
         /\ Info[c].default_value <= Info[c].maximum
<1>1. Info[c] \in ControlInfo
  BY ControlsAssumption
<1> QED BY <1>1, ControlsAssumption DEF ControlInfo

LEMMA ByteSame == \A v \in Nat : v <= 255 => v % 256 = v
  OBVIOUS

(* A bit rate, in units, is less than one below.                            *)
LEMMA BitRateFits ==
  ASSUME NEW r \in Nat, NEW n, n = BitRate_CtrlNum(r)
  PROVE  /\ n \in Nat
         /\ r * 1000 - n * BitRateUnit >= 0
         /\ r * 1000 - n * BitRateUnit < BitRateUnit
<1>1. n = (r * 1000) \div 98304
  BY SMT DEF BitRate_CtrlNum, BitRateUnit
<1>2. /\ n \in Nat /\ r * 1000 - n * 98304 >= 0 /\ r * 1000 - n * 98304 < 98304
  BY <1>1, SMT
<1> QED BY <1>2, SMT DEF BitRateUnit

(* What a register is to have after it is set to the given bytes.           *)
Tells(r, bytes, number) ==
  /\ r = "QP" => bytes[1] = number
  /\ r = "BitRate" =>
       LET d == number * 1000 - (bytes[1] * 256 + bytes[2]) * BitRateUnit
       IN  d >= 0 /\ d < BitRateUnit

LEMMA SetRegisterIInv ==
  ASSUME ControlsIInv, NEW r \in Registers, NEW bytes \in Nat \X Nat,
         bytes[1] <= 255, bytes[2] <= 255, NEW number \in Nat,
         Tells(r, bytes, number), SetRegister(r, bytes, number)
  PROVE  ControlsIInv'
<1>1. UNCHANGED <<extension, value>> /\ result' \in Int /\ selected' \in Registers \cup {"none"}
  BY DEF SetRegister, ControlsIInv, ControlsTypeOK, Fails, Switch
<1>2. CASE UNCHANGED <<register, asked>>
  BY <1>1, <1>2 DEF ControlsIInv, ControlsTypeOK, RegistersAsAsked
<1>3. CASE /\ register' = [register EXCEPT ![r] = bytes]
           /\ asked' = [asked EXCEPT ![r] = number]
  <2>1. /\ register \in [Registers -> Nat \X Nat]
        /\ asked \in [Registers -> {Unasked} \cup Nat]
    BY DEF ControlsIInv, ControlsTypeOK
  <2>2. /\ register'[r] = bytes /\ asked'[r] = number
        /\ \A o \in Registers : o # r => register'[o] = register[o] /\ asked'[o] = asked[o]
        /\ register' \in [Registers -> Nat \X Nat]
        /\ asked' \in [Registers -> {Unasked} \cup Nat]
    BY <1>3, <2>1
  <2>3. ControlsTypeOK'
    BY <1>1, <2>2 DEF ControlsIInv, ControlsTypeOK
  <2>4. "QP" \in Registers /\ "BitRate" \in Registers /\ (r = "QP" \/ r = "BitRate")
    BY DEF Registers
  <2>5. CASE r = "QP"
    BY <2>2, <2>4, <2>5, <2>3 DEF ControlsIInv, RegistersAsAsked, Tells
  <2>6. CASE r = "BitRate"
    BY <2>2, <2>4, <2>6, <2>3 DEF ControlsIInv, RegistersAsAsked, Tells
  <2> QED BY <2>4, <2>5, <2>6
<1> QED BY <1>2, <1>3 DEF SetRegister, Switch

LEMMA GetRegisterIInv ==
  ASSUME ControlsIInv, NEW r \in Registers, NEW number \in Int,
         GetRegister(r, number)
  PROVE  ControlsIInv'
<1>1. /\ UNCHANGED <<extension, register, value, asked>> /\ result' \in Int
      /\ selected' \in Registers \cup {"none"}
  BY DEF GetRegister, ControlsIInv, ControlsTypeOK, Fails, Switch
<1> QED BY <1>1 DEF ControlsIInv, ControlsTypeOK, RegistersAsAsked

LEMMA RegistersTyped ==
  ASSUME ControlsIInv, NEW r \in Registers
  PROVE  register[r][1] \in Nat /\ register[r][2] \in Nat
  BY DEF ControlsIInv, ControlsTypeOK

LEMMA SetBitRateIInv ==
  ASSUME ControlsIInv, NEW b \in Nat, BitRate_CtrlNum(b) <= 65535,
         XU_H264_Set_BitRate(b)
  PROVE  ControlsIInv'
<1>1. PICK n : n = BitRate_CtrlNum(b)
  OBVIOUS
<1>2. n \in Nat /\ n <= 65535
      /\ b * 1000 - n * BitRateUnit >= 0 /\ b * 1000 - n * BitRateUnit < BitRateUnit
  BY <1>1, BitRateFits
<1>3. PICK q : q = n \div 256
  OBVIOUS
<1>4. PICK r : r = n % 256
  OBVIOUS
<1>5. q \in Nat /\ q <= 255 /\ r \in Nat /\ r <= 255 /\ q * 256 + r = n /\ q % 256 = q
  <2>1. /\ q \in Nat /\ q <= 255 /\ r \in Nat /\ r <= 255
        /\ q * 256 + r = n
    BY <1>2, <1>3, <1>4
  <2> QED BY <2>1, ByteSame
<1>6. SetRegister("BitRate", <<q, r>>, b)
  BY <1>1, <1>3, <1>4, <1>5 DEF XU_H264_Set_BitRate
<1>7. Tells("BitRate", <<q, r>>, b)
  BY <1>2, <1>5 DEF Tells
<1> QED BY <1>5, <1>6, <1>7, SetRegisterIInv DEF Registers

LEMMA XUCallIInv ==
  ASSUME ControlsIInv, XUCall
  PROVE  ControlsIInv'
<1>1. CASE XU_Init_Ctrl
  BY <1>1 DEF XU_Init_Ctrl, ControlsIInv, ControlsTypeOK, RegistersAsAsked, EEXIST
<1>2. CASE XU_Set
  <2>1. CASE UNCHANGED <<register, asked>>
    BY <1>2, <2>1 DEF XU_Set, ControlsIInv, ControlsTypeOK, RegistersAsAsked, Fails
  <2>2. CASE /\ selected # "none" /\ result' = 0 /\ UNCHANGED selected
             /\ \E v \in QPs : /\ register' = [register EXCEPT ![selected] = <<v, 0>>]
                               /\ asked' = [asked EXCEPT ![selected] = Unasked]
    <3>1. PICK v \in QPs : /\ register' = [register EXCEPT ![selected] = <<v, 0>>]
                           /\ asked' = [asked EXCEPT ![selected] = Unasked]
      BY <2>2
    <3>2. /\ v \in Nat /\ v <= 255 /\ selected \in Registers
          /\ UNCHANGED <<extension, value>>
          /\ register \in [Registers -> Nat \X Nat]
          /\ asked \in [Registers -> {Unasked} \cup Nat]
      BY <1>2, <2>2, RegistersAssumption DEF XU_Set, ControlsIInv, ControlsTypeOK
    <3>3. /\ register'[selected] = <<v, 0>> /\ asked'[selected] = Unasked
          /\ \A o \in Registers : o # selected => register'[o] = register[o]
                                                  /\ asked'[o] = asked[o]
          /\ register' \in [Registers -> Nat \X Nat]
          /\ asked' \in [Registers -> {Unasked} \cup Nat]
      BY <3>1, <3>2
    <3>4. ControlsTypeOK'
      BY <2>2, <3>2, <3>3 DEF ControlsIInv, ControlsTypeOK
    <3>5. "QP" \in Registers /\ "BitRate" \in Registers
      BY DEF Registers
    <3>6. RegistersAsAsked'
      BY <3>3, <3>5 DEF ControlsIInv, RegistersAsAsked
    <3> QED BY <3>4, <3>6 DEF ControlsIInv
  <2> QED BY <1>2, <2>1, <2>2 DEF XU_Set
<1>3. CASE XU_Get \/ XU_Ctrl_ReadChipID
  BY <1>3 DEF XU_Get, XU_Ctrl_ReadChipID, xuVars, ControlsIInv, ControlsTypeOK,
             RegistersAsAsked
<1>4. CASE XU_H264_Get_QP
  BY <1>4, RegistersTyped, GetRegisterIInv DEF XU_H264_Get_QP, Selected, Switch,
     Registers
<1>5. CASE XU_H264_Get_BitRate
  <2>1. "BitRate" \in Registers
    BY DEF Registers
  <2>2. (register["BitRate"][1] * 256 + register["BitRate"][2]) * 98304 \in Int
    BY <2>1, RegistersTyped, SMT
  <2>3. GetRegister("BitRate",
          (register["BitRate"][1] * 256 + register["BitRate"][2]) * 98304)
    BY <1>5, SMT DEF XU_H264_Get_BitRate, Selected, Switch, BitRateUnit
  <2> QED BY <2>1, <2>2, <2>3, GetRegisterIInv
<1>6. ASSUME NEW v \in QPs, XU_H264_Set_QP(v)
      PROVE  ControlsIInv'
  <2>1. v \in Nat /\ v <= 255 /\ v % 256 = v
    BY RegistersAssumption, ByteSame
  <2>2. SetRegister("QP", <<v, 0>>, v)
    BY <1>6, <2>1 DEF XU_H264_Set_QP
  <2>3. Tells("QP", <<v, 0>>, v)
    BY DEF Tells
  <2> QED BY <2>1, <2>2, <2>3, SetRegisterIInv DEF Registers
<1>7. ASSUME NEW r \in BitRates, XU_H264_Set_BitRate(r)
      PROVE  ControlsIInv'
  BY <1>7, RegistersAssumption, SetBitRateIInv
<1> QED BY <1>1, <1>2, <1>3, <1>4, <1>5, <1>6, <1>7 DEF XUCall

(* The V4L2 functions: every control stays within its range.                *)
InRange == /\ value \in [Controls -> Int]
           /\ \A c \in Controls : Info[c].minimum <= value[c]
                                  /\ value[c] <= Info[c].maximum

V4L2Done == InRange' /\ result' \in Int

LEMMA UnchangedDone ==
  ASSUME InRange, UNCHANGED value, result' \in Int
  PROVE  V4L2Done
  BY DEF V4L2Done, InRange

LEMMA RequestDone ==
  ASSUME InRange, NEW c \in Controls, NEW v \in Int, NEW ok \in Int,
         Request(c, v, ok)
  PROVE  V4L2Done
<1>1. CASE Refused
  BY <1>1, UnchangedDone DEF Refused, Fails
<1>2. CASE value' = [value EXCEPT ![c] = Clamped(c, v)] /\ result' = ok
  <2>1. /\ Clamped(c, v) \in Int
        /\ Info[c].minimum <= Clamped(c, v) /\ Clamped(c, v) <= Info[c].maximum
    BY InfoTyped DEF Clamped
  <2>2. /\ value' \in [Controls -> Int] /\ value'[c] = Clamped(c, v)
        /\ \A o \in Controls : o # c => value'[o] = value[o]
    BY <1>2, <2>1 DEF InRange
  <2>3. InRange'
    BY <2>1, <2>2 DEF InRange
  <2> QED BY <1>2, <2>3 DEF V4L2Done
<1> QED BY <1>1, <1>2 DEF Request

LEMMA StepDone ==
  ASSUME InRange, NEW c \in Controls, v4l2UpControl(c) \/ v4l2DownControl(c)
  PROVE  V4L2Done
<1>1. /\ Info[c].minimum \in Int /\ Info[c].maximum \in Int /\ Info[c].step \in Nat
      /\ Info[c].step > 0 /\ value[c] \in Int
      /\ Info[c].minimum <= value[c] /\ value[c] <= Info[c].maximum
  BY InfoTyped DEF InRange
<1>2. CASE Refused
  BY <1>2, UnchangedDone DEF Refused, Fails
<1>3. CASE result' \in Uninitialised /\ UNCHANGED value
  BY <1>3, UnchangedDone DEF Uninitialised
<1>4. ASSUME NEW current \in Read(c),
             current + Info[c].step <= Info[c].maximum,
             Request(c, current + Info[c].step, current + Info[c].step)
      PROVE  V4L2Done
  <2>1. current \in Int /\ (current = value[c] \/ current = -1)
    BY <1>1 DEF Read
  <2>2. PICK v : v = current + Info[c].step
    OBVIOUS
  <2>3. v \in Int
    BY <1>1, <1>4, <2>1, <2>2
  <2>4. Request(c, v, v)
    BY <1>4, <2>2
  <2> QED BY <2>3, <2>4, RequestDone
<1>5. ASSUME NEW current \in Read(c),
             current - Info[c].step >= Info[c].minimum,
             Request(c, current - Info[c].step, current - Info[c].step)
      PROVE  V4L2Done
  <2>1. current \in Int /\ (current = value[c] \/ current = -1)
    BY <1>1 DEF Read
  <2>2. PICK v : v = current - Info[c].step
    OBVIOUS
  <2>3. v \in Int
    BY <1>1, <1>5, <2>1, <2>2
  <2>4. Request(c, v, v)
    BY <1>5, <2>2
  <2> QED BY <2>3, <2>4, RequestDone
<1>6. CASE v4l2UpControl(c)
  <2>1. ASSUME NEW current \in Read(c)
        PROVE  /\ current + 1 * Info[c].step = current + Info[c].step
               /\ 1 * (current + 1 * Info[c].step) <= 1 * Info[c].maximum
                    => current + Info[c].step <= Info[c].maximum
    BY <1>1 DEF Read
  <2> QED BY <1>6, <2>1, <1>2, <1>3, <1>4 DEF v4l2UpControl, StepControl, IfControl
<1>7. CASE v4l2DownControl(c)
  <2>1. ASSUME NEW current \in Read(c)
        PROVE  /\ current + (-1) * Info[c].step = current - Info[c].step
               /\ (-1) * (current + (-1) * Info[c].step) <= (-1) * Info[c].minimum
                    => current - Info[c].step >= Info[c].minimum
    BY <1>1 DEF Read
  <2> QED BY <1>7, <2>1, <1>2, <1>3, <1>5 DEF v4l2DownControl, StepControl, IfControl
<1> QED BY <1>6, <1>7

LEMMA ResetDone ==
  ASSUME InRange, NEW c \in Controls, v4l2ResetControl(c)
  PROVE  V4L2Done
<1>1. CASE Refused
  BY <1>1, UnchangedDone DEF Refused, Fails
<1>2. CASE Request(c, Info[c].default_value, 0)
  BY <1>2, InfoTyped, RequestDone
<1> QED BY <1>1, <1>2 DEF v4l2ResetControl, IfControl

LEMMA V4L2CallDone ==
  ASSUME InRange, V4L2Call
  PROVE  V4L2Done
<1>1. CASE Refused
  BY <1>1, UnchangedDone DEF Refused, Fails
<1>2. ASSUME NEW c \in Controls, v4l2GetControl(c) PROVE V4L2Done
  <2>1. value[c] \in Int
    BY DEF InRange
  <2> QED BY <1>1, <1>2, <2>1, UnchangedDone DEF v4l2GetControl, IfControl
<1>3. ASSUME NEW c \in Controls, v4l2ToggleControl(c) PROVE V4L2Done
  <2>1. ASSUME NEW v \in {0, 1}, Request(c, v, v) PROVE V4L2Done
    BY <2>1, RequestDone
  <2> QED BY <1>1, <1>3, <2>1 DEF v4l2ToggleControl
<1>4. ASSUME NEW c \in Controls, NEW v \in Values, v4l2SetControl(c, v)
      PROVE  V4L2Done
  <2>1. v \in Int
    BY ControlsAssumption
  <2>2. Request(c, v, 0) => V4L2Done
    BY <2>1, RequestDone
  <2> QED BY <1>1, <1>4, <2>2, UnchangedDone DEF v4l2SetControl, IfControl
<1>5. "PANTILT_RESET" \in Controls /\ "PANTILT_RELATIVE" \in Controls
  BY ControlsAssumption DEF PanTilt
<1>6. ASSUME NEW c \in Controls, NEW v \in Int, IfControl(c, Request(c, v, 0))
      PROVE  V4L2Done
  BY <1>1, <1>6, RequestDone DEF IfControl
<1>7. ASSUME NEW v \in Values,
             v4l2ResetPanTilt(v) \/ v4L2UpDownPan(v) \/ v4L2UpDownTilt(v)
      PROVE  V4L2Done
  <2>1. v \in Int
    BY ControlsAssumption
  <2>2. v % 256 \in Int /\ v % 65536 \in Int /\ v * 65536 \in Int
    BY <2>1, SMT
  <2> QED BY <1>5, <1>6, <1>7, <2>2
          DEF v4l2ResetPanTilt, v4L2UpDownPan, v4L2UpDownTilt
<1> QED BY <1>2, <1>3, <1>4, <1>7, StepDone, ResetDone DEF V4L2Call

LEMMA DoneControls ==
  ASSUME ControlsIInv, V4L2Done, UNCHANGED xuVars
  PROVE  ControlsIInv'
  BY DEF ControlsIInv, ControlsTypeOK, RegistersAsAsked, V4L2Done, InRange, xuVars

LEMMA ControlsInRange == ControlsIInv => InRange
  BY DEF ControlsIInv, ControlsTypeOK, InRange
-----------------------------------------------------------------------------
(* camera_setting, stage by stage.                                          *)

SettingIInv == /\ FormatIInv /\ ControlsIInv
               /\ stage \in Stages /\ resets \in Seq(Controls)
               /\ InOrder /\ DoneSoFar

LEMMA InitIInv == SettingInit => SettingIInv
<1> SUFFICES ASSUME SettingInit PROVE SettingIInv
  OBVIOUS
<1> USE DEF SettingInit
<1>1. FormatIInv /\ pc = "init"
  BY FormatInitIInv DEF FormatInit
<1>2. ControlsIInv
  <2>1. InRange
    BY InfoTyped DEF InRange
  <2> QED BY <2>1 DEF ControlsIInv, ControlsTypeOK, RegistersAsAsked, Registers,
                      Unasked, InRange
<1>3. stage \in Stages /\ resets \in Seq(Controls)
  BY ResetsAssumption DEF Stages
<1> QED BY <1>1, <1>2, <1>3 DEF SettingIInv, InOrder, DoneSoFar

LEMMA FormatStays ==
  ASSUME FormatIInv, UNCHANGED formatVars
  PROVE  FormatIInv'
<1>1. /\ FormatTypeOK' /\ Counted' /\ ReadAsDevice' /\ WalkAsDevice'
  BY DEF FormatIInv, formatVars, FormatTypeOK, Counted, ReadAsDevice,
         WalkAsDevice, CommitsTable
<1>2. Walked'
  BY DEF FormatIInv, formatVars, Walked, Walk, Data
<1> QED BY <1>1, <1>2 DEF FormatIInv, formatVars

LEMMA RememberIInv ==
  ASSUME FormatIInv, pc = "done", Remember
  PROVE  FormatIInv' /\ pc' = "done"
<1>1. /\ UNCHANGED <<table, beyond, pc, fwLen, fwData, Copyleft, cur_len,
                     cnt, allocated, gH264fmt, success, committed>>
      /\ healthy' = (healthy /\ result' = 0)
  BY DEF Remember
<1>2. healthy' \in BOOLEAN
  BY <1>1, Zenon
<1>3. FormatTypeOK'
  BY <1>1, <1>2 DEF FormatIInv, FormatTypeOK
<1>4. WalkAsDevice'
  BY <1>1 DEF FormatIInv, WalkAsDevice, CommitsTable
<1> QED BY <1>1, <1>3, <1>4 DEF FormatIInv, Counted, ReadAsDevice, Walked

LEMMA ControlsStay ==
  ASSUME ControlsIInv, UNCHANGED controlVars
  PROVE  ControlsIInv'
  BY DEF ControlsIInv, controlVars, ControlsTypeOK, RegistersAsAsked

LEMMA InitCtrlIInv ==
  ASSUME SettingIInv, InitCtrl
  PROVE  SettingIInv'
<1>1. FormatIInv' /\ ControlsIInv'
  BY FormatStays, XUCallIInv DEF SettingIInv, InitCtrl, XUCall
<1>2. /\ stage = "xu" /\ stage' = "format" /\ pc = "init" /\ pc' = "init"
      /\ UNCHANGED resets /\ resets = Resets
  BY DEF SettingIInv, InitCtrl, formatVars, InOrder, DoneSoFar
<1> QED BY <1>1, <1>2 DEF SettingIInv, InOrder, DoneSoFar, Stages

LEMMA SetFormatsIInv ==
  ASSUME SettingIInv, SetFormats
  PROVE  SettingIInv'
<1>1. FormatIInv' /\ ControlsIInv'
  BY FormatNextIInv, ControlsStay DEF SettingIInv, SetFormats
<1>2. /\ stage' = (IF pc' = "done" THEN "bitrate" ELSE "format")
      /\ UNCHANGED resets /\ resets = Resets
  BY DEF SettingIInv, SetFormats, DoneSoFar
<1> QED BY <1>1, <1>2 DEF SettingIInv, InOrder, DoneSoFar, Stages

(* 1600 kbit/s are 16 units.                                                *)
LEMMA SixteenUnits ==
  LET n == BitRate_CtrlNum(m_BitRate)
  IN  n = 16 /\ <<(n \div 256) % 256, n % 256>> = <<0, 16>>
<1>1. BitRate_CtrlNum(m_BitRate) = 16
  BY SMT DEF BitRate_CtrlNum, BitRateUnit, m_BitRate
<1> QED BY <1>1, SMT

LEMMA SetBitRateStageIInv ==
  ASSUME SettingIInv, SetBitRate
  PROVE  SettingIInv'
<1>1. /\ FormatIInv /\ ControlsIInv /\ pc = "done"
      /\ stage' = "reset" /\ UNCHANGED resets /\ resets = Resets
  BY DEF SettingIInv, SetBitRate, InOrder, DoneSoFar
<1>2. FormatIInv' /\ pc' = "done"
  BY <1>1, RememberIInv DEF SetBitRate
<1>3. ControlsIInv'
  BY <1>1, SixteenUnits, SetBitRateIInv, SMT DEF SetBitRate, m_BitRate
<1>4. ASSUME healthy' PROVE register'["BitRate"] = <<0, 16>>
  <2>1. result' = 0
    BY <1>4 DEF SetBitRate, Remember
  <2>2. SetRegister("BitRate", <<0, 16>>, m_BitRate)
    BY SixteenUnits DEF SetBitRate, XU_H264_Set_BitRate
  <2>3. register' = [register EXCEPT !["BitRate"] = <<0, 16>>]
    BY <2>1, <2>2 DEF SetRegister, Switch, Fails
  <2> QED BY <2>3, <1>1 DEF ControlsIInv, ControlsTypeOK, Registers
<1>5. Resets \in Seq(Controls)
  BY ResetsAssumption
<1> QED BY <1>1, <1>2, <1>3, <1>4, <1>5
        DEF SettingIInv, InOrder, DoneSoFar, Stages

LEMMA ResetIInv ==
  ASSUME SettingIInv, Reset
  PROVE  SettingIInv'
<1> DEFINE c == Head(resets)
<1>1. /\ FormatIInv /\ ControlsIInv /\ pc = "done" /\ DoneSoFar
      /\ stage = "reset" /\ stage' = "reset" /\ resets # << >>
      /\ resets' = Tail(resets) /\ v4l2ResetControl(c)
      /\ UNCHANGED xuVars /\ UNCHANGED register
      /\ healthy' = (healthy /\ result' = 0)
      /\ resets \in Seq(Controls) /\ Resets \in Seq(Controls)
  BY ResetsAssumption
     DEF SettingIInv, Reset, More, InOrder, Remember, xuVars
<1>2. /\ resets' \in Seq(Controls) /\ Len(resets') = Len(resets) - 1
      /\ Len(resets) \in Nat /\ Len(resets) > 0 /\ Len(Resets) \in Nat
      /\ \A k \in DOMAIN resets' : k + 1 \in DOMAIN resets
                                   /\ resets'[k] = resets[k + 1]
      /\ c = resets[1] /\ c \in Controls /\ 1 \in DOMAIN resets
      /\ DOMAIN resets' = 1..Len(resets')
      /\ \A i \in 1..Len(Resets) : Resets[i] \in Controls
  BY <1>1
<1>3. FormatIInv' /\ pc' = "done"
  BY <1>1, RememberIInv DEF Reset
<1>4. V4L2Done
  BY <1>1, <1>2, ControlsInRange, ResetDone
<1>5. ControlsIInv'
  BY <1>1, <1>4, DoneControls
<1>6. /\ Len(resets) <= Len(Resets)
      /\ \A k \in DOMAIN resets :
           resets[k] = Resets[Len(Resets) - Len(resets) + k]
  BY <1>1 DEF DoneSoFar
<1>7. ASSUME NEW k \in DOMAIN resets'
      PROVE  resets'[k] = Resets[Len(Resets) - Len(resets') + k]
  <2>1. /\ k + 1 \in DOMAIN resets /\ k \in Nat
        /\ Len(Resets) - Len(resets) + (k + 1) = Len(Resets) - Len(resets') + k
    BY <1>2
  <2> QED BY <2>1, <1>2, <1>6
<1>8. ASSUME healthy'
      PROVE  /\ register'["BitRate"] = <<0, 16>>
             /\ \A i \in 1..(Len(Resets) - Len(resets')) :
                  value'[Resets[i]] = Info[Resets[i]].default_value
  <2>1. healthy /\ result' = 0
    BY <1>1, <1>8
  <2>2. /\ register["BitRate"] = <<0, 16>>
        /\ \A i \in 1..(Len(Resets) - Len(resets)) :
             value[Resets[i]] = Info[Resets[i]].default_value
    BY <2>1, <1>1 DEF DoneSoFar
  <2>3. value' = [value EXCEPT ![c] = Clamped(c, Info[c].default_value)]
    BY <2>1, <1>1 DEF v4l2ResetControl, IfControl, Request, Refused, Fails
  <2>4. Clamped(c, Info[c].default_value) = Info[c].default_value
    BY <1>2, InfoTyped DEF Clamped
  <2>5. value \in [Controls -> Int]
    BY <1>1 DEF ControlsIInv, ControlsTypeOK
  <2>6. /\ value'[c] = Info[c].default_value
        /\ \A o \in Controls : o # c => value'[o] = value[o]
    BY <2>3, <2>4, <2>5, <1>2
  <2>7. ASSUME NEW i \in 1..(Len(Resets) - Len(resets'))
        PROVE  value'[Resets[i]] = Info[Resets[i]].default_value
    <3>1. /\ i \in 1..Len(Resets)
          /\ i \in 1..(Len(Resets) - Len(resets)) \/ i = Len(Resets) - Len(resets) + 1
      <4>1. /\ Len(resets') = Len(resets) - 1 /\ Len(resets) \in Nat
            /\ Len(resets) > 0 /\ Len(Resets) \in Nat
        BY <1>2
      <4>2. i \in Int /\ i >= 1 /\ i <= Len(Resets) - Len(resets')
        BY <4>1
      <4> QED BY <4>1, <4>2
    <3>2. CASE i = Len(Resets) - Len(resets) + 1
      BY <3>2, <2>6, <1>2, <1>6
    <3>3. CASE i \in 1..(Len(Resets) - Len(resets))
      BY <3>1, <3>3, <2>2, <2>6, <1>2
    <3> QED BY <3>1, <3>2, <3>3
  <2> QED BY <2>2, <2>7, <1>1
<1>9. Len(resets') <= Len(Resets)
  BY <1>2, <1>6
<1> QED BY <1>1, <1>2, <1>3, <1>5, <1>7, <1>8, <1>9
        DEF SettingIInv, InOrder, DoneSoFar, Stages

LEMMA FinishedIInv ==
  ASSUME SettingIInv, Finished
  PROVE  SettingIInv'
<1>1. FormatIInv' /\ ControlsIInv'
  BY FormatStays, ControlsStay DEF SettingIInv, Finished
<1>2. /\ stage = "reset" /\ stage' = "done" /\ resets = << >> /\ pc = "done"
      /\ UNCHANGED <<pc, resets, healthy, register, value>>
      /\ DoneSoFar
  BY DEF SettingIInv, Finished, More, InOrder, formatVars, controlVars
<1> QED BY <1>1, <1>2 DEF SettingIInv, InOrder, DoneSoFar, Stages

LEMMA LibraryIInv ==
  ASSUME SettingIInv, Library
  PROVE  SettingIInv'
<1>1. FormatIInv'
  BY FormatStays DEF SettingIInv, Library
<1>2. ControlsIInv'
  <2>1. CASE XUCall
    BY <2>1, XUCallIInv DEF SettingIInv
  <2>2. CASE V4L2Call
    BY <2>2, V4L2CallDone, ControlsInRange, DoneControls DEF SettingIInv, V4L2Call
  <2> QED BY <2>1, <2>2 DEF Library
<1>3. stage \in {"unit", "v4l2"} /\ UNCHANGED <<stage, resets, pc>>
  BY DEF Library, formatVars
<1> QED BY <1>1, <1>2, <1>3 DEF SettingIInv, InOrder, DoneSoFar

LEMMA NextIInv == SettingIInv /\ [Next]_vars => SettingIInv'
<1>1. ASSUME SettingIInv, UNCHANGED vars PROVE SettingIInv'
  <2>1. FormatIInv' /\ ControlsIInv' /\ UNCHANGED <<stage, resets, formatVars, controlVars>>
    BY <1>1, FormatStays, ControlsStay DEF SettingIInv, vars
  <2> QED BY <1>1, <2>1 DEF SettingIInv, InOrder, DoneSoFar, formatVars, controlVars
<1> QED BY <1>1, InitCtrlIInv, SetFormatsIInv, SetBitRateStageIInv, ResetIInv,
           FinishedIInv, LibraryIInv DEF Next

-----------------------------------------------------------------------------
(* The invariant holds in every state that can be reached.                  *)
THEOREM SettingInvariance == Spec => []SettingIInv
  BY InitIInv, NextIInv, PTL DEF Spec

(* Whatever lengths the camera tells: what H264_Data is filled with, how    *)
(* far it is walked, and what is parsed and sent are of their types, and no *)
(* more formats are written than there is room for.                         *)
THEOREM SettingTypeCorrect == Spec => []SettingTypeOK
<1>1. SettingIInv => SettingTypeOK
  BY DEF SettingIInv, FormatIInv, ControlsIInv, SettingTypeOK
<1> QED BY <1>1, SettingInvariance, PTL

(* H264_ParseFormat fills the formats that H264_CountFormat has counted,    *)
(* all of them and no other, for whatever bytes the table is.               *)
THEOREM PassesAgreeHold == Spec => []PassesAgree
<1>1. SettingIInv => PassesAgree
  BY PassesMeet DEF SettingIInv, FormatIInv, PassesAgree
<1> QED BY <1>1, SettingInvariance, PTL

(* Each register of the extension unit has what was last asked for it, by   *)
(* whatever calls in whatever order and with whatever failures.             *)
THEOREM RegistersHold == Spec => []RegistersAsAsked
<1>1. SettingIInv => RegistersAsAsked
  BY DEF SettingIInv, ControlsIInv
<1> QED BY <1>1, SettingInvariance, PTL

LEMMA SameFormats ==
  ASSUME NEW s \in Seq(Format), NEW t \in Seq(Format), Len(s) = Len(t),
         \A i \in 1..Len(s) : s[i] = t[i]
  PROVE  s = t
<1>1. s \in [1..Len(s) -> Format] /\ t \in [1..Len(s) -> Format]
  OBVIOUS
<1> QED BY <1>1

(* A set-up in which no request fails leaves the camera as asked, whatever  *)
(* its table of formats is and however it was before.                       *)
THEOREM SettingCompleteHolds == Spec => []SettingComplete
<1>1. ASSUME SettingIInv, stage = "done", healthy
      PROVE  /\ TableAsDevice /\ CommitsTable
             /\ register["BitRate"] = <<0, 16>>
             /\ \A i \in DOMAIN Resets :
                  value[Resets[i]] = Info[Resets[i]].default_value
  <2>1. /\ pc = "done" /\ resets = << >> /\ register["BitRate"] = <<0, 16>>
        /\ \A i \in 1..(Len(Resets) - Len(resets)) :
             value[Resets[i]] = Info[Resets[i]].default_value
    BY <1>1 DEF SettingIInv, InOrder, DoneSoFar
  <2>2. /\ CommitsTable /\ Len(gH264fmt) = Len(table.formats)
        /\ \A k \in DOMAIN gH264fmt : gH264fmt[k] = table.formats[k]
    BY <1>1, <2>1 DEF SettingIInv, FormatIInv, WalkAsDevice
  <2>3. gH264fmt \in Seq(Format) /\ table.formats \in Seq(Format)
    BY <1>1, TableFacts DEF SettingIInv, FormatIInv, FormatTypeOK
  <2>4. gH264fmt = table.formats
    BY <2>2, <2>3, SameFormats
  <2>5. DOMAIN Resets = 1..(Len(Resets) - Len(resets))
    BY <2>1, ResetsAssumption
  <2> QED BY <2>1, <2>2, <2>4, <2>5 DEF TableAsDevice
<1>2. SettingIInv => SettingComplete
  BY <1>1 DEF SettingComplete
<1> QED BY <1>2, SettingInvariance, PTL

-----------------------------------------------------------------------------
(* The driver's buffers.                                                    *)


(* What joins the pictures that wait, and what leaves them.                 *)
Elements(s) == {s[k] : k \in DOMAIN s}
Distinct(s) == \A j, k \in DOMAIN s : s[j] = s[k] => j = k

LEMMA AppendElements ==
  ASSUME NEW S, NEW s \in Seq(S), NEW b \in S
  PROVE  /\ Append(s, b) \in Seq(S)
         /\ Elements(Append(s, b)) = Elements(s) \cup {b}
         /\ Distinct(s) /\ b \notin Elements(s) => Distinct(Append(s, b))
<1> DEFINE t == Append(s, b)
<1>1. /\ t \in Seq(S) /\ Len(s) \in Nat /\ DOMAIN s = 1..Len(s)
      /\ DOMAIN t = 1..Len(s) + 1 /\ t[Len(s) + 1] = b
      /\ \A k \in 1..Len(s) : t[k] = s[k]
  OBVIOUS
<1> HIDE DEF t
<1>2. \A k \in DOMAIN t : k \in DOMAIN s \/ k = Len(s) + 1
  BY <1>1
<1>3. Elements(t) = Elements(s) \cup {b}
  <2>1. \A k \in DOMAIN s : k \in DOMAIN t /\ t[k] = s[k]
    BY <1>1
  <2>2. Len(s) + 1 \in DOMAIN t
    BY <1>1
  <2> QED BY <2>1, <2>2, <1>1, <1>2 DEF Elements
<1>4. ASSUME Distinct(s), b \notin Elements(s) PROVE Distinct(t)
  <2> SUFFICES ASSUME NEW j \in DOMAIN t, NEW k \in DOMAIN t, t[j] = t[k]
               PROVE  j = k
    BY DEF Distinct
  <2>1. \A m \in DOMAIN s : t[m] = s[m] /\ t[m] # b
    BY <1>1, <1>4 DEF Elements
  <2>2. CASE j \in DOMAIN s /\ k \in DOMAIN s
    BY <2>1, <2>2, <1>4 DEF Distinct
  <2>3. CASE j = Len(s) + 1 \/ k = Len(s) + 1
    BY <2>1, <2>3, <1>1, <1>2
  <2> QED BY <2>2, <2>3, <1>2
<1> QED BY <1>1, <1>3, <1>4 DEF t

LEMMA TailElements ==
  ASSUME NEW S, NEW s \in Seq(S), s # << >>, Distinct(s)
  PROVE  /\ Head(s) \in S /\ Head(s) \in Elements(s)
         /\ Tail(s) \in Seq(S) /\ Distinct(Tail(s))
         /\ Elements(Tail(s)) = Elements(s) \ {Head(s)}
<1> DEFINE t == Tail(s)
<1>1. /\ t \in Seq(S) /\ Head(s) = s[1] /\ Head(s) \in S
      /\ Len(s) \in Nat /\ Len(s) > 0 /\ DOMAIN s = 1..Len(s)
      /\ DOMAIN t = 1..Len(s) - 1
      /\ \A k \in 1..Len(s) - 1 : t[k] = s[k + 1]
  OBVIOUS
<1> HIDE DEF t
<1>2. 1 \in DOMAIN s
  BY <1>1
<1>3. \A k \in DOMAIN t : k + 1 \in DOMAIN s /\ t[k] = s[k + 1] /\ k \in Nat
                          /\ k + 1 # 1
  BY <1>1
<1>4. \A k \in DOMAIN s : k = 1 \/ (k - 1 \in DOMAIN t /\ t[k - 1] = s[k])
  BY <1>1
<1>5. Distinct(t)
  BY <1>3 DEF Distinct
<1>6. Elements(t) = Elements(s) \ {Head(s)}
  <2>1. ASSUME NEW x \in Elements(t) PROVE x \in Elements(s) \ {s[1]}
    <3>1. PICK k \in DOMAIN t : x = t[k]
      BY DEF Elements
    <3> QED BY <3>1, <1>2, <1>3 DEF Elements, Distinct
  <2>2. ASSUME NEW x \in Elements(s) \ {s[1]} PROVE x \in Elements(t)
    <3>1. PICK k \in DOMAIN s : x = s[k]
      BY DEF Elements
    <3> QED BY <3>1, <1>4 DEF Elements
  <2> QED BY <2>1, <2>2, <1>1
<1> QED BY <1>1, <1>2, <1>5, <1>6 DEF t, Elements

LEMMA FilledElements == /\ InFilled = Elements(filled)
                       /\ InFilled' = Elements(filled')
BY DEF InFilled, Elements

-----------------------------------------------------------------------------
(* No step breaks the inductive invariant.                                  *)
(* As long as nothing is captured the buffers are easily accounted for.     *)
Idle == /\ cam \in {"none", "start"} /\ index = 0 /\ streaming = FALSE
        /\ driver = {} /\ filled = << >> /\ held = None /\ lost = {}

Prepared ==
  /\ main \in {"open", "request", "map", "create", "serve", "exited", "crashed"}
  /\ fd \in BOOLEAN /\ frame_list \in BOOLEAN /\ connected \in BOOLEAN
  /\ req_count \in {0} \cup Granted /\ n_buffers \in 0..req_count
  /\ start_camera \in {0, 1}
  /\ CreatedPrepared

LEMMA IdleIInv == Idle /\ Prepared => DeviceIInv
<1> SUFFICES ASSUME Idle, Prepared PROVE DeviceIInv
  OBVIOUS
<1>1. Buffers(0) = {}
  BY DEF Buffers
<1>2. << >> \in Seq(Buffers(n_buffers)) /\ InFilled = {}
  BY DEF Idle, InFilled
<1>3. 0 \in 0..n_buffers
  BY GrantedAssumption DEF Prepared
<1>4. held \in Buffers(n_buffers) \cup {None}
  BY DEF Idle
<1>5. DeviceTypeOK
  BY <1>2, <1>3, <1>4 DEF Idle, Prepared, DeviceTypeOK
<1>6. BuffersAccounted
  BY <1>2 DEF Idle, BuffersAccounted
<1>7. CreatedPrepared /\ NoPictureYet /\ HeldWhileCopied
  BY <1>1 DEF Idle, Prepared, NoPictureYet, HeldWhileCopied
<1> QED BY <1>5, <1>6, <1>7 DEF DeviceIInv

LEMMA DeviceInitIInv == DeviceInit => DeviceIInv
<1> SUFFICES ASSUME DeviceInit PROVE Idle /\ Prepared
  BY IdleIInv
<1>1. 0 \in 0..0
  OBVIOUS
<1> QED BY <1>1 DEF DeviceInit, Idle, Prepared, CreatedPrepared

LEMMA NotCreated == DeviceIInv /\ cam = "none" => Idle /\ Prepared
BY DEF DeviceIInv, DeviceTypeOK, CreatedPrepared, NoPictureYet,
   HeldWhileCopied, Idle, Prepared, Buffers

(* The same a step later.                                                   *)
LEMMA IdleNext == Idle' /\ Prepared' => DeviceIInv'
<1> SUFFICES ASSUME Idle', Prepared' PROVE DeviceIInv'
  OBVIOUS
<1>1. Buffers(0) = {}
  BY DEF Buffers
<1>2. << >> \in Seq(Buffers(n_buffers')) /\ InFilled' = {}
  BY DEF Idle, InFilled
<1>3. 0 \in 0..n_buffers'
  BY GrantedAssumption DEF Prepared
<1>4. held' \in Buffers(n_buffers') \cup {None}
  BY DEF Idle
<1>5. DeviceTypeOK'
  BY <1>2, <1>3, <1>4 DEF Idle, Prepared, DeviceTypeOK
<1>6. BuffersAccounted'
  BY <1>2 DEF Idle, BuffersAccounted
<1>7. CreatedPrepared' /\ NoPictureYet' /\ HeldWhileCopied'
  BY <1>1 DEF Idle, Prepared, NoPictureYet, HeldWhileCopied
<1> QED BY <1>5, <1>6, <1>7 DEF DeviceIInv

-----------------------------------------------------------------------------
(* No step breaks the inductive invariant.                                  *)

(* The main thread, before camera_thread is created.                        *)
LEMMA MainIInv == DeviceIInv /\ Main => DeviceIInv'
<1> SUFFICES ASSUME DeviceIInv, Main PROVE Idle' /\ Prepared'
  BY IdleNext
<1>1. cam = "none"
  BY DEF DeviceIInv, DeviceTypeOK, CreatedPrepared, Main, Preparing,
     OpenDevice, OpenFails, RequestBuffers, MapBuffer, InitDeviceFails,
     InitFrameList, CreateThread
<1>2. Idle /\ Prepared
  BY <1>1, NotCreated
<1>3. /\ req_count \in Nat /\ n_buffers \in Nat /\ n_buffers <= req_count
      /\ \A n \in Granted : n \in Nat
  BY <1>2, GrantedAssumption DEF Prepared
<1>4. n_buffers + 1 \in 0..req_count \/ ~(n_buffers < req_count)
  BY <1>3
<1>5. CASE OpenDevice \/ OpenFails \/ InitDeviceFails \/ InitFrameList
  BY <1>1, <1>2, <1>5 DEF OpenDevice, OpenFails, InitDeviceFails,
     InitFrameList, Preparing, captureVars, Idle, Prepared, CreatedPrepared
<1>6. CASE MapBuffer
  BY <1>1, <1>2, <1>4, <1>6 DEF MapBuffer, Preparing, captureVars, Idle,
     Prepared, CreatedPrepared
<1>7. CASE CreateThread
  BY <1>1, <1>2, <1>7 DEF CreateThread, Preparing, Idle, Prepared,
     CreatedPrepared
<1>8. CASE RequestBuffers
  <2>1. n_buffers = 0
    BY <1>2, <1>8 DEF RequestBuffers, Preparing, Prepared, CreatedPrepared
  <2>2. 0 \in 0..req_count'
    BY <1>3, <1>8 DEF RequestBuffers
  <2> QED BY <2>1, <2>2, <1>1, <1>2, <1>8 DEF RequestBuffers, Preparing,
          captureVars, Idle, Prepared, CreatedPrepared
<1> QED BY <1>5, <1>6, <1>7, <1>8 DEF Main

(* The data connection.                                                     *)
LEMMA DataConnectionIInv == DeviceIInv /\ DataConnection => DeviceIInv'
<1> SUFFICES ASSUME DeviceIInv, DataConnection PROVE DeviceIInv'
  OBVIOUS
<1>1. start_camera' \in {0, 1} /\ connected' = TRUE /\ InFilled' = InFilled
  BY DEF DeviceIInv, CreatedPrepared, DataConnection, captureVars, InFilled
<1>2. UNCHANGED <<main, fd, req_count, n_buffers, frame_list, cam, index,
                  streaming, driver, filled, held, lost>>
  BY DEF DataConnection, initVars, captureVars
<1>3. DeviceTypeOK'
  BY <1>1, <1>2 DEF DeviceIInv, DeviceTypeOK
<1>4. BuffersAccounted'
  BY <1>1, <1>2 DEF DeviceIInv, BuffersAccounted
<1>5. CreatedPrepared' /\ NoPictureYet' /\ HeldWhileCopied'
  BY <1>1, <1>2 DEF DeviceIInv, CreatedPrepared, NoPictureYet, HeldWhileCopied
<1> QED BY <1>3, <1>4, <1>5 DEF DeviceIInv

(* The thread until the driver streams.                                     *)
LEMMA StartIInv ==
  DeviceIInv /\ (SemWait \/ QueueBuffer \/ StreamOn \/ StartFails)
    => DeviceIInv'
<1> SUFFICES ASSUME DeviceIInv,
                    SemWait \/ QueueBuffer \/ StreamOn \/ StartFails
             PROVE  DeviceIInv'
  OBVIOUS
<1>1. /\ UNCHANGED <<fd, req_count, n_buffers, frame_list, connected, filled,
                     held, lost>>
      /\ InFilled' = InFilled /\ filled = << >> /\ InFilled = {}
      /\ held = None /\ lost = {} /\ streaming = FALSE
      /\ driver = Buffers(index) /\ cam \in {"start", "queue"}
  BY DEF DeviceIInv, DeviceTypeOK, NoPictureYet, HeldWhileCopied, SemWait,
     QueueBuffer, StreamOn, StartFails, CamGoto, initVars, captureVars,
     InFilled
<1>2. index \in Nat /\ n_buffers \in Nat /\ index <= n_buffers /\ None \notin driver
  <2>1. n_buffers \in Nat
    BY GrantedAssumption DEF DeviceIInv, DeviceTypeOK
  <2> QED BY <2>1, <1>1 DEF DeviceIInv, DeviceTypeOK, Buffers, None
<1>3. << >> \in Seq(Buffers(n_buffers))
  OBVIOUS
<1>4. CASE SemWait
  <2>1. /\ UNCHANGED <<main, index, streaming, driver>> /\ cam' = "queue"
        /\ start_camera' = 0 /\ connected = TRUE
    BY <1>4 DEF DeviceIInv, DeviceTypeOK, CreatedPrepared, SemWait, CamGoto,
       initVars
  <2>2. DeviceTypeOK' /\ BuffersAccounted'
    BY <2>1, <1>1 DEF DeviceIInv, DeviceTypeOK, BuffersAccounted
  <2>3. CreatedPrepared' /\ NoPictureYet' /\ HeldWhileCopied'
    BY <2>1, <1>1, <1>4 DEF DeviceIInv, CreatedPrepared, NoPictureYet,
       HeldWhileCopied, SemWait, CamGoto
  <2> QED BY <2>2, <2>3 DEF DeviceIInv
<1>5. CASE QueueBuffer
  <2>1. /\ UNCHANGED <<main, streaming, start_camera>> /\ cam' = "queue"
        /\ cam = "queue" /\ index < n_buffers /\ index' = index + 1
        /\ driver' = driver \cup {index}
    BY <1>5 DEF QueueBuffer, CamGoto, initVars
  <2>2. index' \in 0..n_buffers /\ driver' = Buffers(index')
        /\ driver' \subseteq Buffers(n_buffers) /\ None \notin driver'
    BY <2>1, <1>1, <1>2 DEF Buffers, None
  <2>3. DeviceTypeOK'
    BY <2>1, <2>2, <1>1 DEF DeviceIInv, DeviceTypeOK
  <2>4. BuffersAccounted'
    BY <2>1, <2>2, <1>1 DEF BuffersAccounted
  <2>5. CreatedPrepared' /\ NoPictureYet' /\ HeldWhileCopied'
    BY <2>1, <2>2, <1>1 DEF DeviceIInv, CreatedPrepared, NoPictureYet,
       HeldWhileCopied
  <2> QED BY <2>3, <2>4, <2>5 DEF DeviceIInv
<1>6. CASE StreamOn
  <2>1. /\ UNCHANGED <<main, index, driver, start_camera>> /\ cam' = "select"
        /\ cam = "queue" /\ index = n_buffers /\ streaming' = TRUE
    BY <1>6 DEF StreamOn, CamGoto, AllQueued, initVars
  <2>2. DeviceTypeOK'
    BY <2>1, <1>1 DEF DeviceIInv, DeviceTypeOK
  <2>3. BuffersAccounted'
    BY <2>1, <1>1, <1>2 DEF BuffersAccounted
  <2>4. CreatedPrepared' /\ NoPictureYet' /\ HeldWhileCopied'
    BY <2>1, <1>1 DEF DeviceIInv, CreatedPrepared, NoPictureYet,
       HeldWhileCopied
  <2> QED BY <2>2, <2>3, <2>4 DEF DeviceIInv
<1>7. CASE StartFails
  <2>1. /\ UNCHANGED <<cam, index, streaming, driver, start_camera>>
        /\ main' = "exited"
    BY <1>7 DEF StartFails, captureVars
  <2>2. DeviceTypeOK' /\ BuffersAccounted'
    BY <2>1, <1>1 DEF DeviceIInv, DeviceTypeOK, BuffersAccounted
  <2>3. CreatedPrepared' /\ NoPictureYet' /\ HeldWhileCopied'
    BY <2>1, <1>1 DEF DeviceIInv, CreatedPrepared, NoPictureYet,
       HeldWhileCopied
  <2> QED BY <2>2, <2>3 DEF DeviceIInv
<1> QED BY <1>4, <1>5, <1>6, <1>7

(* While the driver streams each step moves one buffer, or none.            *)
LEMMA CaptureIInv ==
  ASSUME DeviceIInv, Picture \/ Dequeue \/ DequeueFails \/ PutBuffer
  PROVE  DeviceIInv'
<1>1. /\ UNCHANGED <<main, fd, req_count, n_buffers, frame_list, connected,
                     start_camera, index, streaming>>
      /\ streaming = TRUE
  BY DEF DeviceIInv, NoPictureYet, Picture, Dequeue, DequeueFails, PutBuffer,
     CamGoto, initVars
<1>2. /\ n_buffers \in Nat /\ None \notin Buffers(n_buffers)
      /\ driver \subseteq Buffers(n_buffers) /\ lost \subseteq Buffers(n_buffers)
      /\ filled \in Seq(Buffers(n_buffers))
      /\ InFilled \subseteq Buffers(n_buffers)
  <2>1. n_buffers \in Nat
    BY GrantedAssumption DEF DeviceIInv, DeviceTypeOK
  <2>2. filled \in Seq(Buffers(n_buffers))
    BY DEF DeviceIInv, DeviceTypeOK
  <2>3. InFilled \subseteq Buffers(n_buffers)
    BY <2>2 DEF InFilled
  <2> QED BY <2>1, <2>2, <2>3 DEF DeviceIInv, DeviceTypeOK, Buffers, None
<1>3. /\ driver \cap InFilled = {} /\ held \notin driver \cup InFilled \cup lost
      /\ lost \cap (driver \cup InFilled) = {} /\ Distinct(filled)
      /\ driver \cup InFilled \cup lost \cup ({held} \ {None})
           = Buffers(n_buffers)
  BY <1>1 DEF DeviceIInv, BuffersAccounted, Distinct
<1>4. CASE Picture
  <2>1. PICK b \in driver : /\ driver' = driver \ {b}
                            /\ filled' = Append(filled, b)
    BY <1>4 DEF Picture
  <2>2. UNCHANGED <<cam, held, lost>>
    BY <1>4 DEF Picture
  <2>3. b \in Buffers(n_buffers) /\ b \notin InFilled
    BY <1>2, <1>3, <2>1
  <2>4. /\ filled' \in Seq(Buffers(n_buffers)) /\ Distinct(filled')
        /\ InFilled' = InFilled \cup {b}
    BY <1>2, <1>3, <2>1, <2>3, AppendElements, FilledElements
  <2>5. DeviceTypeOK'
    BY <1>1, <1>2, <2>1, <2>2, <2>4 DEF DeviceIInv, DeviceTypeOK
  <2>6. BuffersAccounted'
    BY <1>1, <1>3, <2>1, <2>2, <2>4 DEF BuffersAccounted, Distinct
  <2>7. CreatedPrepared' /\ NoPictureYet' /\ HeldWhileCopied'
    BY <1>1, <2>2 DEF DeviceIInv, CreatedPrepared, NoPictureYet,
       HeldWhileCopied
  <2> QED BY <2>5, <2>6, <2>7 DEF DeviceIInv
<1>5. CASE Dequeue
  <2>1. /\ UNCHANGED <<driver, lost>> /\ held' = Head(filled)
        /\ filled' = Tail(filled) /\ filled # << >>
        /\ cam = "select" /\ cam' = "dequeued" /\ held = None
    BY <1>5 DEF Dequeue, CamGoto, DeviceIInv, HeldWhileCopied
  <2>2. /\ filled' \in Seq(Buffers(n_buffers)) /\ Distinct(filled')
        /\ InFilled' = InFilled \ {held'}
        /\ held' \in InFilled /\ held' \in Buffers(n_buffers)
    BY <1>2, <1>3, <2>1, TailElements, FilledElements
  <2>3. held' # None
    BY <1>2, <2>2
  <2>4. DeviceTypeOK'
    BY <1>1, <1>2, <2>1, <2>2 DEF DeviceIInv, DeviceTypeOK
  <2>5. BuffersAccounted'
    BY <1>1, <1>3, <2>1, <2>2, <2>3 DEF BuffersAccounted, Distinct
  <2>6. CreatedPrepared' /\ NoPictureYet' /\ HeldWhileCopied'
    BY <1>1, <2>1, <2>3 DEF DeviceIInv, CreatedPrepared, NoPictureYet,
       HeldWhileCopied
  <2> QED BY <2>4, <2>5, <2>6 DEF DeviceIInv
<1>6. CASE PutBuffer
  <2>1. /\ \/ driver' = driver \cup {held} /\ lost' = lost
           \/ lost' = lost \cup {held} /\ driver' = driver
        /\ held' = None /\ filled' = filled /\ InFilled' = InFilled
        /\ cam = "copied" /\ cam' = "select" /\ held # None
    BY <1>6 DEF PutBuffer, CamGoto, DeviceIInv, HeldWhileCopied, InFilled
  <2>2. held \in Buffers(n_buffers)
    BY <2>1 DEF DeviceIInv, DeviceTypeOK
  <2>3. DeviceTypeOK'
    BY <1>1, <1>2, <2>1, <2>2 DEF DeviceIInv, DeviceTypeOK
  <2>4. BuffersAccounted'
    BY <1>1, <1>2, <1>3, <2>1, <2>2 DEF BuffersAccounted, Distinct
  <2>5. CreatedPrepared' /\ NoPictureYet' /\ HeldWhileCopied'
    BY <1>1, <2>1 DEF DeviceIInv, CreatedPrepared, NoPictureYet,
       HeldWhileCopied
  <2> QED BY <2>3, <2>4, <2>5 DEF DeviceIInv
<1>7. CASE DequeueFails
  <2>1. /\ UNCHANGED <<driver, held>> /\ held = None
        /\ cam = "select" /\ cam' = "sleeping"
    BY <1>7 DEF DequeueFails, CamGoto, DeviceIInv, HeldWhileCopied
  <2>2. CreatedPrepared' /\ NoPictureYet' /\ HeldWhileCopied'
    BY <1>1, <2>1 DEF DeviceIInv, CreatedPrepared, NoPictureYet,
       HeldWhileCopied
  <2>3. CASE UNCHANGED <<filled, lost>>
    <3>1. DeviceTypeOK'
      BY <1>1, <2>1, <2>3 DEF DeviceIInv, DeviceTypeOK
    <3>2. BuffersAccounted'
      BY <1>1, <2>1, <2>3 DEF DeviceIInv, BuffersAccounted, InFilled
    <3> QED BY <2>2, <3>1, <3>2 DEF DeviceIInv
  <2>4. CASE ~UNCHANGED <<filled, lost>>
    <3>1. /\ filled # << >> /\ filled' = Tail(filled)
          /\ lost' = lost \cup {Head(filled)}
      BY <1>7, <2>4 DEF DequeueFails
    <3>2. /\ filled' \in Seq(Buffers(n_buffers)) /\ Distinct(filled')
          /\ InFilled' = InFilled \ {Head(filled)}
          /\ Head(filled) \in InFilled /\ Head(filled) \in Buffers(n_buffers)
      BY <1>2, <1>3, <3>1, TailElements, FilledElements
    <3>3. Head(filled) # None
      BY <1>2, <3>2
    <3>4. DeviceTypeOK'
      BY <1>1, <1>2, <2>1, <3>1, <3>2 DEF DeviceIInv, DeviceTypeOK
    <3>5. BuffersAccounted'
      BY <1>1, <1>3, <2>1, <3>1, <3>2, <3>3 DEF BuffersAccounted, Distinct
    <3> QED BY <2>2, <3>4, <3>5 DEF DeviceIInv
  <2> QED BY <2>3, <2>4
<1> QED BY <1>4, <1>5, <1>6, <1>7

(* The others end the thread or the process, sleep, or go on to copy.       *)
LEMMA RestIInv ==
  DeviceIInv /\ (SelectTimeout \/ SelectFails \/ Slept \/ GetFrame
                  \/ GetFrameNowhere)
    => DeviceIInv'
<1> SUFFICES ASSUME DeviceIInv, SelectTimeout \/ SelectFails \/ Slept
                          \/ GetFrame \/ GetFrameNowhere
             PROVE  DeviceIInv'
  OBVIOUS
<1>1. /\ UNCHANGED <<fd, req_count, n_buffers, frame_list, connected,
                     start_camera, index, streaming, driver, filled, held, lost>>
      /\ InFilled' = InFilled
      /\ \/ cam = "select" /\ cam' = "ended" /\ main' = main
         \/ cam = "sleeping" /\ cam' = "select" /\ main' = main
         \/ cam = "dequeued" /\ cam' = "copied" /\ main' = main
         \/ cam = "dequeued" /\ cam' = cam /\ main' = "crashed"
  BY DEF SelectTimeout, SelectFails, Slept, GetFrame, GetFrameNowhere, CamGoto,
         initVars, captureVars, InFilled
<1>2. DeviceTypeOK'
  BY <1>1 DEF DeviceIInv, DeviceTypeOK
<1>3. BuffersAccounted'
  BY <1>1 DEF DeviceIInv, BuffersAccounted
<1>4. CreatedPrepared' /\ NoPictureYet' /\ HeldWhileCopied'
  BY <1>1 DEF DeviceIInv, CreatedPrepared, NoPictureYet, HeldWhileCopied
<1> QED BY <1>2, <1>3, <1>4 DEF DeviceIInv

LEMMA StutterIInv == DeviceIInv /\ UNCHANGED deviceVars => DeviceIInv'
BY DEF DeviceIInv, deviceVars, initVars, captureVars, DeviceTypeOK,
   BuffersAccounted, InFilled, CreatedPrepared, NoPictureYet, HeldWhileCopied

(* The invariant holds throughout, whatever requests fail.                  *)
THEOREM DeviceInvariance == DeviceSpec => []DeviceIInv
<1>1. DeviceInit => DeviceIInv
  BY DeviceInitIInv
<1>2. DeviceIInv /\ [DeviceNext]_deviceVars => DeviceIInv'
  BY MainIInv, DataConnectionIInv, StartIInv, CaptureIInv, RestIInv,
     StutterIInv DEF DeviceNext, CameraThread
<1> QED BY <1>1, <1>2, PTL DEF DeviceSpec

(* Every variable of the device keeps to its values.                        *)
THEOREM DeviceTypeCorrect == DeviceSpec => []DeviceTypeOK
<1>1. DeviceIInv => DeviceTypeOK
  BY DEF DeviceIInv
<1> QED BY <1>1, DeviceInvariance, PTL

(* The driver never writes to a buffer that is copied from or waits to be,  *)
(* and a buffer disappears only through a get_buffer or put_buffer that     *)
(* fails (v4l2.c), for every number of buffers.                             *)
THEOREM BuffersAccountedHolds == DeviceSpec => []BuffersAccounted
<1>1. DeviceIInv => BuffersAccounted
  BY DEF DeviceIInv
<1> QED BY <1>1, DeviceInvariance, PTL
=============================================================================
