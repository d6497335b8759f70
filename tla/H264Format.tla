----------------------------- MODULE H264Format -----------------------------
(***************************************************************************)
(* The formats of the camera: what camera_setting                          *)
(* (video/SONiX_UVC_TestAP.c) does with H264_GetFormat and                 *)
(* XU_H264_SetFormat (video/sonix_xu_ctrls.c) when the server starts.      *)
(*                                                                         *)
(* The table of formats is asked for byte by byte, in a form of its own:   *)
(* it is read in blocks of 11 bytes, counted, and parsed into gH264fmt.    *)
(* Any of the requests to the device can fail.  A number of 32 bits is     *)
(* kept as its four bytes, the most significant one first.                 *)
(***************************************************************************)
EXTENDS Integers, Sequences

CONSTANTS
  Tables,        \* the tables of formats that cameras have
  Lengths        \* the lengths that they may tell instead of the right one

Byte   == {n \in Nat : n < 256}
Short  == {n \in Nat : n < 65536}
Word   == [1..4 -> Byte]
Format == [wWidth: Short, wHeight: Short, FrameSize: Word, FrPay: Seq(Word)]

(* A table: its formats, the bytes in which the device tells them, and      *)
(* behind how many of these each of them begins (and the last one ends).    *)
Table == [formats: Seq(Format), bytes: Seq(Byte), at: Seq(Nat)]

Size(n) == 9 + n * 4            \* of a format with n frame rates

(* The device has written the format f behind the first i bytes of b.       *)
Written(f, b, i) ==
  /\ b[i + 1] = f.wWidth \div 256  /\ b[i + 2] = f.wWidth % 256
  /\ b[i + 3] = f.wHeight \div 256 /\ b[i + 4] = f.wHeight % 256
  /\ b[i + 5] = Len(f.FrPay)
  /\ \A k \in 1..4 : b[i + 5 + k] = f.FrameSize[k]
  /\ \A j \in DOMAIN f.FrPay, k \in 1..4 :
        b[i + 9 + 4 * (j - 1) + k] = f.FrPay[j][k]

ASSUME TablesAssumption ==
  \A t \in Tables :
    /\ t \in Table
    /\ Len(t.at) = Len(t.formats) + 1
    /\ t.at[1] = 0 /\ t.at[Len(t.at)] = Len(t.bytes)
    /\ \A k \in DOMAIN t.at : t.at[k] <= Len(t.bytes)
    /\ \A k \in DOMAIN t.formats :
         /\ t.at[k + 1] = t.at[k] + Size(Len(t.formats[k].FrPay))
         /\ Written(t.formats[k], t.bytes, t.at[k])

ASSUME LengthsAssumption == Lengths \subseteq Short

VARIABLES
  table,         \* the camera's table
  beyond,        \* what the memory behind an allocated block holds
  healthy,       \* history: every request has been answered, and rightly
  pc,            \* which function, or which loop of it, is executing
  fwLen, fwData, \* the table as bytes, and how many they are
  Copyleft,      \* the bytes still to be read
  cur_len,       \* how far counting or parsing has come
  cnt,           \* fmtCnt, and then cur_fmtid
  allocated,     \* how many formats gH264fmt has room for (0: it is NULL)
  gH264fmt,      \* the formats parsed so far
  success,       \* what H264_GetFormat returns
  committed      \* the format the device was set to, or "none"

formatVars == <<table, beyond, healthy, pc, fwLen, fwData, Copyleft, cur_len,
                cnt, allocated, gH264fmt, success, committed>>

(* 1280 x 720, 20 frames per second.                                        *)
Default_fwData == <<5, 0, 2, 208, 1, 255, 255, 255, 255, 7, 161, 255, 255>>

Zeros(n) == [i \in 1..n |-> 0]

(* Data[i] of the code; there may be no such byte.                          *)
Data(i) == IF i < fwLen THEN fwData[i + 1] ELSE beyond

BlockLen == 11

FormatInit ==
  /\ table \in Tables /\ beyond \in {0, 1} /\ healthy = TRUE
  /\ pc = "init"
  /\ fwLen = 0 /\ fwData = << >> /\ Copyleft = 0
  /\ cur_len = 0 /\ cnt = 0
  /\ allocated = 0 /\ gH264fmt = << >>
  /\ success = 1
  /\ committed = "none"

Reading == UNCHANGED <<table, beyond, cur_len, cnt, allocated, gH264fmt,
                       success, committed>>

-----------------------------------------------------------------------------
(* XU_H264_InitFormat; if it fails, the default table is used.              *)
InitFormat ==
  /\ pc = "init"
  /\ \/ pc' = "length" /\ UNCHANGED <<fwLen, fwData, healthy>>
     \/ /\ pc' = "count" /\ healthy' = FALSE
        /\ fwLen' = Len(Default_fwData) /\ fwData' = Default_fwData
  /\ UNCHANGED Copyleft
  /\ Reading

(* XU_H264_GetFormatLength: if it fails, the length stays 0, and the code   *)
(* goes on with that.  calloc clears the bytes.                             *)
GetFormatLength ==
  /\ pc = "length"
  /\ pc' = "data"
  /\ fwLen' \in {0, Len(table.bytes)} \cup Lengths
  /\ fwData' = Zeros(fwLen')
  /\ Copyleft' = fwLen'
  /\ healthy' = (fwLen' = Len(table.bytes))
  /\ Reading

(* Wrong: a last block that is not full is left out.                        *)
WrongBlock(n) == IF n >= BlockLen THEN BlockLen ELSE 0

(* How many bytes of a block are copied when n are left.                    *)
Block(n) == IF n >= BlockLen THEN BlockLen ELSE n

(* XU_H264_GetFormatData: one block.  The device runs on through its table. *)
GetBlock ==
  /\ pc = "data" /\ Copyleft > 0
  /\ LET from == fwLen - Copyleft
     IN  fwData' = [i \in 1..fwLen |->
                      IF i \in from + 1..from + Block(Copyleft)
                      THEN IF i <= Len(table.bytes) THEN table.bytes[i] ELSE 0
                      ELSE fwData[i]]
  /\ Copyleft' = IF Copyleft >= BlockLen THEN Copyleft - BlockLen ELSE 0
  /\ UNCHANGED <<pc, fwLen, healthy>>
  /\ Reading

(* All the blocks are there, or a request fails; again the code goes on.    *)
DataEnds ==
  /\ pc = "data"
  /\ pc' = "count"
  /\ healthy' = (healthy /\ Copyleft = 0)
  /\ UNCHANGED <<fwLen, fwData, Copyleft>>
  /\ Reading

-----------------------------------------------------------------------------
Walking == UNCHANGED <<table, beyond, healthy, fwLen, fwData, Copyleft,
                       committed>>

(* H264_CountFormat: one turn of its loop.                                  *)
CountFormat ==
  /\ pc = "count" /\ cur_len < fwLen
  /\ cur_len' = cur_len + Size(Data(cur_len + 4))
  /\ cnt' = cnt + 1
  /\ UNCHANGED <<pc, allocated, gH264fmt, success>>
  /\ Walking

(* Wrong: the formats are counted though the last is cut short.             *)
WrongAllocate ==
  /\ pc = "count" /\ cur_len >= fwLen
  /\ allocated' = cnt
  /\ pc' = "parse"
  /\ cur_len' = 0 /\ cnt' = 0
  /\ UNCHANGED <<gH264fmt, success>>
  /\ Walking

(* The count is 0 if the formats do not end with the table.  gH264fmt       *)
(* gets room for as many, if any.                                           *)
Allocate ==
  /\ pc = "count" /\ cur_len >= fwLen
  /\ allocated' = IF cur_len = fwLen THEN cnt ELSE 0
  /\ pc' = "parse"
  /\ cur_len' = 0 /\ cnt' = 0
  /\ UNCHANGED <<gH264fmt, success>>
  /\ Walking

WordAt(i) == [k \in 1..4 |-> Data(i + k - 1)]

FormatAt(i) ==
  [wWidth    |-> Data(i) * 256 + Data(i + 1),
   wHeight   |-> Data(i + 2) * 256 + Data(i + 3),
   FrameSize |-> WordAt(i + 5),
   FrPay     |-> [k \in 1..Data(i + 4) |-> WordAt(i + 9 + 4 * (k - 1))]]

(* H264_ParseFormat: one turn of its loop.                                  *)
ParseFormat ==
  /\ pc = "parse" /\ cur_len < fwLen
  /\ allocated > 0
  /\ gH264fmt' = Append(gH264fmt, FormatAt(cur_len))
  /\ cur_len' = cur_len + Size(Data(cur_len + 4))
  /\ cnt' = cnt + 1
  /\ UNCHANGED <<pc, allocated, success>>
  /\ Walking

(* It writes through gH264fmt, whether or not there is one.                 *)
ParseNowhere ==
  /\ pc = "parse" /\ cur_len < fwLen
  /\ allocated = 0
  /\ pc' = "crashed"
  /\ UNCHANGED <<cur_len, cnt, allocated, gH264fmt, success>>
  /\ Walking

(* The bytes are freed, and the function's variables gone.                  *)
ParseEnds ==
  /\ pc = "parse" /\ cur_len >= fwLen
  /\ success' = IF cur_len = fwLen THEN 1 ELSE 0
  /\ pc' = "set"
  /\ fwLen' = 0 /\ fwData' = << >> /\ Copyleft' = 0
  /\ cur_len' = 0 /\ cnt' = 0
  /\ UNCHANGED <<table, beyond, healthy, allocated, gH264fmt, committed>>

-----------------------------------------------------------------------------
Setting == UNCHANGED <<table, beyond, fwLen, fwData, Copyleft, cur_len, cnt,
                       allocated, gH264fmt, success>>

FrameRateId == 1                \* which of the rates, counted from 0

(* FrPay[FrameRateId] of the first format; there may be no such rate.       *)
Rate == IF Len(gH264fmt[1].FrPay) > FrameRateId
        THEN gH264fmt[1].FrPay[FrameRateId + 1]
        ELSE [k \in 1..4 |-> beyond]

(* H264_GetFPS: fps * 256 is the quotient of 10000000 and the interval.     *)
Interval(w) == w[1] * 256 + w[2]
FPS(w) == (10000000 \div Interval(w)) \div 256

(* XU_H264_SetFormat without formats: -EINVAL.                              *)
SetNothing ==
  /\ pc = "set" /\ allocated = 0
  /\ pc' = "done"
  /\ UNCHANGED <<committed, healthy>>
  /\ Setting

(* It prints the frames per second before anything else: a division.        *)
SetDivides ==
  /\ pc = "set" /\ allocated > 0 /\ Interval(Rate) = 0
  /\ pc' = "crashed"
  /\ UNCHANGED <<committed, healthy>>
  /\ Setting

SetRefused ==
  /\ pc = "set" /\ allocated > 0 /\ Interval(Rate) # 0
  /\ pc' = "done"
  /\ healthy' = FALSE
  /\ UNCHANGED committed
  /\ Setting

(* The bytes of the request: interval, low three bytes of the size, payload.*)
Commit(w, size) == <<2, 1, 1, w[1], w[2], size[2], size[3], size[4], w[3], w[4]>>

SetFormat ==
  /\ pc = "set" /\ allocated > 0 /\ Interval(Rate) # 0
  /\ committed' = Commit(Rate, gH264fmt[1].FrameSize)
  /\ pc' = "done"
  /\ UNCHANGED healthy
  /\ Setting

GetFormat == \/ InitFormat \/ GetFormatLength \/ GetBlock \/ DataEnds
             \/ CountFormat \/ Allocate
             \/ ParseFormat \/ ParseNowhere \/ ParseEnds
Set       == SetNothing \/ SetDivides \/ SetRefused \/ SetFormat

FormatNext == GetFormat \/ Set

-----------------------------------------------------------------------------
FormatTypeOK ==
  /\ table \in Tables /\ beyond \in {0, 1} /\ healthy \in BOOLEAN
  /\ pc \in {"init", "length", "data", "count", "parse", "set", "done",
             "crashed"}
  /\ fwData \in Seq(Byte) /\ fwLen = Len(fwData)
  /\ Copyleft \in 0..fwLen
  /\ cur_len \in Nat /\ cnt \in Nat /\ allocated \in Nat
  /\ gH264fmt \in Seq(Format) /\ Len(gH264fmt) <= allocated
  /\ success \in {0, 1}
  /\ committed = "none" \/ committed \in [1..10 -> Byte]

(* The two passes over the table agree: H264_ParseFormat fills the formats  *)
(* that H264_CountFormat made room for, all of them and no other.           *)
PassesAgree ==
  /\ pc = "parse" /\ allocated > 0 /\ cur_len < fwLen => cnt < allocated
  /\ pc = "set" => Len(gH264fmt) = allocated /\ success = 1

(* The table that is parsed is the device's own, if all of it is read, and  *)
(* the request for a format asks for what the table has, byte for byte.     *)
(* (Of the frame size, 24 bits are sent.)                                   *)
TableAsDevice == gH264fmt = table.formats

CommitsTable ==
  LET f == table.formats[1]
  IN  table.formats # << >> /\ Len(f.FrPay) > FrameRateId =>
        /\ committed[3] = 1
        /\ \A k \in 1..4 : committed[<<4, 5, 9, 10>>[k]]
                             = f.FrPay[FrameRateId + 1][k]
        /\ \A k \in 2..4 : committed[k + 4] = f.FrameSize[k]

(* The reads have the device's table as far as they have come.              *)
ReadAsDevice ==
  healthy =>
    /\ pc \in {"data", "count", "parse"} => fwLen = Len(table.bytes)
    /\ pc = "data" => \A i \in 1..(fwLen - Copyleft) : fwData[i] = table.bytes[i]
    /\ pc \in {"count", "parse"} => fwData = table.bytes

(* So counting and parsing come where the device's formats begin.           *)
WalkAsDevice ==
  healthy =>
    /\ pc \in {"count", "parse"} => /\ cnt <= Len(table.formats)
                                    /\ cur_len = table.at[cnt + 1]
    /\ pc \in {"parse", "set", "done"} => allocated = Len(table.formats)
    /\ pc = "parse" => Len(gH264fmt) = cnt
    /\ pc \in {"parse", "set", "done"} =>
         \A k \in DOMAIN gH264fmt : gH264fmt[k] = table.formats[k]
    /\ pc \in {"set", "done"} => Len(gH264fmt) = allocated
    /\ pc = "done" => CommitsTable

(* What is counted and parsed, and where each pass begins.                  *)
Counted ==
  /\ pc \in {"init", "length", "data", "count"} => gH264fmt = << >> /\ allocated = 0
  /\ pc \in {"init", "length"} => Copyleft = 0
  /\ pc \in {"init", "length", "data"} => cur_len = 0 /\ cnt = 0
  /\ pc \in {"init", "length", "data", "count", "parse"} => success = 1
  /\ pc = "parse" => /\ Len(gH264fmt) = cnt
                     /\ allocated = 0 => cur_len = 0 /\ cnt = 0
=============================================================================
