--------------------------- MODULE CameraControls ---------------------------
(***************************************************************************)
(* The controls of the camera besides its format: those of the extension   *)
(* unit (video/sonix_xu_ctrls.c), quantisation and bit rate for two, and   *)
(* those of V4L2 (video/v4l2uvc.c).  Each function is a few requests to    *)
(* the device, every one of which may fail, and is one step here, since    *)
(* only one thread has the descriptor.                                     *)
(*                                                                         *)
(* The extension unit has one control for all the registers of its coder:  *)
(* a first request switches it to a register, the next one sets or gets    *)
(* what is there.                                                          *)
(***************************************************************************)
EXTENDS Integers

CONSTANTS
  Controls,      \* the V4L2 controls that are asked for
  Info,          \* what the driver says of each
  Values,        \* what callers ask V4L2 controls to be
  QPs, BitRates  \* quantisation and bit rate (in kbit/s) that callers ask for

(* Of the types, 1 are integers, 2 booleans, 3 menus.                       *)
ControlInfo == [known: BOOLEAN, disabled: BOOLEAN, grabbed: BOOLEAN,
                type: 1..6, minimum: Int, maximum: Int, step: Nat \ {0},
                default_value: Int]

PanTilt == {"PANTILT_RELATIVE", "PANTILT_RESET"}

ASSUME ControlsAssumption ==
  /\ PanTilt \subseteq Controls
  /\ Info \in [Controls -> ControlInfo]
  /\ \A c \in Controls : /\ Info[c].minimum <= Info[c].default_value
                          /\ Info[c].default_value <= Info[c].maximum
  /\ Values \subseteq Int

VARIABLES
  extension,     \* what the driver knows of the unit: how far XU_Init_Ctrl got
  selected,      \* the register that the unit is switched to
  register,      \* the first two bytes of each register
  value,         \* the V4L2 controls
  result,        \* what the last call returned, or the number it has got
  asked          \* history: what the last call that set a register asked for

controlVars == <<extension, selected, register, value, result, asked>>
xuVars      == <<extension, selected, register, asked>>

Registers == {"QP", "BitRate"}
Unasked   == -1                 \* it was not by a function of this register

-----------------------------------------------------------------------------
(* The extension unit.                                                      *)

EEXIST == 17

(* Seven controls are added, then mapped.  An error at adding that is not   *)
(* EACCES counts as "exists already": the first one added before ends it.   *)
XU_Init_Ctrl ==
  /\ \/ /\ extension # "none" /\ UNCHANGED extension
        /\ result' \in {-1, -EEXIST}
     \/ /\ extension = "none"
        /\ \/ extension' \in {"none", "adding"} /\ result' \in {-1, -EEXIST}
           \/ extension' \in {"added", "mapping"} /\ result' = -2
           \/ extension' = "ready" /\ result' = 0
  /\ UNCHANGED <<selected, register, value, asked>>

Fails == result' = -1

(* Wrong: the unit is switched only if it has not been before.              *)
WrongSwitch(r) == IF selected = "none" THEN r ELSE selected

Switch(r) == r

(* The switch fails, or the request after it, or neither: then the register *)
(* that the unit is switched to has these bytes.                            *)
SetRegister(r, bytes, number) ==
  /\ \/ UNCHANGED <<selected, register, asked>> /\ Fails
     \/ selected' = Switch(r) /\ UNCHANGED <<register, asked>> /\ Fails
     \/ /\ selected' = Switch(r)
        /\ register' = [register EXCEPT ![Switch(r)] = bytes]
        /\ asked' = [asked EXCEPT ![r] = number]
        /\ result' = 0
  /\ UNCHANGED <<extension, value>>

(* The bytes that can be read once the unit has been switched.              *)
Selected(r) == register[Switch(r)]

GetRegister(r, number) ==
  /\ \/ UNCHANGED selected /\ Fails
     \/ selected' = Switch(r) /\ Fails
     \/ selected' = Switch(r) /\ result' = number
  /\ UNCHANGED <<extension, register, value, asked>>

XU_H264_Set_QP(QP_Val) ==
  SetRegister("QP", <<QP_Val % 256, 0>>, QP_Val)
XU_H264_Get_QP == GetRegister("QP", Selected("QP")[1])

(* The unit of bit rate: 512 bytes a frame, at m_CurrentFPS = 24 frames a   *)
(* second, whatever format is committed.                                    *)
BitRateUnit == 512 * 24 * 8

BitRate_CtrlNum(BitRate) == (BitRate * 1000) \div BitRateUnit

ASSUME RegistersAssumption ==      \* as much as a register's bytes hold
  /\ \A v \in QPs : v \in Nat /\ v <= 255
  /\ \A r \in BitRates : r \in Nat /\ BitRate_CtrlNum(r) <= 65535

XU_H264_Set_BitRate(BitRate) ==
  LET n == BitRate_CtrlNum(BitRate)
  IN  SetRegister("BitRate", <<(n \div 256) % 256, n % 256>>, BitRate)

(* (In bit/s here, to have a whole number.)                                 *)
XU_H264_Get_BitRate ==
  LET b == Selected("BitRate")
  IN  GetRegister("BitRate", (b[1] * 256 + b[2]) * BitRateUnit)

(* The caller's own bytes: a switch, or something for the register that     *)
(* has been switched to.                                                    *)
XU_Set ==
  /\ \/ UNCHANGED <<selected, register, asked>> /\ Fails
     \/ /\ selected' \in Registers /\ result' = 0
        /\ UNCHANGED <<register, asked>>
     \/ /\ selected # "none" /\ result' = 0
        /\ \E v \in QPs : /\ register' = [register EXCEPT ![selected] = <<v, 0>>]
                          /\ asked' = [asked EXCEPT ![selected] = Unasked]
        /\ UNCHANGED selected
  /\ UNCHANGED <<extension, value>>

XU_Get == result' \in {-1, 0} /\ UNCHANGED <<xuVars, value>>

(* Writes what is to be read, a second time if that fails, and reads it.    *)
XU_Ctrl_ReadChipID == result' \in {-1, 0} /\ UNCHANGED <<xuVars, value>>

-----------------------------------------------------------------------------
(* V4L2.                                                                    *)

(* The flags are compared with the number of a type, which is that of the   *)
(* flag "grabbed"; of the type, one bit is looked at.                       *)
isv4l2Control(c) ==
  IF ~Info[c].known \/ Info[c].disabled THEN -1
  ELSE IF Info[c].grabbed THEN 1
  ELSE IF Info[c].type % 2 = 1 THEN 0
  ELSE -1

Refused == Fails /\ UNCHANGED value

Clamped(c, v) == IF v < Info[c].minimum THEN Info[c].minimum
                 ELSE IF v > Info[c].maximum THEN Info[c].maximum ELSE v

(* VIDIOC_S_CTRL: the driver takes what is nearest, but nothing while the   *)
(* control is grabbed by another program.                                   *)
Request(c, v, ok) ==
  \/ /\ ~Info[c].grabbed
     /\ value' = [value EXCEPT ![c] = Clamped(c, v)]
     /\ result' = ok
  \/ Refused

(* isv4l2Control, which may fail, too, allows to go on.                     *)
IfControl(c, Then) == Refused \/ (isv4l2Control(c) >= 0 /\ Then)

v4l2GetControl(c) == IfControl(c, result' = value[c] /\ UNCHANGED value)

(* What a control is taken to be where the result of v4l2GetControl is not  *)
(* looked at.                                                               *)
Read(c) == {value[c], -1}

(* What is out of range is not asked for, and no error either.              *)
v4l2SetControl(c, v) ==
  IfControl(c, IF v >= Info[c].minimum /\ v <= Info[c].maximum
               THEN Request(c, v, 0)
               ELSE result' = 0 /\ UNCHANGED value)

(* At the limit, control_s.value is returned without having been set.       *)
Uninitialised == {-1, 0, 1000}

(* By one step, up or down; only the limit on that side is looked at.       *)
StepControl(c, direction, limit) ==
  IfControl(c, \E current \in Read(c) :
                 LET v == current + direction * Info[c].step
                 IN  IF direction * v <= direction * limit
                     THEN Request(c, v, v)
                     ELSE result' \in Uninitialised /\ UNCHANGED value)

v4l2UpControl(c)   == StepControl(c, 1, Info[c].maximum)
v4l2DownControl(c) == StepControl(c, -1, Info[c].minimum)

v4l2ToggleControl(c) ==
  \/ Refused
  \/ /\ isv4l2Control(c) = 1
     /\ \E current \in Read(c) :
          LET v == IF current = 0 THEN 1 ELSE 0 IN Request(c, v, v)

v4l2ResetControl(c) == IfControl(c, Request(c, Info[c].default_value, 0))

v4l2ResetPanTilt(pantilt) ==
  IfControl("PANTILT_RESET", Request("PANTILT_RESET", pantilt % 256, 0))

(* Pan and tilt are two shorts in one number.                               *)
v4L2UpDownPan(inc) ==
  IfControl("PANTILT_RELATIVE", Request("PANTILT_RELATIVE", inc % 65536, 0))
v4L2UpDownTilt(inc) ==
  IfControl("PANTILT_RELATIVE", Request("PANTILT_RELATIVE", inc * 65536, 0))

V4L2Call ==
  /\ \/ \E c \in Controls : \/ v4l2GetControl(c) \/ v4l2UpControl(c)
                            \/ v4l2DownControl(c) \/ v4l2ToggleControl(c)
                            \/ v4l2ResetControl(c)
                            \/ \E v \in Values : v4l2SetControl(c, v)
     \/ \E v \in Values : \/ v4l2ResetPanTilt(v) \/ v4L2UpDownPan(v)
                          \/ v4L2UpDownTilt(v)
  /\ UNCHANGED xuVars

XUCall == \/ XU_Init_Ctrl \/ XU_Set \/ XU_Get \/ XU_Ctrl_ReadChipID
          \/ XU_H264_Get_QP \/ XU_H264_Get_BitRate
          \/ \E v \in QPs : XU_H264_Set_QP(v)
          \/ \E r \in BitRates : XU_H264_Set_BitRate(r)

-----------------------------------------------------------------------------
ControlsTypeOK ==
  /\ extension \in {"none", "adding", "added", "mapping", "ready"}
  /\ selected \in Registers \cup {"none"}
  /\ register \in [Registers -> Nat \X Nat]
  /\ \A r \in Registers : register[r][1] <= 255 /\ register[r][2] <= 255
  /\ asked \in [Registers -> {Unasked} \cup Nat]
  /\ value \in [Controls -> Int]
  /\ \A c \in Controls : Info[c].minimum <= value[c] /\ value[c] <= Info[c].maximum
  /\ result \in Int

(* Whatever calls have been made, in whatever order, and whichever of their *)
(* requests failed: each register has what was asked for it, and not what   *)
(* was meant for the other; of a bit rate, what is less than a unit below.  *)
RegistersAsAsked ==
  /\ asked["QP"] # Unasked => register["QP"][1] = asked["QP"]
  /\ asked["BitRate"] # Unasked =>
       LET b == register["BitRate"]
           d == asked["BitRate"] * 1000 - (b[1] * 256 + b[2]) * BitRateUnit
       IN  d >= 0 /\ d < BitRateUnit

=============================================================================
