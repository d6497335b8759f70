--------------------------- MODULE CameraSetting ----------------------------
(***************************************************************************)
(* camera_setting (video/SONiX_UVC_TestAP.c): what the server asks of the  *)
(* camera when it starts, one thing after the other and whatever becomes   *)
(* of each.  The camera is as a server before has left it.  The functions  *)
(* it uses are a library for more than that: a program that begins with    *)
(* the stage "unit" or "v4l2" calls those of one file as it likes.         *)
(***************************************************************************)
EXTENDS H264Format, CameraControls

CONSTANT Resets   \* the V4L2 controls that are reset, in order

ASSUME ResetsAssumption == Resets \in Seq(Controls)

VARIABLES
  stage,         \* which call of camera_setting comes next
  resets         \* those that are still to be reset

vars == <<formatVars, controlVars, stage, resets>>

Stages == {"xu", "format", "bitrate", "reset", "done", "unit", "v4l2"}

SomeTable == CHOOSE t \in Tables : TRUE

SettingInit ==
  /\ FormatInit
  /\ extension \in {"none", "mapping", "ready"}
  /\ selected \in {"none", "QP"}
  /\ register = [r \in Registers |-> <<0, 0>>]
  /\ value = [c \in Controls |-> Info[c].minimum]
  /\ result = 0
  /\ asked = [r \in Registers |-> Unasked]
  /\ stage \in {"xu", "unit", "v4l2"}
  /\ stage # "xu" => /\ table = SomeTable
                      /\ beyond = 0 /\ extension = "none" /\ selected = "none"
  /\ resets = Resets

(* A failure is only remembered.                                            *)
Remember == /\ healthy' = (healthy /\ result' = 0)
            /\ UNCHANGED <<table, beyond, pc, fwLen, fwData, Copyleft, cur_len,
                           cnt, allocated, gH264fmt, success, committed>>

InitCtrl ==
  /\ stage = "xu" /\ stage' = "format"
  /\ XU_Init_Ctrl
  /\ UNCHANGED <<formatVars, resets>>

(* H264_GetFormat and XU_H264_SetFormat.                                    *)
SetFormats ==
  /\ stage = "format"
  /\ FormatNext
  /\ stage' = IF pc' = "done" THEN "bitrate" ELSE "format"
  /\ UNCHANGED <<controlVars, resets>>

m_BitRate == 1600

SetBitRate ==
  /\ stage = "bitrate" /\ stage' = "reset"
  /\ XU_H264_Set_BitRate(m_BitRate)
  /\ Remember
  /\ UNCHANGED resets

More == resets # << >>

Reset ==
  /\ stage = "reset" /\ More
  /\ v4l2ResetControl(Head(resets))
  /\ resets' = Tail(resets)
  /\ Remember
  /\ UNCHANGED <<xuVars, stage>>

Finished ==
  /\ stage = "reset" /\ ~More
  /\ stage' = "done"
  /\ UNCHANGED <<formatVars, controlVars, resets>>

(* Another program than the server.                                         *)
Library ==
  /\ \/ stage = "unit" /\ XUCall
     \/ stage = "v4l2" /\ V4L2Call
  /\ UNCHANGED <<formatVars, stage, resets>>

Next == InitCtrl \/ SetFormats \/ SetBitRate \/ Reset \/ Finished \/ Library

Spec == SettingInit /\ [][Next]_vars

-----------------------------------------------------------------------------
SettingTypeOK ==
  /\ FormatTypeOK /\ ControlsTypeOK
  /\ stage \in Stages
  /\ resets \in Seq(Controls)

(* Each stage begins when the one before has ended.                         *)
InOrder ==
  /\ stage \in {"xu", "unit", "v4l2"} => pc = "init"
  /\ stage = "format" => pc # "done"
  /\ stage \in {"bitrate", "reset", "done"} => pc = "done"

(* What has been done without a failure: after the n-th control has been    *)
(* reset, the others are still to be.                                       *)
DoneSoFar ==
  /\ stage = "reset" =>
       /\ Len(resets) <= Len(Resets)
       /\ \A k \in DOMAIN resets :
            resets[k] = Resets[Len(Resets) - Len(resets) + k]
  /\ stage \in {"xu", "format", "bitrate"} => resets = Resets
  /\ stage = "done" => resets = << >>
  /\ stage \in {"reset", "done"} /\ healthy =>
       /\ register["BitRate"] = <<0, 16>>
       /\ \A i \in 1..(Len(Resets) - Len(resets)) :
            value[Resets[i]] = Info[Resets[i]].default_value

(* When no request has failed, the camera is set up, however it was before: *)
(* the formats known and the first one committed as the camera's table has  *)
(* them, the bit rate that was asked for, and the controls at their         *)
(* defaults.  (16 units are what 1600 kbit/s has of them.)                  *)
SettingComplete ==
  stage = "done" /\ healthy =>
    /\ TableAsDevice /\ CommitsTable
    /\ register["BitRate"] = <<0, 16>>
    /\ \A i \in DOMAIN Resets : value[Resets[i]] = Info[Resets[i]].default_value
=============================================================================
