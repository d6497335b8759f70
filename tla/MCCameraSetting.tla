-------------------------- MODULE MCCameraSetting --------------------------
(* Small instances of CameraSetting for TLC.                                *)
EXTENDS CameraSetting, SequencesExt

Rates == << <<7, 161, 255, 255>>, <<15, 66, 0, 9>>, <<31, 132, 1, 2>> >>

WithRates(w, h, n) == [wWidth |-> w, wHeight |-> h, FrameSize |-> <<1, 2, 3, 4>>,
                       FrPay |-> SubSeq(Rates, 1, n)]

(* Cameras with one format or several, with no frame rate up to three: 9,   *)
(* 17, 22, 38 and 43 bytes, ending within a block of 11 or, 22, with one.   *)
FormatLists == { <<WithRates(320, 240, 0)>>, <<WithRates(1280, 720, 2)>>,
                 <<WithRates(320, 240, 0), WithRates(1280, 720, 1)>>,
                 <<WithRates(1280, 720, 3), WithRates(320, 240, 2)>>,
                 <<WithRates(640, 480, 2), WithRates(320, 240, 1),
                   WithRates(1280, 720, 1)>> }

(* As the device tells them: 9 bytes, and 4 for each frame rate.            *)
BytesOf(f) == <<f.wWidth \div 256, f.wWidth % 256, f.wHeight \div 256,
                f.wHeight % 256, Len(f.FrPay)>> \o f.FrameSize
              \o FlattenSeq(f.FrPay)

Begins(fs) ==
  LET at[k \in 1..Len(fs) + 1] == IF k = 1 THEN 0
                                  ELSE at[k - 1] + Len(BytesOf(fs[k - 1]))
  IN  at

MCTables == {[formats |-> fs, at |-> Begins(fs),
              bytes |-> FlattenSeq([k \in DOMAIN fs |-> BytesOf(fs[k])])]
               : fs \in FormatLists}

(* Right for one of the tables, and wrong for the others, or for all.       *)
MCLengths == {9, 17, 18, 22, 38, 43}

Control(type, grabbed, min, max, default) ==
  [known |-> TRUE, disabled |-> FALSE, grabbed |-> grabbed, type |-> type,
   minimum |-> min, maximum |-> max, step |-> 1, default_value |-> default]

(* One that can be read as -1, which is also what a failure returns, one in *)
(* use elsewhere, and those of a turning camera.                            *)
MCInfo == [HUE |-> Control(1, FALSE, -2, 1, 0), GAIN |-> Control(3, TRUE, 0, 2, 1),
           CONTRAST |-> Control(1, FALSE, 0, 2, 2),
           PANTILT_RESET |-> Control(3, FALSE, 0, 3, 0),
           PANTILT_RELATIVE |-> Control(1, FALSE, 0, 3, 0)]

MCControls == DOMAIN MCInfo
MCResets   == <<"HUE", "CONTRAST">>
MCValues   == {-2, 0, 1, 257}
=============================================================================
