------------------------------ MODULE Recorder ------------------------------
(***************************************************************************)
(* audio_capture (audio/record.c) in full: the capture end of BufferQueue  *)
(* with the ALSA device behind it.  The other end, the queue with its      *)
(* lists and the command thread are those of BufferQueue and BufferList:   *)
(* the steps here are theirs, with what they do to the device.             *)
(*                                                                         *)
(* Of the device: snd_pcm_open sets the global "handle" when it succeeds   *)
(* and leaves it alone when it fails; reading needs an open and configured *)
(* handle.  A handle that has been closed but not cleared dangles.         *)
(***************************************************************************)
EXTENDS BufferList

VARIABLES
  handle,        \* the global: "null", "open", or "closed" (it dangles)
  configured,    \* the device of handle has its rate, channels and format
  pre_sound,     \* the globals with which set_alsa_record_config
  cur_sound,     \*   tells that there is nothing to configure
  step           \* where audio_capture is within a case of its switch

deviceVars   == <<handle, configured, pre_sound, cur_sound, step>>
recorderVars == <<linkedVars, deviceVars>>

RecorderInit ==
  /\ LinkedInit
  /\ handle = "null" /\ configured = FALSE
  /\ pre_sound = 0 /\ cur_sound = 0
  /\ step = "none"

(* set_alsa_record_config returns early when pre_sound = cur_sound; else it *)
(* configures the device and returns 1, or -1 if the driver refuses.        *)
Configures == pre_sound # cur_sound

-----------------------------------------------------------------------------
(* RECORDER_INIT.  (The device of an earlier session is still open, and is  *)
(* lost: nothing closes it.)                                                *)
InitOpen ==
  /\ pc["in"] = "device" /\ step = "none"
  /\ step' = "config"
  /\ handle' = "open" /\ configured' = FALSE
  /\ UNCHANGED <<linkedVars, pre_sound, cur_sound>>

InitOpenFails ==
  /\ step = "none"
  /\ DeviceFailed("in")
  /\ UNCHANGED <<heap, deviceVars>>

(* The result of set_alsa_record_config is not looked at.                   *)
InitConfig ==
  /\ step = "config"
  /\ DeviceOpened("in")
  /\ step' = "none"
  /\ configured' \in IF Configures THEN BOOLEAN ELSE {configured}
  /\ pre_sound' = cur_sound
  /\ UNCHANGED <<heap, handle, cur_sound>>

(* RECORDER_CAPTURE: snd_pcm_readi returns samples, or an error; it must    *)
(* fail if the device has not been configured.                              *)
Read ==
  /\ pc["in"] = "using" /\ handle = "open" /\ configured
  /\ Use("in")
  /\ UNCHANGED <<heap, deviceVars>>

(* snd_pcm_close; handle is not cleared.                                    *)
ReadFails ==
  /\ pc["in"] = "using"
  /\ ReadFailed("in")
  /\ handle' = "closed" /\ configured' = FALSE
  /\ UNCHANGED <<heap, pre_sound, cur_sound, step>>

(* Wrong: pre_sound keeps its value.                                        *)
WrongResetOpen ==
  /\ pc["in"] = "away" /\ step = "none"
  /\ \/ /\ handle' = "open"
        /\ step' = "config"
     \/ /\ UNCHANGED handle
        /\ step' = IF handle = "null" THEN "none" ELSE "config"
  /\ configured' = FALSE
  /\ UNCHANGED <<linkedVars, pre_sound, cur_sound>>

(* RECORDER_RESET: open once, and again only WHILE handle is NULL.          *)
ResetOpen ==
  /\ pc["in"] = "away" /\ step = "none"
  /\ pre_sound' = 0
  /\ \/ /\ handle' = "open"
        /\ step' = "config"
     \/ /\ UNCHANGED handle
        /\ step' = IF handle = "null" THEN "none" ELSE "config"
  /\ configured' = FALSE
  /\ UNCHANGED <<linkedVars, cur_sound>>

(* The device is configured.  (What a dangling handle does is undefined: it *)
(* may seem to work.)                                                       *)
ResetConfig ==
  /\ pc["in"] = "away" /\ step = "config"
  /\ DeviceReset("in")
  /\ step' = "none"
  /\ configured' = (configured \/ Configures)
  /\ pre_sound' = cur_sound
  /\ UNCHANGED <<heap, handle, cur_sound>>

(* The driver refuses: the device is closed, handle cleared, and RECORDER_RESET  *)
(* done again.                                                              *)
ResetRefused ==
  /\ pc["in"] = "away" /\ step = "config" /\ Configures
  /\ step' = "none"
  /\ handle' = "null" /\ configured' = FALSE
  /\ pre_sound' = cur_sound
  /\ UNCHANGED <<linkedVars, cur_sound>>

(* Reading from a dangling handle is undefined: it may seem to work.        *)
ReadDangling ==
  /\ pc["in"] = "using" /\ handle = "closed"
  /\ Use("in")
  /\ UNCHANGED <<heap, deviceVars>>

Device == \/ InitOpen \/ InitOpenFails \/ InitConfig
          \/ Read \/ ReadDangling \/ ReadFails
          \/ ResetOpen \/ ResetConfig \/ ResetRefused

(* The steps of audio_capture that concern the queue alone.                 *)
CaptureQueue ==
  /\ \/ /\ \/ OpenQueue("in") \/ GetStopped("in") \/ GetHead("in")
           \/ GetWait("in") \/ Wake("in") \/ Cancelled("in")
           \/ NotCancelled("in") \/ GetAgain("in")
        /\ UNCHANGED heap
     \/ PassNode("in")
  /\ UNCHANGED deviceVars

(* Command 8 sets cur_sound before anything else.                           *)
Start == /\ AudioStart
         /\ cur_sound' = 1
         /\ UNCHANGED <<heap, handle, configured, pre_sound, step>>

Send    == (PassNode("out") \/ LeaveNodes("out")) /\ UNCHANGED deviceVars
Stop    == AudioEnd /\ UNCHANGED <<heap, deviceVars>>
Proceed == (LinkedDisable \/ (Enable /\ UNCHANGED heap)) /\ UNCHANGED deviceVars

RecorderNext == Device \/ CaptureQueue \/ Send \/ Start \/ Stop \/ Proceed

RecorderSpec == RecorderInit /\ [][RecorderNext]_recorderVars

(* The threads run, and a read from the sound card returns, with samples or *)
(* an error.  Nothing is assumed of what comes out of opening and           *)
(* configuring a device.  While handle is NULL, RECORDER_RESET tries to     *)
(* open the device for ever, and does not look at the queue meanwhile.      *)
Working == /\ WF_recorderVars(CaptureQueue)
           /\ WF_recorderVars(Read \/ ReadDangling \/ ReadFails)
           /\ WF_recorderVars(handle # "null" /\ ResetOpen)
           /\ WF_recorderVars(ResetConfig \/ ResetRefused)
           /\ WF_recorderVars(InitOpen \/ InitOpenFails)
           /\ WF_recorderVars(InitConfig)
           /\ WF_recorderVars(Send) /\ WF_recorderVars(Proceed)

FairRecorderSpec == RecorderSpec /\ Working

-----------------------------------------------------------------------------
(* The device that a reset has opened is configured when audio_capture goes *)
(* back to reading: set_alsa_record_config returns early when it finds      *)
(* nothing to change, so this hangs on what command 8 has left in cur_sound *)
(* before the thread could be here, and on pre_sound being cleared.  (A     *)
(* device opened at a START may well be left as it is.)                     *)
ResetConfigures ==
  [][pc["in"] = "away" /\ pc'["in"] # "away" /\ handle = "open"
       => configured']_recorderVars

(* While the recorder is left on, audio_capture gets to read a device that  *)
(* is open and configured again and again: above all in a second session,   *)
(* whose device the early return of set_alsa_record_config leaves as it is, *)
(* so that only a failed read and a reset put it right.  The exceptions:    *)
(* the device cannot be opened at a start; the thread never gets out of     *)
(* RECORDER_RESET, the device being gone or refusing its parameters; or it  *)
(* reads through a closed handle (see NoDangling).                          *)
Recovers ==
  <>[](record_state = 1 /\ cmd = "idle") =>
     \/ []<>(pc["in"] = "using" /\ handle = "open" /\ configured)
     \/ <>[](pc["in"] = "open")
     \/ <>[](pc["in"] = "away")
     \/ []<>(pc["in"] = "using" /\ handle = "closed")

(* "Open audio(alsas) device failed! Sleep 100ms And Try Again !": when the *)
(* reset cannot open the device, it is tried again, so nothing is ever      *)
(* configured or read through a handle that has been closed.                *)
NoDangling == step = "config" \/ pc["in"] = "using" => handle # "closed"
=============================================================================
