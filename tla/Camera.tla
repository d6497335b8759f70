------------------------------- MODULE Camera --------------------------------
(***************************************************************************)
(* The video threads of video/camera.c: camera_thread, which moves pictures*)
(* from the V4L2 driver into the frame list, and send_picture_thread, which*)
(* sends them, pausing video_frameinterval milliseconds after each.  With  *)
(* them, as far as they touch these threads, the network thread's data     *)
(* connection (sem_post(&start_camera), network/network.c) and command 7   *)
(* "frame interval" (network/prase_pkt.c).                                 *)
(***************************************************************************)
EXTENDS FrameList

CONSTANTS
  NBuffers,      \* n_buffers: the driver's mmap'ed buffers
  Requests       \* the frame intervals the client asks for with command 7

ASSUME NBuffersAssumption == NBuffers \in Nat \ {0, 1}
ASSUME RequestsAssumption == Requests \subseteq Nat

VARIABLES
  start_camera,         \* the semaphore
  camPc,                \* where camera_thread is
  sndPc,                \* where send_picture_thread is ("none": not created)
  queued,               \* how many buffers the driver has
  video_frameinterval,  \* the global of prase_pkt.c
  cmdPc,                \* the command thread, in case 7 of prase_packet
  pause                 \* the argument of the sender's usleep, in ms

threadVars   == <<start_camera, camPc, sndPc, queued>>
intervalVars == <<video_frameinterval, cmdPc, pause>>
vars         == <<listVars, threadVars, intervalVars>>

(* The switch of command 7: what the client sends selects a pause.          *)
Pauses == <<0, 50, 60, 70, 80, 90, 100, 110, 130, 150, 170, 200, 250, 340,
            500, 1000, 1500, 2000, 2500, 3000, 3500, 4000, 4500, 5000>>
Table == [v \in {10 * k : k \in 0..23} |-> Pauses[v \div 10 + 1]]

Interval(v) == IF v \in DOMAIN Table THEN Table[v] ELSE 0

Init ==
  /\ InitFrameList
  /\ start_camera = 0
  /\ camPc = "start" /\ sndPc = "none"
  /\ queued = 0
  /\ video_frameinterval = 0 /\ cmdPc = "idle" /\ pause = 0

CamGoto(from, to) == camPc = from /\ camPc' = to
SndGoto(from, to) == sndPc = from /\ sndPc' = to

-----------------------------------------------------------------------------
(* The data connection, the second that network() accepts, starts the       *)
(* camera.  It is accepted once.                                            *)
DataConnection ==
  /\ start_camera = 0 /\ camPc = "start"
  /\ start_camera' = 1
  /\ UNCHANGED <<listVars, camPc, sndPc, queued, intervalVars>>

-----------------------------------------------------------------------------
(* camera_thread: after sem_wait, start_capturing queues every buffer and   *)
(* the sender is created.                                                   *)
StartCapturing ==
  /\ start_camera > 0
  /\ CamGoto("start", "select")
  /\ start_camera' = start_camera - 1
  /\ queued' = NBuffers
  /\ SndGoto("none", "wait")
  /\ UNCHANGED <<listVars, intervalVars>>

(* select fails, or two seconds pass: the thread returns.                   *)
SelectGivesUp ==
  /\ CamGoto("select", "ended")
  /\ UNCHANGED <<listVars, start_camera, sndPc, queued, intervalVars>>

(* get_buffer.  (When select is interrupted, or the driver has no picture   *)
(* after all, the loop starts over: no change.)                             *)
GetBuffer ==
  /\ queued > 0 /\ captured < MaxCaptured
  /\ CamGoto("select", "dequeued")
  /\ queued' = queued - 1
  /\ UNCHANGED <<listVars, start_camera, sndPc, intervalVars>>

ClaimFrame ==
  /\ CamGoto("dequeued", "filling")
  /\ GetFrameClaim
  /\ UNCHANGED <<start_camera, sndPc, queued, intervalVars>>

FrameFilled ==
  /\ CamGoto("filling", "requeue")
  /\ GetFrameReady
  /\ UNCHANGED <<start_camera, sndPc, queued, intervalVars>>

(* put_buffer; when it fails ("skip buffer") the driver is one buffer short *)
(* from then on.                                                            *)
PutBuffer ==
  /\ CamGoto("requeue", "select")
  /\ queued' \in {queued, queued + 1}
  /\ UNCHANGED <<listVars, start_camera, sndPc, intervalVars>>

-----------------------------------------------------------------------------
(* send_picture_thread.                                                     *)
SemWait ==
  /\ pict_ready > 0
  /\ SndGoto("wait", "woken")
  /\ pict_ready' = pict_ready - 1
  /\ UNCHANGED <<pointers, fill, fm, serial, captured, lastSent, busy, free,
                 start_camera, camPc, queued, intervalVars>>

(* use_frame; the thread exits when it returns NULL.                        *)
TakeFrame ==
  /\ UseFrame
  /\ SndGoto("woken", IF fm' = NoFrame THEN "exited" ELSE "using")
  /\ UNCHANGED <<start_camera, camPc, queued, intervalVars>>

(* send_picture, then the first of two reads of video_frameinterval.        *)
SendPicture ==
  /\ SndGoto("using", IF video_frameinterval = 0 THEN "done" ELSE "pausing")
  /\ UNCHANGED <<listVars, start_camera, camPc, queued, intervalVars>>

(* The second read is the argument of usleep.                               *)
Pause ==
  /\ SndGoto("pausing", "done")
  /\ pause' = video_frameinterval
  /\ UNCHANGED <<listVars, start_camera, camPc, queued, video_frameinterval,
                 cmdPc>>

GiveBack ==
  /\ SndGoto("done", "wait")
  /\ EmptyFrame
  /\ pause' = 0
  /\ UNCHANGED <<start_camera, camPc, queued, video_frameinterval, cmdPc>>

-----------------------------------------------------------------------------
(* Command 7: the client's number is copied into the global, which is then  *)
(* replaced by what the table says.  No lock is taken.                      *)
IntervalCopied ==
  /\ cmdPc = "idle"
  /\ cmdPc' = "mapping"
  /\ video_frameinterval' \in Requests
  /\ UNCHANGED <<listVars, threadVars, pause>>

IntervalMapped ==
  /\ cmdPc = "mapping"
  /\ cmdPc' = "idle"
  /\ video_frameinterval' = Interval(video_frameinterval)
  /\ UNCHANGED <<listVars, threadVars, pause>>

CameraThread == StartCapturing \/ GetBuffer \/ ClaimFrame \/ FrameFilled
                \/ PutBuffer
Sender       == SemWait \/ TakeFrame \/ SendPicture \/ Pause \/ GiveBack
Command      == IntervalCopied \/ IntervalMapped

Next == DataConnection \/ CameraThread \/ SelectGivesUp \/ Sender \/ Command

Spec == Init /\ [][Next]_vars

(* Both threads go on whenever they can, except that the driver may stop    *)
(* delivering pictures.                                                     *)
Fairness == /\ WF_vars(StartCapturing \/ ClaimFrame \/ FrameFilled \/ PutBuffer)
            /\ WF_vars(Sender)

FairSpec == Spec /\ Fairness

-----------------------------------------------------------------------------
TypeOK ==
  /\ FrameListTypeOK
  /\ start_camera \in {0, 1}
  /\ camPc \in {"start", "select", "dequeued", "filling", "requeue", "ended"}
  /\ sndPc \in {"none", "wait", "woken", "using", "pausing", "done", "exited"}
  /\ queued \in 0..NBuffers
  /\ cmdPc \in {"idle", "mapping"}
  /\ video_frameinterval \in Nat /\ pause \in Nat

(* Where the threads are, as FrameQueue has it.                             *)
CamInQueue == IF camPc = "filling" THEN "filling"
              ELSE IF camPc = "ended" THEN "stopped" ELSE "select"
SndInQueue == IF sndPc \in {"none", "wait"} THEN "wait"
              ELSE IF sndPc \in {"woken", "exited"} THEN sndPc ELSE "using"

(* The pointers implement the queue of FrameQueue: the frames they lead to  *)
(* are those that the queue says are next.                                  *)
FQ == INSTANCE FrameQueue WITH filling <- fill, inUse <- fm,
                               cam <- CamInQueue, snd <- SndInQueue

ImplementsFrameQueue == FQ!Spec

(* The inductive invariant: the threads keep to the queue, whose frames are *)
(* chained; a picture from the driver is within the bound, and until it is  *)
(* given back the driver is short of a buffer.                              *)
InBound ==
  /\ camPc \in {"dequeued", "filling"} => captured < MaxCaptured
  /\ camPc \in {"dequeued", "filling", "requeue"} => queued < NBuffers

IInv == TypeOK /\ InBound /\ Linked /\ Flagged /\ FQ!IInv

(* Every captured picture is eventually sent, or a newer one is.            *)
SentOrSuperseded == FQ!SentOrSuperseded

(* The sender pauses for one of the times that the table in prase_pkt.c     *)
(* gives, its comments "50ms", "60ms", and so on.                           *)
PauseFromTable == pause \in {Table[v] : v \in DOMAIN Table}

=============================================================================
