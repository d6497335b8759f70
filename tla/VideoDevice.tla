---------------------------- MODULE VideoDevice -----------------------------
(***************************************************************************)
(* The V4L2 device from init_camera (video/camera.c) on: main opens and    *)
(* prepares it (video/v4l2.c) and creates camera_thread, which the data    *)
(* connection makes capture, and which then moves the driver's buffers to  *)
(* and fro.  What becomes of the pictures is in Camera.                    *)
(*                                                                         *)
(* Every request to the device can fail.  close_camera, stop_capturing and *)
(* uninit_device are never reached: init_camera returns an error only past *)
(* a failed close, which ends the process, and network() does not return.  *)
(***************************************************************************)
EXTENDS Integers, Sequences

CONSTANT Granted   \* how many buffers the driver may grant

ASSUME GrantedAssumption == Granted \subseteq Nat

VARIABLES
  main,          \* where init_camera is, then "serve"; "exited", "crashed"
  fd,            \* the device is open
  req_count,     \* req.count
  n_buffers,     \* how many buffers have been mapped
  frame_list,    \* init_frame_list has been called
  start_camera,  \* the semaphore
  connected,     \* there has been a data connection
  cam,           \* where camera_thread is ("none": there is no such thread)
  index,         \* i, in the loop of start_capturing
  streaming,
  driver,        \* the buffers the driver may write to
  filled,        \* those with a picture, oldest first
  held,          \* the one camera_thread has, or None
  lost           \* history: those that neither the driver nor the thread has

initVars    == <<main, fd, req_count, n_buffers, frame_list>>
captureVars == <<cam, index, streaming, driver, filled, held, lost>>
deviceVars  == <<initVars, start_camera, connected, captureVars>>

None == -1
running == main \notin {"exited", "crashed"}
Buffers(n) == 0..n - 1

DeviceInit ==
  /\ main = "open" /\ fd = FALSE /\ req_count = 0 /\ n_buffers = 0
  /\ frame_list = FALSE
  /\ start_camera = 0 /\ connected = FALSE
  /\ cam = "none" /\ index = 0 /\ streaming = FALSE
  /\ driver = {} /\ filled = << >> /\ held = None /\ lost = {}

-----------------------------------------------------------------------------
(* The main thread.                                                         *)
Preparing(from, to) == /\ main = from /\ main' = to
                       /\ UNCHANGED <<start_camera, connected>>

OpenDevice ==
  /\ Preparing("open", "request")
  /\ fd' = TRUE
  /\ UNCHANGED <<req_count, n_buffers, frame_list, captureVars>>

(* close_device(-1) fails in turn, and errno_exit ends the process.         *)
OpenFails ==
  /\ Preparing("open", "exited")
  /\ UNCHANGED <<fd, req_count, n_buffers, frame_list, captureVars>>

(* init_device: VIDIOC_REQBUFS.                                             *)
RequestBuffers ==
  /\ \E n \in Granted : n >= 2 /\ req_count' = n
  /\ Preparing("request", "map")
  /\ UNCHANGED <<fd, n_buffers, frame_list, captureVars>>

MapBuffer ==
  /\ n_buffers < req_count
  /\ Preparing("map", "map")
  /\ n_buffers' = n_buffers + 1
  /\ UNCHANGED <<fd, req_count, frame_list, captureVars>>

(* Too few buffers, or a buffer cannot be mapped: init_device returns -1,   *)
(* which init_camera does not look at.                                      *)
InitDeviceFails ==
  /\ \/ Preparing("request", "create")
     \/ n_buffers < req_count /\ Preparing("map", "create")
  /\ UNCHANGED <<fd, req_count, n_buffers, frame_list, captureVars>>

InitFrameList ==
  /\ n_buffers = req_count
  /\ Preparing("map", "create")
  /\ frame_list' = TRUE
  /\ UNCHANGED <<fd, req_count, n_buffers, captureVars>>

(* pthread_create.  (Its errors are positive, and taken for success.)       *)
CreateThread ==
  /\ Preparing("create", "serve")
  /\ cam' \in {"none", "start"}
  /\ UNCHANGED <<fd, req_count, n_buffers, frame_list, index, streaming,
                 driver, filled, held, lost>>

(* network(), once.                                                         *)
DataConnection ==
  /\ main = "serve" /\ ~connected
  /\ connected' = TRUE
  /\ start_camera' = start_camera + 1
  /\ UNCHANGED <<initVars, captureVars>>

-----------------------------------------------------------------------------
(* camera_thread.                                                           *)
CamGoto(from, to) == running /\ cam = from /\ cam' = to

SemWait ==
  /\ CamGoto("start", "queue")
  /\ start_camera > 0
  /\ start_camera' = start_camera - 1
  /\ UNCHANGED <<initVars, connected, index, streaming, driver, filled, held,
                 lost>>

(* Wrong: the last buffer is left out.                                      *)
WrongAllQueued == index = n_buffers - 1

AllQueued == index = n_buffers

(* start_capturing.                                                         *)
QueueBuffer ==
  /\ CamGoto("queue", "queue")
  /\ ~AllQueued /\ index < n_buffers
  /\ driver' = driver \cup {index}
  /\ index' = index + 1
  /\ UNCHANGED <<initVars, start_camera, connected, streaming, filled, held,
                 lost>>

(* The driver does not stream without buffers.                              *)
StreamOn ==
  /\ CamGoto("queue", "select")
  /\ AllQueued /\ driver # {}
  /\ streaming' = TRUE
  /\ UNCHANGED <<initVars, start_camera, connected, index, driver, filled,
                 held, lost>>

(* A request fails: errno_exit.                                             *)
StartFails ==
  /\ running /\ cam = "queue"
  /\ main' = "exited"
  /\ UNCHANGED <<fd, req_count, n_buffers, frame_list, start_camera, connected,
                 captureVars>>

(* The driver has a picture.                                                *)
Picture ==
  /\ running /\ streaming
  /\ \E b \in driver : /\ driver' = driver \ {b}
                       /\ filled' = Append(filled, b)
  /\ UNCHANGED <<initVars, start_camera, connected, cam, index, streaming,
                 held, lost>>

(* select has found the device readable: there is a picture, or an error,   *)
(* which is what V4L2 reports if no buffer is queued.                       *)
NothingQueued == driver = {} /\ filled = << >>
Readable      == filled # << >> \/ NothingQueued

(* get_buffer.                                                              *)
Dequeue ==
  /\ CamGoto("select", "dequeued")
  /\ filled # << >>
  /\ held' = Head(filled) /\ filled' = Tail(filled)
  /\ UNCHANGED <<initVars, start_camera, connected, index, streaming, driver,
                 lost>>

(* VIDIOC_DQBUF fails; V4L2 leaves open whether the picture is still there  *)
(* for the next try.  The thread sleeps 30 ms.                              *)
DequeueFails ==
  /\ CamGoto("select", "sleeping")
  /\ Readable
  /\ \/ UNCHANGED <<filled, lost>>
     \/ /\ filled # << >>
        /\ filled' = Tail(filled) /\ lost' = lost \cup {Head(filled)}
  /\ UNCHANGED <<initVars, start_camera, connected, index, streaming, driver,
                 held>>

Slept ==
  /\ CamGoto("sleeping", "select")
  /\ UNCHANGED <<initVars, start_camera, connected, index, streaming, driver,
                 filled, held, lost>>

(* On a timeout, no picture within two seconds, or an error of select, the  *)
(* thread returns.                                                          *)
SelectTimeout == /\ CamGoto("select", "ended") /\ ~Readable
                 /\ UNCHANGED <<initVars, start_camera, connected, index,
                                streaming, driver, filled, held, lost>>

SelectFails == /\ CamGoto("select", "ended")
               /\ UNCHANGED <<initVars, start_camera, connected, index,
                              streaming, driver, filled, held, lost>>

(* get_frame.                                                               *)
GetFrame ==
  /\ CamGoto("dequeued", "copied")
  /\ frame_list
  /\ UNCHANGED <<initVars, start_camera, connected, index, streaming, driver,
                 filled, held, lost>>

(* Without a frame list there is no frame to copy to.                       *)
GetFrameNowhere ==
  /\ running /\ cam = "dequeued" /\ ~frame_list
  /\ main' = "crashed"
  /\ UNCHANGED <<fd, req_count, n_buffers, frame_list, start_camera, connected,
                 captureVars>>

(* Wrong: the buffer is not given back.                                     *)
WrongPutBuffer ==
  /\ CamGoto("copied", "select")
  /\ held' = None
  /\ UNCHANGED <<initVars, start_camera, connected, index, streaming, driver,
                 filled, lost>>

(* put_buffer; if it fails, that is said, and nothing done about it.        *)
PutBuffer ==
  /\ CamGoto("copied", "select")
  /\ \/ driver' = driver \cup {held} /\ UNCHANGED lost
     \/ lost' = lost \cup {held} /\ UNCHANGED driver
  /\ held' = None
  /\ UNCHANGED <<initVars, start_camera, connected, index, streaming, filled>>

Main == \/ OpenDevice \/ OpenFails \/ RequestBuffers \/ MapBuffer
        \/ InitDeviceFails \/ InitFrameList \/ CreateThread
CameraThread == \/ SemWait \/ QueueBuffer \/ StreamOn \/ StartFails
                \/ Dequeue \/ DequeueFails \/ Slept \/ SelectTimeout
                \/ GetFrame \/ GetFrameNowhere \/ PutBuffer

DeviceNext == Main \/ DataConnection \/ CameraThread \/ SelectFails \/ Picture

(* The thread runs, and the driver works: it fills the buffers it has, and  *)
(* a picture can be dequeued at some time, however often that fails.        *)
(* Giving buffers back may fail as it likes.                                *)
DeviceSpec == /\ DeviceInit /\ [][DeviceNext]_deviceVars
              /\ WF_deviceVars(CameraThread)
              /\ WF_deviceVars(Picture) /\ SF_deviceVars(Dequeue)

-----------------------------------------------------------------------------
DeviceTypeOK ==
  /\ main \in {"open", "request", "map", "create", "serve", "exited", "crashed"}
  /\ fd \in BOOLEAN /\ frame_list \in BOOLEAN /\ connected \in BOOLEAN
  /\ streaming \in BOOLEAN
  /\ req_count \in {0} \cup Granted /\ n_buffers \in 0..req_count
  /\ start_camera \in {0, 1}
  /\ cam \in {"none", "start", "queue", "select", "sleeping", "dequeued",
             "copied", "ended"}
  /\ index \in 0..n_buffers
  /\ driver \subseteq Buffers(n_buffers) /\ lost \subseteq Buffers(n_buffers)
  /\ filled \in Seq(Buffers(n_buffers))
  /\ held \in Buffers(n_buffers) \cup {None}

(* Once capturing has started, every buffer is in one place: the driver     *)
(* never writes to one that is copied from or waits to be, and none         *)
(* disappears but through a request that fails.                             *)
InFilled == {filled[k] : k \in DOMAIN filled}

BuffersAccounted ==
  /\ driver \cap InFilled = {} /\ held \notin driver \cup InFilled \cup lost
  /\ lost \cap (driver \cup InFilled) = {}
  /\ \A j, k \in DOMAIN filled : filled[j] = filled[k] => j = k
  /\ streaming => driver \cup InFilled \cup lost \cup ({held} \ {None})
                    = Buffers(n_buffers)

-----------------------------------------------------------------------------
(* The inductive invariant.                                                 *)

(* The buffers are requested before they are mapped, the thread is created  *)
(* once the device is prepared, and its semaphore is posted once.           *)
CreatedPrepared ==
  /\ main \in {"open", "request"} => n_buffers = 0
  /\ cam # "none" => main \in {"serve", "exited", "crashed"}
  /\ ~connected => start_camera = 0

(* Before it streams, the driver has the buffers start_capturing has come   *)
(* past, and there is no picture.                                           *)
NoPictureYet ==
  /\ streaming <=> cam \in {"select", "sleeping", "dequeued", "copied", "ended"}
  /\ ~streaming => driver = Buffers(index) /\ filled = << >> /\ lost = {}
  /\ cam \in {"none", "start"} => index = 0

(* camera_thread has a buffer from get_buffer to put_buffer.                *)
HeldWhileCopied == held # None <=> cam \in {"dequeued", "copied"}

DeviceIInv == /\ DeviceTypeOK /\ BuffersAccounted
              /\ CreatedPrepared /\ NoPictureYet /\ HeldWhileCopied

-----------------------------------------------------------------------------
(* Once capturing has started there is always another picture, unless the   *)
(* thread returns (select times out or fails), the process ends, or every   *)
(* single buffer has been lost to a failed request: as long as one buffer   *)
(* goes round, it is enough.  (With none left the thread goes on for ever:  *)
(* select returns at once, get_buffer fails, and it sleeps.)                *)
PicturesUntilStarved ==
  streaming ~> \/ cam = "dequeued" \/ cam = "ended" \/ ~running
               \/ lost = Buffers(n_buffers)
=============================================================================
