----------------------------- MODULE FrameQueue ------------------------------
(***************************************************************************)
(* What the frame list of video/v4l2.c promises: a queue of video frames   *)
(* between the camera thread and the thread that sends pictures, which     *)
(* drops the oldest picture when the sender falls behind.                  *)
(*                                                                         *)
(* The C list is one chain of frames from ready_list_head to               *)
(* ready_list_tail.  Here it is the two sequences the chain consists of,   *)
(* the READY frames (busy) and the EMPTY ones (free), with the frame being *)
(* filled between them.  FrameList has the pointers.                       *)
(***************************************************************************)
EXTENDS Naturals, Sequences

CONSTANTS
  FrameNum,      \* FRAME_NUM
  MaxCaptured    \* bound: the pictures the camera delivers before it stops

(* The catch-up of get_frame takes the head of the chain and links it to    *)
(* the tail: with fewer than three frames head and tail can be the same.    *)
ASSUME FrameNumAssumption == FrameNum \in Nat /\ FrameNum >= 3
ASSUME MaxCapturedAssumption == MaxCaptured \in Nat

Frames  == 1..FrameNum
NoFrame == 0

(* Definitions named Wrong... are this module with one plausible mistake.   *)
VARIABLES
  busy,          \* the READY frames, oldest first
  free,          \* the EMPTY frames, from empty_list_head on
  filling,       \* the frame get_frame copies a picture into, or NoFrame
  inUse,         \* the frame the sender has from use_frame, or NoFrame
  pict_ready,    \* the semaphore
  cam,           \* the camera thread: "select", "filling" or "stopped"
  snd,           \* the sender: "wait", "woken", "using" or "exited"
  serial,        \* history: which picture each frame holds
  captured,      \* history: how many pictures have been captured
  lastSent       \* history: the last picture taken by the sender

vars == <<busy, free, filling, inUse, pict_ready, cam, snd, serial, captured,
          lastSent>>

Init ==
  /\ busy = << >>
  /\ free = [i \in Frames |-> i]
  /\ filling = NoFrame /\ inUse = NoFrame
  /\ pict_ready = 0
  /\ cam = "select" /\ snd = "wait"
  /\ serial = [f \in Frames |-> 0]
  /\ captured = 0 /\ lastSent = 0

(* get_frame, first critical section: take an empty frame, ...              *)
ClaimFree ==
  /\ cam = "select" /\ captured < MaxCaptured /\ free # << >>
  /\ cam' = "filling"
  /\ filling' = Head(free)
  /\ free' = Tail(free)
  /\ UNCHANGED <<busy, inUse, pict_ready, snd, serial, captured, lastSent>>

(* Wrong: the token of the frame used again is not taken back.              *)
WrongClaimOldestToken ==
  /\ cam = "select" /\ captured < MaxCaptured /\ free = << >>
  /\ busy # << >>
  /\ cam' = "filling"
  /\ filling' = Head(busy)
  /\ busy' = Tail(busy)
  /\ UNCHANGED <<free, inUse, pict_ready, snd, serial, captured, lastSent>>

(* Wrong: the newest picture is dropped.                                    *)
WrongClaimNewest ==
  /\ cam = "select" /\ captured < MaxCaptured /\ free = << >>
  /\ busy # << >>
  /\ cam' = "filling"
  /\ filling' = busy[Len(busy)]
  /\ busy' = SubSeq(busy, 1, Len(busy) - 1)
  /\ pict_ready' = IF pict_ready > 0 THEN pict_ready - 1 ELSE 0
  /\ UNCHANGED <<free, inUse, snd, serial, captured, lastSent>>

(* ... or, when there is none, the oldest picture nobody has taken yet.     *)
ClaimOldest ==
  /\ cam = "select" /\ captured < MaxCaptured /\ free = << >>
  /\ busy # << >>
  /\ cam' = "filling"
  /\ filling' = Head(busy)
  /\ busy' = Tail(busy)
  /\ pict_ready' = IF pict_ready > 0 THEN pict_ready - 1 ELSE 0
  /\ UNCHANGED <<free, inUse, snd, serial, captured, lastSent>>

(* get_frame, second critical section: the picture is ready.                *)
FrameReady ==
  /\ cam = "filling"
  /\ cam' = "select"
  /\ busy' = Append(busy, filling)
  /\ filling' = NoFrame
  /\ captured' = captured + 1
  /\ serial' = [serial EXCEPT ![filling] = captured + 1]
  /\ pict_ready' = pict_ready + 1
  /\ UNCHANGED <<free, inUse, snd, lastSent>>

(* The camera thread returns when select fails or times out.                *)
CameraStops ==
  /\ cam = "select"
  /\ cam' = "stopped"
  /\ UNCHANGED <<busy, free, filling, inUse, pict_ready, snd, serial,
                 captured, lastSent>>

(* use_frame: sem_wait, then the critical section.                          *)
SenderWakes ==
  /\ snd = "wait" /\ pict_ready > 0
  /\ snd' = "woken"
  /\ pict_ready' = pict_ready - 1
  /\ UNCHANGED <<busy, free, filling, inUse, cam, serial, captured, lastSent>>

(* Wrong: the newest READY frame is sent first.                             *)
WrongUseFrameNewest ==
  /\ snd = "woken" /\ busy # << >>
  /\ snd' = "using"
  /\ inUse' = busy[Len(busy)]
  /\ busy' = SubSeq(busy, 1, Len(busy) - 1)
  /\ lastSent' = serial[inUse']
  /\ UNCHANGED <<free, filling, pict_ready, cam, serial, captured>>

(* With no READY frame at the head ("Err flag of frame") use_frame returns  *)
(* NULL, and the sender exits.                                              *)
UseFrame ==
  /\ snd = "woken"
  /\ IF busy # << >>
     THEN /\ snd' = "using"
          /\ inUse' = Head(busy)
          /\ busy' = Tail(busy)
          /\ lastSent' = serial[Head(busy)]
     ELSE /\ snd' = "exited"
          /\ UNCHANGED <<busy, inUse, lastSent>>
  /\ UNCHANGED <<free, filling, pict_ready, cam, serial, captured>>

(* Wrong: the sender keeps its pointer.                                     *)
WrongEmptyFrameKept ==
  /\ snd = "using"
  /\ snd' = "wait"
  /\ free' = Append(free, inUse)
  /\ UNCHANGED <<busy, filling, inUse, pict_ready, cam, serial, captured,
                 lastSent>>

(* empty_frame                                                              *)
EmptyFrame ==
  /\ snd = "using"
  /\ snd' = "wait"
  /\ free' = Append(free, inUse)
  /\ inUse' = NoFrame
  /\ UNCHANGED <<busy, filling, pict_ready, cam, serial, captured, lastSent>>

Camera == ClaimFree \/ ClaimOldest \/ FrameReady
Sender == SenderWakes \/ UseFrame \/ EmptyFrame

Next == Camera \/ CameraStops \/ Sender

Spec == Init /\ [][Next]_vars

-----------------------------------------------------------------------------
TypeOK ==
  /\ busy \in Seq(Frames) /\ free \in Seq(Frames)
  /\ filling \in Frames \cup {NoFrame}
  /\ inUse \in Frames \cup {NoFrame}
  /\ pict_ready \in Nat
  /\ cam \in {"select", "filling", "stopped"}
  /\ snd \in {"wait", "woken", "using", "exited"}
  /\ serial \in [Frames -> Nat]
  /\ captured \in Nat /\ lastSent \in Nat
  /\ cam = "filling" <=> filling # NoFrame
  /\ snd = "using" <=> inUse # NoFrame

(* The semaphore counts the READY frames, but for the one that a sender     *)
(* between sem_wait and the lock is entitled to: get_frame's catch-up       *)
(* always finds a token of its own to take.                                 *)
TokensMatchFrames ==
  Len(busy) = pict_ready + (IF snd = "woken" THEN 1 ELSE 0)

(* So the sender, once woken, always finds a READY frame at the head: the   *)
(* error branch of use_frame, after which no picture would ever be sent     *)
(* again, is never taken.                                                   *)
SenderSurvives == snd # "exited"

(* The picture being sent is never overwritten, and no frame is lost: every *)
(* frame is in exactly one place.                                           *)
NoRepeats(s) == \A i, j \in DOMAIN s : s[i] = s[j] => i = j
One(f) == IF f = NoFrame THEN 0 ELSE 1

EveryFrameOnce ==
  /\ NoRepeats(busy) /\ NoRepeats(free)
  /\ \A i \in DOMAIN busy : busy[i] # filling /\ busy[i] # inUse
  /\ \A i \in DOMAIN free : free[i] # filling /\ free[i] # inUse
  /\ \A i \in DOMAIN busy, j \in DOMAIN free : busy[i] # free[j]
  /\ filling = inUse => filling = NoFrame
  /\ Len(busy) + Len(free) + One(filling) + One(inUse) = FrameNum

(* What waits to be sent are the newest pictures, in order and without a    *)
(* gap: catching up drops the oldest picture and no other.                  *)
NewestInOrder ==
  /\ Len(busy) <= captured
  /\ \A i \in DOMAIN busy : serial[busy[i]] + Len(busy) = captured + i

(* Everything still waiting is newer than what was sent.                    *)
NothingSentWaits == lastSent + Len(busy) <= captured

(* Pictures are sent in the order of capture, none twice; and the picture   *)
(* sent next is never more than FrameNum - 1 pictures old.                  *)
SentInOrder == [][lastSent' # lastSent => lastSent' > lastSent]_vars

SentFresh ==
  [][lastSent' # lastSent => captured < lastSent' + FrameNum]_vars

(* Every captured picture is eventually sent, or a newer one is, even if    *)
(* the camera stops in between (with the fairness of Camera).               *)
SentOrSuperseded ==
  \A n \in 1..MaxCaptured : captured >= n ~> lastSent >= n

IInv == /\ TypeOK /\ TokensMatchFrames /\ SenderSurvives /\ EveryFrameOnce
        /\ NewestInOrder /\ NothingSentWaits
=============================================================================
