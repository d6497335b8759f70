------------------------------ MODULE FrameList ------------------------------
(***************************************************************************)
(* The frame list of video/v4l2.c, pointer by pointer: one chain of all    *)
(* frames that are not in use, from ready_list_head to ready_list_tail,    *)
(* with empty_list_head pointing at its first EMPTY frame.  This module    *)
(* has the data and the critical sections of frame_list_lock as operators; *)
(* Camera has the threads that execute them.                               *)
(***************************************************************************)
EXTENDS Naturals, Sequences, TLC

CONSTANTS
  FrameNum,      \* FRAME_NUM
  MaxCaptured    \* bound: the pictures the camera delivers

ASSUME FrameNumAssumption == FrameNum \in Nat /\ FrameNum >= 3
ASSUME MaxCapturedAssumption == MaxCaptured \in Nat

Frames  == 1..FrameNum
NoFrame == 0                    \* NULL

VARIABLES
  next, flag,                   \* the fields of a frame_t
  ready_list_head, ready_list_tail, empty_list_head,
  pict_ready,                   \* the semaphore
  fill,                         \* fm of get_frame
  fm,                           \* fm of send_picture_thread
  serial, captured, lastSent,   \* history: the pictures, numbered
  busy, free                    \* history: the READY frames, oldest first, and
                                \* the EMPTY ones, in the order of the list

pointers == <<next, flag, ready_list_head, ready_list_tail, empty_list_head>>
listVars == <<pointers, pict_ready, fill, fm, serial, captured, lastSent,
              busy, free>>

(* init_frame_list                                                          *)
InitFrameList ==
  /\ next = [f \in Frames |-> IF f < FrameNum THEN f + 1 ELSE NoFrame]
  /\ flag = [f \in Frames |-> "EMPTY"]
  /\ ready_list_head = 1 /\ ready_list_tail = FrameNum
  /\ empty_list_head = 1
  /\ pict_ready = 0
  /\ fill = NoFrame /\ fm = NoFrame
  /\ serial = [f \in Frames |-> 0]
  /\ captured = 0 /\ lastSent = 0
  /\ busy = << >> /\ free = [f \in Frames |-> f]

(* Wrong: the token of the frame used again is not taken back.              *)
WrongGetFrameNoTryWait ==
  LET catchUp == empty_list_head = NoFrame
      f       == IF catchUp THEN ready_list_head ELSE empty_list_head
  IN  /\ next' = IF catchUp
                 THEN [next EXCEPT ![f] = NoFrame, ![ready_list_tail] = f]
                 ELSE next
      /\ ready_list_head' = IF catchUp THEN next[f] ELSE ready_list_head
      /\ ready_list_tail' = IF catchUp THEN f ELSE ready_list_tail
      /\ flag' = [flag EXCEPT ![f] = "FILLING"]
      /\ fill' = f
      /\ empty_list_head' = next'[f]
      /\ busy' = IF catchUp THEN Tail(busy) ELSE busy
      /\ free' = IF catchUp THEN free ELSE Tail(free)
      /\ UNCHANGED <<pict_ready, fm, serial, captured, lastSent>>

(* get_frame, first critical section.  With no EMPTY frame, the oldest READY*)
(* one is moved to the tail of the chain and used again; sem_trywait takes  *)
(* its token back.                                                          *)
GetFrameClaim ==
  LET catchUp == empty_list_head = NoFrame
      f       == IF catchUp THEN ready_list_head ELSE empty_list_head
  IN  /\ next' = IF catchUp
                 THEN [next EXCEPT ![f] = NoFrame, ![ready_list_tail] = f]
                 ELSE next
      /\ ready_list_head' = IF catchUp THEN next[f] ELSE ready_list_head
      /\ ready_list_tail' = IF catchUp THEN f ELSE ready_list_tail
      /\ pict_ready' = IF catchUp /\ pict_ready > 0 THEN pict_ready - 1
                                                    ELSE pict_ready
      /\ flag' = [flag EXCEPT ![f] = "FILLING"]
      /\ fill' = f
      /\ empty_list_head' = next'[f]
      /\ busy' = IF catchUp THEN Tail(busy) ELSE busy
      /\ free' = IF catchUp THEN free ELSE Tail(free)
      /\ UNCHANGED <<fm, serial, captured, lastSent>>

(* Wrong: sem_post is forgotten.                                            *)
WrongGetFrameReady ==
  /\ flag' = [flag EXCEPT ![fill] = "READY"]
  /\ fill' = NoFrame
  /\ captured' = captured + 1
  /\ serial' = [serial EXCEPT ![fill] = captured + 1]
  /\ busy' = Append(busy, fill)
  /\ UNCHANGED <<next, ready_list_head, ready_list_tail, empty_list_head,
                 pict_ready, fm, lastSent, free>>

(* get_frame, after the copy: second critical section.                      *)
GetFrameReady ==
  /\ flag' = [flag EXCEPT ![fill] = "READY"]
  /\ fill' = NoFrame
  /\ captured' = captured + 1
  /\ serial' = [serial EXCEPT ![fill] = captured + 1]
  /\ pict_ready' = pict_ready + 1
  /\ busy' = Append(busy, fill)
  /\ UNCHANGED <<next, ready_list_head, ready_list_tail, empty_list_head,
                 fm, lastSent, free>>

(* use_frame, after sem_wait.  Unless the head is READY it returns NULL.    *)
UseFrame ==
  /\ IF flag[ready_list_head] = "READY"
     THEN /\ fm' = ready_list_head
          /\ flag' = [flag EXCEPT ![ready_list_head] = "IN_USE"]
          /\ ready_list_head' = next[ready_list_head]
          /\ next' = [next EXCEPT ![ready_list_head] = NoFrame]
          /\ lastSent' = serial[ready_list_head]
          /\ busy' = Tail(busy)
     ELSE /\ fm' = NoFrame
          /\ UNCHANGED <<flag, ready_list_head, next, lastSent, busy>>
  /\ UNCHANGED <<ready_list_tail, empty_list_head, pict_ready, fill, serial,
                 captured, free>>

(* empty_frame                                                              *)
EmptyFrame ==
  /\ flag' = [flag EXCEPT ![fm] = "EMPTY"]
  /\ next' = [next EXCEPT ![ready_list_tail] = fm]
  /\ ready_list_tail' = fm
  /\ empty_list_head' = IF empty_list_head = NoFrame THEN fm
                                                     ELSE empty_list_head
  /\ fm' = NoFrame
  /\ free' = Append(free, fm)
  /\ UNCHANGED <<ready_list_head, pict_ready, fill, serial, captured, lastSent,
                 busy>>

-----------------------------------------------------------------------------
(* The chain of frames is busy, then the frame that is being filled, then   *)
(* free: which is what use_frame relies on when it looks at the head only.  *)
FirstFree == IF free # << >> THEN free[1] ELSE NoFrame
FirstFill == IF fill # NoFrame THEN fill ELSE FirstFree

Chained(s, behind) ==
  \A i \in DOMAIN s : next[s[i]] = IF i < Len(s) THEN s[i + 1] ELSE behind

Linked ==
  /\ Chained(busy, FirstFill) /\ Chained(free, NoFrame)
  /\ fill # NoFrame => next[fill] = FirstFree
  /\ fm # NoFrame => next[fm] = NoFrame
  /\ ready_list_head = IF busy # << >> THEN busy[1] ELSE FirstFill
  /\ empty_list_head = FirstFree
  /\ ready_list_tail = IF free # << >> THEN free[Len(free)]
                       ELSE IF fill # NoFrame THEN fill ELSE busy[Len(busy)]

Flagged ==
  /\ \A i \in DOMAIN busy : flag[busy[i]] = "READY"
  /\ \A i \in DOMAIN free : flag[free[i]] = "EMPTY"
  /\ fill # NoFrame => flag[fill] = "FILLING"
  /\ fm # NoFrame => flag[fm] = "IN_USE"

FrameListTypeOK ==
  /\ next \in [Frames -> Frames \cup {NoFrame}]
  /\ flag \in [Frames -> {"EMPTY", "FILLING", "READY", "IN_USE"}]
  /\ {ready_list_head, ready_list_tail} \subseteq Frames
  /\ {empty_list_head, fill, fm} \subseteq Frames \cup {NoFrame}
  /\ pict_ready \in 0..FrameNum
  /\ serial \in [Frames -> 0..MaxCaptured]
  /\ captured \in 0..MaxCaptured /\ lastSent \in 0..MaxCaptured
  /\ busy \in Seq(Frames) /\ free \in Seq(Frames)
=============================================================================
