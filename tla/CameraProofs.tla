---------------------------- MODULE CameraProofs -----------------------------
(***************************************************************************)
(* The threads and pointers of the video path implement the queue of       *)
(* FrameQueue, for every number of frames from three on; so what is proved *)
(* of the queue holds of them.                                             *)
(***************************************************************************)
EXTENDS Camera, TLAPS

(* The theorems about the queue, of the queue that Camera implements.       *)
Q == INSTANCE FrameQueueProofs WITH filling <- fill, inUse <- fm,
                                    cam <- CamInQueue, snd <- SndInQueue

LEMMA SameInvariant == /\ FQ!IInv <=> Q!IInv
                       /\ (FQ!IInv)' <=> (Q!IInv)'
<1>1. /\ FQ!TypeOK <=> Q!TypeOK
      /\ (FQ!TypeOK)' <=> (Q!TypeOK)'
  BY DEF FQ!TypeOK, Q!TypeOK, FQ!Frames, Q!Frames, FQ!NoFrame, Q!NoFrame
<1>2. /\ FQ!TokensMatchFrames <=> Q!TokensMatchFrames
      /\ (FQ!TokensMatchFrames)' <=> (Q!TokensMatchFrames)'
  BY DEF FQ!TokensMatchFrames, Q!TokensMatchFrames
<1>3. /\ FQ!SenderSurvives <=> Q!SenderSurvives
      /\ (FQ!SenderSurvives)' <=> (Q!SenderSurvives)'
  BY DEF FQ!SenderSurvives, Q!SenderSurvives
<1>4. /\ FQ!EveryFrameOnce <=> Q!EveryFrameOnce
      /\ (FQ!EveryFrameOnce)' <=> (Q!EveryFrameOnce)'
  BY DEF FQ!EveryFrameOnce, Q!EveryFrameOnce, FQ!NoRepeats, Q!NoRepeats,
         FQ!One, Q!One, FQ!NoFrame, Q!NoFrame
<1>5. /\ FQ!NewestInOrder <=> Q!NewestInOrder
      /\ (FQ!NewestInOrder)' <=> (Q!NewestInOrder)'
  BY DEF FQ!NewestInOrder, Q!NewestInOrder
<1>6. /\ FQ!NothingSentWaits <=> Q!NothingSentWaits
      /\ (FQ!NothingSentWaits)' <=> (Q!NothingSentWaits)'
  BY DEF FQ!NothingSentWaits, Q!NothingSentWaits
<1> QED BY <1>1, <1>2, <1>3, <1>4, <1>5, <1>6 DEF FQ!IInv, Q!IInv

LEMMA SameNext == [FQ!Next]_(FQ!vars) <=> [Q!Next]_(Q!vars)
BY DEF FQ!Next, Q!Next, FQ!vars, Q!vars, FQ!Camera, Q!Camera, FQ!Sender,
       Q!Sender, FQ!ClaimFree, Q!ClaimFree, FQ!ClaimOldest, Q!ClaimOldest,
       FQ!FrameReady, Q!FrameReady, FQ!CameraStops, Q!CameraStops,
       FQ!SenderWakes, Q!SenderWakes, FQ!UseFrame, Q!UseFrame,
       FQ!EmptyFrame, Q!EmptyFrame, FQ!NoFrame, Q!NoFrame

(* A step that the queue allows keeps its invariant.                        *)
LEMMA QueueIInv == FQ!IInv /\ [FQ!Next]_(FQ!vars) => (FQ!IInv)'
BY FrameNumAssumption, MaxCapturedAssumption, SameInvariant, SameNext,
   Q!NextIInv

-----------------------------------------------------------------------------
(* What the invariant says of the list.                                     *)
LEMMA ListFacts ==
  ASSUME IInv
  PROVE  /\ busy \in Seq(Frames) /\ free \in Seq(Frames)
         /\ FQ!NoRepeats(busy) /\ FQ!NoRepeats(free)
         /\ \A i \in DOMAIN busy : busy[i] # fill /\ busy[i] # fm
         /\ \A i \in DOMAIN free : free[i] # fill /\ free[i] # fm
         /\ \A i \in DOMAIN busy, j \in DOMAIN free : busy[i] # free[j]
         /\ fill = fm => fill = NoFrame
         /\ Len(busy) + Len(free) + FQ!One(fill) + FQ!One(fm) = FrameNum
         /\ Len(busy) = pict_ready + (IF sndPc = "woken" THEN 1 ELSE 0)
         /\ camPc = "filling" <=> fill # NoFrame
         /\ sndPc \in {"using", "pausing", "done"} <=> fm # NoFrame
         /\ sndPc # "exited"
         /\ pict_ready \in Nat /\ captured \in Nat
<1>1. FQ!TypeOK /\ FQ!TokensMatchFrames /\ FQ!SenderSurvives
      /\ FQ!EveryFrameOnce /\ TypeOK
  BY DEF IInv, FQ!IInv
<1>2. /\ FQ!NoRepeats(busy) /\ FQ!NoRepeats(free)
      /\ \A i \in DOMAIN busy : busy[i] # fill /\ busy[i] # fm
      /\ \A i \in DOMAIN free : free[i] # fill /\ free[i] # fm
      /\ \A i \in DOMAIN busy, j \in DOMAIN free : busy[i] # free[j]
      /\ fill = fm => fill = NoFrame
      /\ Len(busy) + Len(free) + FQ!One(fill) + FQ!One(fm) = FrameNum
  BY <1>1 DEF FQ!EveryFrameOnce, FQ!NoFrame, NoFrame
<1>3. /\ busy \in Seq(Frames) /\ free \in Seq(Frames)
      /\ pict_ready \in Nat /\ captured \in Nat
      /\ camPc = "filling" <=> fill # NoFrame
      /\ sndPc \in {"using", "pausing", "done"} <=> fm # NoFrame
  BY <1>1 DEF FQ!TypeOK, FQ!Frames, FQ!NoFrame, Frames, NoFrame, TypeOK,
     CamInQueue, SndInQueue
<1>4. sndPc # "exited"
  BY <1>1 DEF FQ!SenderSurvives, SndInQueue
<1>5. Len(busy) = pict_ready + (IF sndPc = "woken" THEN 1 ELSE 0)
  BY <1>1 DEF FQ!TokensMatchFrames, SndInQueue, TypeOK
<1> QED BY <1>2, <1>3, <1>4, <1>5
LEMMA FramesOf ==
  ASSUME NEW s \in Seq(Frames)
  PROVE  /\ Len(s) \in Nat /\ DOMAIN s = 1..Len(s)
         /\ \A i \in DOMAIN s : s[i] \in Frames /\ s[i] # NoFrame
         /\ s = << >> <=> Len(s) = 0
         /\ s # << >> => /\ 1 \in DOMAIN s /\ Len(s) \in DOMAIN s
                         /\ Head(s) = s[1]
<1>1. Len(s) \in Nat /\ DOMAIN s = 1..Len(s) /\ \A i \in DOMAIN s : s[i] \in Frames
  OBVIOUS
<1>2. \A f \in Frames : f # NoFrame
  BY FrameNumAssumption DEF Frames, NoFrame
<1>3. s = << >> <=> Len(s) = 0
  OBVIOUS
<1>4. s # << >> => 1 \in DOMAIN s /\ Len(s) \in DOMAIN s
  BY <1>1, <1>3
<1>5. Head(s) = s[1]
  OBVIOUS
<1> QED BY <1>1, <1>2, <1>3, <1>4, <1>5

LEMMA InitIInv == Init => IInv /\ FQ!Init
<1> SUFFICES ASSUME Init PROVE IInv /\ FQ!Init
  OBVIOUS
<1>1. CamInQueue = "select" /\ SndInQueue = "wait"
  BY DEF Init, CamInQueue, SndInQueue
<1>2. FQ!Init
  BY <1>1 DEF Init, InitFrameList, FQ!Init, FQ!Frames, FQ!NoFrame, Frames,
     NoFrame
<1>3. Q!Init
  BY <1>2 DEF FQ!Init, Q!Init, FQ!Frames, FQ!NoFrame, Q!Frames, Q!NoFrame
<1>4. FQ!IInv
  BY <1>3, FrameNumAssumption, MaxCapturedAssumption, SameInvariant, Q!InitIInv
<1>5. /\ free \in Seq(Frames) /\ Len(free) = FrameNum /\ DOMAIN free = 1..FrameNum
      /\ \A f \in 1..FrameNum : free[f] = f
      /\ busy = << >> /\ busy \in Seq(Frames) /\ DOMAIN busy = {}
      /\ FrameNum \in Nat /\ FrameNum >= 3 /\ 1 \in Frames /\ free # << >>
      /\ FrameNum \in Frames
  <2>1. free = [f \in 1..FrameNum |-> f] /\ busy = << >>
    BY DEF Init, InitFrameList, Frames
  <2>2. FrameNum \in Nat /\ FrameNum >= 3
    BY FrameNumAssumption
  <2>3. free \in Seq(Frames) /\ Len(free) = FrameNum /\ DOMAIN free = 1..FrameNum
    BY <2>1, <2>2 DEF Frames
  <2>4. free # << >>
    BY <2>2, <2>3, FramesOf
  <2> QED BY <2>1, <2>2, <2>3, <2>4 DEF Frames
<1>6. TypeOK
  <2>1. next \in [Frames -> Frames \cup {NoFrame}]
    BY <1>5 DEF Init, InitFrameList, Frames, NoFrame
  <2>2. 0 \in 0..FrameNum /\ 0 \in 0..MaxCaptured /\ 0 \in 0..NBuffers
    BY <1>5, MaxCapturedAssumption, NBuffersAssumption
  <2> QED BY <2>1, <2>2, <1>5 DEF Init, InitFrameList, TypeOK,
          FrameListTypeOK, NoFrame
<1>7. Linked
  <2>1. \A f \in 1..FrameNum : next[f] = IF f < FrameNum THEN f + 1 ELSE NoFrame
    BY DEF Init, InitFrameList, Frames
  <2>2. \A f \in 1..FrameNum : f < FrameNum => f + 1 \in 1..FrameNum
    BY <1>5
  <2>3. Chained(free, NoFrame)
    BY <2>1, <2>2, <1>5 DEF Chained
  <2>4. FirstFree = 1 /\ FirstFill = 1
    BY <1>5 DEF Init, InitFrameList, FirstFree, FirstFill
  <2> QED BY <2>3, <2>4, <1>5 DEF Init, InitFrameList, Linked, Chained
<1>8. Flagged /\ InBound
  BY <1>5 DEF Init, InitFrameList, Flagged, InBound, Frames, NoFrame
<1> QED BY <1>2, <1>4, <1>6, <1>7, <1>8 DEF IInv

-----------------------------------------------------------------------------
(* The first critical section of get_frame.                                 *)
LEMMA FirstOf == ASSUME IInv PROVE empty_list_head = NoFrame <=> free = << >>
BY ListFacts, FramesOf DEF IInv, Linked, FirstFree

(* With an empty frame: it is taken off the sequence of those.              *)
LEMMA ClaimFreeStep ==
  ASSUME IInv, ClaimFrame, free # << >>
  PROVE  FQ!ClaimFree /\ Linked' /\ Flagged'
<1>1. fill = NoFrame /\ camPc = "dequeued" /\ camPc' = "filling"
  BY ListFacts DEF ClaimFrame, CamGoto
<1>2. empty_list_head = free[1] /\ empty_list_head # NoFrame
  BY FirstOf DEF IInv, Linked, FirstFree
<1>3. /\ UNCHANGED <<next, ready_list_head, ready_list_tail, pict_ready, busy, fm,
                     serial, captured, lastSent, sndPc>>
      /\ flag' = [flag EXCEPT ![free[1]] = "FILLING"]
      /\ fill' = free[1] /\ empty_list_head' = next[free[1]]
      /\ free' = Tail(free)
  BY <1>2 DEF ClaimFrame, GetFrameClaim
<1>4. FQ!ClaimFree
  <2>1. captured < MaxCaptured
    BY <1>1 DEF IInv, InBound
  <2>2. CamInQueue = "select" /\ CamInQueue' = "filling" /\ SndInQueue' = SndInQueue
    BY <1>1, <1>3 DEF CamInQueue, SndInQueue
  <2>3. free[1] = Head(free)
    BY ListFacts
  <2> QED BY <2>1, <2>2, <2>3, <1>3 DEF FQ!ClaimFree
<1>5. /\ Len(free) \in Nat /\ Len(free) >= 1 /\ DOMAIN free = 1..Len(free)
      /\ Len(free') = Len(free) - 1 /\ DOMAIN free' = 1..Len(free) - 1
      /\ \A i \in 1..Len(free) - 1 : free'[i] = free[i + 1]
      /\ free[1] \in Frames /\ 1 \in DOMAIN free
      /\ free' # << >> <=> Len(free) > 1
  <2>1. free \in Seq(Frames)
    BY ListFacts
  <2>2. /\ Len(free) \in Nat /\ Len(free) >= 1 /\ DOMAIN free = 1..Len(free)
        /\ free[1] \in Frames /\ 1 \in DOMAIN free
    BY <2>1, FramesOf
  <2>3. /\ free' \in Seq(Frames) /\ Len(free') = Len(free) - 1
        /\ \A i \in 1..Len(free) - 1 : free'[i] = free[i + 1]
    BY <2>1, <1>3
  <2> QED BY <2>2, <2>3, FramesOf
<1>6. /\ \A i \in DOMAIN busy : next[busy[i]] =
                                 IF i < Len(busy) THEN busy[i + 1] ELSE free[1]
      /\ \A i \in DOMAIN free : next[free[i]] =
                                 IF i < Len(free) THEN free[i + 1] ELSE NoFrame
      /\ ready_list_head = IF busy # << >> THEN busy[1] ELSE free[1]
      /\ ready_list_tail = free[Len(free)]
      /\ fm # NoFrame => next[fm] = NoFrame
  BY <1>1 DEF IInv, Linked, Chained, FirstFill, FirstFree
<1>7. FirstFill' = free[1] /\ FirstFree' = next[free[1]]
  BY <1>3, <1>5, <1>6 DEF FirstFill, FirstFree, Frames, NoFrame
<1>8. Linked'
  <2>1. Chained(busy, FirstFill)'
    BY <1>3, <1>6, <1>7 DEF Chained
  <2>2. Chained(free, NoFrame)'
    BY <1>3, <1>5, <1>6 DEF Chained
  <2>3. ready_list_tail' = IF free' # << >> THEN free'[Len(free')] ELSE fill'
    BY <1>3, <1>5, <1>6
  <2> QED BY <2>1, <2>2, <2>3, <1>3, <1>5, <1>6, <1>7 DEF Linked, Frames, NoFrame
<1>9. Flagged'
  <2>1. \A f \in Frames : f # free[1] => flag'[f] = flag[f]
    BY <1>3 DEF IInv, TypeOK, FrameListTypeOK
  <2>2. flag'[free[1]] = "FILLING"
    BY <1>3, <1>5 DEF IInv, TypeOK, FrameListTypeOK
  <2>3. \A i \in DOMAIN busy : busy[i] \in Frames /\ busy[i] # free[1]
    BY <1>5, ListFacts
  <2>4. \A i \in DOMAIN free' : /\ i + 1 \in DOMAIN free /\ i + 1 # 1
                                /\ free'[i] = free[i + 1]
    BY <1>5
  <2>5. \A i \in DOMAIN free : free[i] \in Frames /\ (i # 1 => free[i] # free[1])
    BY <1>5, ListFacts DEF FQ!NoRepeats
  <2>6. fm # NoFrame => fm \in Frames /\ fm # free[1]
    BY <1>5, ListFacts DEF IInv, TypeOK, FrameListTypeOK
  <2> QED BY <2>1, <2>2, <2>3, <2>4, <2>5, <2>6, <1>3 DEF IInv, Flagged
<1> QED BY <1>4, <1>8, <1>9
(* Without one: the oldest picture's frame is moved to the end of the chain *)
(* and loses its token.                                                     *)
LEMMA TailOf ==
  ASSUME NEW s \in Seq(Frames), s # << >>
  PROVE  /\ Tail(s) \in Seq(Frames) /\ Len(Tail(s)) = Len(s) - 1
         /\ DOMAIN Tail(s) = 1..Len(s) - 1
         /\ Tail(s) # << >> <=> Len(s) > 1
         /\ \A i \in 1..Len(s) - 1 : /\ Tail(s)[i] = s[i + 1] /\ i \in Nat
                                     /\ i + 1 \in DOMAIN s /\ i + 1 # 1
<1>1. Len(s) \in Nat /\ Len(s) > 0 /\ DOMAIN s = 1..Len(s)
  BY FramesOf
<1>2. /\ Tail(s) \in Seq(Frames) /\ Len(Tail(s)) = Len(s) - 1
      /\ \A i \in 1..Len(s) - 1 : Tail(s)[i] = s[i + 1]
  OBVIOUS
<1>3. DOMAIN Tail(s) = 1..Len(s) - 1 /\ (Tail(s) # << >> <=> Len(s) > 1)
  <2>1. /\ DOMAIN Tail(s) = 1..Len(Tail(s))
        /\ Tail(s) = << >> <=> Len(Tail(s)) = 0
    BY <1>2, FramesOf
  <2>2. Len(s) - 1 = 0 <=> ~(Len(s) > 1)
    BY <1>1
  <2> QED BY <2>1, <2>2, <1>2
<1>4. \A i \in 1..Len(s) - 1 : i \in Nat /\ i + 1 \in 1..Len(s) /\ i + 1 # 1
  BY <1>1
<1> QED BY <1>1, <1>2, <1>3, <1>4

(* Nobody but the camera and the sender can have a frame, and each only one.*)
LEMMA FewElsewhere ==
  ASSUME IInv
  PROVE  /\ fill = NoFrame /\ free = << >> => Len(busy) >= 2
         /\ fm = NoFrame /\ fill = NoFrame /\ free = << >> => Len(busy) >= 3
         /\ fill = NoFrame /\ busy = << >> => free # << >>
<1>1. /\ Len(busy) + Len(free) + FQ!One(fill) + FQ!One(fm) = FrameNum
      /\ Len(busy) \in Nat /\ Len(free) \in Nat
      /\ FrameNum \in Nat /\ FrameNum >= 3
  BY ListFacts, FramesOf, FrameNumAssumption
<1>2. /\ FQ!One(fm) \in {0, 1} /\ (fm = NoFrame => FQ!One(fm) = 0)
      /\ (fill = NoFrame => FQ!One(fill) = 0)
  BY DEF FQ!One, FQ!NoFrame, NoFrame
<1>3. (busy = << >> => Len(busy) = 0) /\ (free = << >> <=> Len(free) = 0)
  BY ListFacts, FramesOf
<1> QED BY <1>1, <1>2, <1>3

LEMMA ClaimOldestStep ==
  ASSUME IInv, ClaimFrame, free = << >>
  PROVE  FQ!ClaimOldest /\ Linked' /\ Flagged'
<1>1. fill = NoFrame /\ camPc = "dequeued" /\ camPc' = "filling"
  BY ListFacts DEF ClaimFrame, CamGoto
<1> DEFINE oldest == busy[1]
           last   == busy[Len(busy)]
<1>2. /\ busy \in Seq(Frames) /\ Len(busy) \in Nat /\ Len(busy) >= 2 /\ busy # << >>
      /\ DOMAIN busy = 1..Len(busy) /\ 1 \in DOMAIN busy /\ 2 \in DOMAIN busy
      /\ Len(busy) \in DOMAIN busy /\ oldest \in Frames /\ last \in Frames
      /\ oldest # NoFrame /\ oldest # last /\ Head(busy) = oldest
  <2>1. busy \in Seq(Frames) /\ Len(busy) >= 2 /\ FQ!NoRepeats(busy)
    BY <1>1, ListFacts, FewElsewhere
  <2>2. Len(busy) \in Nat /\ DOMAIN busy = 1..Len(busy)
        /\ \A i \in DOMAIN busy : busy[i] \in Frames /\ busy[i] # NoFrame
    BY <2>1, FramesOf
  <2>3. 1 \in DOMAIN busy /\ 2 \in DOMAIN busy /\ Len(busy) \in DOMAIN busy
        /\ Len(busy) # 1 /\ Len(busy) # 0
    BY <2>1, <2>2
  <2>4. busy # << >> /\ Head(busy) = oldest
    BY <2>1, <2>3, FramesOf
  <2> QED BY <2>1, <2>2, <2>3, <2>4 DEF FQ!NoRepeats
<1>3. /\ ready_list_head = oldest /\ ready_list_tail = last
      /\ empty_list_head = NoFrame
      /\ \A i \in DOMAIN busy :
           next[busy[i]] = IF i < Len(busy) THEN busy[i + 1] ELSE NoFrame
      /\ fm # NoFrame => next[fm] = NoFrame
  BY <1>1, <1>2 DEF IInv, Linked, Chained, FirstFill, FirstFree
<1>4. /\ UNCHANGED <<fm, serial, captured, lastSent, free, sndPc>>
      /\ next' = [next EXCEPT ![oldest] = NoFrame, ![last] = oldest]
      /\ ready_list_head' = next[oldest] /\ ready_list_tail' = oldest
      /\ pict_ready' = IF pict_ready > 0 THEN pict_ready - 1 ELSE pict_ready
      /\ flag' = [flag EXCEPT ![oldest] = "FILLING"]
      /\ fill' = oldest /\ empty_list_head' = next'[oldest]
      /\ busy' = Tail(busy)
  BY <1>3 DEF ClaimFrame, GetFrameClaim
<1>5. /\ next'[oldest] = NoFrame /\ next'[last] = oldest
      /\ \A f \in Frames : f # oldest /\ f # last => next'[f] = next[f]
  BY <1>2, <1>4 DEF IInv, TypeOK, FrameListTypeOK
<1>6. FQ!ClaimOldest
  <2>1. captured < MaxCaptured
    BY <1>1 DEF IInv, InBound
  <2>2. /\ CamInQueue = "select" /\ CamInQueue' = "filling"
        /\ SndInQueue' = SndInQueue
    BY <1>1, <1>4 DEF CamInQueue, SndInQueue
  <2>3. pict_ready' = IF pict_ready > 0 THEN pict_ready - 1 ELSE 0
    BY <1>4, ListFacts
  <2> QED BY <2>1, <2>2, <2>3, <1>2, <1>4 DEF FQ!ClaimOldest
<1>7. /\ Len(busy') = Len(busy) - 1 /\ DOMAIN busy' = 1..Len(busy) - 1
      /\ busy' # << >>
      /\ \A i \in 1..Len(busy) - 1 : /\ busy'[i] = busy[i + 1] /\ i \in Nat
                                     /\ i + 1 \in DOMAIN busy /\ i + 1 # 1
  BY <1>2, <1>4, TailOf
<1>8. /\ \A i \in DOMAIN busy : busy[i] \in Frames
      /\ \A i, j \in DOMAIN busy : busy[i] = busy[j] => i = j
      /\ \A i \in DOMAIN busy : busy[i] # fm
  BY <1>2, ListFacts, FramesOf DEF FQ!NoRepeats
<1>9. FirstFill' = oldest /\ FirstFree' = NoFrame
  BY <1>2, <1>4 DEF FirstFill, FirstFree
<1>10. Linked'
  <2>1. Chained(busy, FirstFill)'
    <3> SUFFICES ASSUME NEW i \in 1..Len(busy) - 1
                 PROVE  next'[busy[i + 1]] = IF i < Len(busy) - 1
                                             THEN busy'[i + 1] ELSE oldest
      BY <1>7, <1>9 DEF Chained
    <3>1. i + 1 \in DOMAIN busy /\ busy[i + 1] # oldest /\ i \in Nat
      BY <1>2, <1>7, <1>8
    <3>2. CASE i = Len(busy) - 1
      BY <3>2, <1>2, <1>5
    <3>3. CASE i # Len(busy) - 1
      <4> DEFINE n == Len(busy)
      <4>1. /\ i < n - 1 /\ i + 1 < n /\ i + 1 \in 1..n - 1 /\ i + 1 # n
        <5>1. i \in 1..n - 1 /\ i # n - 1 /\ n \in Nat
          BY <3>3, <1>2
        <5> HIDE DEF n
        <5> QED BY <5>1
      <4>2. next'[busy[i + 1]] = next[busy[i + 1]]
        BY <4>1, <3>1, <1>2, <1>5, <1>8
      <4>3. next[busy[i + 1]] = busy[(i + 1) + 1]
        BY <4>1, <3>1, <1>3
      <4> QED BY <4>1, <4>2, <4>3, <1>7
    <3> QED BY <3>2, <3>3
  <2>2. Chained(free, NoFrame)'
    BY <1>4 DEF Chained
  <2>3. ready_list_head' = busy'[1]
    BY <1>2, <1>3, <1>4, <1>7
  <2>4. fm' # NoFrame => next'[fm'] = NoFrame
    <3>1. fm # NoFrame => fm \in Frames /\ fm # oldest /\ fm # last
      BY <1>2, <1>8 DEF IInv, TypeOK, FrameListTypeOK
    <3> QED BY <3>1, <1>3, <1>4, <1>5
  <2> QED BY <2>1, <2>2, <2>3, <2>4, <1>2, <1>4, <1>5, <1>7, <1>9 DEF Linked
<1>11. Flagged'
  <2>1. \A f \in Frames : f # oldest => flag'[f] = flag[f]
    BY <1>4 DEF IInv, TypeOK, FrameListTypeOK
  <2>2. flag'[oldest] = "FILLING"
    BY <1>2, <1>4 DEF IInv, TypeOK, FrameListTypeOK
  <2>3. \A i \in DOMAIN busy' : /\ busy'[i] \in Frames /\ busy'[i] # oldest
                                /\ i + 1 \in DOMAIN busy /\ busy'[i] = busy[i + 1]
    BY <1>2, <1>7, <1>8
  <2>4. fm # NoFrame => fm \in Frames /\ fm # oldest
    BY <1>2, <1>8 DEF IInv, TypeOK, FrameListTypeOK
  <2> QED BY <2>1, <2>2, <2>3, <2>4, <1>4 DEF IInv, Flagged
<1> QED BY <1>6, <1>10, <1>11

-----------------------------------------------------------------------------
(* The second critical section: the frame joins the READY ones.             *)
LEMMA AppendOf ==
  ASSUME NEW s \in Seq(Frames), NEW f \in Frames
  PROVE  /\ Append(s, f) \in Seq(Frames) /\ Append(s, f) # << >>
         /\ Len(Append(s, f)) = Len(s) + 1 /\ Append(s, f)[Len(s) + 1] = f
         /\ DOMAIN Append(s, f) = 1..Len(s) + 1
         /\ \A i \in DOMAIN s : Append(s, f)[i] = s[i] /\ i < Len(s) + 1
         /\ \A i \in DOMAIN Append(s, f) : i \in DOMAIN s \/ i = Len(s) + 1
<1>1. Len(s) \in Nat /\ DOMAIN s = 1..Len(s)
  BY FramesOf
<1>2. /\ Append(s, f) \in Seq(Frames) /\ Len(Append(s, f)) = Len(s) + 1
      /\ Append(s, f)[Len(s) + 1] = f
      /\ \A i \in 1..Len(s) : Append(s, f)[i] = s[i]
  OBVIOUS
<1>3. DOMAIN Append(s, f) = 1..Len(s) + 1 /\ Append(s, f) # << >>
  BY <1>1, <1>2, FramesOf
<1>4. /\ \A i \in 1..Len(s) : i < Len(s) + 1
      /\ \A i \in 1..Len(s) + 1 : i \in 1..Len(s) \/ i = Len(s) + 1
  BY <1>1
<1> QED BY <1>1, <1>2, <1>3, <1>4

LEMMA FrameFilledStep ==
  ASSUME IInv, FrameFilled
  PROVE  FQ!FrameReady /\ Linked' /\ Flagged'
<1>1. /\ camPc = "filling" /\ camPc' = "requeue"
      /\ fill \in Frames /\ fill # NoFrame
  <2>1. camPc = "filling" /\ camPc' = "requeue" /\ fill # NoFrame
    BY ListFacts DEF FrameFilled, CamGoto
  <2> QED BY <2>1 DEF IInv, TypeOK, FrameListTypeOK
<1>2. /\ UNCHANGED <<next, ready_list_head, ready_list_tail, empty_list_head, fm,
                     lastSent, free, sndPc>>
      /\ flag' = [flag EXCEPT ![fill] = "READY"] /\ fill' = NoFrame
      /\ captured' = captured + 1
      /\ serial' = [serial EXCEPT ![fill] = captured + 1]
      /\ pict_ready' = pict_ready + 1 /\ busy' = Append(busy, fill)
  BY DEF FrameFilled, GetFrameReady
<1>3. FQ!FrameReady
  <2>1. /\ CamInQueue = "filling" /\ CamInQueue' = "select"
        /\ SndInQueue' = SndInQueue
    BY <1>1, <1>2 DEF CamInQueue, SndInQueue
  <2> QED BY <2>1, <1>2 DEF FQ!FrameReady, FQ!NoFrame, NoFrame
<1>4. /\ busy' # << >> /\ Len(busy') = Len(busy) + 1 /\ busy'[Len(busy) + 1] = fill
      /\ DOMAIN busy' = 1..Len(busy) + 1 /\ Len(busy) \in Nat
      /\ \A i \in DOMAIN busy : busy'[i] = busy[i] /\ i < Len(busy) + 1
      /\ \A i \in DOMAIN busy' : i \in DOMAIN busy \/ i = Len(busy) + 1
      /\ DOMAIN busy = 1..Len(busy) /\ (busy = << >> <=> Len(busy) = 0)
  <2>1. busy \in Seq(Frames)
    BY ListFacts
  <2>2. /\ Len(busy) \in Nat /\ DOMAIN busy = 1..Len(busy)
        /\ busy = << >> <=> Len(busy) = 0
    BY <2>1, FramesOf
  <2> QED BY <2>1, <2>2, <1>1, <1>2, AppendOf
<1>5. FirstFree' = FirstFree /\ FirstFill' = FirstFree /\ FirstFill = fill
  BY <1>1, <1>2 DEF FirstFree, FirstFill
<1>6. Linked'
  <2>1. Chained(busy, FirstFill)'
    <3> SUFFICES ASSUME NEW i \in DOMAIN busy'
                 PROVE  next[busy'[i]] = IF i < Len(busy) + 1
                                         THEN busy'[i + 1] ELSE FirstFree
      BY <1>2, <1>4, <1>5 DEF Chained
    <3>1. CASE i = Len(busy) + 1
      BY <3>1, <1>1, <1>4, <1>5 DEF IInv, Linked
    <3>2. CASE i \in DOMAIN busy /\ i = Len(busy)
      BY <3>2, <1>4, <1>5 DEF IInv, Linked, Chained
    <3>3. CASE i \in DOMAIN busy /\ i # Len(busy)
      <4>1. i < Len(busy) /\ i + 1 \in DOMAIN busy
        BY <3>3, <1>4
      <4> QED BY <4>1, <3>3, <1>4 DEF IInv, Linked, Chained
    <3> QED BY <3>1, <3>2, <3>3, <1>4
  <2>2. Chained(free, NoFrame)'
    BY <1>2 DEF IInv, Linked, Chained
  <2>3. ready_list_head' = busy'[1]
    <3>1. CASE busy = << >>
      BY <3>1, <1>2, <1>4, <1>5 DEF IInv, Linked
    <3>2. CASE busy # << >>
      <4>1. 1 \in DOMAIN busy
        BY <3>2, FramesOf, ListFacts
      <4> QED BY <4>1, <3>2, <1>2, <1>4 DEF IInv, Linked
    <3> QED BY <3>1, <3>2
  <2> QED BY <2>1, <2>2, <2>3, <1>1, <1>2, <1>4, <1>5 DEF IInv, Linked
<1>7. Flagged'
  <2>1. /\ \A f \in Frames : f # fill => flag'[f] = flag[f]
        /\ flag'[fill] = "READY"
    BY <1>1, <1>2 DEF IInv, TypeOK, FrameListTypeOK
  <2>2. /\ \A i \in DOMAIN busy : busy[i] \in Frames /\ busy[i] # fill
        /\ \A i \in DOMAIN free : free[i] \in Frames /\ free[i] # fill
        /\ fm # NoFrame => fm \in Frames /\ fm # fill
    BY <1>1, ListFacts, FramesOf DEF IInv, TypeOK, FrameListTypeOK
  <2> QED BY <2>1, <2>2, <1>2, <1>4 DEF IInv, Flagged
<1> QED BY <1>3, <1>6, <1>7
-----------------------------------------------------------------------------
(* use_frame: the token that woke the sender up stands for a READY frame,   *)
(* and the head of the chain is the oldest of them.                         *)
LEMMA TakeFrameStep ==
  ASSUME IInv, TakeFrame
  PROVE  FQ!UseFrame /\ Linked' /\ Flagged' /\ sndPc' = "using" /\ fm' \in Frames
<1> DEFINE oldest == busy[1]
<1>1. sndPc = "woken" /\ fm = NoFrame
  BY ListFacts DEF TakeFrame, SndGoto
<1>2. /\ busy \in Seq(Frames) /\ Len(busy) \in Nat /\ Len(busy) >= 1
      /\ busy # << >> /\ DOMAIN busy = 1..Len(busy) /\ 1 \in DOMAIN busy
      /\ oldest \in Frames /\ oldest # NoFrame /\ Head(busy) = oldest
  <2>1. Len(busy) = pict_ready + 1 /\ pict_ready \in Nat /\ busy \in Seq(Frames)
    BY <1>1, ListFacts
  <2>2. Len(busy) >= 1 /\ Len(busy) # 0
    BY <2>1
  <2> QED BY <2>1, <2>2, FramesOf
<1>3. ready_list_head = oldest /\ flag[oldest] = "READY"
  BY <1>2 DEF IInv, Linked, Flagged
<1>4. /\ UNCHANGED <<ready_list_tail, empty_list_head, pict_ready, fill, serial,
                     captured, free, camPc>>
      /\ flag' = [flag EXCEPT ![oldest] = "IN_USE"]
      /\ next' = [next EXCEPT ![oldest] = NoFrame]
      /\ ready_list_head' = next[oldest] /\ lastSent' = serial[oldest]
      /\ fm' = oldest /\ busy' = Tail(busy) /\ sndPc' = "using"
  BY <1>2, <1>3 DEF TakeFrame, UseFrame, SndGoto
<1>5. FQ!UseFrame
  <2>1. /\ SndInQueue = "woken" /\ SndInQueue' = "using"
        /\ CamInQueue' = CamInQueue
    BY <1>1, <1>4 DEF CamInQueue, SndInQueue
  <2> QED BY <2>1, <1>2, <1>4 DEF FQ!UseFrame
<1>6. /\ Len(busy') = Len(busy) - 1 /\ DOMAIN busy' = 1..Len(busy) - 1
      /\ busy' # << >> <=> Len(busy) > 1
      /\ \A i \in 1..Len(busy) - 1 : /\ busy'[i] = busy[i + 1] /\ i \in Nat
                                     /\ i + 1 \in DOMAIN busy /\ i + 1 # 1
  BY <1>2, <1>4, TailOf
<1>7. /\ next'[oldest] = NoFrame /\ flag'[oldest] = "IN_USE"
      /\ \A f \in Frames : f # oldest => next'[f] = next[f] /\ flag'[f] = flag[f]
  BY <1>2, <1>4 DEF IInv, TypeOK, FrameListTypeOK
<1>8. /\ \A i \in DOMAIN busy : busy[i] \in Frames /\ (i # 1 => busy[i] # oldest)
      /\ \A i \in DOMAIN free : free[i] \in Frames /\ free[i] # oldest
      /\ fill # NoFrame => fill \in Frames /\ fill # oldest
  BY <1>2, ListFacts, FramesOf DEF FQ!NoRepeats, IInv, TypeOK, FrameListTypeOK
<1>9. FirstFree' = FirstFree /\ FirstFill' = FirstFill
  BY <1>4 DEF FirstFree, FirstFill
<1>10. /\ next[oldest] = IF 1 < Len(busy) THEN busy[2] ELSE FirstFill
       /\ \A i \in DOMAIN busy :
            next[busy[i]] = IF i < Len(busy) THEN busy[i + 1] ELSE FirstFill
       /\ \A i \in DOMAIN free :
            next[free[i]] = IF i < Len(free) THEN free[i + 1] ELSE NoFrame
  BY <1>2 DEF IInv, Linked, Chained
<1>11. Linked'
  <2>1. Chained(busy, FirstFill)'
    <3> SUFFICES ASSUME NEW i \in 1..Len(busy) - 1
                 PROVE  next'[busy[i + 1]] = IF i < Len(busy) - 1
                                             THEN busy'[i + 1] ELSE FirstFill
      BY <1>6, <1>9 DEF Chained
    <3>1. next'[busy[i + 1]] = next[busy[i + 1]] /\ i + 1 \in DOMAIN busy
      BY <1>6, <1>7, <1>8
    <3>2. i + 1 < Len(busy) => i + 1 \in 1..Len(busy) - 1
      BY <1>2
    <3>3. i + 1 < Len(busy) <=> i < Len(busy) - 1
      BY <1>2
    <3>4. next[busy[i + 1]] = IF i + 1 < Len(busy) THEN busy[(i + 1) + 1]
                                                    ELSE FirstFill
      BY <3>1, <1>10
    <3> QED BY <3>1, <3>2, <3>3, <3>4, <1>6
  <2>2. Chained(free, NoFrame)'
    BY <1>4, <1>7, <1>8, <1>10 DEF Chained
  <2>3. fill' # NoFrame => next'[fill'] = FirstFree'
    BY <1>4, <1>7, <1>8, <1>9 DEF IInv, Linked
  <2>4. ready_list_head' = IF busy' # << >> THEN busy'[1] ELSE FirstFill'
    <3>1. 1 < Len(busy) => 1 \in 1..Len(busy) - 1 /\ 1 + 1 = 2
      BY <1>2
    <3> QED BY <3>1, <1>2, <1>4, <1>6, <1>9, <1>10
  <2>5. ready_list_tail' = IF free' # << >> THEN free'[Len(free')]
                           ELSE IF fill' # NoFrame THEN fill'
                           ELSE busy'[Len(busy')]
    <3>1. free = << >> /\ fill = NoFrame => Len(busy) >= 3
      BY <1>1, FewElsewhere
    <3>2. Len(busy) >= 3 => /\ Len(busy) - 1 \in 1..Len(busy) - 1
                            /\ (Len(busy) - 1) + 1 = Len(busy)
      BY <1>2
    <3>3. free = << >> /\ fill = NoFrame => busy'[Len(busy')] = busy[Len(busy)]
      BY <3>1, <3>2, <1>6
    <3> QED BY <3>3, <1>4 DEF IInv, Linked
  <2>6. empty_list_head' = FirstFree' /\ next'[fm'] = NoFrame
    BY <1>4, <1>7, <1>9 DEF IInv, Linked
  <2> QED BY <2>1, <2>2, <2>3, <2>4, <2>5, <2>6 DEF Linked
<1>12. Flagged'
  BY <1>4, <1>6, <1>7, <1>8 DEF IInv, Flagged
<1> QED BY <1>2, <1>4, <1>5, <1>11, <1>12

(* empty_frame: the frame is put behind the last of the chain.              *)
LEMMA GiveBackStep ==
  ASSUME IInv, GiveBack
  PROVE  FQ!EmptyFrame /\ Linked' /\ Flagged'
<1>1. sndPc = "done" /\ sndPc' = "wait" /\ fm \in Frames /\ fm # NoFrame
  <2>1. sndPc = "done" /\ sndPc' = "wait" /\ fm # NoFrame
    BY ListFacts DEF GiveBack, SndGoto
  <2> QED BY <2>1 DEF IInv, TypeOK, FrameListTypeOK
<1>2. /\ UNCHANGED <<ready_list_head, pict_ready, fill, serial, captured,
                     lastSent, busy, camPc>>
      /\ flag' = [flag EXCEPT ![fm] = "EMPTY"]
      /\ next' = [next EXCEPT ![ready_list_tail] = fm]
      /\ ready_list_tail' = fm /\ fm' = NoFrame /\ free' = Append(free, fm)
      /\ empty_list_head' = IF empty_list_head = NoFrame THEN fm
                                                          ELSE empty_list_head
  BY DEF GiveBack, EmptyFrame
<1>3. FQ!EmptyFrame
  <2>1. /\ SndInQueue = "using" /\ SndInQueue' = "wait"
        /\ CamInQueue' = CamInQueue
    BY <1>1, <1>2 DEF CamInQueue, SndInQueue
  <2> QED BY <2>1, <1>2 DEF FQ!EmptyFrame, FQ!NoFrame, NoFrame
<1>4. /\ Len(free) \in Nat /\ DOMAIN free = 1..Len(free)
      /\ free = << >> <=> Len(free) = 0
      /\ free # << >> => 1 \in DOMAIN free /\ Len(free) \in DOMAIN free
      /\ Len(busy) \in Nat /\ DOMAIN busy = 1..Len(busy)
      /\ busy # << >> => 1 \in DOMAIN busy /\ Len(busy) \in DOMAIN busy
  BY ListFacts, FramesOf
<1>5. /\ free' # << >> /\ Len(free') = Len(free) + 1
      /\ free'[Len(free) + 1] = fm /\ DOMAIN free' = 1..Len(free) + 1
      /\ \A i \in DOMAIN free : free'[i] = free[i] /\ i < Len(free) + 1
      /\ \A i \in DOMAIN free' : i \in DOMAIN free \/ i = Len(free) + 1
  BY <1>1, <1>2, AppendOf, ListFacts
<1>6. /\ \A i \in DOMAIN busy : busy[i] \in Frames /\ busy[i] # fm
      /\ \A i \in DOMAIN free : free[i] \in Frames /\ free[i] # fm /\ free[i] # fill
      /\ \A i, j \in DOMAIN free : free[i] = free[j] => i = j
      /\ \A i, j \in DOMAIN busy : busy[i] = busy[j] => i = j
      /\ \A i \in DOMAIN busy, j \in DOMAIN free : busy[i] # free[j]
      /\ \A i \in DOMAIN busy : busy[i] # fill
      /\ fill # NoFrame => fill \in Frames /\ fill # fm
  BY <1>1, ListFacts, FramesOf DEF FQ!NoRepeats, IInv, TypeOK, FrameListTypeOK
<1>7. /\ ready_list_tail \in Frames /\ next'[ready_list_tail] = fm
      /\ \A f \in Frames : f # ready_list_tail => next'[f] = next[f]
      /\ \A f \in Frames : f # fm => flag'[f] = flag[f]
      /\ flag'[fm] = "EMPTY"
  BY <1>1, <1>2 DEF IInv, TypeOK, FrameListTypeOK
<1>8. FirstFree' = IF free # << >> THEN free[1] ELSE fm
  BY <1>4, <1>5 DEF FirstFree
<1>9. FirstFill' = IF fill # NoFrame THEN fill ELSE FirstFree'
  BY <1>2 DEF FirstFill
<1>10. /\ ready_list_tail = IF free # << >> THEN free[Len(free)]
                            ELSE IF fill # NoFrame THEN fill
                            ELSE busy[Len(busy)]
       /\ free = << >> /\ fill = NoFrame => busy # << >>
       /\ busy = << >> /\ fill = NoFrame => free # << >>
  <2>1. free = << >> /\ fill = NoFrame => Len(busy) >= 2
    BY FewElsewhere
  <2>2. busy = << >> => Len(busy) = 0
    BY ListFacts, FramesOf
  <2> QED BY <2>1, <2>2, FewElsewhere DEF IInv, Linked
<1>11. /\ \A i \in DOMAIN busy :
            next[busy[i]] = IF i < Len(busy) THEN busy[i + 1] ELSE FirstFill
       /\ \A i \in DOMAIN free :
            next[free[i]] = IF i < Len(free) THEN free[i + 1] ELSE NoFrame
       /\ fill # NoFrame => next[fill] = FirstFree
       /\ next[fm] = NoFrame
  BY <1>1 DEF IInv, Linked, Chained
<1>12. ready_list_tail # fm
  BY <1>4, <1>6, <1>10
<1>13. Linked'
  <2>1. Chained(busy, FirstFill)'
    <3> SUFFICES ASSUME NEW i \in DOMAIN busy
                 PROVE  next'[busy[i]] = IF i < Len(busy) THEN busy[i + 1]
                                                          ELSE FirstFill'
      BY <1>2 DEF Chained
    <3>1. CASE ready_list_tail = busy[i]
      <4>1. free = << >> /\ fill = NoFrame /\ i = Len(busy)
        BY <3>1, <1>4, <1>6, <1>10
      <4> QED BY <4>1, <3>1, <1>4, <1>7, <1>8, <1>9
    <3>2. CASE ready_list_tail # busy[i]
      <4>1. next'[busy[i]] = next[busy[i]]
        BY <3>2, <1>6, <1>7
      <4>2. i = Len(busy) => fill # NoFrame \/ free # << >>
        BY <3>2, <1>10
      <4>3. FirstFill' = FirstFill \/ i # Len(busy)
        BY <4>2, <1>8, <1>9 DEF FirstFill, FirstFree
      <4> QED BY <4>1, <4>3, <1>4, <1>11
    <3> QED BY <3>1, <3>2
  <2>2. Chained(free, NoFrame)'
    <3> SUFFICES ASSUME NEW i \in DOMAIN free'
                 PROVE  next'[free'[i]] = IF i < Len(free) + 1
                                          THEN free'[i + 1] ELSE NoFrame
      BY <1>5 DEF Chained
    <3>1. CASE i = Len(free) + 1
      BY <3>1, <1>1, <1>4, <1>5, <1>7, <1>11, <1>12
    <3>2. CASE i \in DOMAIN free /\ i = Len(free)
      <4>1. free # << >> /\ ready_list_tail = free[i]
        BY <3>2, <1>4, <1>10
      <4> QED BY <4>1, <3>2, <1>4, <1>5, <1>7
    <3>3. CASE i \in DOMAIN free /\ i # Len(free)
      <4>1. i < Len(free) /\ i + 1 \in DOMAIN free /\ free # << >>
            /\ i < Len(free) + 1
        BY <3>3, <1>4
      <4>2. free[i] # ready_list_tail
        BY <4>1, <3>3, <1>4, <1>6, <1>10
      <4> QED BY <4>1, <4>2, <3>3, <1>5, <1>6, <1>7, <1>11
    <3> QED BY <3>1, <3>2, <3>3, <1>5
  <2>3. fill' # NoFrame => next'[fill'] = FirstFree'
    <3> SUFFICES ASSUME fill # NoFrame PROVE next'[fill] = FirstFree'
      BY <1>2
    <3>1. CASE free = << >>
      BY <3>1, <1>7, <1>8, <1>10
    <3>2. CASE free # << >>
      <4>1. fill # ready_list_tail
        BY <3>2, <1>4, <1>6, <1>10
      <4> QED BY <4>1, <3>2, <1>6, <1>7, <1>8, <1>11 DEF FirstFree
    <3> QED BY <3>1, <3>2
  <2>4. ready_list_head' = IF busy' # << >> THEN busy'[1] ELSE FirstFill'
    BY <1>2, <1>8, <1>9, <1>10 DEF IInv, Linked, FirstFill, FirstFree
  <2>5. empty_list_head' = FirstFree'
    BY <1>2, <1>8, FirstOf DEF IInv, Linked, FirstFree
  <2> QED BY <2>1, <2>2, <2>3, <2>4, <2>5, <1>2, <1>5 DEF Linked
<1>14. Flagged'
  BY <1>1, <1>2, <1>5, <1>6, <1>7 DEF IInv, Flagged
<1> QED BY <1>3, <1>13, <1>14
-----------------------------------------------------------------------------
(* Types, step by step.                                                     *)
LEMMA Tokens == ASSUME IInv PROVE /\ pict_ready \in Nat /\ pict_ready <= FrameNum
                                  /\ fill # NoFrame => pict_ready + 1 <= FrameNum
<1> DEFINE w == IF sndPc = "woken" THEN 1 ELSE 0
           l == Len(busy)
           m == Len(free)
           o == FQ!One(fill)
           p == FQ!One(fm)
<1>1. /\ l + m + o + p = FrameNum /\ l = pict_ready + w /\ pict_ready \in Nat
      /\ l \in Nat /\ m \in Nat
  BY ListFacts, FramesOf
<1>2. o \in {0, 1} /\ p \in {0, 1} /\ w \in {0, 1} /\ (fill # NoFrame => o = 1)
  BY DEF FQ!One, FQ!NoFrame, NoFrame
<1>3. FrameNum \in Nat
  BY FrameNumAssumption
<1> HIDE DEF w, l, m, o, p
<1> QED BY <1>1, <1>2, <1>3

LEMMA ListTypes ==
  ASSUME IInv
  PROVE  /\ next \in [Frames -> Frames \cup {NoFrame}]
         /\ flag \in [Frames -> {"EMPTY", "FILLING", "READY", "IN_USE"}]
         /\ ready_list_head \in Frames /\ ready_list_tail \in Frames
         /\ empty_list_head \in Frames \cup {NoFrame}
         /\ fill \in Frames \cup {NoFrame} /\ fm \in Frames \cup {NoFrame}
         /\ pict_ready \in 0..FrameNum /\ serial \in [Frames -> 0..MaxCaptured]
         /\ captured \in 0..MaxCaptured /\ lastSent \in 0..MaxCaptured
         /\ busy \in Seq(Frames) /\ free \in Seq(Frames)
BY DEF IInv, TypeOK, FrameListTypeOK

LEMMA ClaimFrameTyped ==
  ASSUME IInv, ClaimFrame
  PROVE  FrameListTypeOK'
<1>1. CASE free # << >>
  <2>1. empty_list_head # NoFrame /\ empty_list_head \in Frames
    BY <1>1, FirstOf, ListTypes
  <2>2. /\ UNCHANGED <<next, ready_list_head, ready_list_tail, pict_ready, busy,
                       fm, serial, captured, lastSent>>
        /\ flag' = [flag EXCEPT ![empty_list_head] = "FILLING"]
        /\ fill' = empty_list_head /\ empty_list_head' = next[empty_list_head]
        /\ free' = Tail(free)
    BY <2>1 DEF ClaimFrame, GetFrameClaim
  <2>3. free' \in Seq(Frames)
    BY <1>1, <2>2, TailOf, ListTypes
  <2> QED BY <2>1, <2>2, <2>3, ListTypes DEF FrameListTypeOK
<1>2. CASE free = << >>
  <2> DEFINE oldest == ready_list_head
  <2>1. empty_list_head = NoFrame /\ oldest \in Frames /\ ready_list_tail \in Frames
    BY <1>2, FirstOf, ListTypes
  <2>2. /\ next' = [next EXCEPT ![oldest] = NoFrame, ![ready_list_tail] = oldest]
        /\ ready_list_head' = next[oldest] /\ ready_list_tail' = oldest
        /\ pict_ready' = IF pict_ready > 0 THEN pict_ready - 1 ELSE pict_ready
        /\ flag' = [flag EXCEPT ![oldest] = "FILLING"]
        /\ fill' = oldest /\ empty_list_head' = next'[oldest]
        /\ busy' = Tail(busy) /\ free' = free
        /\ UNCHANGED <<fm, serial, captured, lastSent>>
    BY <2>1 DEF ClaimFrame, GetFrameClaim
  <2>3. fill = NoFrame /\ Len(busy) >= 2 /\ busy # << >>
    <3>1. fill = NoFrame
      BY ListFacts DEF ClaimFrame, CamGoto
    <3>2. Len(busy) >= 2
      BY <3>1, <1>2, FewElsewhere
    <3>3. Len(busy) # 0
      BY <3>2
    <3> QED BY <3>1, <3>2, <3>3, FramesOf, ListFacts
  <2>4. busy' \in Seq(Frames) /\ busy' # << >>
    <3>1. Len(busy) \in Nat
      BY FramesOf, ListFacts
    <3>2. Len(busy) > 1
      BY <3>1, <2>3
    <3> QED BY <3>2, <2>2, <2>3, TailOf, ListTypes
  <2>5. Linked'
    BY <1>2, ClaimOldestStep
  <2>6. ready_list_head' \in Frames
    BY <2>4, <2>5, FramesOf DEF Linked
  <2>7. next' \in [Frames -> Frames \cup {NoFrame}]
    BY <2>1, <2>2, ListTypes
  <2>8. pict_ready' \in 0..FrameNum
    BY <2>2, Tokens, FrameNumAssumption
  <2>9. flag' \in [Frames -> {"EMPTY", "FILLING", "READY", "IN_USE"}]
    BY <2>1, <2>2, ListTypes
  <2> QED BY <2>1, <2>2, <2>4, <2>6, <2>7, <2>8, <2>9, ListTypes
          DEF FrameListTypeOK
<1> QED BY <1>1, <1>2

LEMMA FrameFilledTyped ==
  ASSUME IInv, FrameFilled
  PROVE  FrameListTypeOK'
<1>1. /\ camPc = "filling" /\ fill # NoFrame /\ fill \in Frames
      /\ captured < MaxCaptured
  <2>1. camPc = "filling" /\ fill # NoFrame
    BY ListFacts DEF FrameFilled, CamGoto
  <2> QED BY <2>1, ListTypes DEF IInv, InBound
<1>2. /\ UNCHANGED <<next, ready_list_head, ready_list_tail, empty_list_head, fm,
                     lastSent, free>>
      /\ flag' = [flag EXCEPT ![fill] = "READY"] /\ fill' = NoFrame
      /\ captured' = captured + 1
      /\ serial' = [serial EXCEPT ![fill] = captured + 1]
      /\ pict_ready' = pict_ready + 1 /\ busy' = Append(busy, fill)
  BY DEF FrameFilled, GetFrameReady
<1>3. pict_ready' \in 0..FrameNum
  BY <1>1, <1>2, Tokens, FrameNumAssumption
<1>4. captured + 1 \in 0..MaxCaptured
  BY <1>1, ListTypes, MaxCapturedAssumption
<1>5. busy' \in Seq(Frames)
  BY <1>1, <1>2, AppendOf, ListTypes
<1>6. serial' \in [Frames -> 0..MaxCaptured]
  BY <1>1, <1>2, <1>4, ListTypes
<1>7. flag' \in [Frames -> {"EMPTY", "FILLING", "READY", "IN_USE"}]
  BY <1>1, <1>2, ListTypes
<1> QED BY <1>2, <1>3, <1>4, <1>5, <1>6, <1>7, ListTypes DEF FrameListTypeOK

LEMMA TakeFrameTyped ==
  ASSUME IInv, TakeFrame
  PROVE  FrameListTypeOK'
<1>1. fm' \in Frames /\ fm' # NoFrame /\ Linked'
  BY TakeFrameStep, FramesOf, FrameNumAssumption DEF Frames, NoFrame
<1>2. /\ UNCHANGED <<ready_list_tail, empty_list_head, pict_ready, fill, serial,
                     captured, free>>
      /\ flag' = [flag EXCEPT ![ready_list_head] = "IN_USE"]
      /\ next' = [next EXCEPT ![ready_list_head] = NoFrame]
      /\ lastSent' = serial[ready_list_head] /\ busy' = Tail(busy)
  BY <1>1 DEF TakeFrame, UseFrame
<1>3. fm = NoFrame /\ sndPc = "woken"
  BY ListFacts DEF TakeFrame, SndGoto
<1>4. busy # << >>
  <2>1. Len(busy) = pict_ready + 1 /\ pict_ready \in Nat
    BY <1>3, ListFacts
  <2> QED BY <2>1, ListFacts, FramesOf
<1>5. busy' \in Seq(Frames) /\ (busy' = << >> => Len(busy) <= 1)
  <2>1. Len(busy) \in Nat
    BY ListFacts, FramesOf
  <2> QED BY <2>1, <1>2, <1>4, TailOf, ListFacts
<1>6. ready_list_head' \in Frames
  <2>1. CASE busy' # << >>
    BY <2>1, <1>1, <1>5, FramesOf DEF Linked
  <2>2. CASE busy' = << >>
    <3>1. fill # NoFrame \/ free # << >>
      <4>1. Len(busy) <= 1 /\ Len(busy) \in Nat
        BY <2>2, <1>5, ListFacts, FramesOf
      <4> QED BY <4>1, <1>3, FewElsewhere
    <3>2. FirstFill' \in Frames
      BY <3>1, <1>2, ListTypes, FramesOf DEF FirstFill, FirstFree
    <3> QED BY <3>2, <2>2, <1>1 DEF Linked
  <2> QED BY <2>1, <2>2
<1>7. /\ next' \in [Frames -> Frames \cup {NoFrame}]
      /\ flag' \in [Frames -> {"EMPTY", "FILLING", "READY", "IN_USE"}]
      /\ lastSent' \in 0..MaxCaptured
  BY <1>2, ListTypes
<1> QED BY <1>1, <1>2, <1>5, <1>6, <1>7, ListTypes DEF FrameListTypeOK

LEMMA GiveBackTyped ==
  ASSUME IInv, GiveBack
  PROVE  FrameListTypeOK'
<1>1. fm \in Frames
  BY ListFacts, ListTypes DEF GiveBack, SndGoto
<1>2. /\ UNCHANGED <<ready_list_head, pict_ready, fill, serial, captured,
                     lastSent, busy>>
      /\ flag' = [flag EXCEPT ![fm] = "EMPTY"]
      /\ next' = [next EXCEPT ![ready_list_tail] = fm]
      /\ ready_list_tail' = fm /\ fm' = NoFrame /\ free' = Append(free, fm)
      /\ empty_list_head' = IF empty_list_head = NoFrame THEN fm
                                                          ELSE empty_list_head
  BY DEF GiveBack, EmptyFrame
<1>3. free' \in Seq(Frames)
  BY <1>1, <1>2, AppendOf, ListTypes
<1>4. /\ next' \in [Frames -> Frames \cup {NoFrame}]
      /\ flag' \in [Frames -> {"EMPTY", "FILLING", "READY", "IN_USE"}]
      /\ empty_list_head' \in Frames \cup {NoFrame}
  BY <1>1, <1>2, ListTypes
<1> QED BY <1>1, <1>2, <1>3, <1>4, ListTypes DEF FrameListTypeOK
-----------------------------------------------------------------------------
(* The other steps leave the list alone.                                    *)
LEMMA IntervalTyped == ASSUME NEW v \in Nat PROVE Interval(v) \in Nat
<1>1. \A k \in 1..24 : Pauses[k] \in Nat
  BY DEF Pauses
<1>2. ASSUME NEW k \in 0..23 PROVE (10 * k) \div 10 + 1 \in 1..24
  OBVIOUS
<1>3. v \in DOMAIN Table => Table[v] \in Nat
  BY <1>1, <1>2 DEF Table
<1> QED BY <1>3 DEF Interval

Elsewhere == \/ DataConnection \/ StartCapturing \/ SelectGivesUp \/ GetBuffer
             \/ PutBuffer \/ SendPicture \/ Pause \/ Command

LEMMA ElsewhereStep ==
  ASSUME IInv, Elsewhere \/ UNCHANGED vars
  PROVE  /\ [FQ!Next]_(FQ!vars)
         /\ Linked' /\ Flagged' /\ InBound' /\ TypeOK'
<1>1. UNCHANGED listVars
  BY DEF Elsewhere, vars, DataConnection, StartCapturing, SelectGivesUp,
         GetBuffer, PutBuffer, SendPicture, Pause, Command, IntervalCopied,
         IntervalMapped
<1>2. UNCHANGED <<next, flag, ready_list_head, ready_list_tail, empty_list_head,
                  pict_ready, fill, fm, serial, captured, lastSent, busy, free>>
  BY <1>1 DEF listVars, pointers
<1>3. /\ Linked' /\ Flagged' /\ FrameListTypeOK'
  <2>1. FirstFree' = FirstFree /\ FirstFill' = FirstFill
    BY <1>2 DEF FirstFree, FirstFill
  <2>2. Linked'
    BY <1>2, <2>1 DEF IInv, Linked, Chained
  <2>3. Flagged' /\ FrameListTypeOK'
    BY <1>2 DEF IInv, Flagged, TypeOK, FrameListTypeOK
  <2> QED BY <2>2, <2>3
<1>4. SndInQueue' = SndInQueue
  BY DEF Elsewhere, vars, threadVars, DataConnection, StartCapturing,
         SelectGivesUp, GetBuffer, PutBuffer, SendPicture, Pause, Command,
         IntervalCopied, IntervalMapped, SndGoto, SndInQueue
<1>5. \/ CamInQueue' = CamInQueue
      \/ CamInQueue = "select" /\ CamInQueue' = "stopped"
  BY DEF Elsewhere, vars, threadVars, DataConnection, StartCapturing,
         SelectGivesUp, GetBuffer, PutBuffer, SendPicture, Pause, Command,
         IntervalCopied, IntervalMapped, CamGoto, CamInQueue
<1>6. [FQ!Next]_(FQ!vars)
  BY <1>2, <1>4, <1>5 DEF FQ!Next, FQ!vars, FQ!CameraStops
<1>7. InBound'
  BY <1>2, NBuffersAssumption DEF IInv, TypeOK, InBound, Elsewhere, vars,
     threadVars, DataConnection, StartCapturing, SelectGivesUp, GetBuffer,
     PutBuffer, SendPicture, Pause, Command, IntervalCopied, IntervalMapped,
     CamGoto
<1>8. TypeOK'
  <2>1. /\ camPc' \in {"start", "select", "dequeued", "filling", "requeue", "ended"}
        /\ sndPc' \in {"none", "wait", "woken", "using", "pausing", "done",
                       "exited"}
    BY DEF IInv, TypeOK, Elsewhere, vars, threadVars, DataConnection,
           StartCapturing, SelectGivesUp, GetBuffer, PutBuffer, SendPicture,
           Pause, Command, IntervalCopied, IntervalMapped, CamGoto, SndGoto
  <2>2. start_camera' \in {0, 1}
    BY DEF IInv, TypeOK, Elsewhere, vars, threadVars, DataConnection,
           StartCapturing, SelectGivesUp, GetBuffer, PutBuffer, SendPicture,
           Pause, Command, IntervalCopied, IntervalMapped, CamGoto
  <2>3. /\ video_frameinterval' \in Nat /\ pause' \in Nat
        /\ cmdPc' \in {"idle", "mapping"}
    BY RequestsAssumption, IntervalTyped
    DEF IInv, TypeOK, Elsewhere, vars, intervalVars, DataConnection,
        StartCapturing, SelectGivesUp, GetBuffer, PutBuffer, SendPicture,
        Pause, Command, IntervalCopied, IntervalMapped
  <2>4. queued' \in 0..NBuffers
    BY NBuffersAssumption
    DEF IInv, TypeOK, InBound, Elsewhere, vars, threadVars, DataConnection,
        StartCapturing, SelectGivesUp, GetBuffer, PutBuffer, SendPicture,
        Pause, Command, IntervalCopied, IntervalMapped, CamGoto
  <2> QED BY <2>1, <2>2, <2>3, <2>4, <1>3 DEF TypeOK
<1> QED BY <1>3, <1>6, <1>7, <1>8
(* The sender waits for a token.                                            *)
LEMMA SemWaitStep ==
  ASSUME IInv, SemWait
  PROVE  FQ!SenderWakes /\ Linked' /\ Flagged' /\ FrameListTypeOK'
<1>1. /\ UNCHANGED <<next, flag, ready_list_head, ready_list_tail, empty_list_head,
                     fill, fm, serial, captured, lastSent, busy, free, camPc>>
      /\ pict_ready > 0 /\ pict_ready' = pict_ready - 1
      /\ sndPc = "wait" /\ sndPc' = "woken"
  BY DEF SemWait, SndGoto, pointers
<1>2. FQ!SenderWakes
  <2>1. SndInQueue = "wait" /\ SndInQueue' = "woken" /\ CamInQueue' = CamInQueue
    BY <1>1 DEF SndInQueue, CamInQueue
  <2> QED BY <2>1, <1>1 DEF FQ!SenderWakes
<1>3. FirstFree' = FirstFree /\ FirstFill' = FirstFill
  BY <1>1 DEF FirstFree, FirstFill
<1>4. Linked'
  BY <1>1, <1>3 DEF IInv, Linked, Chained
<1>5. Flagged'
  BY <1>1 DEF IInv, Flagged
<1>6. pict_ready' \in 0..FrameNum
  BY <1>1, Tokens, FrameNumAssumption
<1>7. FrameListTypeOK'
  BY <1>1, <1>6 DEF IInv, TypeOK, FrameListTypeOK
<1> QED BY <1>2, <1>4, <1>5, <1>7

-----------------------------------------------------------------------------
(* Every step of the threads is one of the queue, or none.                  *)
ListStep == ClaimFrame \/ FrameFilled \/ SemWait \/ TakeFrame \/ GiveBack

LEMMA ListStepStep ==
  ASSUME IInv, ListStep
  PROVE  /\ FQ!Next
         /\ Linked' /\ Flagged' /\ InBound' /\ TypeOK'
<1>1. FQ!Next /\ Linked' /\ Flagged' /\ FrameListTypeOK'
  BY ClaimFreeStep, ClaimOldestStep, FrameFilledStep, SemWaitStep,
     TakeFrameStep, GiveBackStep, ClaimFrameTyped, FrameFilledTyped,
     TakeFrameTyped, GiveBackTyped
  DEF ListStep, FQ!Next, FQ!Camera, FQ!Sender
<1>2. /\ UNCHANGED <<start_camera, queued, video_frameinterval, cmdPc>>
      /\ pause' \in Nat
  BY DEF IInv, TypeOK, ListStep, ClaimFrame, FrameFilled, SemWait, TakeFrame,
         GiveBack, intervalVars
<1>3. /\ camPc' \in {"start", "select", "dequeued", "filling", "requeue", "ended"}
      /\ camPc' \in {"dequeued", "filling"} => camPc \in {"dequeued", "filling"}
                                               /\ captured' = captured
      /\ camPc' \in {"dequeued", "filling", "requeue"}
           => camPc \in {"dequeued", "filling", "requeue"}
  BY DEF IInv, TypeOK, ListStep, ClaimFrame, FrameFilled, SemWait, TakeFrame,
         GiveBack, CamGoto, GetFrameClaim, UseFrame, EmptyFrame
<1>4. sndPc' \in {"none", "wait", "woken", "using", "pausing", "done", "exited"}
  BY DEF IInv, TypeOK, ListStep, ClaimFrame, FrameFilled, SemWait, TakeFrame,
         GiveBack, SndGoto
<1>5. TypeOK'
  BY <1>1, <1>2, <1>3, <1>4 DEF IInv, TypeOK
<1>6. InBound'
  BY <1>2, <1>3 DEF IInv, InBound
<1> QED BY <1>1, <1>5, <1>6

LEMMA Simulation == IInv /\ [Next]_vars => [FQ!Next]_(FQ!vars) /\ IInv'
<1> SUFFICES ASSUME IInv, [Next]_vars PROVE [FQ!Next]_(FQ!vars) /\ IInv'
  OBVIOUS
<1>1. ListStep \/ Elsewhere \/ UNCHANGED vars
  BY DEF Next, CameraThread, Sender, ListStep, Elsewhere
<1>2. /\ [FQ!Next]_(FQ!vars)
      /\ Linked' /\ Flagged' /\ InBound' /\ TypeOK'
  BY <1>1, ListStepStep, ElsewhereStep
<1>3. (FQ!IInv)'
  BY <1>2, QueueIInv DEF IInv
<1> QED BY <1>2, <1>3 DEF IInv

THEOREM Invariance == Spec => []IInv
BY InitIInv, Simulation, PTL DEF Spec

(* camera_thread and send_picture_thread over the linked frames of v4l2.c   *)
(* implement the queue that drops the oldest picture.                       *)
THEOREM CameraImplementsFrameQueue == Spec => ImplementsFrameQueue
<1>1. Init => FQ!Init
  BY InitIInv
<1>2. IInv /\ [Next]_vars => [FQ!Next]_(FQ!vars)
  BY Simulation
<1> QED BY Invariance, <1>1, <1>2, PTL DEF Spec, ImplementsFrameQueue, FQ!Spec

(* The pointers are as the queue has the frames, in every reachable state.  *)
THEOREM ChainWhole == Spec => [](Linked /\ Flagged)
<1>1. IInv => Linked /\ Flagged
  BY DEF IInv
<1> QED BY Invariance, <1>1, PTL

(* The types, and with them that no pointer that is followed is NULL.       *)
THEOREM TypeCorrect == Spec => []TypeOK
<1>1. IInv => TypeOK
  BY DEF IInv
<1> QED BY Invariance, <1>1, PTL

(* send_picture_thread never finds the list without a READY frame, which    *)
(* would end it.                                                            *)
THEOREM SenderGoesOn == Spec => [](sndPc # "exited")
<1>1. IInv => sndPc # "exited"
  BY ListFacts
<1> QED BY Invariance, <1>1, PTL

(* The two instances of the queue have the same behaviours.                 *)
LEMMA SameSpec == FQ!Spec => Q!Spec
<1>1. FQ!Init => Q!Init
  BY DEF FQ!Init, Q!Init, FQ!Frames, FQ!NoFrame, Q!Frames, Q!NoFrame
<1> QED BY <1>1, SameNext, PTL DEF FQ!Spec, Q!Spec

(* What the thread sends: pictures in the order of capture, none twice.     *)
THEOREM CameraOrderKept == Spec => FQ!SentInOrder
<1>1. Q!Spec => Q!SentInOrder
  BY FrameNumAssumption, MaxCapturedAssumption, Q!OrderKept
<1>2. [lastSent' # lastSent => lastSent' > lastSent]_(Q!vars)
        => [lastSent' # lastSent => lastSent' > lastSent]_(FQ!vars)
  BY DEF Q!vars, FQ!vars
<1>3. Q!SentInOrder => FQ!SentInOrder
  BY <1>2, PTL DEF Q!SentInOrder, FQ!SentInOrder
<1> QED BY CameraImplementsFrameQueue, SameSpec, <1>1, <1>3, PTL
     DEF ImplementsFrameQueue

(* And recent ones: fewer than FrameNum pictures are newer than the one that*)
(* is sent next.                                                            *)
THEOREM CameraFresh == Spec => FQ!SentFresh
<1>1. Q!Spec => Q!SentFresh
  BY FrameNumAssumption, MaxCapturedAssumption, Q!FreshPictures
<1>2. [lastSent' # lastSent => captured < lastSent' + FrameNum]_(Q!vars)
        => [lastSent' # lastSent => captured < lastSent' + FrameNum]_(FQ!vars)
  BY DEF Q!vars, FQ!vars
<1>3. Q!SentFresh => FQ!SentFresh
  BY <1>2, PTL DEF Q!SentFresh, FQ!SentFresh
<1> QED BY CameraImplementsFrameQueue, SameSpec, <1>1, <1>3, PTL
     DEF ImplementsFrameQueue
=============================================================================
