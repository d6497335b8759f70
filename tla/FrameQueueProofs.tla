-------------------------- MODULE FrameQueueProofs ---------------------------
(***************************************************************************)
(* Proofs about FrameQueue, for every number of frames from three on.      *)
(***************************************************************************)
EXTENDS FrameQueue, TLAPS

(* Taking the head off a sequence without repetitions.                      *)
LEMMA TailFacts ==
  ASSUME NEW S, NEW s \in Seq(S), s # << >>, NoRepeats(s)
  PROVE  /\ Head(s) \in S /\ Head(s) = s[1] /\ 1 \in DOMAIN s
         /\ Tail(s) \in Seq(S) /\ NoRepeats(Tail(s))
         /\ Len(Tail(s)) \in Nat /\ Len(s) \in Nat /\ Len(Tail(s)) + 1 = Len(s)
         /\ \A i \in DOMAIN Tail(s) : /\ i \in Nat /\ i + 1 \in DOMAIN s
                                      /\ Tail(s)[i] = s[i + 1]
                                      /\ Tail(s)[i] # Head(s)
<1>1. /\ Len(Tail(s)) = Len(s) - 1 /\ Len(s) \in Nat /\ Len(s) > 0
      /\ Head(s) = s[1] /\ DOMAIN s = 1..Len(s) /\ Tail(s) \in Seq(S)
      /\ DOMAIN Tail(s) = 1..Len(Tail(s))
      /\ \A i \in 1..Len(Tail(s)) : Tail(s)[i] = s[i + 1]
  OBVIOUS
<1>2. \A i \in DOMAIN Tail(s) : i \in Nat /\ i + 1 \in DOMAIN s /\ i + 1 # 1
  BY <1>1
<1>3. \A i, j \in Nat : i + 1 = j + 1 => i = j
  OBVIOUS
<1>4. \A i \in DOMAIN Tail(s) : Tail(s)[i] # s[1]
  BY <1>1, <1>2 DEF NoRepeats
<1>5. NoRepeats(Tail(s))
  BY <1>1, <1>2, <1>3 DEF NoRepeats
<1> QED BY <1>1, <1>2, <1>4, <1>5

(* Adding a new element at the end.                                         *)
LEMMA AppendFacts ==
  ASSUME NEW S, NEW s \in Seq(S), NEW x \in S, NoRepeats(s),
         \A i \in DOMAIN s : s[i] # x
  PROVE  /\ Append(s, x) \in Seq(S) /\ NoRepeats(Append(s, x))
         /\ Len(s) \in Nat /\ Len(Append(s, x)) = Len(s) + 1
         /\ \A i \in DOMAIN Append(s, x) :
               \/ i \in DOMAIN s /\ Append(s, x)[i] = s[i]
               \/ i = Len(s) + 1 /\ Append(s, x)[i] = x
<1> DEFINE v == Append(s, x)
<1>1. /\ v \in Seq(S) /\ Len(v) = Len(s) + 1 /\ Len(s) \in Nat
      /\ \A i \in 1..Len(s) : v[i] = s[i]
      /\ v[Len(s) + 1] = x /\ DOMAIN v = 1..(Len(s) + 1)
      /\ DOMAIN s = 1..Len(s)
  OBVIOUS
<1>2. \A i \in DOMAIN v : \/ (i \in DOMAIN s /\ v[i] = s[i])
                          \/ (i = Len(s) + 1 /\ v[i] = x)
  <2> TAKE i \in DOMAIN v
  <2>1. i \in 1..(Len(s) + 1) /\ Len(s) \in Nat
    BY <1>1
  <2>2. i \in 1..Len(s) \/ i = Len(s) + 1
    BY <2>1
  <2> HIDE DEF v
  <2> QED BY <1>1, <2>2
<1>3. NoRepeats(v)
  BY <1>2 DEF NoRepeats
<1> QED BY <1>1, <1>2, <1>3

LEMMA InitIInv == Init => IInv
<1> SUFFICES ASSUME Init PROVE IInv
  OBVIOUS
<1> USE DEF Init
<1> DEFINE all == [i \in Frames |-> i]
<1>1. /\ all \in Seq(Frames) /\ Len(all) = FrameNum /\ DOMAIN all = Frames
      /\ << >> \in Seq(Frames) /\ Len(<< >>) = 0 /\ DOMAIN << >> = {}
  BY FrameNumAssumption DEF Frames
<1>2. TypeOK
  BY <1>1 DEF TypeOK, Frames, NoFrame
<1>3. TokensMatchFrames /\ SenderSurvives
  BY <1>1 DEF TokensMatchFrames, SenderSurvives
<1>4. EveryFrameOnce
  <2>1. NoRepeats(all) /\ NoRepeats(<< >>)
    BY <1>1 DEF NoRepeats
  <2>2. \A i \in DOMAIN all : all[i] # NoFrame
    BY <1>1, FrameNumAssumption DEF Frames, NoFrame
  <2>3. One(NoFrame) = 0 /\ 0 + FrameNum + 0 + 0 = FrameNum
    BY FrameNumAssumption DEF One
  <2> QED BY <1>1, <2>1, <2>2, <2>3 DEF EveryFrameOnce
<1>5. NewestInOrder /\ NothingSentWaits
  BY <1>1 DEF NewestInOrder, NothingSentWaits
<1> QED BY <1>2, <1>3, <1>4, <1>5 DEF IInv

(* The numbers of the invariant.                                            *)
LEMMA Lengths ==
  ASSUME TypeOK
  PROVE  /\ Len(busy) \in Nat /\ Len(free) \in Nat
         /\ One(filling) \in {0, 1} /\ One(inUse) \in {0, 1}
  BY DEF TypeOK, One

LEMMA ClaimFreeStep ==
  ASSUME IInv, ClaimFree
  PROVE  IInv'
<1> USE DEF IInv, ClaimFree
<1>0. /\ free \in Seq(Frames) /\ NoRepeats(free) /\ filling = NoFrame
      /\ busy \in Seq(Frames)
  BY DEF TypeOK, EveryFrameOnce
<1>1. /\ Head(free) \in Frames /\ Head(free) = free[1] /\ 1 \in DOMAIN free
      /\ Tail(free) \in Seq(Frames) /\ NoRepeats(Tail(free))
      /\ Len(Tail(free)) \in Nat /\ Len(free) \in Nat
      /\ Len(Tail(free)) + 1 = Len(free)
      /\ \A i \in DOMAIN Tail(free) : /\ i \in Nat /\ i + 1 \in DOMAIN free
                                      /\ Tail(free)[i] = free[i + 1]
                                      /\ Tail(free)[i] # Head(free)
  BY <1>0, TailFacts
<1>2. filling' # NoFrame /\ filling' \in Frames
  BY <1>1, FrameNumAssumption DEF Frames, NoFrame
<1>3. TypeOK'
  BY <1>1, <1>2 DEF TypeOK
<1>4. TokensMatchFrames' /\ SenderSurvives'
  BY DEF TokensMatchFrames, SenderSurvives
<1>5. EveryFrameOnce'
  <2>1. NoRepeats(busy') /\ NoRepeats(free')
    BY <1>1 DEF EveryFrameOnce
  <2>2. \A i \in DOMAIN busy' : busy'[i] # filling' /\ busy'[i] # inUse'
    BY <1>1 DEF EveryFrameOnce
  <2>3. \A i \in DOMAIN free' : free'[i] # filling' /\ free'[i] # inUse'
    BY <1>1 DEF EveryFrameOnce
  <2>4. \A i \in DOMAIN busy', j \in DOMAIN free' : busy'[i] # free'[j]
    BY <1>1 DEF EveryFrameOnce
  <2>5. filling' # inUse'
    BY <1>1 DEF EveryFrameOnce
  <2>6. Len(busy') + Len(free') + One(filling') + One(inUse') = FrameNum
    <3>1. Len(busy) + Len(free) + One(filling) + One(inUse) = FrameNum
      BY DEF EveryFrameOnce
    <3>2. One(filling) = 0 /\ One(filling') = 1 /\ One(inUse') = One(inUse)
      BY <1>0, <1>2 DEF One
    <3>3. Len(busy) \in Nat /\ One(inUse) \in Nat
      BY Lengths
    <3>4. Len(busy') = Len(busy) /\ Len(free') + 1 = Len(free)
          /\ Len(free') \in Nat
      BY <1>1
    <3> QED BY <3>1, <3>2, <3>3, <3>4, <1>1, FrameNumAssumption
  <2> QED BY <2>1, <2>2, <2>3, <2>4, <2>5, <2>6 DEF EveryFrameOnce
<1>6. NewestInOrder' /\ NothingSentWaits'
  BY DEF NewestInOrder, NothingSentWaits
<1> QED BY <1>3, <1>4, <1>5, <1>6

LEMMA FrameReadyStep ==
  ASSUME IInv, FrameReady
  PROVE  IInv'
<1> USE DEF IInv, FrameReady
<1>0. /\ busy \in Seq(Frames) /\ NoRepeats(busy) /\ filling \in Frames
      /\ \A i \in DOMAIN busy : busy[i] # filling
      /\ filling # NoFrame /\ filling # inUse
  BY DEF TypeOK, EveryFrameOnce
<1>1. /\ busy' \in Seq(Frames) /\ NoRepeats(busy')
      /\ Len(busy) \in Nat /\ Len(busy') = Len(busy) + 1
      /\ \A i \in DOMAIN busy' :
            \/ i \in DOMAIN busy /\ busy'[i] = busy[i]
            \/ i = Len(busy) + 1 /\ busy'[i] = filling
  BY <1>0, AppendFacts
<1>2. TypeOK'
  BY <1>0, <1>1 DEF TypeOK
<1>3. TokensMatchFrames' /\ SenderSurvives'
  BY <1>1 DEF TypeOK, TokensMatchFrames, SenderSurvives
<1>4. EveryFrameOnce'
  <2>1. \A i \in DOMAIN busy' : busy'[i] # filling' /\ busy'[i] # inUse'
    <3>1. \A i \in DOMAIN busy : busy[i] \in Frames
      BY <1>0
    <3>2. NoFrame \notin Frames
      BY FrameNumAssumption DEF Frames, NoFrame
    <3> QED BY <1>0, <1>1, <3>1, <3>2 DEF EveryFrameOnce
  <2>2. \A i \in DOMAIN free' : free'[i] # filling' /\ free'[i] # inUse'
    <3>1. \A i \in DOMAIN free : free[i] \in Frames
      BY DEF TypeOK
    <3>2. NoFrame \notin Frames
      BY FrameNumAssumption DEF Frames, NoFrame
    <3> QED BY <3>1, <3>2 DEF EveryFrameOnce
  <2>3. \A i \in DOMAIN busy', j \in DOMAIN free' : busy'[i] # free'[j]
    BY <1>1 DEF EveryFrameOnce
  <2>4. Len(busy') + Len(free') + One(filling') + One(inUse') = FrameNum
    <3>1. Len(busy) + Len(free) + One(filling) + One(inUse) = FrameNum
      BY DEF EveryFrameOnce
    <3>2. One(filling) = 1 /\ One(filling') = 0 /\ One(inUse') = One(inUse)
      BY <1>0 DEF One
    <3>3. Len(free) \in Nat /\ One(inUse) \in Nat
      BY Lengths
    <3>4. Len(free') = Len(free)
      OBVIOUS
    <3> QED BY <3>1, <3>2, <3>3, <3>4, <1>1, FrameNumAssumption
  <2> QED BY <1>1, <2>1, <2>2, <2>3, <2>4 DEF EveryFrameOnce
<1>5. NewestInOrder'
  <2>1. captured \in Nat /\ Len(busy) <= captured
    BY DEF TypeOK, NewestInOrder
  <2>2. serial' = [serial EXCEPT ![filling] = captured + 1]
        /\ serial \in [Frames -> Nat] /\ captured' = captured + 1
    BY DEF TypeOK
  <2>3. ASSUME NEW i \in DOMAIN busy'
        PROVE  serial'[busy'[i]] + Len(busy') = captured' + i
    <3>1. CASE i \in DOMAIN busy /\ busy'[i] = busy[i]
      <4>1. serial'[busy'[i]] = serial[busy[i]] /\ serial[busy[i]] \in Nat
        BY <1>0, <2>2, <3>1
      <4>2. serial[busy[i]] + Len(busy) = captured + i /\ i \in Nat
        BY <1>0, <3>1 DEF NewestInOrder
      <4>3. Len(busy') = Len(busy) + 1 /\ captured' = captured + 1
        BY <1>1, <2>2
      <4>4. PICK a \in Nat, l \in Nat : a = serial[busy[i]] /\ l = Len(busy)
        BY <4>1, <1>1
      <4>5. a + l = captured + i /\ serial'[busy'[i]] = a /\ Len(busy') = l + 1
        BY <4>1, <4>2, <4>3, <4>4
      <4>6. \A c, k \in Nat : a + l = c + k => a + (l + 1) = (c + 1) + k
        OBVIOUS
      <4>7. captured \in Nat /\ i \in Nat
        BY <2>1, <4>2
      <4>8. a + (l + 1) = (captured + 1) + i
        BY <4>5, <4>6, <4>7, Zenon
      <4> QED BY <4>3, <4>5, <4>8, Zenon
    <3>2. CASE i = Len(busy) + 1 /\ busy'[i] = filling
      <4>1. serial'[busy'[i]] = captured + 1
        BY <1>0, <2>2, <3>2
      <4> QED BY <4>1, <3>2, <1>1, <2>1, <2>2
    <3> QED BY <1>1, <3>1, <3>2
  <2>4. Len(busy') <= captured'
    BY <1>1, <2>1, <2>2
  <2> QED BY <2>3, <2>4 DEF NewestInOrder
<1>6. NothingSentWaits'
  BY <1>1 DEF TypeOK, NothingSentWaits
<1> QED BY <1>2, <1>3, <1>4, <1>5, <1>6

(* Taking the oldest READY frame, by the sender or by the camera's catch-up.*)
LEMMA HeadOfBusy ==
  ASSUME TypeOK, EveryFrameOnce, busy # << >>
  PROVE  /\ busy \in Seq(Frames)
         /\ Head(busy) \in Frames /\ Head(busy) = busy[1] /\ 1 \in DOMAIN busy
         /\ Tail(busy) \in Seq(Frames) /\ NoRepeats(Tail(busy))
         /\ Len(Tail(busy)) \in Nat /\ Len(busy) \in Nat
         /\ Len(Tail(busy)) + 1 = Len(busy)
         /\ \A i \in DOMAIN Tail(busy) : /\ i \in Nat /\ i + 1 \in DOMAIN busy
                                         /\ Tail(busy)[i] = busy[i + 1]
                                         /\ Tail(busy)[i] # Head(busy)
         /\ Head(busy) # NoFrame /\ Head(busy) # filling /\ Head(busy) # inUse
<1>1. busy \in Seq(Frames) /\ NoRepeats(busy)
  BY DEF TypeOK, EveryFrameOnce
<1>2. /\ Head(busy) \in Frames /\ Head(busy) = busy[1] /\ 1 \in DOMAIN busy
      /\ Tail(busy) \in Seq(Frames) /\ NoRepeats(Tail(busy))
      /\ Len(Tail(busy)) \in Nat /\ Len(busy) \in Nat
      /\ Len(Tail(busy)) + 1 = Len(busy)
      /\ \A i \in DOMAIN Tail(busy) : /\ i \in Nat /\ i + 1 \in DOMAIN busy
                                      /\ Tail(busy)[i] = busy[i + 1]
                                      /\ Tail(busy)[i] # Head(busy)
  BY <1>1, TailFacts
<1>3. NoFrame \notin Frames
  BY FrameNumAssumption DEF Frames, NoFrame
<1>4. Head(busy) # filling /\ Head(busy) # inUse
  BY <1>2 DEF EveryFrameOnce
<1> QED BY <1>1, <1>2, <1>3, <1>4

(* What remains is still the newest pictures, and newer than the one taken. *)
LEMMA TailIsNewest ==
  ASSUME TypeOK, EveryFrameOnce, NewestInOrder, NothingSentWaits, busy # << >>
  PROVE  /\ Len(Tail(busy)) <= captured
         /\ \A i \in DOMAIN Tail(busy) :
               serial[Tail(busy)[i]] + Len(Tail(busy)) = captured + i
         /\ serial[Head(busy)] \in Nat
         /\ serial[Head(busy)] + Len(Tail(busy)) <= captured
         /\ captured < serial[Head(busy)] + Len(busy)
         /\ serial[Head(busy)] > lastSent
         /\ lastSent + Len(Tail(busy)) <= captured
<1>0. /\ captured \in Nat /\ lastSent \in Nat /\ serial \in [Frames -> Nat]
      /\ Len(busy) \in Nat /\ Len(Tail(busy)) \in Nat
      /\ Len(Tail(busy)) + 1 = Len(busy)
      /\ Len(busy) <= captured /\ lastSent + Len(busy) <= captured
  BY HeadOfBusy DEF TypeOK, NewestInOrder, NothingSentWaits
<1>1. serial[Head(busy)] \in Nat /\ serial[Head(busy)] + Len(busy) = captured + 1
  BY <1>0, HeadOfBusy DEF NewestInOrder
<1>2. ASSUME NEW i \in DOMAIN Tail(busy)
      PROVE  serial[Tail(busy)[i]] + Len(Tail(busy)) = captured + i
  <2>1. /\ i \in Nat /\ i + 1 \in DOMAIN busy
        /\ Tail(busy)[i] = busy[i + 1] /\ busy[i + 1] \in Frames
    BY HeadOfBusy
  <2>2. serial[busy[i + 1]] + Len(busy) = captured + (i + 1)
    BY <2>1 DEF NewestInOrder
  <2>3. PICK a \in Nat, l \in Nat, m \in Nat :
          /\ a = serial[busy[i + 1]] /\ l = Len(busy) /\ m = Len(Tail(busy))
    BY <1>0, <2>1
  <2>4. a + l = captured + (i + 1) /\ m + 1 = l
    BY <1>0, <2>2, <2>3
  <2>5. a + m = captured + i
    BY <1>0, <2>1, <2>4
  <2> QED BY <2>1, <2>3, <2>5
<1>3. \A a, l, m, c, z \in Nat :
        a + l = c + 1 /\ m + 1 = l /\ l <= c /\ z + l <= c
          => m <= c /\ a + m <= c /\ c < a + l /\ a > z /\ z + m <= c
  OBVIOUS
<1> QED BY <1>0, <1>1, <1>2, <1>3, Zenon

(* With no free frame there are at least two READY ones, so at least one    *)
(* token is not the woken sender's.                                         *)
LEMMA CatchUpHasToken ==
  ASSUME TypeOK, TokensMatchFrames, EveryFrameOnce, cam = "select", free = << >>
  PROVE  pict_ready > 0
<1>1. One(filling) = 0 /\ One(inUse) \in {0, 1} /\ Len(free) = 0
  BY DEF TypeOK, One
<1>2. Len(busy) + Len(free) + One(filling) + One(inUse) = FrameNum
  BY DEF EveryFrameOnce
<1>3. Len(busy) \in Nat /\ pict_ready \in Nat
  BY Lengths DEF TypeOK
<1>4. Len(busy) >= 2
  BY <1>1, <1>2, <1>3, FrameNumAssumption
<1> QED BY <1>3, <1>4 DEF TokensMatchFrames

LEMMA ClaimOldestStep ==
  ASSUME IInv, ClaimOldest
  PROVE  IInv'
<1> USE DEF IInv, ClaimOldest
<1>1. TypeOK'
  BY HeadOfBusy DEF TypeOK
<1>2. TokensMatchFrames' /\ SenderSurvives'
  <2>1. pict_ready > 0 /\ pict_ready \in Nat
    BY CatchUpHasToken DEF TypeOK
  <2>2. Len(Tail(busy)) \in Nat /\ Len(Tail(busy)) + 1 = Len(busy)
    BY HeadOfBusy
  <2> QED BY <2>1, <2>2 DEF TokensMatchFrames, SenderSurvives
<1>3. EveryFrameOnce'
  <2>1. NoRepeats(busy') /\ NoRepeats(free')
    BY HeadOfBusy DEF EveryFrameOnce
  <2>2. \A i \in DOMAIN busy' : busy'[i] # filling' /\ busy'[i] # inUse'
    BY HeadOfBusy DEF EveryFrameOnce
  <2>3. DOMAIN free' = {}
    OBVIOUS
  <2>4. filling' # inUse'
    BY HeadOfBusy
  <2>5. Len(busy') + Len(free') + One(filling') + One(inUse') = FrameNum
    <3>1. Len(busy) + Len(free) + One(filling) + One(inUse) = FrameNum
      BY DEF EveryFrameOnce
    <3>2. One(filling) = 0 /\ One(filling') = 1 /\ One(inUse') = One(inUse)
      BY HeadOfBusy DEF TypeOK, One
    <3>3. Len(free) \in Nat /\ One(inUse) \in Nat /\ Len(free') = Len(free)
      BY Lengths
    <3>4. Len(busy') + 1 = Len(busy) /\ Len(busy') \in Nat
      BY HeadOfBusy
    <3> QED BY <3>1, <3>2, <3>3, <3>4, FrameNumAssumption
  <2> QED BY <2>1, <2>2, <2>3, <2>4, <2>5 DEF EveryFrameOnce
<1>4. NewestInOrder' /\ NothingSentWaits'
  BY TailIsNewest DEF NewestInOrder, NothingSentWaits
<1> QED BY <1>1, <1>2, <1>3, <1>4

LEMMA UseFrameStep ==
  ASSUME IInv, UseFrame
  PROVE  IInv' /\ busy # << >>
<1> USE DEF IInv
<1>1. busy # << >>
  <2>1. Len(busy) = pict_ready + 1 /\ pict_ready \in Nat
    BY DEF UseFrame, TokensMatchFrames, TypeOK
  <2> QED BY <2>1
<1>2. /\ snd = "woken" /\ snd' = "using"
      /\ inUse' = Head(busy) /\ busy' = Tail(busy)
      /\ lastSent' = serial[Head(busy)]
      /\ UNCHANGED <<free, filling, pict_ready, cam, serial, captured>>
  BY <1>1 DEF UseFrame
<1>3. TypeOK'
  BY <1>1, <1>2, HeadOfBusy, TailIsNewest DEF TypeOK
<1>4. TokensMatchFrames' /\ SenderSurvives'
  <2>1. Len(Tail(busy)) \in Nat /\ Len(Tail(busy)) + 1 = Len(busy)
        /\ pict_ready \in Nat
    BY <1>1, HeadOfBusy DEF TypeOK
  <2> QED BY <1>2, <2>1 DEF TokensMatchFrames, SenderSurvives
<1>5. EveryFrameOnce'
  <2>1. NoRepeats(busy') /\ NoRepeats(free')
    BY <1>1, <1>2, HeadOfBusy DEF EveryFrameOnce
  <2>2. \A i \in DOMAIN busy' : busy'[i] # filling' /\ busy'[i] # inUse'
    BY <1>1, <1>2, HeadOfBusy DEF EveryFrameOnce
  <2>3. \A i \in DOMAIN free' : free'[i] # filling' /\ free'[i] # inUse'
    BY <1>1, <1>2, HeadOfBusy DEF EveryFrameOnce
  <2>4. \A i \in DOMAIN busy', j \in DOMAIN free' : busy'[i] # free'[j]
    BY <1>1, <1>2, HeadOfBusy DEF EveryFrameOnce
  <2>5. filling' # inUse'
    BY <1>1, <1>2, HeadOfBusy
  <2>6. Len(busy') + Len(free') + One(filling') + One(inUse') = FrameNum
    <3>1. Len(busy) + Len(free) + One(filling) + One(inUse) = FrameNum
      BY DEF EveryFrameOnce
    <3>2. One(inUse) = 0 /\ One(inUse') = 1 /\ One(filling') = One(filling)
      BY <1>1, <1>2, HeadOfBusy DEF TypeOK, One
    <3>3. Len(free) \in Nat /\ One(filling) \in Nat /\ Len(free') = Len(free)
      BY <1>2, Lengths
    <3>4. Len(busy') + 1 = Len(busy) /\ Len(busy') \in Nat
      BY <1>1, <1>2, HeadOfBusy
    <3> QED BY <3>1, <3>2, <3>3, <3>4, FrameNumAssumption
  <2> QED BY <2>1, <2>2, <2>3, <2>4, <2>5, <2>6 DEF EveryFrameOnce
<1>6. NewestInOrder' /\ NothingSentWaits'
  BY <1>1, <1>2, TailIsNewest DEF NewestInOrder, NothingSentWaits
<1> QED BY <1>1, <1>3, <1>4, <1>5, <1>6

LEMMA EmptyFrameStep ==
  ASSUME IInv, EmptyFrame
  PROVE  IInv'
<1> USE DEF IInv, EmptyFrame
<1>0. /\ free \in Seq(Frames) /\ NoRepeats(free) /\ inUse \in Frames
      /\ \A i \in DOMAIN free : free[i] # inUse
      /\ inUse # NoFrame /\ filling # inUse
      /\ NoFrame \notin Frames
  BY FrameNumAssumption DEF TypeOK, EveryFrameOnce, Frames, NoFrame
<1>1. /\ free' \in Seq(Frames) /\ NoRepeats(free')
      /\ Len(free) \in Nat /\ Len(free') = Len(free) + 1
      /\ \A i \in DOMAIN free' :
            \/ i \in DOMAIN free /\ free'[i] = free[i]
            \/ i = Len(free) + 1 /\ free'[i] = inUse
  BY <1>0, AppendFacts
<1>2. TypeOK'
  BY <1>0, <1>1 DEF TypeOK
<1>3. TokensMatchFrames' /\ SenderSurvives'
  BY DEF TokensMatchFrames, SenderSurvives
<1>4. EveryFrameOnce'
  <2>1. \A i \in DOMAIN busy' : busy'[i] # filling' /\ busy'[i] # inUse'
    <3>1. \A i \in DOMAIN busy : busy[i] \in Frames
      BY DEF TypeOK
    <3> QED BY <1>0, <3>1 DEF EveryFrameOnce
  <2>2. \A i \in DOMAIN free' : free'[i] # filling' /\ free'[i] # inUse'
    <3>1. \A i \in DOMAIN free' : free'[i] \in Frames
      BY <1>1
    <3> QED BY <1>0, <1>1, <3>1 DEF EveryFrameOnce
  <2>3. \A i \in DOMAIN busy', j \in DOMAIN free' : busy'[i] # free'[j]
    BY <1>1 DEF EveryFrameOnce
  <2>4. Len(busy') + Len(free') + One(filling') + One(inUse') = FrameNum
    <3>1. Len(busy) + Len(free) + One(filling) + One(inUse) = FrameNum
      BY DEF EveryFrameOnce
    <3>2. One(inUse) = 1 /\ One(inUse') = 0 /\ One(filling') = One(filling)
      BY <1>0 DEF One
    <3>3. Len(busy) \in Nat /\ One(filling) \in Nat /\ Len(busy') = Len(busy)
      BY Lengths
    <3> QED BY <3>1, <3>2, <3>3, <1>1, FrameNumAssumption
  <2> QED BY <1>0, <1>1, <2>1, <2>2, <2>3, <2>4 DEF EveryFrameOnce
<1>5. NewestInOrder' /\ NothingSentWaits'
  BY DEF NewestInOrder, NothingSentWaits
<1> QED BY <1>2, <1>3, <1>4, <1>5

(* Waking, the camera's end and stuttering touch no frame.                  *)
LEMMA OtherStep ==
  ASSUME IInv, SenderWakes \/ CameraStops \/ UNCHANGED vars
  PROVE  IInv'
<1> USE DEF IInv, SenderWakes, CameraStops, vars
<1>1. TypeOK'
  BY DEF TypeOK
<1>2. TokensMatchFrames'
  BY Lengths DEF TypeOK, TokensMatchFrames
<1>3. SenderSurvives' /\ NothingSentWaits'
  BY DEF SenderSurvives, NothingSentWaits
<1>4. EveryFrameOnce'
  BY DEF EveryFrameOnce, NoRepeats
<1>5. NewestInOrder'
  BY DEF NewestInOrder
<1> QED BY <1>1, <1>2, <1>3, <1>4, <1>5

LEMMA NextIInv == IInv /\ [Next]_vars => IInv'
BY ClaimFreeStep, ClaimOldestStep, FrameReadyStep, UseFrameStep,
   EmptyFrameStep, OtherStep
DEF Next, Camera, Sender

(* Every reachable state satisfies the inductive invariant.                 *)
THEOREM Invariance == Spec => []IInv
BY InitIInv, NextIInv, PTL DEF Spec

(* The error branch of use_frame (v4l2.c) is never taken: whatever the      *)
(* camera's catch-up does while the sender is between sem_wait and the      *)
(* lock, a READY frame is left for it.                                      *)
THEOREM SenderNeverExits == Spec => []SenderSurvives
<1>1. IInv => SenderSurvives
  BY DEF IInv
<1> QED BY Invariance, <1>1, PTL

(* No frame is lost, shared or overwritten while it is being sent.          *)
THEOREM FramesExclusive == Spec => []EveryFrameOnce
<1>1. IInv => EveryFrameOnce
  BY DEF IInv
<1> QED BY Invariance, <1>1, PTL

(* Catching up drops the oldest picture only.                               *)
THEOREM DropsOldestOnly == Spec => []NewestInOrder
<1>1. IInv => NewestInOrder
  BY DEF IInv
<1> QED BY Invariance, <1>1, PTL

(* Pictures are sent in the order in which they were captured.              *)
THEOREM OrderKept == Spec => SentInOrder
<1>1. IInv /\ [Next]_vars => [lastSent' # lastSent => lastSent' > lastSent]_vars
  <2> SUFFICES ASSUME IInv, Next, lastSent' # lastSent
               PROVE  lastSent' > lastSent
    OBVIOUS
  <2>1. UseFrame
    BY DEF Next, Camera, Sender, ClaimFree, ClaimOldest, FrameReady,
           CameraStops, SenderWakes, EmptyFrame
  <2>2. busy # << >> /\ lastSent' = serial[Head(busy)]
    BY <2>1, UseFrameStep DEF UseFrame
  <2> QED BY <2>2, TailIsNewest DEF IInv
<1> QED BY Invariance, <1>1, PTL DEF Spec, SentInOrder

(* The picture that is sent next has been followed by fewer than FrameNum   *)
(* newer ones.                                                              *)
THEOREM FreshPictures == Spec => SentFresh
<1>1. IInv /\ [Next]_vars
        => [lastSent' # lastSent => captured < lastSent' + FrameNum]_vars
  <2> SUFFICES ASSUME IInv, Next, lastSent' # lastSent
               PROVE  captured < lastSent' + FrameNum
    OBVIOUS
  <2>1. UseFrame
    BY DEF Next, Camera, Sender, ClaimFree, ClaimOldest, FrameReady,
           CameraStops, SenderWakes, EmptyFrame
  <2>2. busy # << >> /\ lastSent' = serial[Head(busy)]
    BY <2>1, UseFrameStep DEF UseFrame
  <2>3. /\ lastSent' \in Nat /\ captured \in Nat
        /\ captured < lastSent' + Len(busy)
    BY <2>2, TailIsNewest DEF IInv, TypeOK
  <2>4. Len(busy) <= FrameNum
    <3>1. Len(busy) + Len(free) + One(filling) + One(inUse) = FrameNum
      BY DEF IInv, EveryFrameOnce
    <3> QED BY <3>1, Lengths, FrameNumAssumption DEF IInv
  <2>5. Len(busy) \in Nat
    BY Lengths DEF IInv
  <2>6. \A c, a, l \in Nat : c < a + l /\ l <= FrameNum => c < a + FrameNum
    BY FrameNumAssumption
  <2> QED BY <2>3, <2>4, <2>5, <2>6, Zenon
<1> QED BY Invariance, <1>1, PTL DEF Spec, SentFresh
=============================================================================
