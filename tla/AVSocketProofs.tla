--------------------------- MODULE AVSocketProofs ---------------------------
(***************************************************************************)
(* The framing of the data connection, for every retry limit, every length *)
(* of pictures and audio buffers, and every way send may split a part.     *)
(***************************************************************************)
EXTENDS AVSocket, TLAPS

(* What a sender declares is what it sends: header and body are as many     *)
(* bytes as the first 23 and text_len.                                      *)
LEMMA HeaderDescribesBody ==
  ASSUME NEW s \in Senders, NEW body \in Int
  PROVE  HeaderLen(s) + body = Prefix + TextLen(s, body)
  BY DEF Senders, HeaderLen, TextLen, Prefix

LEMMA BodyIsNat ==
  ASSUME NEW s \in Senders, NEW n \in BodyLens(s)
  PROVE  n \in Nat
  BY LengthAssumption DEF BodyLens, Senders

LEMMA PacketTyped ==
  ASSUME NEW s \in Senders, NEW n \in Nat, NEW body \in Nat
  PROVE  Packet(s, n, body) \in PacketType
  BY DEF Packet, PacketType, TextLen, Senders

USE DEF Sending, PartLen

LEMMA Initially == Init => IInv
  <1> SUFFICES ASSUME Init PROVE IInv
    OBVIOUS
  <1> USE DEF Init
  <1>1. TypeOK
    <2>1. NoPacket \in PacketType
      BY DEF NoPacket, PacketType, Prefix
    <2>2. retry_num \in [Senders -> 0..MaxRetry]
      BY MaxRetryAssumption
    <2> QED
      BY <2>1, <2>2 DEF TypeOK, Senders
  <1>2. Whole(NoPacket)
    BY DEF Whole, NoPacket, Prefix
  <1>3. MutexInv /\ StartInv /\ RetryInv /\ CountMatchesWire /\ GivesUpOnDeaf
    BY DEF MutexInv, StartInv, RetryInv, CountMatchesWire, GivesUpOnDeaf,
           Senders, Nobody
  <1>4. PacketsWhole /\ BoundaryWhenFree
    BY <1>2 DEF PacketsWhole, BoundaryWhenFree
  <1> QED
    BY <1>1, <1>3, <1>4 DEF IInv

(* The bytes that arrive while s is sending: what is on the wire after them *)
(* is s's packet, and the packet before it is whole.                        *)
LEMMA Arrival ==
  ASSUME IInv, NEW s \in Senders, Sending(s), NEW n \in Nat \ {0}, Arrive(s, n)
  PROVE  /\ wire' \in PacketType \X PacketType
         /\ Whole(wire'[1])
         /\ wire'[2] = Packet(s, (IF pc[s] = "header" THEN total[s]
                                  ELSE HeaderLen(s) + total[s]) + n, length[s])
  <1> USE DEF IInv, TypeOK
  <1> DEFINE done == IF pc[s] = "header" THEN total[s]
                     ELSE HeaderLen(s) + total[s]
  <1>1. done \in Nat /\ total[s] \in Nat /\ length[s] \in Nat
    BY DEF HeaderLen
  <1>2. wire = <<wire[1], wire[2]>> /\ wire[1] \in PacketType
        /\ wire[2] \in PacketType
    OBVIOUS
  <1>3. CASE done = 0
    <2>1. pc[s] = "header" /\ total[s] = 0
      BY <1>3, <1>1 DEF HeaderLen
    <2>2. Whole(wire[2])
      BY <2>1 DEF StartInv
    <2>3. wire' = <<wire[2], Packet(s, n, length[s])>>
      BY <2>1 DEF Arrive
    <2>4. Packet(s, n, length[s]) \in PacketType
      BY <1>1, PacketTyped
    <2> QED
      BY <2>1, <2>2, <2>3, <2>4, <1>2
  <1>4. CASE done > 0
    <2>1. wire[2] = Packet(s, done, length[s])
      BY <1>4 DEF CountMatchesWire
    <2>2. ~(pc[s] = "header" /\ total[s] = 0) /\ wire[2].from = s
      BY <2>1, <1>4 DEF Packet
    <2>3. wire' = <<wire[1], [wire[2] EXCEPT !.bytes = @ + n]>>
      BY <2>2 DEF Arrive
    <2>4. [wire[2] EXCEPT !.bytes = @ + n] = Packet(s, done + n, length[s])
      BY <2>1 DEF Packet
    <2>5. Packet(s, done + n, length[s]) \in PacketType
      BY <1>1, PacketTyped
    <2> QED
      BY <2>3, <2>4, <2>5, <1>2 DEF PacketsWhole
  <1> QED
    BY <1>1, <1>3, <1>4

LEMMA SendSomePreserves ==
  ASSUME IInv, NEW s \in Senders, SendSome(s)
  PROVE  IInv'
  <1> USE DEF IInv, TypeOK
  <1> PICK n \in 1..(PartLen(s) - total[s]) :
        /\ Sent(s, n)
        /\ pc' = [pc EXCEPT ![s] =
                    IF @ = "header" /\ total[s] + n = PartLen(s) THEN "body"
                                                                ELSE @]
    BY DEF SendSome
  <1> DEFINE over == pc[s] = "header" /\ total[s] + n = PartLen(s)
             done == IF pc[s] = "header" THEN total[s]
                     ELSE HeaderLen(s) + total[s]
  <1>1. /\ running /\ Sending(s) /\ ~sleeping[s] /\ total[s] < PartLen(s)
        /\ UNCHANGED <<running, holder, length, sleeping>>
        /\ Progress(s) /\ Arrive(s, n)
        /\ total' = [total EXCEPT ![s] = IF over THEN 0 ELSE @ + n]
        /\ pc' = [pc EXCEPT ![s] = IF over THEN "body" ELSE @]
    BY DEF SendSome, Sent
  <1>2. /\ total[s] \in Nat /\ length[s] \in Nat /\ HeaderLen(s) \in Nat
        /\ n \in Nat \ {0} /\ total[s] + n <= PartLen(s)
    BY DEF HeaderLen
  <1>3. /\ wire' \in PacketType \X PacketType
        /\ Whole(wire'[1])
        /\ wire'[2] = Packet(s, done + n, length[s])
    BY <1>1, <1>2, Arrival
  <1>4. \A t \in Senders \ {s} : /\ holder # t /\ ~Sending(t)
                                 /\ pc'[t] = pc[t] /\ total'[t] = total[t]
    BY <1>1 DEF MutexInv
  <1>5. holder = s
    BY <1>1 DEF MutexInv
  <1>6. /\ pc'[s] = IF over THEN "body" ELSE pc[s]
        /\ total'[s] = IF over THEN 0 ELSE total[s] + n
    BY <1>1
  <1>7. TypeOK'
    <2>1. retry_num' \in [Senders -> 0..MaxRetry] /\ failed' \in [Senders -> Nat]
      BY <1>1, MaxRetryAssumption DEF Progress
    <2>2. total' \in [Senders -> Nat]
      BY <1>1, <1>2
    <2>3. pc' \in [Senders -> {"idle", "lock", "header", "body"}]
      BY <1>1
    <2> QED
      BY <1>1, <1>3, <2>1, <2>2, <2>3 DEF Progress
  <1>8. MutexInv'
    <2>1. ASSUME NEW t \in Senders, t # s
          PROVE  /\ (Sending(t) <=> holder = t)'
                 /\ (~Sending(t) => total[t] = 0 /\ ~sleeping[t])'
                 /\ (Sending(t) => total[t] <= PartLen(t))'
                 /\ (sleeping[t] => total[t] < PartLen(t))'
                 /\ (pc[t] = "header" => total[t] < HeaderLen(t))'
                 /\ (pc[t] # "idle" => length[t] \in BodyLens(t))'
      BY <2>1, <1>1, <1>4 DEF MutexInv, HeaderLen, BodyLens
    <2>2. pc[s] # "idle" /\ length[s] \in BodyLens(s)
      BY <1>1 DEF MutexInv
    <2>3. /\ (Sending(s) <=> holder = s)'
          /\ (~Sending(s) => total[s] = 0 /\ ~sleeping[s])'
          /\ (sleeping[s] => total[s] < PartLen(s))'
          /\ (pc[s] # "idle" => length[s] \in BodyLens(s))'
      BY <1>1, <1>5, <1>6, <2>2 DEF BodyLens
    <2>4. (pc[s] = "header" => total[s] < HeaderLen(s))'
      <3>1. HeaderLen(s)' = HeaderLen(s)
        BY DEF HeaderLen
      <3> QED
        BY <1>6, <1>2, <3>1
    <2>5. (Sending(s) => total[s] <= PartLen(s))'
      <3>1. HeaderLen(s)' = HeaderLen(s) /\ length'[s] = length[s]
        BY <1>1 DEF HeaderLen
      <3> QED
        BY <1>6, <1>2, <1>1, <3>1
    <2> QED
      BY <2>1, <2>3, <2>4, <2>5 DEF MutexInv
  <1>9. StartInv'
    BY <1>6, <1>2, <1>4, <1>1 DEF StartInv
  <1>10. RetryInv' /\ GivesUpOnDeaf'
    BY <1>1 DEF RetryInv, GivesUpOnDeaf, Progress
  <1>11. PacketsWhole' /\ BoundaryWhenFree'
    BY <1>1, <1>3, <1>5 DEF PacketsWhole, BoundaryWhenFree, Senders, Nobody
  <1>12. CountMatchesWire'
    <2>1. ASSUME NEW t \in Senders, Sending(t)'
          PROVE  t = s
      BY <2>1, <1>4
    <2>2. IF pc'[s] = "header" THEN total'[s] = done + n
                               ELSE HeaderLen(s) + total'[s] = done + n
      BY <1>6, <1>2, <1>1
    <2>3. wire'[2] = Packet(s, IF pc'[s] = "header" THEN total'[s]
                               ELSE HeaderLen(s) + total'[s], length'[s])
      BY <2>2, <1>3, <1>1
    <2> QED
      BY <2>1, <2>3, <1>1, <1>5 DEF CountMatchesWire, Packet, TextLen, HeaderLen
  <1> QED
    BY <1>7, <1>8, <1>9, <1>10, <1>11, <1>12

(* A step that leaves the wire, the counts and the mutex alone.             *)
LEMMA BeginPreserves ==
  ASSUME IInv, NEW s \in Senders, Begin(s)
  PROVE  IInv'
  <1> USE DEF IInv, TypeOK
  <1> PICK n \in BodyLens(s) : length' = [length EXCEPT ![s] = n]
    BY DEF Begin
  <1>1. /\ running /\ pc[s] = "idle" /\ pc' = [pc EXCEPT ![s] = "lock"]
        /\ UNCHANGED <<running, holder, total, retry_num, sleeping, wire,
                       failed, fatal>>
    BY DEF Begin
  <1>2. n \in Nat
    BY BodyIsNat
  <1>3. TypeOK'
    BY <1>1, <1>2
  <1>4. MutexInv'
    BY <1>1, <1>2 DEF MutexInv, HeaderLen, BodyLens
  <1>5. StartInv' /\ RetryInv' /\ PacketsWhole' /\ BoundaryWhenFree' /\ GivesUpOnDeaf'
    BY <1>1 DEF StartInv, RetryInv, PacketsWhole, BoundaryWhenFree, GivesUpOnDeaf, Whole
  <1>6. CountMatchesWire'
    BY <1>1 DEF CountMatchesWire, Packet, TextLen, HeaderLen
  <1> QED
    BY <1>3, <1>4, <1>5, <1>6

LEMMA LockPreserves ==
  ASSUME IInv, NEW s \in Senders, Lock(s)
  PROVE  IInv'
  <1> USE DEF IInv, TypeOK
  <1>1. /\ running /\ pc[s] = "lock" /\ holder = Nobody
        /\ holder' = s /\ pc' = [pc EXCEPT ![s] = "header"]
        /\ UNCHANGED <<running, length, total, retry_num, sleeping, wire,
                       failed, fatal>>
    BY DEF Lock
  <1>2. \A t \in Senders : ~Sending(t) /\ total[t] = 0 /\ ~sleeping[t]
    BY <1>1 DEF MutexInv, Senders, Nobody
  <1>3. Whole(wire[2])
    BY <1>1 DEF BoundaryWhenFree
  <1>4. TypeOK'
    BY <1>1
  <1>5. MutexInv'
    BY <1>1, <1>2 DEF MutexInv, HeaderLen, BodyLens
  <1>6. StartInv' /\ RetryInv' /\ PacketsWhole' /\ BoundaryWhenFree' /\ GivesUpOnDeaf'
    BY <1>1, <1>3 DEF StartInv, RetryInv, PacketsWhole, BoundaryWhenFree, GivesUpOnDeaf,
                      Whole, Senders, Nobody
  <1>7. CountMatchesWire'
    BY <1>1, <1>2 DEF CountMatchesWire, Packet, TextLen, HeaderLen
  <1> QED
    BY <1>4, <1>5, <1>6, <1>7

(* A timeout, a failure or the end of a pause: only the retries change, or  *)
(* the process ends.                                                        *)
LEMMA RetryPreserves ==
  ASSUME IInv, NEW s \in Senders, Timeout(s) \/ SleepOver(s) \/ Fail(s)
  PROVE  IInv'
  <1> USE DEF IInv, TypeOK
  <1>1. /\ running /\ Sending(s) /\ total[s] < PartLen(s)
        /\ UNCHANGED <<holder, pc, length, total, wire>>
    BY DEF Timeout, SleepOver, Fail, MutexInv
  <1>2. PacketsWhole' /\ BoundaryWhenFree' /\ StartInv' /\ CountMatchesWire'
    BY <1>1 DEF PacketsWhole, BoundaryWhenFree, StartInv, CountMatchesWire, Whole,
                Packet, TextLen, HeaderLen
  <1>3. ASSUME Timeout(s) PROVE TypeOK' /\ MutexInv' /\ RetryInv' /\ GivesUpOnDeaf'
    <2>1. failed' = [failed EXCEPT ![s] = @ + 1] /\ UNCHANGED fatal
      BY <1>3 DEF Timeout
    <2>2. failed[s] = retry_num[s] /\ ~fatal
      BY <1>1 DEF RetryInv
    <2>3. CASE MayRetry(s)
      <3>1. /\ retry_num' = [retry_num EXCEPT ![s] = @ + 1]
            /\ sleeping' = [sleeping EXCEPT ![s] = TRUE]
            /\ UNCHANGED running
        BY <1>3, <2>3 DEF Timeout
      <3>2. retry_num[s] + 1 \in 0..MaxRetry
        BY <2>3, MaxRetryAssumption DEF MayRetry
      <3>3. TypeOK'
        BY <1>1, <2>1, <3>1, <3>2
      <3>4. MutexInv'
        BY <1>1, <3>1 DEF MutexInv, HeaderLen, BodyLens
      <3>5. RetryInv' /\ GivesUpOnDeaf'
        BY <1>1, <2>1, <2>2, <3>1 DEF RetryInv, GivesUpOnDeaf
      <3> QED
        BY <3>3, <3>4, <3>5
    <2>4. CASE ~MayRetry(s)
      <3>1. running' = FALSE /\ UNCHANGED <<retry_num, sleeping>>
        BY <1>3, <2>4 DEF Timeout
      <3>2. failed'[s] = MaxRetry + 1
        <4>1. retry_num[s] \in 0..MaxRetry /\ ~(retry_num[s] < MaxRetry)
          BY <2>4 DEF MayRetry
        <4>2. retry_num[s] = MaxRetry
          BY <4>1, MaxRetryAssumption
        <4> QED
          BY <2>1, <2>2, <4>2
      <3>3. TypeOK'
        <4>1. failed' \in [Senders -> Nat]
          BY <2>1
        <4> QED
          BY <1>1, <2>1, <3>1, <4>1
      <3>4. MutexInv'
        BY <1>1, <3>1 DEF MutexInv, HeaderLen, BodyLens
      <3> QED
        BY <3>1, <3>2, <3>3, <3>4 DEF RetryInv, GivesUpOnDeaf
    <2> QED
      BY <2>3, <2>4
  <1>4. ASSUME SleepOver(s) PROVE TypeOK' /\ MutexInv' /\ RetryInv' /\ GivesUpOnDeaf'
    <2>1. /\ sleeping' = [sleeping EXCEPT ![s] = FALSE]
          /\ UNCHANGED <<running, retry_num, failed, fatal>>
      BY <1>4 DEF SleepOver
    <2>2. TypeOK' /\ RetryInv' /\ GivesUpOnDeaf'
      BY <1>1, <2>1 DEF RetryInv, GivesUpOnDeaf
    <2>3. MutexInv'
      BY <1>1, <2>1 DEF MutexInv, HeaderLen, BodyLens
    <2> QED
      BY <2>2, <2>3
  <1>5. ASSUME Fail(s) PROVE TypeOK' /\ MutexInv' /\ RetryInv' /\ GivesUpOnDeaf'
    <2>1. /\ running' = FALSE /\ fatal' = TRUE
          /\ UNCHANGED <<retry_num, sleeping, failed>>
      BY <1>5 DEF Fail
    <2>2. TypeOK' /\ RetryInv' /\ GivesUpOnDeaf'
      BY <1>1, <2>1 DEF RetryInv, GivesUpOnDeaf
    <2>3. MutexInv'
      BY <1>1, <2>1 DEF MutexInv, HeaderLen, BodyLens
    <2> QED
      BY <2>2, <2>3
  <1> QED
    BY <1>2, <1>3, <1>4, <1>5

(* The mutex is given back when all of the body has been sent: the packet   *)
(* is then as long as its header declares.                                  *)
LEMMA UnlockPreserves ==
  ASSUME IInv, NEW s \in Senders, Unlock(s)
  PROVE  IInv'
  <1> USE DEF IInv, TypeOK
  <1>1. /\ running /\ pc[s] = "body" /\ total[s] >= length[s]
        /\ holder' = Nobody
        /\ pc' = [pc EXCEPT ![s] = "idle"]
        /\ length' = [length EXCEPT ![s] = 0]
        /\ total' = [total EXCEPT ![s] = 0]
        /\ UNCHANGED <<running, retry_num, sleeping, wire, failed, fatal>>
    BY DEF Unlock
  <1>2. total[s] = length[s] /\ holder = s
    BY <1>1 DEF MutexInv
  <1>3. \A t \in Senders \ {s} : ~Sending(t) /\ holder # t
    BY <1>2 DEF MutexInv
  <1>4. TypeOK'
    BY <1>1
  <1>5. MutexInv'
    <2>1. ~sleeping[s]
      BY <1>1, <1>2 DEF MutexInv
    <2> QED
      BY <1>1, <1>3, <2>1 DEF MutexInv, HeaderLen, BodyLens, Senders, Nobody
  <1>6. Whole(wire[2])
    <2>1. wire[2] = Packet(s, HeaderLen(s) + length[s], length[s])
      BY <1>1, <1>2 DEF CountMatchesWire, HeaderLen
    <2> QED
      BY <2>1, HeaderDescribesBody DEF Packet, Whole
  <1>7. StartInv' /\ RetryInv' /\ PacketsWhole' /\ BoundaryWhenFree' /\ GivesUpOnDeaf'
    BY <1>1, <1>3, <1>6 DEF StartInv, RetryInv, PacketsWhole, BoundaryWhenFree,
                            GivesUpOnDeaf, Whole
  <1>8. CountMatchesWire'
    BY <1>1, <1>3 DEF CountMatchesWire
  <1> QED
    BY <1>4, <1>5, <1>7, <1>8

LEMMA Inductive == IInv /\ [Next]_vars => IInv'
  <1> SUFFICES ASSUME IInv, [Next]_vars PROVE IInv'
    OBVIOUS
  <1>1. CASE UNCHANGED vars
    BY <1>1 DEF IInv, TypeOK, MutexInv, StartInv, RetryInv, PacketsWhole,
                BoundaryWhenFree, CountMatchesWire, GivesUpOnDeaf, vars, Whole,
                HeaderLen, BodyLens, Packet, TextLen
  <1>2. ASSUME NEW s \in Senders, Begin(s) \/ Lock(s) \/ Work(s)
        PROVE  IInv'
    BY <1>2, BeginPreserves, LockPreserves, SendSomePreserves, RetryPreserves,
       UnlockPreserves DEF Work
  <1> QED
    BY <1>1, <1>2 DEF Next

(* In every reachable state the invariant holds.                            *)
THEOREM Invariance == Spec => []IInv
  BY Initially, Inductive, PTL DEF Spec

(* The variables have their types; retry_num never exceeds MAX_RETRY_NUM.   *)
THEOREM TypeCorrect == Spec => []TypeOK
  <1>1. IInv => TypeOK
    BY DEF IInv
  <1> QED
    BY <1>1, Invariance, PTL

(* However send_picture and send_audio_data interleave, the client receives *)
(* whole packets: the one before the last is as long as its header says.    *)
THEOREM PacketsAreWhole == Spec => []PacketsWhole
  <1>1. IInv => PacketsWhole
    BY DEF IInv
  <1> QED
    BY <1>1, Invariance, PTL

(* While nobody holds AVsocket_mutex the stream is at a packet boundary.    *)
THEOREM FreeAtBoundary == Spec => []BoundaryWhenFree
  <1>1. IInv => BoundaryWhenFree
    BY DEF IInv
  <1> QED
    BY <1>1, Invariance, PTL

(* What a sender counts is what the client has, through any number of short *)
(* sends and timeouts.                                                      *)
THEOREM CountsAreRight == Spec => []CountMatchesWire
  <1>1. IInv => CountMatchesWire
    BY DEF IInv
  <1> QED
    BY <1>1, Invariance, PTL

(* The process exits only after MAX_RETRY_NUM + 1 timeouts in a row of one  *)
(* of the functions, or when the connection breaks.                         *)
THEOREM NoEarlyExit == Spec => []GivesUpOnDeaf
  <1>1. IInv => GivesUpOnDeaf
    BY DEF IInv
  <1> QED
    BY <1>1, Invariance, PTL
=============================================================================
