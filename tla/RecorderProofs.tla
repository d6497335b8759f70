--------------------------- MODULE RecorderProofs ---------------------------
(***************************************************************************)
(* Proofs about BufferQueue, BufferList and Recorder, for every number of  *)
(* buffers.  First the queue.  Then the pointers of both lists follow the  *)
(* sequences of BufferQueue: of the queue, its inductive invariant is      *)
(* used, for that no buffer is on a list twice or on both is what keeps    *)
(* the writes to one chain off the other.  Every step of Recorder is one   *)
(* of theirs, so all this holds with the sound card behind it; and what    *)
(* the globals pre_sound and cur_sound say is enough for a device that was *)
(* opened anew to be configured.                                           *)
(***************************************************************************)
EXTENDS Recorder, TLAPS

(* Sums of two lengths.                                                     *)
LEMMA SumSwaps ==
  \A m, n \in Nat : m + n = BufferNum => n + m = BufferNum
  BY BufferNumAssumption

LEMMA SumMoves ==
  \A m, n, m1, n1 \in Nat :
    m + n = BufferNum /\ m1 = m - 1 /\ n1 = n + 1 => m1 + n1 = BufferNum
  BY BufferNumAssumption

(* Moving the head of one list to the end of another.                       *)
LEMMA MoveTyping ==
  ASSUME NEW S, NEW s \in Seq(S), NEW t \in Seq(S), s # << >>
  PROVE  /\ Tail(s) \in Seq(S) /\ Append(t, Head(s)) \in Seq(S)
         /\ Head(s) \in S
         /\ Len(Tail(s)) + Len(Append(t, Head(s))) = Len(s) + Len(t)
  OBVIOUS

LEMMA ResetListTyping == ResetList \in [Ends -> Seq(Buffers)]
<1>1. AllBuffers \in Seq(Buffers)
  BY BufferNumAssumption DEF AllBuffers, Buffers
<1>2. << >> \in Seq(Buffers)
  OBVIOUS
<1> QED BY <1>1, <1>2 DEF ResetList, Ends

(* The variables keep their types.                                          *)
LEMMA InitTypeOK == Init => TypeOK
<1> SUFFICES ASSUME Init PROVE TypeOK
  OBVIOUS
<1>1. list \in [Ends -> Seq(Buffers)]
  BY ResetListTyping DEF Init
<1>2. fresh \subseteq Buffers /\ \A e \in Ends : ~Holds(e)
  BY DEF Init, Holds
<1> QED BY <1>1, <1>2 DEF Init, TypeOK, PCs, Cmds

LEMMA EndTypeOK ==
  ASSUME TypeOK, NEW e \in Ends, End(e)
  PROVE  TypeOK'
<1> USE DEF TypeOK, Holds
<1> DEFINE o == Other(e)
<1>o. o \in Ends /\ o # e
  BY DEF Ends, Other
<1>1. CASE OpenQueue(e)
  BY <1>1 DEF OpenQueue, Goto, PCs, commandVars, historyVars
<1>2. CASE DeviceOpened(e) \/ DeviceFailed(e) \/ DeviceReset(e)
  BY <1>2 DEF DeviceOpened, DeviceFailed, DeviceReset, Goto, PCs, queueVars,
              commandVars, historyVars
<1>3. CASE GetStopped(e) \/ Cancelled(e) \/ NotCancelled(e)
  BY <1>3 DEF GetStopped, Cancelled, NotCancelled, Goto, PCs, queueVars,
              commandVars, historyVars
<1>4. CASE GetHead(e) \/ GetAgain(e)
  <2>1. Take(e) /\ UNCHANGED <<queueVars, commandVars, historyVars>>
    BY <1>4 DEF GetHead, GetAgain
  <2>2. list[e] # << >> => Head(list[e]) \in Buffers /\ Head(list[e]) # NoBuffer
    BY BufferNumAssumption DEF Buffers, NoBuffer
  <2>3. CASE list[e] = << >>
    BY <2>1, <2>3 DEF Take, PCs, queueVars, commandVars, historyVars
  <2>4. CASE list[e] # << >>
    <3>1. /\ pc' = [pc EXCEPT ![e] = "using"]
          /\ buf' = [buf EXCEPT ![e] = Head(list[e])]
      BY <2>1, <2>4 DEF Take
    <3>2. /\ pc' \in [Ends -> PCs]
          /\ buf' \in [Ends -> Buffers \cup {NoBuffer}]
      BY <3>1, <2>2, <2>4 DEF PCs
    <3>3. \A f \in Ends : pc'[f] \in {"using", "pass"} => buf'[f] # NoBuffer
      BY <3>1, <2>2, <2>4
    <3> QED BY <2>1, <3>2, <3>3 DEF queueVars, commandVars, historyVars
  <2> QED BY <2>3, <2>4
<1>5. CASE GetWait(e) \/ Wake(e)
  <2>1. ready[e] \in Nat
    OBVIOUS
  <2>2. CASE GetWait(e)
    BY <2>2 DEF GetWait, Goto, PCs, commandVars, historyVars
  <2>3. CASE Wake(e)
    BY <2>1, <2>3 DEF Wake, Goto, PCs, commandVars, historyVars
  <2> QED BY <1>5, <2>2, <2>3
<1>6. CASE Use(e)
  <2>1. buf[e] \in Buffers
    BY <1>6 DEF Use, Goto
  <2> QED BY <1>6, <2>1 DEF Use, Goto, PCs, queueVars, commandVars
<1>7. CASE ReadFailed(e)
  BY <1>7 DEF ReadFailed, Goto, PCs, queueVars, commandVars
<1>8. CASE PassBuffer(e)
  <2>1. CASE state[e] = "WORKING" /\ list[e] # << >>
    <3>1. Tail(list[e]) \in Seq(Buffers)
          /\ Append(list[o], Head(list[e])) \in Seq(Buffers)
      BY <1>o, <2>1, MoveTyping
    <3>2. /\ list' = [list EXCEPT ![e] = Tail(list[e]),
                                  ![o] = Append(list[o], Head(list[e]))]
          /\ ready' = [ready EXCEPT ![o] = IF wanted[o] THEN @ + 1 ELSE @]
          /\ wanted' = [wanted EXCEPT ![o] = FALSE]
          /\ fresh' \subseteq fresh
      BY <1>8, <2>1 DEF PassBuffer, Move
    <3>3. list' \in [Ends -> Seq(Buffers)]
      BY <3>1, <3>2, <1>o
    <3>4. /\ ready' \in [Ends -> Nat] /\ wanted' \in [Ends -> BOOLEAN]
          /\ fresh' \subseteq Buffers
      BY <3>2, <1>o
    <3> QED
      BY <1>8, <3>3, <3>4 DEF PassBuffer, Goto, PCs, commandVars
  <2>2. CASE ~(state[e] = "WORKING" /\ list[e] # << >>)
    BY <1>8, <2>2 DEF PassBuffer, Move, Goto, PCs, commandVars
  <2> QED BY <2>1, <2>2
<1> QED
  BY <1>1, <1>2, <1>3, <1>4, <1>5, <1>6, <1>7, <1>8 DEF End

LEMMA CommandTypeOK ==
  ASSUME TypeOK, AudioStart \/ AudioEnd \/ Disable \/ Enable
  PROVE  TypeOK'
<1> USE DEF TypeOK, Holds
<1>1. CASE AudioStart \/ AudioEnd
  BY <1>1 DEF AudioStart, AudioEnd, CommandGoto, Cmds, queueVars, threadVars,
              historyVars
<1>2. ASSUME NEW e \in Ends, ResetBufferList(e)
      PROVE  /\ list' \in [Ends -> Seq(Buffers)]
             /\ ready' \in [Ends -> Nat]
             /\ wanted' \in [Ends -> BOOLEAN]
             /\ stale' \in [Ends -> BOOLEAN]
  <2>1. ResetList[e] \in Seq(Buffers)
    BY ResetListTyping
  <2>2. list' \in [Ends -> Seq(Buffers)]
    BY <1>2, <2>1 DEF ResetBufferList
  <2>3. ready' \in [Ends -> Nat] /\ wanted' \in [Ends -> BOOLEAN]
    BY <1>2 DEF ResetBufferList
  <2>4. stale' \in [Ends -> BOOLEAN]
    BY <1>2 DEF ResetBufferList
  <2> QED BY <2>2, <2>3, <2>4
<1>3. CASE DisableResetFilled
  <2>1. ResetBufferList("out") /\ "out" \in Ends
    BY <1>3 DEF DisableResetFilled, Ends
  <2> QED
    BY <1>2, <1>3, <2>1 DEF DisableResetFilled, CommandGoto, Cmds, threadVars
<1>4. CASE DisableResetEmpty
  <2>1. ResetBufferList("in") /\ "in" \in Ends
    BY <1>4 DEF DisableResetEmpty, Ends
  <2> QED
    BY <1>2, <1>4, <2>1 DEF DisableResetEmpty, CommandGoto, Cmds, threadVars
<1>5. CASE DisableStop \/ EnableStart
  BY <1>5 DEF DisableStop, EnableStart, StoreState, CommandGoto, Cmds,
              threadVars, historyVars
<1>6. ASSUME NEW e \in Ends
      PROVE  Drained(e) \in [Ends -> Nat] /\ Posted(e) \in [Ends -> Nat]
  BY DEF Drained, Posted
<1>7. "in" \in Ends /\ "out" \in Ends
  BY DEF Ends
<1>8. CASE DisableCloseIn \/ DisableCloseOut
  BY <1>6, <1>7, <1>8
  DEF DisableCloseIn, DisableCloseOut, PortStep, CommandGoto, Cmds,
      threadVars, historyVars
<1>9. CASE EnablePort
  BY <1>6, <1>7, <1>9
  DEF EnablePort, PortStep, CommandGoto, Cmds, threadVars, historyVars
<1> QED
  BY <1>1, <1>3, <1>4, <1>5, <1>8, <1>9 DEF Disable, Enable

LEMMA StutterTypeOK == TypeOK /\ UNCHANGED vars => TypeOK'
  BY DEF TypeOK, Holds, vars

(* Every reachable state is well typed.                                     *)
THEOREM TypeCorrect == Spec => []TypeOK
<1>1. TypeOK /\ [Next]_vars => TypeOK'
  BY EndTypeOK, CommandTypeOK, StutterTypeOK DEF Next
<1> QED BY InitTypeOK, <1>1, PTL DEF Spec

-----------------------------------------------------------------------------
(* The inductive invariant.                                                 *)

(* A reset puts every buffer on list_empty, once.                           *)
LEMMA ResetListIntact ==
  /\ ResetList["out"] = << >> /\ ResetList["in"] = AllBuffers
  /\ NoRepeats(ResetList["in"]) /\ NoRepeats(ResetList["out"])
  /\ \A i \in DOMAIN ResetList["in"], j \in DOMAIN ResetList["out"] :
        ResetList["in"][i] # ResetList["out"][j]
  /\ Len(ResetList["in"]) + Len(ResetList["out"]) = BufferNum
<1>1. ResetList["out"] = << >> /\ ResetList["in"] = AllBuffers
  BY DEF ResetList, Ends
<1>2. AllBuffers \in Seq(Buffers) /\ Len(AllBuffers) = BufferNum
      /\ DOMAIN AllBuffers = Buffers
  BY BufferNumAssumption DEF AllBuffers, Buffers
<1>3. NoRepeats(AllBuffers) /\ NoRepeats(<< >>)
  BY DEF NoRepeats, AllBuffers
<1> QED BY <1>1, <1>2, <1>3, BufferNumAssumption

(* Moving a head keeps the two lists disjoint and without repetition.       *)
LEMMA MoveIntact ==
  ASSUME NEW S, NEW s \in Seq(S), NEW t \in Seq(S), s # << >>,
         NoRepeats(s), NoRepeats(t),
         \A i \in DOMAIN s, j \in DOMAIN t : s[i] # t[j]
  PROVE  /\ NoRepeats(Tail(s)) /\ NoRepeats(Append(t, Head(s)))
         /\ \A i \in DOMAIN Tail(s), j \in DOMAIN Append(t, Head(s)) :
               Tail(s)[i] # Append(t, Head(s))[j]
         /\ \A i \in DOMAIN Tail(s) : Tail(s)[i] # Head(s)
<1> DEFINE u == Tail(s)
           v == Append(t, Head(s))
<1>1. /\ u \in Seq(S) /\ Len(u) = Len(s) - 1 /\ Len(s) \in Nat
      /\ \A i \in 1..Len(u) : u[i] = s[i + 1]
      /\ Head(s) = s[1] /\ DOMAIN u = 1..Len(u)
      /\ DOMAIN s = 1..Len(s) /\ Len(s) > 0
  OBVIOUS
<1>2. /\ v \in Seq(S) /\ Len(v) = Len(t) + 1 /\ Len(t) \in Nat
      /\ \A j \in 1..Len(t) : v[j] = t[j]
      /\ v[Len(t) + 1] = s[1] /\ DOMAIN v = 1..(Len(t) + 1)
      /\ DOMAIN t = 1..Len(t)
  BY <1>1
<1>3. \A i \in DOMAIN u : i + 1 \in DOMAIN s /\ i + 1 # 1 /\ 1 \in DOMAIN s
  BY <1>1
<1>4. NoRepeats(u) /\ \A i \in DOMAIN u : u[i] # s[1]
  BY <1>1, <1>3 DEF NoRepeats
<1>5. \A j \in DOMAIN v : \/ (j \in DOMAIN t /\ v[j] = t[j])
                          \/ (j = Len(t) + 1 /\ v[j] = s[1])
  <2> TAKE j \in DOMAIN v
  <2>1. j \in 1..(Len(t) + 1) /\ Len(t) \in Nat
    BY <1>2
  <2>2. j \in 1..Len(t) \/ j = Len(t) + 1
    BY <2>1
  <2> HIDE DEF v
  <2> QED BY <1>2, <2>2
<1>6. NoRepeats(v)
  BY <1>1, <1>5 DEF NoRepeats
<1>7. \A i \in DOMAIN u, j \in DOMAIN v : u[i] # v[j]
  BY <1>1, <1>3, <1>4, <1>5
<1> QED BY <1>1, <1>4, <1>6, <1>7 DEF u, v

LEMMA InitIInv == Init => IInv
<1> SUFFICES ASSUME Init PROVE IInv
  OBVIOUS
<1> USE DEF Init
<1>1. TypeOK
  BY InitTypeOK
<1>2. CommandInv
  BY DEF CommandInv, Ends
<1>3. list["out"] = << >> /\ list["in"] = AllBuffers
  BY DEF ResetList, Ends
<1>4. ResetInv /\ Handshake /\ WantedInv /\ PortInv
  BY <1>3 DEF ResetInv, Handshake, WantedInv, PortInv, PortIsFlag, Ends
<1>5. HeldIsHead /\ StaleInv /\ OneStaleFill
  BY <1>3, \A e \in Ends : pc[e] = "open" /\ ~stale[e]
  DEF HeldIsHead, Holds, StaleInv, OneStaleFill, Ends
<1>6. ListInv
  BY ResetListIntact DEF ListInv, Intact
<1> QED BY <1>1, <1>2, <1>4, <1>5, <1>6 DEF IInv

(* The steps of a thread that touch neither the lists nor a wait: they only *)
(* move it, outside GetBuffer's wait and without a buffer afterwards.       *)
LEMMA QuietStep ==
  ASSUME IInv, TypeOK', NEW e \in Ends, NEW to \in PCs,
         pc[e] \notin {"blocked", "pass"},
         to \notin {"blocked", "using", "pass"},
         pc' = [pc EXCEPT ![e] = to],
         \A f \in Ends : f # e => buf'[f] = buf[f],
         \A f \in Ends : stale'[f] => stale[f],
         \A f \in Ends : f # e => stale'[f] = stale[f],
         UNCHANGED <<list, wanted, ready, state, locked, cmd, record_state,
                     fresh>>,
         PortInv'
  PROVE  IInv'
<1> USE DEF IInv
<1>1. CommandInv' /\ ResetInv'
  BY DEF CommandInv, ResetInv, ResetList, AllBuffers
<1>2. Handshake' /\ WantedInv'
  BY DEF TypeOK, Handshake, WantedInv
<1>3. HeldIsHead'
  BY DEF TypeOK, HeldIsHead, Holds
<1>4. ListInv' /\ OneStaleFill'
  BY DEF ListInv, Intact, NoRepeats, OneStaleFill
<1>5. StaleInv'
  BY DEF TypeOK, StaleInv, Ends
<1> QED BY <1>1, <1>2, <1>3, <1>4, <1>5

(* A thread gets the head of its list, or NULL.                             *)
LEMMA TakeStep ==
  ASSUME IInv, TypeOK', NEW e \in Ends, pc[e] \in {"get", "relock"}, Take(e),
         UNCHANGED <<queueVars, commandVars, historyVars>>
  PROVE  IInv'
<1> USE DEF IInv, queueVars, commandVars, historyVars
<1>1. CommandInv' /\ ResetInv' /\ PortInv'
  BY DEF CommandInv, ResetInv, ResetList, AllBuffers, PortInv, PortIsFlag
<1>2. Handshake' /\ WantedInv'
  <2>1. PICK to \in {"open", "using"} : pc' = [pc EXCEPT ![e] = to]
    BY DEF Take
  <2> QED BY <2>1 DEF TypeOK, Handshake, WantedInv
<1>3. HeldIsHead'
  <2>1. CASE list[e] = << >>
    BY <2>1 DEF Take, TypeOK, HeldIsHead, Holds
  <2>2. CASE list[e] # << >>
    BY <2>2 DEF Take, TypeOK, HeldIsHead, Holds
  <2> QED BY <2>1, <2>2
<1>4. ListInv' /\ OneStaleFill'
  BY DEF ListInv, Intact, NoRepeats, OneStaleFill
<1>5. StaleInv'
  <2>1. CASE list[e] = << >>
    BY <2>1 DEF Take, TypeOK, StaleInv, Ends
  <2>2. CASE list[e] # << >>
    BY <2>2 DEF Take, TypeOK, StaleInv, Ends
  <2> QED BY <2>1, <2>2
<1> QED BY <1>1, <1>2, <1>3, <1>4, <1>5

(* Going to sleep and being woken.                                          *)
LEMMA WaitStep ==
  ASSUME IInv, TypeOK', NEW e \in Ends, GetWait(e) \/ Wake(e)
  PROVE  IInv'
<1> USE DEF IInv, GetWait, Wake, Goto, commandVars, historyVars
<1>1. CommandInv' /\ PortInv'
  BY DEF CommandInv, PortInv, PortIsFlag
<1>2. ResetInv'
  <2>1. CASE Wake(e)
    BY <2>1 DEF ResetInv, ResetList, AllBuffers
  <2>2. CASE GetWait(e)
    <3>1. cmd \notin {"reset_in", "stop", "close_in", "close_out"}
      BY <2>2 DEF CommandInv
    <3> QED BY <2>2, <3>1 DEF ResetInv
  <2> QED BY <2>1, <2>2
<1>3. Handshake'
  <2>1. CASE GetWait(e)
    BY <2>1 DEF TypeOK, Handshake
  <2>2. CASE Wake(e)
    <3>1. ready[e] = 1 /\ ~wanted[e] /\ ready'[e] = 0
      BY <2>2 DEF TypeOK, Handshake
    <3> QED BY <2>2, <3>1 DEF TypeOK, Handshake
  <2> QED BY <2>1, <2>2
<1>4. WantedInv'
  BY DEF TypeOK, WantedInv
<1>5. HeldIsHead'
  BY DEF TypeOK, HeldIsHead, Holds
<1>6. ListInv' /\ OneStaleFill'
  BY DEF ListInv, Intact, NoRepeats, OneStaleFill
<1>7. StaleInv'
  BY DEF TypeOK, StaleInv, Ends
<1> QED BY <1>1, <1>2, <1>3, <1>4, <1>5, <1>6, <1>7

(* Recording into a buffer, or encoding and sending it.                     *)
LEMMA UseStep ==
  ASSUME IInv, TypeOK', NEW e \in Ends, Use(e)
  PROVE  IInv'
<1> USE DEF IInv, Use, Goto, queueVars, commandVars
<1>1. CommandInv' /\ ResetInv' /\ PortInv'
  BY DEF CommandInv, ResetInv, ResetList, AllBuffers, PortInv, PortIsFlag
<1>2. Handshake' /\ WantedInv'
  BY DEF TypeOK, Handshake, WantedInv
<1>3. HeldIsHead'
  BY DEF TypeOK, HeldIsHead, Holds
<1>4. ListInv'
  BY DEF ListInv, Intact, NoRepeats
<1>5. fresh \subseteq fresh'
  OBVIOUS
<1>6. OneStaleFill'
  BY <1>5 DEF OneStaleFill
<1>7. StaleInv'
  BY <1>5 DEF TypeOK, StaleInv, Ends
<1> QED BY <1>1, <1>2, <1>3, <1>4, <1>6, <1>7

(* FillBuffer and EmptyBuffer that move a buffer.                           *)
LEMMA MoveStep ==
  ASSUME IInv, TypeOK', NEW e \in Ends, PassBuffer(e),
         state[e] = "WORKING", list[e] # << >>
  PROVE  IInv'
<1> DEFINE o == Other(e)
           b == Head(list[e])
<1> USE DEF IInv
<1>o. o \in Ends /\ o # e /\ \A f \in Ends : f = e \/ f = o
  BY DEF Other, Ends
<1>m. /\ list' = [list EXCEPT ![e] = Tail(list[e]), ![o] = Append(list[o], b)]
      /\ ready' = [ready EXCEPT ![o] = IF wanted[o] THEN @ + 1 ELSE @]
      /\ wanted' = [wanted EXCEPT ![o] = FALSE]
      /\ fresh' = IF e = "out" THEN fresh \ {b} ELSE fresh
  BY DEF PassBuffer, Move
<1>p. /\ pc[e] = "pass" /\ pc' = [pc EXCEPT ![e] = "get"] /\ ~locked
      /\ buf' = [buf EXCEPT ![e] = NoBuffer]
      /\ stale' = [stale EXCEPT ![e] = FALSE]
      /\ UNCHANGED <<state, port, locked, cmd, record_state>>
  BY DEF PassBuffer, Goto, commandVars
<1>t. /\ list[e] \in Seq(Buffers) /\ list[o] \in Seq(Buffers)
      /\ list'[e] = Tail(list[e]) /\ list'[o] = Append(list[o], b)
  BY <1>o, <1>m DEF TypeOK
<1>c. cmd \notin {"reset_in", "stop", "close_in", "close_out"}
  BY <1>p DEF CommandInv
<1>i. /\ NoRepeats(list[e]) /\ NoRepeats(list[o])
      /\ \A i \in DOMAIN list[e], j \in DOMAIN list[o] : list[e][i] # list[o][j]
      /\ Len(list[e]) + Len(list[o]) = BufferNum
  <2>1. Intact
    BY <1>c DEF ListInv
  <2>2. CASE e = "in"
    <3>1. o = "out"
      BY <2>2 DEF Other
    <3> QED BY <2>1, <2>2, <3>1 DEF Intact
  <2>3. CASE e = "out"
    <3>1. o = "in" /\ Len(list["in"]) \in Nat /\ Len(list["out"]) \in Nat
      BY <1>t, <2>3 DEF Other
    <3> HIDE DEF o
    <3>2. NoRepeats(list["in"]) /\ NoRepeats(list["out"])
      BY <2>1 DEF Intact
    <3>3. \A i \in DOMAIN list["out"], j \in DOMAIN list["in"] :
             list["out"][i] # list["in"][j]
      BY <2>1 DEF Intact
    <3>4. Len(list["out"]) + Len(list["in"]) = BufferNum
      <4>1. Len(list["in"]) + Len(list["out"]) = BufferNum
        BY <2>1 DEF Intact
      <4> QED BY <3>1, <4>1, SumSwaps, Zenon
    <3> QED BY <2>3, <3>1, <3>2, <3>3, <3>4
  <2> QED BY <2>2, <2>3 DEF Ends
<1> HIDE DEF o, b
<1>1. CommandInv' /\ PortInv'
  BY <1>p DEF CommandInv, PortInv, PortIsFlag
<1>2. ResetInv'
  <2>1. state["in"] = "STOPPED" => list'["out"] = << >>
    <3> SUFFICES ASSUME state["in"] = "STOPPED" PROVE FALSE
      OBVIOUS
    <3>1. list["out"] = << >> /\ e # "in"
      BY DEF ResetInv
    <3> QED BY <3>1 DEF Ends
  <2> QED BY <1>c, <1>p, <2>1 DEF ResetInv
<1>3. Handshake'
  BY <1>o, <1>m, <1>p DEF TypeOK, Handshake
<1>4. WantedInv'
  BY <1>o, <1>m, <1>p DEF TypeOK, WantedInv, Handshake
<1>5. HeldIsHead'
  <2>1. list[o] # << >> => list'[o] # << >> /\ Head(list'[o]) = Head(list[o])
    BY <1>t
  <2>2. ~Holds(e)' /\ (Holds(o)' <=> Holds(o)) /\ stale'[o] = stale[o]
        /\ buf'[o] = buf[o]
    BY <1>o, <1>p DEF TypeOK, Holds
  <2> QED BY <1>o, <2>1, <2>2 DEF HeldIsHead
<1>6. /\ NoRepeats(list'[e]) /\ NoRepeats(list'[o])
      /\ \A i \in DOMAIN list'[e], j \in DOMAIN list'[o] :
            list'[e][i] # list'[o][j]
      /\ \A i \in DOMAIN list'[e] : list'[e][i] # b
  BY <1>t, <1>i, MoveIntact DEF b
<1>7. ListInv'
  <2>1. Len(list'[e]) + Len(list'[o]) = BufferNum
    <3>1. Len(list'[e]) = Len(list[e]) - 1
      BY <1>t
    <3>2. Len(list'[o]) = Len(list[o]) + 1
      BY <1>t
    <3>3. Len(list[e]) \in Nat /\ Len(list[o]) \in Nat
          /\ Len(list'[e]) \in Nat /\ Len(list'[o]) \in Nat
      BY <1>t
    <3> QED BY <1>i, <3>1, <3>2, <3>3, SumMoves, Zenon
  <2>2. CASE e = "in"
    <3>1. o = "out"
      BY <2>2 DEF o, Other
    <3> QED BY <1>6, <2>1, <2>2, <3>1 DEF ListInv, Intact
  <2>3. CASE e = "out"
    <3>1. o = "in"
      BY <2>3 DEF o, Other
    <3>2. Len(list'["in"]) \in Nat /\ Len(list'["out"]) \in Nat
      BY DEF TypeOK, Ends
    <3>3. NoRepeats(list'["in"]) /\ NoRepeats(list'["out"])
      BY <1>6, <2>3, <3>1
    <3>4. \A i \in DOMAIN list'["in"], j \in DOMAIN list'["out"] :
             list'["in"][i] # list'["out"][j]
      BY <1>6, <2>3, <3>1
    <3>5. Len(list'["in"]) + Len(list'["out"]) = BufferNum
      <4>1. Len(list'["out"]) + Len(list'["in"]) = BufferNum
        BY <2>1, <2>3, <3>1
      <4> QED BY <4>1, <3>2, SumSwaps, Zenon
    <3> QED BY <3>3, <3>4, <3>5 DEF ListInv, Intact
  <2> QED BY <2>2, <2>3 DEF Ends
<1>8. OneStaleFill'
  <2>1. CASE e = "out"
    <3>1. list'["out"] = Tail(list["out"]) /\ fresh' = fresh \ {b}
          /\ list["out"] \in Seq(Buffers) /\ list["out"] # << >>
          /\ \A i \in DOMAIN list'["out"] : list'["out"][i] # b
      BY <1>t, <1>m, <1>6, <2>1
    <3>2. \A i \in DOMAIN list'["out"] :
             i + 1 \in DOMAIN list["out"] /\ i \in Nat
             /\ list'["out"][i] = list["out"][i + 1]
      BY <3>1
    <3>3. \A i \in DOMAIN list'["out"] :
             list'["out"][i] \notin fresh' => list["out"][i + 1] \notin fresh
      BY <3>1, <3>2
    <3>4. \A i, j \in Nat : i + 1 = j + 1 => i = j
      OBVIOUS
    <3> QED BY <3>2, <3>3, <3>4 DEF OneStaleFill
  <2>2. CASE e = "in" /\ ~stale["in"]
    <3>1. b \in fresh /\ fresh' = fresh
      BY <1>m, <1>p, <1>o, <2>2 DEF StaleInv, HeldIsHead, Holds, b
    <3>2. list'["out"] = Append(list["out"], b) /\ list["out"] \in Seq(Buffers)
      BY <1>t, <2>2 DEF o, Other
    <3>3. \A i \in DOMAIN list'["out"] :
             \/ (i \in DOMAIN list["out"] /\ list'["out"][i] = list["out"][i])
             \/ list'["out"][i] = b
      BY <3>2
    <3> QED BY <3>1, <3>3 DEF OneStaleFill
  <2>3. CASE e = "in" /\ stale["in"]
    <3>1. list'["out"] = Append(<< >>, b)
      BY <1>t, <2>3 DEF o, Other, StaleInv
    <3>2. \A i \in DOMAIN list'["out"] : i = 1
      BY <3>1
    <3> QED BY <3>2 DEF OneStaleFill
  <2> QED BY <2>1, <2>2, <2>3 DEF Ends
<1>9. StaleInv'
  <2>1. CASE e = "in"
    BY <1>p, <2>1 DEF TypeOK, StaleInv, Ends
  <2>2. CASE e = "out"
    <3>1. ~stale["in"] /\ ~stale'["in"] /\ pc'["in"] = pc["in"]
          /\ buf'["in"] = buf["in"]
      BY <1>p, <2>2 DEF TypeOK, StaleInv, Ends
    <3>2. ASSUME pc["in"] = "pass" PROVE buf["in"] # b
      <4>1. o = "in"
        BY <2>2 DEF o, Other
      <4>2. list[o] # << >> /\ buf["in"] = Head(list[o])
        BY <3>1, <3>2, <4>1, <1>o DEF HeldIsHead, Holds
      <4>3. 1 \in DOMAIN list[e] /\ 1 \in DOMAIN list[o]
            /\ b = list[e][1] /\ Head(list[o]) = list[o][1]
        BY <4>2, <1>t DEF b
      <4> QED BY <4>2, <4>3, <1>i
    <3> QED BY <1>m, <2>2, <3>1, <3>2 DEF StaleInv
  <2> QED BY <2>1, <2>2 DEF Ends
<1> QED BY <1>1, <1>2, <1>3, <1>4, <1>5, <1>7, <1>8, <1>9

(* FillBuffer and EmptyBuffer that find the queue stopped or the list empty.*)
LEMMA PassStep ==
  ASSUME IInv, TypeOK', NEW e \in Ends, PassBuffer(e)
  PROVE  IInv'
<1>1. CASE state[e] = "WORKING" /\ list[e] # << >>
  BY <1>1, MoveStep
<1>2. CASE ~(state[e] = "WORKING" /\ list[e] # << >>)
  <2>1. /\ pc[e] = "pass" /\ pc' = [pc EXCEPT ![e] = "get"]
        /\ buf' = [buf EXCEPT ![e] = NoBuffer]
        /\ stale' = [stale EXCEPT ![e] = FALSE]
        /\ UNCHANGED <<list, wanted, ready, fresh, state, port, locked, cmd,
                       record_state>>
    BY <1>2 DEF PassBuffer, Move, Goto, commandVars
  <2> USE DEF IInv
  <2>2. CommandInv' /\ ResetInv' /\ PortInv'
    BY <2>1 DEF CommandInv, ResetInv, ResetList, AllBuffers, PortInv, PortIsFlag
  <2>3. Handshake' /\ WantedInv'
    BY <2>1 DEF TypeOK, Handshake, WantedInv
  <2>4. HeldIsHead'
    BY <2>1 DEF TypeOK, HeldIsHead, Holds
  <2>5. ListInv' /\ OneStaleFill'
    BY <2>1 DEF ListInv, Intact, NoRepeats, OneStaleFill
  <2>6. StaleInv'
    BY <2>1 DEF TypeOK, StaleInv, Ends
  <2> QED BY <2>2, <2>3, <2>4, <2>5, <2>6
<1> QED BY <1>1, <1>2

(* Every step of the capture and send threads.                              *)
LEMMA EndIInv ==
  ASSUME IInv, NEW e \in Ends, End(e)
  PROVE  IInv'
<1>t. TypeOK'
  BY EndTypeOK DEF IInv
<1>1. CASE OpenQueue(e)
  <2>1. PortInv'
    BY <1>1 DEF IInv, TypeOK, PortInv, PortIsFlag, OpenQueue, commandVars
  <2>2. PICK to \in {"device", "get"} : pc' = [pc EXCEPT ![e] = to]
    BY <1>1 DEF OpenQueue, Goto
  <2> QED
    BY <1>1, <1>t, <2>1, <2>2, QuietStep
    DEF OpenQueue, Goto, PCs, commandVars, historyVars
<1>2. CASE DeviceOpened(e) \/ DeviceFailed(e) \/ DeviceReset(e)
  <2>1. PortInv'
    BY <1>2 DEF IInv, PortInv, PortIsFlag, DeviceOpened, DeviceFailed,
                DeviceReset, queueVars, commandVars
  <2>2. PICK to \in {"open", "get"} :
          /\ pc' = [pc EXCEPT ![e] = to]
          /\ pc[e] \in {"device", "away"}
    BY <1>2 DEF DeviceOpened, DeviceFailed, DeviceReset, Goto
  <2> QED
    BY <1>2, <1>t, <2>1, <2>2, QuietStep
    DEF DeviceOpened, DeviceFailed, DeviceReset, PCs, queueVars,
        commandVars, historyVars
<1>3. CASE GetStopped(e) \/ Cancelled(e) \/ NotCancelled(e)
  <2>1. PortInv'
    BY <1>3 DEF IInv, PortInv, PortIsFlag, GetStopped, Cancelled,
                NotCancelled, queueVars, commandVars
  <2>2. PICK to \in {"open", "relock"} :
          /\ pc' = [pc EXCEPT ![e] = to]
          /\ pc[e] \in {"get", "woken"}
    BY <1>3 DEF GetStopped, Cancelled, NotCancelled, Goto
  <2>3. \A f \in Ends : f # e => buf'[f] = buf[f]
    BY <1>3 DEF IInv, TypeOK, GetStopped, Cancelled, NotCancelled
  <2> QED
    BY <1>3, <1>t, <2>1, <2>2, <2>3, QuietStep
    DEF GetStopped, Cancelled, NotCancelled, PCs, queueVars, commandVars,
        historyVars
<1>4. CASE GetHead(e) \/ GetAgain(e)
  BY <1>4, <1>t, TakeStep DEF GetHead, GetAgain
<1>5. CASE GetWait(e) \/ Wake(e)
  BY <1>5, <1>t, WaitStep
<1>6. CASE Use(e)
  BY <1>6, <1>t, UseStep
<1>7. CASE ReadFailed(e)
  <2>1. PortInv'
    BY <1>7 DEF IInv, PortInv, PortIsFlag, ReadFailed, queueVars, commandVars
  <2>2. /\ \A f \in Ends : f # e => buf'[f] = buf[f] /\ stale'[f] = stale[f]
        /\ \A f \in Ends : stale'[f] => stale[f]
    BY <1>7 DEF IInv, TypeOK, ReadFailed
  <2>3. pc' = [pc EXCEPT ![e] = "away"] /\ pc[e] = "using"
    BY <1>7 DEF ReadFailed, Goto
  <2> QED
    BY <1>7, <1>t, <2>1, <2>2, <2>3, QuietStep
    DEF ReadFailed, PCs, queueVars, commandVars
<1>8. CASE PassBuffer(e)
  BY <1>8, <1>t, PassStep
<1> QED
  BY <1>1, <1>2, <1>3, <1>4, <1>5, <1>6, <1>7, <1>8 DEF End

(* The two resets of DisableBufferQueue.                                    *)
LEMMA ResetFilledStep ==
  ASSUME IInv, TypeOK', DisableResetFilled
  PROVE  IInv'
<1> USE DEF IInv, DisableResetFilled, CommandGoto, threadVars
<1>1. CommandInv' /\ PortInv'
  BY DEF CommandInv, PortInv, PortIsFlag
<1>2. /\ list' = [list EXCEPT !["out"] = << >>]
      /\ ready' = [ready EXCEPT !["out"] = IF wanted["out"] THEN @ + 1 ELSE @]
      /\ wanted' = [wanted EXCEPT !["out"] = FALSE]
      /\ stale' = [stale EXCEPT !["out"] =
                                   @ \/ pc["out"] \in {"using", "pass"}]
  BY DEF ResetBufferList, ResetList, Ends
<1>3. /\ list'["out"] = << >> /\ list'["in"] = list["in"]
      /\ ~wanted'["out"] /\ wanted'["in"] = wanted["in"]
      /\ stale'["in"] = stale["in"]
      /\ Holds("out") => stale'["out"]
  BY <1>2 DEF TypeOK, Ends, Holds
<1>4. ResetInv'
  BY <1>3 DEF ResetInv
<1>5. Handshake'
  BY <1>2 DEF TypeOK, Handshake
<1>6. WantedInv'
  BY <1>3 DEF WantedInv, Ends
<1>7. HeldIsHead'
  BY <1>3 DEF HeldIsHead, Holds, Ends
<1>8. ListInv' /\ OneStaleFill' /\ StaleInv'
  BY <1>3 DEF ListInv, OneStaleFill, StaleInv
<1> QED BY <1>1, <1>4, <1>5, <1>6, <1>7, <1>8

LEMMA ResetEmptyStep ==
  ASSUME IInv, TypeOK', DisableResetEmpty
  PROVE  IInv'
<1> USE DEF IInv, DisableResetEmpty, CommandGoto, threadVars
<1>1. CommandInv' /\ PortInv'
  BY DEF CommandInv, PortInv, PortIsFlag
<1>2. /\ list' = [list EXCEPT !["in"] = AllBuffers]
      /\ ready' = [ready EXCEPT !["in"] = IF wanted["in"] THEN @ + 1 ELSE @]
      /\ wanted' = [wanted EXCEPT !["in"] = FALSE]
      /\ stale' = [stale EXCEPT !["in"] =
                                   @ \/ pc["in"] \in {"using", "pass"}]
  BY DEF ResetBufferList, ResetList, Ends
<1>3. /\ list'["in"] = AllBuffers /\ list'["out"] = << >>
      /\ \A e \in Ends : ~wanted'[e]
      /\ stale'["out"] = stale["out"]
      /\ Holds("in") => stale'["in"]
  BY <1>2 DEF TypeOK, ResetInv, Ends, Holds
<1>4. list' = ResetList
  BY <1>3 DEF TypeOK, ResetList, Ends
<1>5. ResetInv'
  BY <1>3, <1>4 DEF ResetInv, ResetList, AllBuffers, Buffers
<1>6. Handshake'
  BY <1>2 DEF TypeOK, Handshake
<1>7. WantedInv'
  BY <1>3 DEF WantedInv
<1>8. HeldIsHead'
  <2>1. list["out"] = << >>
    BY DEF ResetInv
  <2> QED BY <1>3, <2>1 DEF HeldIsHead, Holds, Ends
<1>9. ListInv'
  <2>1. Intact'
    BY <1>4, ResetListIntact DEF Intact
  <2> QED BY <2>1 DEF ListInv
<1>10. OneStaleFill' /\ StaleInv'
  BY <1>3 DEF OneStaleFill, StaleInv, Holds
<1> QED BY <1>1, <1>5, <1>6, <1>7, <1>8, <1>9, <1>10

(* The other steps of the command thread leave the lists and the threads    *)
(* alone.                                                                   *)
LEMMA CommandStep ==
  ASSUME IInv, TypeOK',
         UNCHANGED <<list, wanted, ready, pc, buf, stale, fresh>>,
         CommandInv', PortInv',
         cmd' # "reset_in", cmd # "reset_in",
         cmd' \in {"stop", "close_in", "close_out"}
           => cmd \in {"stop", "close_in", "close_out"},
         \A e \in Ends : wanted[e] => state'[e] = "WORKING",
         state'["in"] = "STOPPED" => list["out"] = << >>
  PROVE  IInv'
<1> USE DEF IInv
<1>1. ResetInv'
  BY DEF ResetInv, ResetList, AllBuffers
<1>2. Handshake' /\ WantedInv'
  BY DEF Handshake, WantedInv
<1>3. HeldIsHead' /\ StaleInv'
  BY DEF HeldIsHead, Holds, StaleInv
<1>4. ListInv' /\ OneStaleFill'
  BY DEF ListInv, Intact, NoRepeats, OneStaleFill
<1> QED BY <1>1, <1>2, <1>3, <1>4

LEMMA StateIInv ==
  ASSUME IInv, AudioStart \/ AudioEnd \/ DisableStop \/ EnableStart
  PROVE  IInv'
<1>t. TypeOK'
  BY CommandTypeOK DEF IInv, Disable, Enable
<1>1. CASE AudioStart \/ AudioEnd
  <2> USE <1>1 DEF IInv, AudioStart, AudioEnd, CommandGoto, queueVars,
                  threadVars, historyVars
  <2>1. CommandInv'
    BY DEF TypeOK, CommandInv
  <2>2. PortInv'
    BY DEF PortInv, PortIsFlag
  <2>3. state'["in"] = "STOPPED" => list["out"] = << >>
    BY DEF ResetInv
  <2>4. \A e \in Ends : wanted[e] => state'[e] = "WORKING"
    BY DEF WantedInv
  <2>5. cmd = "idle" /\ cmd' \in {"reset_out", "start"}
    OBVIOUS
  <2> QED
    BY <1>t, <2>1, <2>2, <2>3, <2>4, <2>5, CommandStep
<1>2. CASE DisableStop
  <2>1. PICK e \in Ends :
          /\ cmd = "stop" /\ state[e] # "STOPPED"
          /\ state' = [state EXCEPT ![e] = "STOPPED"]
          /\ cmd' = IF state[Other(e)] = "STOPPED" THEN "close_in" ELSE "stop"
          /\ UNCHANGED <<list, wanted, ready, port, locked, threadVars,
                         record_state, historyVars>>
    BY <1>2 DEF DisableStop, StoreState, CommandGoto
  <2>2. list = ResetList /\ \A f \in Ends : ~wanted[f]
    BY <2>1 DEF IInv, ResetInv
  <2>3. CommandInv'
    BY <2>1 DEF IInv, TypeOK, CommandInv, Ends, Other
  <2>4. PortInv'
    BY <2>1 DEF IInv, PortInv, PortIsFlag
  <2>5. list["out"] = << >>
    BY <2>2, ResetListIntact
  <2>6. cmd = "stop" /\ cmd' \in {"close_in", "stop"}
    BY <2>1
  <2> QED
    BY <1>t, <2>1, <2>2, <2>3, <2>4, <2>5, <2>6, CommandStep
    DEF threadVars, historyVars
<1>3. CASE EnableStart
  <2>1. PICK e \in Ends :
          /\ cmd = "start"
          /\ state' = [state EXCEPT ![e] = "WORKING"]
          /\ cmd' = IF state[Other(e)] = "WORKING" THEN "reopen_in" ELSE "start"
          /\ UNCHANGED <<list, wanted, ready, port, locked, threadVars,
                         record_state, historyVars>>
    BY <1>3 DEF EnableStart, StoreState, CommandGoto
  <2>2. CommandInv'
    BY <2>1 DEF IInv, TypeOK, CommandInv, Ends, Other
  <2>3. PortInv'
    BY <2>1 DEF IInv, PortInv, PortIsFlag
  <2>4. /\ state'["in"] = "STOPPED" => list["out"] = << >>
        /\ \A f \in Ends : wanted[f] => state'[f] = "WORKING"
    BY <2>1 DEF IInv, TypeOK, ResetInv, WantedInv, Ends
  <2>5. cmd = "start" /\ cmd' \in {"reopen_in", "start"}
    BY <2>1
  <2> QED
    BY <1>t, <2>1, <2>2, <2>3, <2>4, <2>5, CommandStep
    DEF threadVars, historyVars
<1> QED BY <1>1, <1>2, <1>3

LEMMA PortIInv ==
  ASSUME IInv, DisableCloseIn \/ DisableCloseOut \/ EnablePort
  PROVE  IInv'
<1>t. TypeOK'
  BY CommandTypeOK DEF IInv, Disable, Enable
<1>1. UNCHANGED <<list, wanted, ready, state, pc, buf, record_state, stale,
                  fresh>>
  BY DEF DisableCloseIn, DisableCloseOut, EnablePort, PortStep, threadVars,
         historyVars
<1>2. /\ cmd # "reset_in" /\ cmd' # "reset_in"
      /\ cmd' \in {"stop", "close_in", "close_out"}
           => cmd \in {"stop", "close_in", "close_out"}
  BY DEF DisableCloseIn, DisableCloseOut, EnablePort, PortStep, CommandGoto
<1>3. CommandInv'
  <2>1. CASE DisableCloseIn
    BY <1>1, <2>1 DEF IInv, CommandInv, DisableCloseIn, PortStep, CommandGoto
  <2>2. CASE DisableCloseOut
    BY <1>1, <2>2 DEF IInv, TypeOK, CommandInv, DisableCloseOut, PortStep,
                      CommandGoto
  <2>3. CASE EnablePort
    BY <1>1, <2>3 DEF IInv, CommandInv, EnablePort, PortStep, CommandGoto
  <2> QED BY <2>1, <2>2, <2>3
<1>4. PortInv'
  <2>1. ASSUME NEW e \in Ends
        PROVE  /\ \A f \in Ends : Drained(e)[f] \in {0, 1}
               /\ Drained(e)[e] = 0
               /\ port[e] = 0 => \A f \in Ends : Posted(e)[f] \in {0, 1}
    BY DEF IInv, TypeOK, PortInv, PortIsFlag, Drained, Posted
  <2>2. "in" \in Ends /\ "out" \in Ends
    BY DEF Ends
  <2>3. CASE DisableCloseIn \/ DisableCloseOut
    BY <2>1, <2>2, <2>3
    DEF PortInv, PortIsFlag, DisableCloseIn, DisableCloseOut, PortStep,
        CommandGoto
  <2>4. CASE EnablePort
    BY <2>1, <2>2, <2>4
    DEF IInv, PortInv, PortIsFlag, EnablePort, PortStep, CommandGoto
  <2> QED BY <2>3, <2>4
<1>5. /\ state'["in"] = "STOPPED" => list["out"] = << >>
      /\ \A e \in Ends : wanted[e] => state'[e] = "WORKING"
  BY <1>1 DEF IInv, ResetInv, WantedInv
<1> QED BY <1>t, <1>1, <1>2, <1>3, <1>4, <1>5, CommandStep

LEMMA StutterIInv ==
  ASSUME IInv, UNCHANGED vars
  PROVE  IInv'
<1> USE DEF IInv, vars
<1>1. TypeOK'
  BY StutterTypeOK
<1>2. CommandInv' /\ ResetInv' /\ PortInv'
  BY DEF CommandInv, ResetInv, ResetList, AllBuffers, PortInv, PortIsFlag
<1>3. Handshake' /\ WantedInv'
  BY DEF Handshake, WantedInv
<1>4. HeldIsHead' /\ StaleInv'
  BY DEF HeldIsHead, Holds, StaleInv
<1>5. ListInv' /\ OneStaleFill'
  BY DEF ListInv, Intact, NoRepeats, OneStaleFill
<1> QED BY <1>1, <1>2, <1>3, <1>4, <1>5

(* Every reachable state satisfies the inductive invariant.  The properties *)
(* alone are not inductive: what a thread that is between sem_wait and the  *)
(* lock, or in the middle of a read, will do to the lists depends on how    *)
(* far DisableBufferQueue and EnableBufferQueue have come.                  *)
THEOREM Invariance == Spec => []IInv
<1>1. IInv /\ [Next]_vars => IInv'
  <2> SUFFICES ASSUME IInv, [Next]_vars PROVE IInv'
    OBVIOUS
  <2>1. CASE UNCHANGED vars
    BY <2>1, StutterIInv
  <2>2. CASE \E e \in Ends : End(e)
    BY <2>2, EndIInv
  <2>3. CASE DisableResetFilled \/ DisableResetEmpty
    <3>1. TypeOK'
      BY <2>3, CommandTypeOK DEF IInv, Disable
    <3> QED BY <2>3, <3>1, ResetFilledStep, ResetEmptyStep
  <2>4. CASE AudioStart \/ AudioEnd \/ DisableStop \/ EnableStart
    BY <2>4, StateIInv
  <2>5. CASE DisableCloseIn \/ DisableCloseOut \/ EnablePort
    BY <2>5, PortIInv
  <2> QED BY <2>1, <2>2, <2>3, <2>4, <2>5 DEF Next, Disable, Enable
<1> QED BY InitIInv, <1>1, PTL DEF Spec

-----------------------------------------------------------------------------
(* What follows from it.                                                    *)

(* However starts, ends, fills and returns interleave, no buffer is lost or *)
(* duplicated (audio/buffer.c, FillBuffer, EmptyBuffer and                  *)
(* DisableBufferQueue).                                                     *)
THEOREM ConservationHolds == Spec => []Conservation
<1>1. IInv => Conservation
  BY DEF IInv, ListInv, CommandInv, Conservation
<1> QED BY Invariance, <1>1, PTL

(* The semaphore ready carries exactly the wakeups that wanted asks for.    *)
THEOREM HandshakeHolds == Spec => []Handshake
<1>1. IInv => Handshake
  BY DEF IInv
<1> QED BY Invariance, <1>1, PTL

(* No wakeup is lost (GetBuffer and GetEmptyBuffer).                        *)
THEOREM NoLostWakeupHolds == Spec => []NoLostWakeup
<1>1. IInv => NoLostWakeup
  BY DEF IInv, WantedInv, NoLostWakeup
<1> QED BY Invariance, <1>1, PTL

(* Capture and send never wait for each other: with at least one buffer,    *)
(* one of the two lists has something in it.                                *)
THEOREM NotBothAsleepHolds == Spec => []NotBothAsleep
<1>1. IInv => NotBothAsleep
  <2> SUFFICES ASSUME IInv, ~locked, wanted["in"], wanted["out"] PROVE FALSE
    BY DEF NotBothAsleep
  <2>1. list["in"] = << >> /\ list["out"] = << >>
    BY DEF IInv, WantedInv, Ends
  <2>2. Len(list["in"]) + Len(list["out"]) = BufferNum
    BY DEF IInv, ListInv, CommandInv, Intact
  <2> QED BY <2>1, <2>2, BufferNumAssumption
<1> QED BY Invariance, <1>1, PTL

(* Nothing is left to send in a queue that DisableBufferQueue has stopped.  *)
THEOREM StoppedIsDrainedHolds == Spec => []StoppedIsDrained
<1>1. IInv => StoppedIsDrained
  BY DEF IInv, ResetInv, StoppedIsDrained
<1> QED BY Invariance, <1>1, PTL

(* Within a session the capture thread never writes into the buffer that    *)
(* the send thread is encoding.                                             *)
THEOREM ExclusiveUseHolds == Spec => []ExclusiveUse
<1>1. IInv => ExclusiveUse
  <2> SUFFICES ASSUME IInv, ~locked, Holds("in"), Holds("out"),
                      ~stale["in"], ~stale["out"]
               PROVE  buf["in"] # buf["out"]
    BY DEF ExclusiveUse
  <2>1. /\ list["in"] # << >> /\ buf["in"] = Head(list["in"])
        /\ list["out"] # << >> /\ buf["out"] = Head(list["out"])
    BY DEF IInv, HeldIsHead, Ends
  <2>2. list["in"] \in Seq(Buffers) /\ list["out"] \in Seq(Buffers)
    BY DEF IInv, TypeOK, Ends
  <2>3. /\ 1 \in DOMAIN list["in"] /\ Head(list["in"]) = list["in"][1]
        /\ 1 \in DOMAIN list["out"] /\ Head(list["out"]) = list["out"][1]
    BY <2>1, <2>2
  <2>4. \A i \in DOMAIN list["in"], j \in DOMAIN list["out"] :
          list["in"][i] # list["out"][j]
    BY DEF IInv, ListInv, CommandInv, Intact
  <2> QED BY <2>1, <2>3, <2>4
<1> QED BY Invariance, <1>1, PTL

(* A restart lets at most one buffer that was not recorded in this session  *)
(* into the list of buffers to send.                                        *)
THEOREM OneStaleFillHolds == Spec => []OneStaleFill
<1>1. IInv => OneStaleFill
  BY DEF IInv
<1> QED BY Invariance, <1>1, PTL

-----------------------------------------------------------------------------
(* A start is heeded.                                                       *)

(* The only steps by which the command thread makes an announcement open a  *)
(* port, and the others leave what it is about.                             *)
LEMMA CommandWoken ==
  ASSUME IInv, WokenToBuffer, AudioStart \/ AudioEnd \/ Disable \/ Enable
  PROVE  WokenToBuffer'
<1>1. SUFFICES ASSUME NEW e \in Ends, Announced(e)', port'[e] = 0,
                      \/ pc'[e] \in {"woken", "relock"}
                      \/ pc'[e] = "blocked" /\ ready'[e] > 0
               PROVE  list'[e] # << >>
  BY DEF WokenToBuffer
<1>2. \A f \in Ends : Posted(f)[f] = port[f] + 1
  BY DEF IInv, TypeOK, Posted
<1>3. "in" \in Ends /\ "out" \in Ends /\ (e = "in" \/ e = "out")
  BY DEF Ends
<1>4. EnablePort
  BY <1>1 DEF Announced, AudioStart, AudioEnd, Disable, Enable, CommandGoto,
              DisableResetFilled, DisableResetEmpty, DisableStop, EnableStart,
              StoreState, DisableCloseIn, DisableCloseOut, PortStep
<1>5. UNCHANGED <<list, ready, pc, record_state>>
  BY <1>4 DEF EnablePort, PortStep, threadVars
<1>6. CASE PortStep("reopen_in", Drained("in"), "post_in")
  BY <1>6, <1>1 DEF PortStep, CommandGoto, Announced
<1>7. CASE PortStep("post_in", Posted("in"), "reopen_out")
  <2>1. e = "in"
    BY <1>7, <1>1, <1>3 DEF PortStep, CommandGoto, Announced
  <2>2. port'["in"] = 1
    BY <1>7, <1>2, <1>3 DEF PortStep, CommandGoto, IInv, PortInv
  <2> QED BY <2>1, <2>2, <1>1
<1>8. CASE PortStep("reopen_out", Drained("out"), "post_out")
  <2>1. e = "in" /\ Announced(e)
    BY <1>8, <1>1, <1>3 DEF PortStep, CommandGoto, Announced
  <2>2. port'["in"] = port["in"]
    BY <1>8 DEF PortStep, Drained, IInv, TypeOK, Ends
  <2> QED BY <2>1, <2>2, <1>1, <1>5 DEF WokenToBuffer
<1>9. CASE PortStep("post_out", Posted("out"), "idle")
  <2>1. port'["out"] = 1
    BY <1>9, <1>2, <1>3 DEF PortStep, CommandGoto, IInv, PortInv
  <2>2. e = "in" /\ port'["in"] = port["in"]
    BY <1>9, <1>1, <1>3, <2>1 DEF PortStep, Posted, IInv, TypeOK, Ends
  <2>3. Announced(e)
    BY <1>9, <1>1, <2>2 DEF PortStep, CommandGoto, Announced
  <2> QED BY <2>2, <2>3, <1>1, <1>5 DEF WokenToBuffer
<1> QED BY <1>4, <1>6, <1>7, <1>8, <1>9 DEF EnablePort

(* A thread is woken up by the other one, which has given it a buffer, and  *)
(* keeps it until it takes it.                                              *)
LEMMA EndWoken ==
  ASSUME IInv, WokenToBuffer, NEW o \in Ends, End(o)
  PROVE  WokenToBuffer'
<1>1. SUFFICES ASSUME NEW e \in Ends, Announced(e)', port'[e] = 0,
                      \/ pc'[e] \in {"woken", "relock"}
                      \/ pc'[e] = "blocked" /\ ready'[e] > 0
               PROVE  list'[e] # << >>
  BY DEF WokenToBuffer
<1>2. /\ pc \in [Ends -> PCs] /\ port \in [Ends -> Nat] /\ ready \in [Ends -> Nat]
      /\ list \in [Ends -> Seq(Buffers)] /\ wanted \in [Ends -> BOOLEAN]
  BY DEF IInv, TypeOK
<1>3. UNCHANGED <<cmd, record_state>>
  BY DEF End, OpenQueue, DeviceOpened, DeviceFailed, GetStopped, GetHead,
         GetWait, Wake, Cancelled, NotCancelled, GetAgain, Use, ReadFailed,
         DeviceReset, PassBuffer, commandVars
<1>4. Announced(e)
  BY <1>1, <1>3 DEF Announced
<1>5. CASE UNCHANGED <<list, ready, port>> /\ pc'[e] = pc[e]
  BY <1>1, <1>4, <1>5 DEF WokenToBuffer
<1>6. CASE PassBuffer(o)
  <2>1. pc' = [pc EXCEPT ![o] = "get"] /\ Move(o) /\ UNCHANGED port
    BY <1>6 DEF PassBuffer, Goto
  <2>2. e = Other(o) /\ pc'[e] = pc[e] /\ Other(o) # o
    BY <2>1, <1>1, <1>2 DEF Other, Ends
  <2>3. CASE UNCHANGED <<list, ready>>
    BY <2>1, <2>2, <2>3, <1>5
  <2>4. CASE list' = [list EXCEPT ![o] = Tail(list[o]),
                                  ![e] = Append(list[e], Head(list[o]))]
    <3>1. list'[e] = Append(list[e], Head(list[o]))
      BY <2>2, <2>4, <1>2
    <3>2. list[e] \in Seq(Buffers)
      BY <1>2
    <3>3. Len(list'[e]) = Len(list[e]) + 1
      BY <3>1, <3>2
    <3> QED BY <3>2, <3>3
  <2> QED BY <2>1, <2>2, <2>3, <2>4 DEF Move
<1>7. CASE o # e /\ ~PassBuffer(o)
  <2>1. pc'[e] = pc[e] /\ UNCHANGED list /\ ready'[e] = ready[e] /\ port'[e] = port[e]
    BY <1>2, <1>7 DEF End, OpenQueue, DeviceOpened, DeviceFailed, GetStopped,
       GetHead, GetWait, Wake, Cancelled, NotCancelled, GetAgain, Use, ReadFailed,
       DeviceReset, Take, Goto, queueVars
  <2> QED BY <2>1, <1>1, <1>4 DEF WokenToBuffer
<1>8. CASE o = e /\ Wake(o)
  <2>1. pc[e] = "blocked" /\ ready[e] > 0 /\ UNCHANGED <<list, port>>
    BY <1>8 DEF Wake, Goto
  <2> QED BY <2>1, <1>1, <1>4 DEF WokenToBuffer
<1>9. CASE o = e /\ NotCancelled(o)
  <2>1. pc[e] = "woken" /\ UNCHANGED <<list, port>>
    BY <1>9 DEF NotCancelled, Goto, queueVars
  <2> QED BY <2>1, <1>1, <1>4 DEF WokenToBuffer
<1>10. CASE o = e /\ GetWait(o)
  <2>1. pc[e] = "get" /\ pc'[e] = "blocked" /\ UNCHANGED ready
    BY <1>2, <1>10 DEF GetWait, Goto
  <2>2. ready[e] = 0
    BY <2>1 DEF IInv, Handshake
  <2> QED BY <2>1, <2>2, <1>1
<1>11. CASE o = e /\ ~PassBuffer(o) /\ ~Wake(o) /\ ~NotCancelled(o) /\ ~GetWait(o)
  <2>1. pc'[e] \in {"device", "get", "open", "using", "pass", "away"}
    BY <1>2, <1>11 DEF End, OpenQueue, DeviceOpened, DeviceFailed, GetStopped,
       GetHead, Cancelled, GetAgain, Use, ReadFailed, DeviceReset, Take, Goto
  <2> QED BY <2>1, <1>1
<1> QED BY <1>6, <1>7, <1>8, <1>9, <1>10, <1>11

LEMMA NextWoken == IInv /\ WokenToBuffer /\ [Next]_vars => WokenToBuffer'
<1>1. ASSUME WokenToBuffer, UNCHANGED vars PROVE WokenToBuffer'
  BY <1>1 DEF WokenToBuffer, vars, Announced
<1> QED BY <1>1, CommandWoken, EndWoken DEF Next

(* A thread that a start has let through its port stays in the session: it  *)
(* does not take the end of the session before for the end of this one      *)
(* (audio/buffer.c, EnableBufferQueue, and GetBuffer, which reads the state *)
(* without the lock).                                                       *)
THEOREM StartHeededHolds == Spec => StartHeeded
<1>1. ASSUME IInv, WokenToBuffer, [Next]_vars, NEW e \in Ends,
             Announced(e), pc[e] # "open", pc'[e] = "open",
             port[e] # 1, pc[e] # "device"
      PROVE  FALSE
  <2>1. pc \in [Ends -> PCs] /\ port[e] = 0 /\ state[e] = "WORKING"
    BY <1>1 DEF IInv, TypeOK, PortInv, PortIsFlag, CommandInv, Announced, Ends
  <2>2. PICK o \in Ends : End(o)
    BY <1>1 DEF Next, vars, AudioStart, AudioEnd, Disable, Enable,
       DisableResetFilled, DisableResetEmpty, DisableStop, DisableCloseIn,
       DisableCloseOut, EnableStart, EnablePort, StoreState, PortStep, threadVars
  <2>3. o = e /\ Take(e) /\ (pc[e] = "relock" \/ list[e] # << >>)
    BY <1>1, <2>1, <2>2 DEF End, OpenQueue, DeviceOpened, DeviceFailed, GetStopped,
       GetHead, GetWait, Wake, Cancelled, NotCancelled, GetAgain, Use, ReadFailed,
       DeviceReset, PassBuffer, Goto, Take
  <2>4. list[e] # << >>
    BY <2>1, <2>3, <1>1 DEF WokenToBuffer
  <2> QED BY <2>1, <2>3, <2>4, <1>1 DEF Take
<1>2. Init => WokenToBuffer
  BY DEF Init, WokenToBuffer
<1>3. IInv /\ WokenToBuffer /\ [Next]_vars =>
        \A e \in Ends :
          Announced(e) /\ pc[e] # "open" /\ pc'[e] = "open"
            => port[e] = 1 \/ pc[e] = "device"
  BY <1>1
<1> QED BY <1>2, <1>3, NextWoken, Invariance, PTL DEF Spec, StartHeeded

-----------------------------------------------------------------------------
(* The linked lists.                                                        *)
Pointers == Buffers \cup {NoBuffer}
Heap     == [head: [Ends -> Pointers], tail: [Ends -> Pointers],
             next: [Buffers -> Pointers]]

Absent(b, s)   == \A i \in DOMAIN s : s[i] # b
Disjoint(s, t) == \A i \in DOMAIN s, j \in DOMAIN t : s[i] # t[j]

LEMMA NullIsNone == \A b \in Buffers : b # NoBuffer
  BY DEF NoBuffer, Buffers

-----------------------------------------------------------------------------
(* OutBufferList takes the head off its own list and leaves the other.      *)
LEMMA OutLinked ==
  ASSUME NEW h \in Heap, NEW e \in Ends,
         NEW s \in Seq(Buffers), s # << >>, NoRepeats(s), Linked(h, e, s)
  PROVE  /\ OutBufferList(h, e) \in Heap
         /\ Linked(OutBufferList(h, e), e, Tail(s))
<1> DEFINE u == Tail(s)
           g == OutBufferList(h, e)
<1>1. /\ u \in Seq(Buffers) /\ Len(u) = Len(s) - 1 /\ Len(s) \in Nat
      /\ \A i \in 1..Len(u) : u[i] = s[i + 1]
      /\ DOMAIN u = 1..Len(u) /\ DOMAIN s = 1..Len(s) /\ Len(s) > 0
      /\ (u = << >> <=> Len(s) = 1)
  <2>1. /\ u \in Seq(Buffers) /\ Len(u) = Len(s) - 1 /\ Len(s) \in Nat
        /\ \A i \in 1..Len(u) : u[i] = s[i + 1]
        /\ DOMAIN u = 1..Len(u) /\ DOMAIN s = 1..Len(s) /\ Len(s) > 0
    OBVIOUS
  <2> HIDE DEF u
  <2>2. u = << >> <=> Len(u) = 0
    BY <2>1
  <2> QED BY <2>1, <2>2
<1>2. s[1] \in Buffers /\ h.head[e] = s[1] /\ h.tail[e] = s[Len(s)]
  BY <1>1 DEF Linked
<1>3. h.next[s[1]] = IF 1 = Len(s) THEN NoBuffer ELSE s[2]
  BY <1>1 DEF Linked
<1>4. /\ g.head = [h.head EXCEPT ![e] = h.next[s[1]]]
      /\ g.tail = [h.tail EXCEPT ![e] = IF @ = s[1] THEN NoBuffer ELSE @]
      /\ g.next = [h.next EXCEPT ![s[1]] = NoBuffer]
  BY <1>2 DEF OutBufferList
<1>5. g \in Heap
  BY <1>2 DEF OutBufferList, Heap, Pointers
<1>6. s[Len(s)] = s[1] <=> Len(s) = 1
  BY <1>1 DEF NoRepeats
<1>7. \A i \in DOMAIN u : s[i + 1] # s[1] /\ i + 1 \in DOMAIN s
  BY <1>1 DEF NoRepeats
<1>8. g.head[e] = IF u = << >> THEN NoBuffer ELSE u[1]
  BY <1>1, <1>3, <1>4 DEF Heap
<1>9. g.tail[e] = IF u = << >> THEN NoBuffer ELSE u[Len(u)]
  BY <1>1, <1>2, <1>4, <1>6 DEF Heap
<1>10. \A i \in DOMAIN u :
          g.next[u[i]] = IF i = Len(u) THEN NoBuffer ELSE u[i + 1]
  <2> TAKE i \in DOMAIN u
  <2>1. u[i] = s[i + 1] /\ u[i] \in Buffers /\ u[i] # s[1]
    BY <1>1, <1>7
  <2>2. g.next[u[i]] = h.next[s[i + 1]]
    BY <1>4, <2>1 DEF Heap
  <2>3. h.next[s[i + 1]]
          = IF i + 1 = Len(s) THEN NoBuffer ELSE s[(i + 1) + 1]
    BY <1>7 DEF Linked
  <2> HIDE DEF u, g
  <2>4. CASE i = Len(u)
    BY <1>1, <2>2, <2>3, <2>4
  <2>5. CASE i # Len(u)
    <3>1. i + 1 \in 1..Len(u) /\ i + 1 # Len(s)
      BY <1>1, <2>5
    <3> QED BY <1>1, <2>2, <2>3, <2>5, <3>1
  <2> QED BY <2>4, <2>5
<1> QED BY <1>5, <1>8, <1>9, <1>10 DEF Linked

LEMMA OutLeaves ==
  ASSUME NEW h \in Heap, NEW e \in Ends, NEW o \in Ends, o # e,
         h.head[e] \in Buffers,
         NEW t \in Seq(Buffers), Absent(h.head[e], t), Linked(h, o, t)
  PROVE  Linked(OutBufferList(h, e), o, t)
<1> DEFINE g == OutBufferList(h, e)
<1>1. g.head[o] = h.head[o] /\ g.tail[o] = h.tail[o]
  BY DEF OutBufferList, Heap
<1>2. \A i \in DOMAIN t : g.next[t[i]] = h.next[t[i]]
  BY DEF OutBufferList, Heap, Absent
<1> QED BY <1>1, <1>2 DEF Linked

-----------------------------------------------------------------------------
(* InBufferList appends a node to its list, whether that has a head or not, *)
(* and leaves the other.                                                    *)
LEMMA InLinked ==
  ASSUME NEW h \in Heap, NEW o \in Ends, NEW node \in Buffers,
         NEW t \in Seq(Buffers), NoRepeats(t), Absent(node, t),
         Linked(h, o, t)
  PROVE  /\ InBufferList(h, o, node) \in Heap
         /\ Linked(InBufferList(h, o, node), o, Append(t, node))
<1> DEFINE v == Append(t, node)
           g == InBufferList(h, o, node)
<1>1. /\ v \in Seq(Buffers) /\ v # << >>
      /\ Len(v) = Len(t) + 1 /\ Len(t) \in Nat
      /\ \A j \in 1..Len(t) : v[j] = t[j]
      /\ v[Len(v)] = node
      /\ DOMAIN v = 1..Len(v) /\ DOMAIN t = 1..Len(t)
      /\ (t = << >> <=> Len(t) = 0)
  OBVIOUS
<1>2. NoBuffer \notin Buffers
  BY DEF NoBuffer, Buffers
<1>3. CASE t = << >>
  <2>1. h.head[o] = NoBuffer
    BY <1>3 DEF Linked
  <2>2. g = [head |-> [h.head EXCEPT ![o] = node],
             tail |-> [h.tail EXCEPT ![o] = node],
             next |-> [h.next EXCEPT ![node] = NoBuffer]]
    BY <2>1 DEF InBufferList
  <2>3. g \in Heap
    BY <2>2 DEF Heap, Pointers
  <2>4. g.head[o] = node /\ g.tail[o] = node /\ g.next[node] = NoBuffer
    BY <2>2 DEF Heap
  <2>5. Len(v) = 1 /\ v[1] = node /\ DOMAIN v = {1}
    BY <1>1, <1>3
  <2> QED BY <1>1, <2>3, <2>4, <2>5 DEF Linked
<1>4. CASE t # << >>
  <2> DEFINE last == t[Len(t)]
  <2>1. Len(t) \in DOMAIN t /\ 1 \in DOMAIN t
    BY <1>1, <1>4
  <2>2. /\ h.head[o] = t[1] /\ h.tail[o] = last
        /\ t[1] \in Buffers /\ last \in Buffers /\ last # node
    BY <1>4, <2>1 DEF Linked, Absent
  <2>3. g = [head |-> h.head,
             tail |-> [h.tail EXCEPT ![o] = node],
             next |-> [h.next EXCEPT ![last] = node, ![node] = NoBuffer]]
    BY <1>2, <2>2 DEF InBufferList
  <2>4. g \in Heap
    BY <2>2, <2>3 DEF Heap, Pointers
  <2>5. g.head[o] = t[1] /\ g.tail[o] = node /\ g.next[node] = NoBuffer
        /\ g.next[last] = node
        /\ \A b \in Buffers : b # last /\ b # node => g.next[b] = h.next[b]
    BY <2>2, <2>3 DEF Heap
  <2>6. g.head[o] = v[1] /\ g.tail[o] = v[Len(v)]
    BY <1>1, <2>1, <2>5
  <2>7. \A i \in DOMAIN v :
           g.next[v[i]] = IF i = Len(v) THEN NoBuffer ELSE v[i + 1]
    <3> TAKE i \in DOMAIN v
    <3> HIDE DEF v, g
    <3>1. CASE i = Len(v)
      BY <1>1, <2>5, <3>1
    <3>2. CASE i = Len(t)
      BY <1>1, <2>1, <2>5, <3>2
    <3>3. CASE i # Len(v) /\ i # Len(t)
      <4>1. i \in 1..Len(t) /\ i + 1 \in 1..Len(t) /\ i # Len(v)
        BY <1>1, <3>3
      <4>2. v[i] = t[i] /\ v[i + 1] = t[i + 1] /\ t[i] \in Buffers
        BY <1>1, <4>1
      <4>3. t[i] # last /\ t[i] # node
        BY <1>1, <2>1, <3>3, <4>1 DEF NoRepeats, Absent
      <4>4. h.next[t[i]] = t[i + 1]
        BY <1>1, <3>3, <4>1 DEF Linked
      <4> QED BY <2>5, <3>3, <4>2, <4>3, <4>4
    <3> QED BY <3>1, <3>2, <3>3
  <2> QED BY <1>1, <2>4, <2>6, <2>7 DEF Linked
<1> QED BY <1>3, <1>4

LEMMA InLeaves ==
  ASSUME NEW h \in Heap, NEW o \in Ends, NEW e \in Ends, e # o,
         NEW node \in Buffers,
         NEW t \in Seq(Buffers), Linked(h, o, t),
         NEW u \in Seq(Buffers), Absent(node, u), Disjoint(u, t),
         Linked(h, e, u)
  PROVE  Linked(InBufferList(h, o, node), e, u)
<1> DEFINE g == InBufferList(h, o, node)
<1>1. g.head[e] = h.head[e] /\ g.tail[e] = h.tail[e]
  BY DEF InBufferList, Heap
<1>2. CASE t = << >>
  <2>1. h.head[o] = NoBuffer
    BY <1>2 DEF Linked
  <2>2. \A i \in DOMAIN u : g.next[u[i]] = h.next[u[i]]
    BY <2>1 DEF InBufferList, Heap, Absent
  <2> QED BY <1>1, <2>2 DEF Linked
<1>3. CASE t # << >>
  <2>1. Len(t) \in DOMAIN t /\ 1 \in DOMAIN t
    BY <1>3
  <2>2. h.head[o] # NoBuffer /\ h.tail[o] = t[Len(t)]
    <3>1. t[1] \in Buffers
      BY <2>1
    <3> QED BY <1>3, <3>1, NullIsNone DEF Linked
  <2>3. g.next = [h.next EXCEPT ![h.tail[o]] = node, ![node] = NoBuffer]
    BY <2>2 DEF InBufferList
  <2>4. \A i \in DOMAIN u : u[i] \in Buffers /\ u[i] # node /\ u[i] # h.tail[o]
    BY <2>1, <2>2 DEF Absent, Disjoint
  <2>5. \A i \in DOMAIN u : g.next[u[i]] = h.next[u[i]]
    BY <2>3, <2>4 DEF Heap
  <2> QED BY <1>1, <2>5 DEF Linked
<1> QED BY <1>2, <1>3

-----------------------------------------------------------------------------
LinkedInv == heap \in Heap /\ ListsAsQueues

(* InitBufferList and ResetBufferList chain all buffers in their order.     *)
LEMMA ChainLinked ==
  ASSUME NEW h \in Heap, NEW e \in Ends,
         h.head[e] = 1, h.tail[e] = BufferNum, h.next = Chain
  PROVE  Linked(h, e, AllBuffers)
<1>1. /\ Len(AllBuffers) = BufferNum /\ DOMAIN AllBuffers = Buffers
      /\ AllBuffers # << >>
      /\ \A i \in Buffers : AllBuffers[i] = i
      /\ 1 \in Buffers /\ BufferNum \in Buffers
  BY BufferNumAssumption DEF AllBuffers, Buffers
<1>2. \A i \in Buffers : i # BufferNum => i + 1 \in Buffers
  BY BufferNumAssumption DEF Buffers
<1>3. \A i \in Buffers : Chain[i] = IF i = BufferNum THEN NoBuffer ELSE i + 1
  BY DEF Chain
<1> QED BY <1>1, <1>2, <1>3 DEF Linked

LEMMA ChainTyping == Chain \in [Buffers -> Pointers] /\ 1 \in Pointers
                     /\ BufferNum \in Pointers /\ NoBuffer \in Pointers
  BY BufferNumAssumption DEF Chain, Pointers, Buffers

LEMMA NoneLinked ==
  ASSUME NEW h \in Heap, NEW e \in Ends,
         h.head[e] = NoBuffer, h.tail[e] = NoBuffer
  PROVE  Linked(h, e, << >>)
  BY DEF Linked

LEMMA InitLinked == LinkedInit => LinkedInv
<1> SUFFICES ASSUME LinkedInit PROVE LinkedInv
  OBVIOUS
<1>1. heap \in Heap
  BY ChainTyping DEF LinkedInit, Heap
<1>2. list["in"] = AllBuffers /\ list["out"] = << >>
  BY ResetListIntact DEF LinkedInit, Init
<1>3. /\ heap.head["in"] = 1 /\ heap.tail["in"] = BufferNum
      /\ heap.next = Chain
      /\ heap.head["out"] = NoBuffer /\ heap.tail["out"] = NoBuffer
  BY DEF LinkedInit, Ends
<1>4. Linked(heap, "in", list["in"])
  BY <1>1, <1>2, <1>3, ChainLinked DEF Ends
<1>5. Linked(heap, "out", list["out"])
  BY <1>1, <1>2, <1>3, NoneLinked DEF Ends
<1> QED BY <1>1, <1>4, <1>5 DEF LinkedInv, ListsAsQueues, Ends

(* FillBuffer and EmptyBuffer.                                              *)
LEMMA PassLinked ==
  ASSUME IInv, LinkedInv, NEW e \in Ends, PassNode(e)
  PROVE  LinkedInv'
<1> DEFINE o == Other(e)
           s == list[e]
           t == list[o]
           b == Head(s)
           h == OutBufferList(heap, e)
           g == InBufferList(h, o, b)
<1>o. o \in Ends /\ o # e /\ \A f \in Ends : f = e \/ f = o
  BY DEF Other, Ends
<1>t. s \in Seq(Buffers) /\ t \in Seq(Buffers) /\ heap \in Heap
      /\ Linked(heap, e, s) /\ Linked(heap, o, t)
  BY <1>o DEF IInv, TypeOK, LinkedInv, ListsAsQueues
<1>i. NoRepeats(s) /\ NoRepeats(t) /\ Disjoint(s, t)
  <2>1. Intact
    BY DEF IInv, ListInv, CommandInv, PassNode, PassBuffer
  <2>2. Disjoint(list["in"], list["out"]) /\ Disjoint(list["out"], list["in"])
    BY <2>1 DEF Intact, Disjoint
  <2>3. NoRepeats(list["in"]) /\ NoRepeats(list["out"])
    BY <2>1 DEF Intact
  <2> QED BY <2>2, <2>3, <1>o DEF Other, Ends
<1>1. CASE state[e] = "WORKING" /\ s # << >>
  <2>1. list' = [list EXCEPT ![e] = Tail(s), ![o] = Append(t, b)]
    BY <1>1 DEF PassNode, PassBuffer, Move
  <2>2. list'[e] = Tail(s) /\ list'[o] = Append(t, b)
    BY <1>o, <2>1 DEF IInv, TypeOK
  <2>3. heap.head[e] = b /\ b \in Buffers /\ b # NoBuffer
    <3>1. b = s[1] /\ s[1] \in Buffers
      BY <1>t, <1>1
    <3> QED BY <1>t, <1>1, <3>1, NullIsNone DEF Linked
  <2>4. heap' = g
    BY <1>1, <2>3 DEF PassNode
  <2>5. /\ Absent(b, t) /\ Absent(b, Tail(s)) /\ Disjoint(Tail(s), t)
        /\ Tail(s) \in Seq(Buffers)
    <3>1. 1 \in DOMAIN s /\ s[1] = b
      BY <1>t, <1>1
    <3>2. \A i \in DOMAIN Tail(s) : /\ i + 1 \in DOMAIN s /\ i + 1 # 1
                                    /\ Tail(s)[i] = s[i + 1]
      BY <1>t, <1>1
    <3>3. Tail(s) \in Seq(Buffers)
      BY <1>t, <1>1
    <3> HIDE DEF s, t, b
    <3> QED BY <1>i, <3>1, <3>2, <3>3 DEF Absent, Disjoint, NoRepeats
  <2> HIDE DEF s, t, b, o
  <2>6. h \in Heap /\ Linked(h, e, Tail(s))
    BY <1>t, <1>i, <1>1, OutLinked
  <2>7. Linked(h, o, t)
    BY <1>o, <1>t, <2>3, <2>5, OutLeaves
  <2> HIDE DEF h
  <2>8. g \in Heap /\ Linked(g, o, Append(t, b))
    BY <1>o, <1>t, <1>i, <2>3, <2>5, <2>6, <2>7, InLinked
  <2>9. Linked(g, e, Tail(s))
    BY <1>o, <1>t, <2>3, <2>5, <2>6, <2>7, InLeaves
  <2> HIDE DEF g
  <2>10. \A f \in Ends : Linked(heap', f, list'[f])
    BY <1>o, <2>2, <2>4, <2>8, <2>9
  <2> QED BY <2>4, <2>8, <2>10 DEF LinkedInv, ListsAsQueues
<1>2. CASE ~(state[e] = "WORKING" /\ s # << >>)
  <2>1. list' = list
    BY <1>2 DEF PassNode, PassBuffer, Move
  <2>2. s = << >> => heap.head[e] = NoBuffer
    BY <1>t DEF Linked
  <2>3. heap' = heap
    BY <1>2, <2>2 DEF PassNode
  <2> QED BY <2>1, <2>3 DEF LinkedInv, ListsAsQueues
<1> QED BY <1>1, <1>2

(* ResetBufferList of either list.                                          *)
LEMMA RebuildLinked ==
  ASSUME IInv, LinkedInv, RebuildFilled \/ RebuildEmpty
  PROVE  LinkedInv'
<1> USE DEF Ends
<1>t. /\ heap \in Heap /\ list \in [Ends -> Seq(Buffers)]
      /\ Linked(heap, "in", list["in"]) /\ Linked(heap, "out", list["out"])
  BY DEF IInv, TypeOK, LinkedInv, ListsAsQueues
<1>1. CASE RebuildFilled
  <2>1. list' = [list EXCEPT !["out"] = << >>]
    BY <1>1, ResetListIntact DEF RebuildFilled, DisableResetFilled, ResetBufferList
  <2>2. list'["in"] = list["in"] /\ list'["out"] = << >>
    BY <2>1, <1>t
  <2>3. heap' = [heap EXCEPT !.head["out"] = NoBuffer, !.tail["out"] = NoBuffer]
    BY <1>1 DEF RebuildFilled, Rebuilt
  <2>4. /\ heap' \in Heap
        /\ heap'.head["out"] = NoBuffer /\ heap'.tail["out"] = NoBuffer
        /\ heap'.head["in"] = heap.head["in"]
        /\ heap'.tail["in"] = heap.tail["in"] /\ heap'.next = heap.next
    BY <2>3, <1>t, ChainTyping DEF Heap
  <2>5. Linked(heap', "out", list'["out"])
    BY <2>2, <2>4, NoneLinked
  <2>6. Linked(heap', "in", list'["in"])
    BY <1>t, <2>2, <2>4 DEF Linked
  <2> QED BY <2>4, <2>5, <2>6 DEF LinkedInv, ListsAsQueues
<1>2. CASE RebuildEmpty
  <2>1. /\ list' = [list EXCEPT !["in"] = AllBuffers]
        /\ list["out"] = << >>
    BY <1>2, ResetListIntact
       DEF RebuildEmpty, DisableResetEmpty, CommandGoto, ResetBufferList,
           IInv, ResetInv
  <2>2. list'["in"] = AllBuffers /\ list'["out"] = << >>
    BY <2>1, <1>t
  <2>3. heap' = [head |-> [heap.head EXCEPT !["in"] = 1],
                 tail |-> [heap.tail EXCEPT !["in"] = BufferNum],
                 next |-> Chain]
    BY <1>2 DEF RebuildEmpty, Rebuilt
  <2>4. /\ heap' \in Heap
        /\ heap'.head["in"] = 1 /\ heap'.tail["in"] = BufferNum
        /\ heap'.next = Chain
        /\ heap'.head["out"] = heap.head["out"]
        /\ heap'.tail["out"] = heap.tail["out"]
    BY <2>3, <1>t, ChainTyping DEF Heap
  <2>5. Linked(heap', "in", list'["in"])
    BY <2>2, <2>4, ChainLinked
  <2>6. Linked(heap', "out", list'["out"])
    BY <1>t, <2>1, <2>2, <2>4, NoneLinked DEF Linked
  <2> QED BY <2>4, <2>5, <2>6 DEF LinkedInv, ListsAsQueues
<1> QED BY <1>1, <1>2

(* No other step touches a list.                                            *)
LEMMA OthersLeaveLists ==
  ASSUME LinkedNext, ~(\E e \in Ends : PassNode(e)),
         ~RebuildFilled, ~RebuildEmpty
  PROVE  UNCHANGED <<list, heap>>
<1>1. CASE \E e \in Ends : LeaveNodes(e)
  <2>1. PICK e \in Ends : LeaveNodes(e)
    BY <1>1
  <2>2. ~PassBuffer(e)
    BY <2>1 DEF LeaveNodes, PassBuffer, Goto
  <2> QED
    BY <2>1, <2>2
       DEF LeaveNodes, End, OpenQueue, DeviceOpened, DeviceFailed, GetStopped,
           GetHead, GetWait, Wake, Cancelled, NotCancelled, GetAgain, Use,
           ReadFailed, DeviceReset, queueVars
<1>2. CASE LinkedCommand
  BY <1>2
     DEF LinkedCommand, LinkedDisable, AudioStart, AudioEnd, Enable,
         EnableStart, EnablePort, DisableStop, DisableCloseIn,
         DisableCloseOut, StoreState, PortStep, queueVars
<1> QED BY <1>1, <1>2 DEF LinkedNext

-----------------------------------------------------------------------------
(* Keeping the pointers beside the lists adds to the queue and changes      *)
(* nothing of it: what is proved of BufferQueue holds here.                 *)
LEMMA LinkedStep == [LinkedNext]_linkedVars => [Next]_vars
<1> SUFFICES ASSUME [LinkedNext]_linkedVars PROVE [Next]_vars
  OBVIOUS
<1>1. CASE UNCHANGED linkedVars
  BY <1>1 DEF linkedVars
<1>2. CASE \E e \in Ends : PassNode(e) \/ LeaveNodes(e)
  BY <1>2 DEF PassNode, LeaveNodes, End, Next
<1>3. CASE LinkedCommand
  BY <1>3 DEF LinkedCommand, LinkedDisable, RebuildFilled, RebuildEmpty,
              Disable, Next
<1> QED BY <1>1, <1>2, <1>3 DEF LinkedNext

LEMMA LinkedIsQueue == LinkedSpec => Spec
<1>1. LinkedInit => Init
  BY DEF LinkedInit
<1> QED BY <1>1, LinkedStep, PTL DEF LinkedSpec, Spec

(* In every state, following the pointers of either list (audio/buffer.c,   *)
(* InBufferList, OutBufferList and ResetBufferList) gives its buffers in    *)
(* their order, and its tail is the last of them.                           *)
THEOREM ListsAsQueuesHolds == LinkedSpec => []ListsAsQueues
<1>1. IInv /\ LinkedInv /\ [LinkedNext]_linkedVars => LinkedInv'
  <2> SUFFICES ASSUME IInv, LinkedInv, [LinkedNext]_linkedVars
               PROVE  LinkedInv'
    OBVIOUS
  <2>1. CASE \E e \in Ends : PassNode(e)
    BY <2>1, PassLinked
  <2>2. CASE RebuildFilled \/ RebuildEmpty
    BY <2>2, RebuildLinked
  <2>3. CASE UNCHANGED <<list, heap>>
    BY <2>3 DEF LinkedInv, ListsAsQueues
  <2>4. CASE UNCHANGED linkedVars
    BY <2>3, <2>4 DEF linkedVars, vars
  <2> QED BY <2>1, <2>2, <2>3, <2>4, OthersLeaveLists
<1>2. LinkedInv => ListsAsQueues
  BY DEF LinkedInv
<1> QED
  BY InitLinked, LinkedIsQueue, Invariance, <1>1, <1>2, PTL
     DEF LinkedSpec

-----------------------------------------------------------------------------

(* What the capture thread does with the device is a step of its end of the *)
(* queue, or none that the queue sees.                                      *)
LEMMA EndStep ==
  ASSUME NEW e \in Ends, End(e), pc[e] # "pass", UNCHANGED heap
  PROVE  LinkedNext
  BY DEF LeaveNodes, LinkedNext

LEMMA CaptureEnd == "in" \in Ends /\ "out" \in Ends
  BY DEF Ends

LEMMA DeviceStep == Device => [LinkedNext]_linkedVars
<1> SUFFICES ASSUME Device PROVE [LinkedNext]_linkedVars
  OBVIOUS
<1>1. CASE InitOpen \/ ResetOpen \/ ResetRefused
  BY <1>1 DEF InitOpen, ResetOpen, ResetRefused
<1>2. CASE InitOpenFails
  <2>1. DeviceFailed("in") /\ UNCHANGED heap
    BY <1>2 DEF InitOpenFails
  <2>2. End("in") /\ pc["in"] # "pass"
    BY <2>1 DEF DeviceFailed, Goto, End
  <2> QED BY <2>1, <2>2, CaptureEnd, EndStep
<1>3. CASE InitConfig
  <2>1. DeviceOpened("in") /\ UNCHANGED heap
    BY <1>3 DEF InitConfig
  <2>2. End("in") /\ pc["in"] # "pass"
    BY <2>1 DEF DeviceOpened, Goto, End
  <2> QED BY <2>1, <2>2, CaptureEnd, EndStep
<1>4. CASE Read \/ ReadDangling
  <2>1. Use("in") /\ UNCHANGED heap /\ pc["in"] = "using"
    BY <1>4 DEF Read, ReadDangling
  <2> QED BY <2>1, CaptureEnd, EndStep DEF End
<1>5. CASE ReadFails
  <2>1. ReadFailed("in") /\ UNCHANGED heap /\ pc["in"] = "using"
    BY <1>5 DEF ReadFails
  <2> QED BY <2>1, CaptureEnd, EndStep DEF End
<1>6. CASE ResetConfig
  <2>1. DeviceReset("in") /\ UNCHANGED heap /\ pc["in"] = "away"
    BY <1>6 DEF ResetConfig
  <2> QED BY <2>1, CaptureEnd, EndStep DEF End
<1> QED BY <1>1, <1>2, <1>3, <1>4, <1>5, <1>6 DEF Device

(* What it does with the queue alone.                                       *)
LEMMA CaptureStep == CaptureQueue => LinkedNext
<1> SUFFICES ASSUME CaptureQueue PROVE LinkedNext
  OBVIOUS
<1>1. CASE PassNode("in")
  BY <1>1, CaptureEnd DEF LinkedNext
<1>2. CASE /\ \/ OpenQueue("in") \/ GetStopped("in") \/ GetHead("in")
              \/ GetWait("in") \/ Wake("in") \/ Cancelled("in")
              \/ NotCancelled("in") \/ GetAgain("in")
           /\ UNCHANGED heap
  <2>1. pc["in"] # "pass"
    BY <1>2 DEF OpenQueue, GetStopped, GetHead, GetWait, Wake, Cancelled,
                NotCancelled, GetAgain, Goto
  <2>2. End("in")
    BY <1>2 DEF End
  <2> QED BY <1>2, <2>1, <2>2, CaptureEnd, EndStep
<1> QED BY <1>1, <1>2 DEF CaptureQueue

(* The send thread and the command thread have their steps from there.      *)
LEMMA OthersStep == Send \/ Start \/ Stop \/ Proceed => LinkedNext
  BY CaptureEnd DEF Send, Start, Stop, Proceed, LinkedCommand, LinkedNext

(* So what is proved of the lists holds with the device behind them.        *)
LEMMA RecorderNextLinked == [RecorderNext]_recorderVars => [LinkedNext]_linkedVars
<1>1. UNCHANGED recorderVars => UNCHANGED linkedVars
  BY DEF recorderVars
<1> QED BY <1>1, DeviceStep, CaptureStep, OthersStep DEF RecorderNext

LEMMA RecorderIsLinked == RecorderSpec => LinkedSpec
<1>1. RecorderInit => LinkedInit
  BY DEF RecorderInit
<1> QED BY <1>1, RecorderNextLinked, PTL DEF RecorderSpec, LinkedSpec

(* The pointers of the two lists stay whole whether a read fails, or the    *)
(* device at a start or a reset.                                            *)
THEOREM RecorderListsAsQueues == RecorderSpec => []ListsAsQueues
  BY RecorderIsLinked, ListsAsQueuesHolds, PTL

-----------------------------------------------------------------------------
(* What the early return of set_alsa_record_config hangs on.                *)

(* Until the first command 8 nobody gets past OpenQueueIn.                  *)
NotStarted ==
  /\ record_state = 0 /\ cmd = "idle"
  /\ port["in"] = 0 /\ pc["in"] = "open"

DeviceInv ==
  /\ port \in [Ends -> Nat] /\ pc \in [Ends -> PCs]
  /\ cur_sound = 1 \/ NotStarted
  /\ step = "config" => pc["in"] \in {"device", "away"}
  /\ step = "config" /\ pc["in"] = "away" => pre_sound = 0

(* What a step of the queue does to the capture thread and its port.        *)
LEMMA CaptureQueueStep ==
  ASSUME DeviceInv, CaptureQueue
  PROVE  /\ pc["in"] \notin {"device", "away"} /\ ~NotStarted
         /\ UNCHANGED deviceVars
<1>1. CASE PassNode("in")
  BY <1>1 DEF CaptureQueue, PassNode, PassBuffer, Goto, NotStarted
<1>2. CASE ~PassNode("in")
  BY <1>2 DEF CaptureQueue, OpenQueue, GetStopped, GetHead, GetWait, Wake,
              Cancelled, NotCancelled, GetAgain, Goto, NotStarted
<1> QED BY <1>1, <1>2 DEF CaptureQueue

LEMMA SendStep ==
  ASSUME DeviceInv, Send
  PROVE  /\ pc'["in"] = pc["in"] /\ port'["in"] = port["in"]
         /\ UNCHANGED <<deviceVars, record_state, cmd>>
<1> USE DEF DeviceInv, Ends
<1>1. CASE PassNode("out")
  BY <1>1 DEF Send, PassNode, PassBuffer, Goto, commandVars
<1>2. CASE LeaveNodes("out")
  BY <1>2 DEF Send, LeaveNodes, End, OpenQueue, DeviceOpened, DeviceFailed,
     GetStopped, GetHead, GetWait, Wake, Cancelled, NotCancelled, GetAgain,
     Take, Use, ReadFailed, DeviceReset, PassBuffer, Goto, queueVars,
     commandVars
<1> QED BY <1>1, <1>2 DEF Send

LEMMA ProceedStep ==
  ASSUME DeviceInv, Proceed
  PROVE  /\ cmd # "idle" /\ pc' = pc /\ UNCHANGED deviceVars
  BY DEF Proceed, LinkedDisable, RebuildFilled, RebuildEmpty, Enable,
     DisableResetFilled, DisableResetEmpty, DisableStop, DisableCloseIn,
     DisableCloseOut, EnableStart, EnablePort, StoreState, PortStep,
     CommandGoto, threadVars

(* The device steps, but for what they do to the queue.                     *)
LEMMA DeviceKeeps ==
  ASSUME DeviceInv, Device, port' \in [Ends -> Nat],
         pc' \in [Ends -> PCs]
  PROVE  DeviceInv'
<1>0. cur_sound' = cur_sound /\ cur_sound = 1
  BY DEF Device, InitOpen, InitOpenFails, InitConfig, Read, ReadDangling,
         ReadFails, ResetOpen, ResetConfig, ResetRefused, deviceVars,
         DeviceInv, NotStarted, DeviceFailed, DeviceOpened, Use, ReadFailed,
         DeviceReset, Goto
<1>1. CASE InitOpen
  BY <1>0, <1>1 DEF InitOpen, DeviceInv, linkedVars, vars
<1>2. CASE ResetOpen \/ ResetRefused
  BY <1>0, <1>2 DEF ResetOpen, ResetRefused, DeviceInv, linkedVars, vars
<1>3. CASE InitConfig \/ ResetConfig \/ InitOpenFails
  BY <1>0, <1>3 DEF InitConfig, ResetConfig, InitOpenFails, deviceVars, DeviceInv
<1>4. CASE Read \/ ReadDangling \/ ReadFails
  BY <1>0, <1>4 DEF Read, ReadDangling, ReadFails, deviceVars, DeviceInv, Use,
                    ReadFailed, Goto
<1> QED BY <1>1, <1>2, <1>3, <1>4 DEF Device

LEMMA DeviceInvStep ==
  ASSUME IInv, IInv', DeviceInv, [RecorderNext]_recorderVars
  PROVE  DeviceInv'
<1>t. port' \in [Ends -> Nat] /\ pc' \in [Ends -> PCs] /\ "in" \in Ends
  BY DEF IInv, TypeOK, Ends, PCs
<1>1. CASE Device
  BY <1>1, <1>t, DeviceKeeps
<1>2. CASE CaptureQueue
  BY <1>2, <1>t, CaptureQueueStep DEF DeviceInv, deviceVars
<1>3. CASE Send
  BY <1>3, <1>t, SendStep DEF DeviceInv, NotStarted, deviceVars
<1>4. CASE Start
  BY <1>4, <1>t DEF Start, AudioStart, DeviceInv, threadVars
<1>5. CASE Stop
  BY <1>5, <1>t DEF Stop, AudioEnd, DeviceInv, NotStarted, threadVars, deviceVars
<1>6. CASE Proceed
  BY <1>6, <1>t, ProceedStep DEF DeviceInv, NotStarted, deviceVars
<1>7. CASE UNCHANGED recorderVars
  BY <1>7, <1>t DEF recorderVars, linkedVars, vars, deviceVars, DeviceInv, NotStarted
<1> QED BY <1>1, <1>2, <1>3, <1>4, <1>5, <1>6, <1>7 DEF RecorderNext

(* Out of RECORDER_RESET leads only ResetConfig, which configures.          *)
LEMMA ResetConfiguresStep ==
  ASSUME DeviceInv, [RecorderNext]_recorderVars
  PROVE  [pc["in"] = "away" /\ pc'["in"] # "away" /\ handle = "open"
            => configured']_recorderVars
<1> SUFFICES ASSUME RecorderNext, pc["in"] = "away", pc'["in"] # "away"
             PROVE  configured'
  BY DEF recorderVars, linkedVars, vars
<1>1. CASE ResetConfig
  <2>1. cur_sound = 1 /\ pre_sound = 0
    BY <1>1 DEF ResetConfig, DeviceInv, NotStarted
  <2>2. Configures
    BY <2>1 DEF Configures
  <2>3. configured' = (configured \/ Configures)
    BY <1>1 DEF ResetConfig
  <2> QED BY <2>2, <2>3, Zenon
<1>2. CASE Device /\ ~ResetConfig
  BY <1>2 DEF Device, InitOpen, InitOpenFails, InitConfig, Read, ReadDangling,
              ReadFails, ResetOpen, ResetRefused, DeviceFailed, DeviceOpened,
              Use, ReadFailed, Goto, linkedVars, vars
<1>3. CASE CaptureQueue
  BY <1>3, CaptureQueueStep
<1>4. CASE Send
  BY <1>4, SendStep
<1>5. CASE Start \/ Stop
  BY <1>5 DEF Start, Stop, AudioStart, AudioEnd, threadVars
<1>6. CASE Proceed
  BY <1>6, ProceedStep
<1> QED BY <1>1, <1>2, <1>3, <1>4, <1>5, <1>6 DEF RecorderNext

(* A device that a reset has opened is configured before audio_capture      *)
(* reads it: command 8 has set cur_sound before the thread could get past   *)
(* its port, and nothing between the open and set_alsa_record_config sets   *)
(* pre_sound.                                                               *)
THEOREM ResetConfiguresHolds == RecorderSpec => ResetConfigures
<1>1. RecorderInit => DeviceInv
  BY DEF RecorderInit, LinkedInit, Init, DeviceInv, NotStarted, Ends, PCs
<1>2. IInv /\ IInv' /\ DeviceInv /\ [RecorderNext]_recorderVars => DeviceInv'
  BY DeviceInvStep
<1>3. DeviceInv /\ [RecorderNext]_recorderVars
        => [pc["in"] = "away" /\ pc'["in"] # "away" /\ handle = "open"
              => configured']_recorderVars
  BY ResetConfiguresStep
<1> QED
  BY <1>1, <1>2, <1>3, RecorderIsLinked, LinkedIsQueue, Invariance, PTL
     DEF RecorderSpec, ResetConfigures
=============================================================================
