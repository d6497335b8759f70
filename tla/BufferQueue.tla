----------------------------- MODULE BufferQueue -----------------------------
(***************************************************************************)
(* The audio capture queue (audio/buffer.c) with the three threads that    *)
(* use it: audio_capture and audio_send (audio/record.c), and the thread   *)
(* that executes the client's commands 8 "audio start" and 10 "audio end"  *)
(* (network/prase_pkt.c).                                                  *)
(*                                                                         *)
(* The queue has two ends.  The capture thread works at the "in" end: it   *)
(* takes the head of list_empty, records into it and passes it on to       *)
(* list_filled.  The send thread works at the "out" end: it takes the head *)
(* of list_filled, encodes and sends it and passes it back to list_empty.  *)
(* GetEmptyBuffer/GetBuffer and FillBuffer/EmptyBuffer are mirror images,  *)
(* so everything here is indexed by the end e; list[e] is the list that    *)
(* end e takes from.                                                       *)
(*                                                                         *)
(* A critical section of queue->lock is one step, except the one of        *)
(* DisableBufferQueue, whose effects are visible to a thread that has just *)
(* returned from sem_wait and reads in_state/out_state WITHOUT the lock.   *)
(* EnableBufferQueue takes no lock at all and is one step per statement.   *)
(* Two plain stores with no call between them may become visible in        *)
(* either order.                                                           *)
(***************************************************************************)
EXTENDS Naturals, Sequences

CONSTANT BufferNum              \* BUFFER_NUM: how many buffers InitQueue makes

ASSUME BufferNumAssumption == BufferNum \in Nat \ {0}

Buffers  == 1..BufferNum
NoBuffer == 0                   \* the NULL that GetBuffer/GetEmptyBuffer return
Ends     == {"in", "out"}
Other(e) == IF e = "in" THEN "out" ELSE "in"

(* Definitions named Wrong... are this module with one plausible mistake,   *)
(* each written just before the definition it varies.  No specification     *)
(* uses them; they show that the properties can tell.                       *)

VARIABLES
  list,          \* list["in"] = list_empty, list["out"] = list_filled
  wanted,        \* BufferList.wanted
  ready,         \* BufferList.ready, a counting semaphore
  state,         \* queue->in_state and queue->out_state
  port,          \* queue->in_ready and queue->out_ready, counting semaphores
  locked,        \* queue->lock is held by DisableBufferQueue
  pc,            \* where the capture ("in") and send ("out") threads are
  buf,           \* their local variable "buffer"
  cmd,           \* where the command thread is in Enable/DisableBufferQueue
  record_state,  \* the global record_state of prase_pkt.c
  stale,         \* history: the queue was reset while this end held a buffer
  fresh          \* history: buffers recorded and neither passed back nor reset

queueVars   == <<list, wanted, ready, state, port, locked>>
threadVars  == <<pc, buf>>
commandVars == <<cmd, record_state>>
historyVars == <<stale, fresh>>
vars        == <<list, wanted, ready, state, port, locked, pc, buf, cmd,
                 record_state, stale, fresh>>

(* The C buffer array in index order, and the list ResetBufferList builds. *)
AllBuffers == [i \in Buffers |-> i]
ResetList  == [e \in Ends |-> IF e = "in" THEN AllBuffers ELSE << >>]

PCs  == {"open", "device", "get", "blocked", "woken", "relock", "using",
         "pass", "away"}
Cmds == {"idle", "reset_out", "reset_in", "stop", "close_in", "close_out",
         "start", "reopen_in", "post_in", "reopen_out", "post_out"}

Init ==
  /\ list = ResetList
  /\ wanted = [e \in Ends |-> FALSE]
  /\ ready = [e \in Ends |-> 0]
  /\ state = [e \in Ends |-> "STOPPED"]
  /\ port = [e \in Ends |-> 0]
  /\ locked = FALSE
  /\ pc = [e \in Ends |-> "open"]
  /\ buf = [e \in Ends |-> NoBuffer]
  /\ cmd = "idle"
  /\ record_state = 0
  /\ stale = [e \in Ends |-> FALSE]
  /\ fresh = {}

Goto(e, from, to) == pc[e] = from /\ pc' = [pc EXCEPT ![e] = to]

-----------------------------------------------------------------------------
(* The two ends of the queue: what audio_capture and audio_send do with it. *)

(* OpenQueueIn/OpenQueueOut; the returned state is ignored by both callers. *)
(* The capture thread goes on to open the ALSA device.                      *)
OpenQueue(e) ==
  /\ port[e] > 0
  /\ Goto(e, "open", IF e = "in" THEN "device" ELSE "get")
  /\ port' = [port EXCEPT ![e] = @ - 1]
  /\ UNCHANGED <<list, wanted, ready, state, locked, buf, commandVars,
                 historyVars>>

(* RECORDER_INIT after OpenQueueIn: snd_pcm_open works, or it fails and the *)
(* thread is back at OpenQueueIn, having used up the start token.           *)
DeviceOpened(e) ==
  /\ e = "in"
  /\ Goto(e, "device", "get")
  /\ UNCHANGED <<queueVars, buf, commandVars, historyVars>>

DeviceFailed(e) ==
  /\ e = "in"
  /\ Goto(e, "device", "open")
  /\ UNCHANGED <<queueVars, buf, commandVars, historyVars>>

(* Wrong: the head is used without a look at whether there is one.          *)
WrongTakeUnchecked(e) ==
  /\ pc' = [pc EXCEPT ![e] = "using"]
  /\ buf' = [buf EXCEPT ![e] = IF list[e] = << >> THEN NoBuffer
                                                 ELSE Head(list[e])]

(* "buffer" is set from the list head under the lock; NULL (possible only   *)
(* for the peek after a wait) stops the thread's session.                   *)
Take(e) ==
  IF list[e] = << >>
  THEN /\ pc' = [pc EXCEPT ![e] = "open"]
       /\ buf' = [buf EXCEPT ![e] = NoBuffer]
  ELSE /\ pc' = [pc EXCEPT ![e] = "using"]
       /\ buf' = [buf EXCEPT ![e] = Head(list[e])]

(* GetBuffer/GetEmptyBuffer, the first critical section.                    *)
GetStopped(e) ==
  /\ ~locked /\ state[e] # "WORKING"
  /\ Goto(e, "get", "open")
  /\ buf' = [buf EXCEPT ![e] = NoBuffer]
  /\ UNCHANGED <<queueVars, commandVars, historyVars>>

GetHead(e) ==
  /\ ~locked /\ state[e] = "WORKING" /\ list[e] # << >>
  /\ pc[e] = "get"
  /\ Take(e)
  /\ UNCHANGED <<queueVars, commandVars, historyVars>>

GetWait(e) ==
  /\ ~locked /\ state[e] = "WORKING" /\ list[e] = << >>
  /\ Goto(e, "get", "blocked")
  /\ wanted' = [wanted EXCEPT ![e] = TRUE]
  /\ UNCHANGED <<list, ready, state, port, locked, buf, commandVars,
                 historyVars>>

(* sem_wait(&list->ready) returns.                                          *)
Wake(e) ==
  /\ ready[e] > 0
  /\ Goto(e, "blocked", "woken")
  /\ ready' = [ready EXCEPT ![e] = @ - 1]
  /\ UNCHANGED <<list, wanted, state, port, locked, buf, commandVars,
                 historyVars>>

(* The state is read without the lock: cancelled, or go on to the lock.     *)
Cancelled(e) ==
  /\ state[e] # "WORKING"
  /\ Goto(e, "woken", "open")
  /\ buf' = [buf EXCEPT ![e] = NoBuffer]
  /\ UNCHANGED <<queueVars, commandVars, historyVars>>

NotCancelled(e) ==
  /\ state[e] = "WORKING"
  /\ Goto(e, "woken", "relock")
  /\ UNCHANGED <<queueVars, buf, commandVars, historyVars>>

(* Under the lock again: the head is peeked, the state is not looked at.    *)
GetAgain(e) ==
  /\ ~locked
  /\ pc[e] = "relock"
  /\ Take(e)
  /\ UNCHANGED <<queueVars, commandVars, historyVars>>

(* snd_pcm_readi fills the buffer / the buffer is encoded and sent, outside *)
(* the lock.                                                                *)
Use(e) ==
  /\ Goto(e, "using", "pass")
  /\ fresh' = IF e = "in" THEN fresh \cup {buf[e]} ELSE fresh
  /\ UNCHANGED <<queueVars, buf, commandVars, stale>>

(* Wrong: the buffer is filled in spite of the failed read.                 *)
WrongReadFailedFills(e) ==
  /\ e = "in"
  /\ Goto(e, "using", "pass")
  /\ UNCHANGED <<queueVars, buf, commandVars, historyVars>>

(* A failed read: the capture thread leaves without filling the buffer, and *)
(* comes back to GetEmptyBuffer once RECORDER_RESET has got a device.       *)
ReadFailed(e) ==
  /\ e = "in"
  /\ Goto(e, "using", "away")
  /\ buf' = [buf EXCEPT ![e] = NoBuffer]
  /\ stale' = [stale EXCEPT ![e] = FALSE]
  /\ UNCHANGED <<queueVars, commandVars, fresh>>

DeviceReset(e) ==
  /\ e = "in"
  /\ Goto(e, "away", "get")
  /\ UNCHANGED <<queueVars, buf, commandVars, historyVars>>

(* What the wrong ways of moving a buffer below have in common.             *)
WrongMoveOf(e, b, guard, wakes, newList) ==
  LET o == Other(e)
  IN  IF guard /\ list[e] # << >>
      THEN /\ list' = [list EXCEPT ![e] = Tail(list[e]), ![o] = newList]
           /\ ready' = [ready EXCEPT ![o] = IF wakes /\ wanted[o] THEN @ + 1
                                                                 ELSE @]
           /\ wanted' = [wanted EXCEPT ![o] = IF wakes THEN FALSE ELSE @]
           /\ fresh' = IF e = "out" THEN fresh \ {b} ELSE fresh
      ELSE UNCHANGED <<list, ready, wanted, fresh>>

(* Wrong: the buffer the thread used is appended, not the head.             *)
WrongMoveHeld(e) ==
  WrongMoveOf(e, buf[e], state[e] = "WORKING", TRUE,
              Append(list[Other(e)], buf[e]))

(* Wrong: the other end is not woken.                                       *)
WrongMoveSilent(e) ==
  LET b == Head(list[e])
  IN  WrongMoveOf(e, b, state[e] = "WORKING", FALSE, Append(list[Other(e)], b))

(* Wrong: the state is not looked at.                                       *)
WrongMoveUnguarded(e) ==
  LET b == Head(list[e])
  IN  WrongMoveOf(e, b, TRUE, TRUE, Append(list[Other(e)], b))

(* FillBuffer/EmptyBuffer: the HEAD of the list moves to the other list,    *)
(* whether or not it is the buffer this end has been using.                 *)
Move(e) ==
  LET o == Other(e)
      b == Head(list[e])
  IN  IF state[e] = "WORKING" /\ list[e] # << >>
      THEN /\ list' = [list EXCEPT ![e] = Tail(list[e]),
                                   ![o] = Append(list[o], b)]
           /\ ready' = [ready EXCEPT ![o] = IF wanted[o] THEN @ + 1 ELSE @]
           /\ wanted' = [wanted EXCEPT ![o] = FALSE]
           /\ fresh' = IF e = "out" THEN fresh \ {b} ELSE fresh
      ELSE UNCHANGED <<list, ready, wanted, fresh>>

PassBuffer(e) ==
  /\ ~locked
  /\ Goto(e, "pass", "get")
  /\ Move(e)
  /\ buf' = [buf EXCEPT ![e] = NoBuffer]
  /\ stale' = [stale EXCEPT ![e] = FALSE]
  /\ UNCHANGED <<state, port, locked, commandVars>>

End(e) ==
  \/ OpenQueue(e) \/ DeviceOpened(e) \/ DeviceFailed(e)
  \/ GetStopped(e) \/ GetHead(e) \/ GetWait(e)
  \/ Wake(e) \/ Cancelled(e) \/ NotCancelled(e) \/ GetAgain(e)
  \/ Use(e) \/ ReadFailed(e) \/ DeviceReset(e) \/ PassBuffer(e)

-----------------------------------------------------------------------------
(* The command thread.                                                      *)

CommandGoto(from, to) == cmd = from /\ cmd' = to

(* Opcode 8: a running recorder is stopped first, then started again.       *)
AudioStart ==
  /\ CommandGoto("idle", IF record_state = 1 THEN "reset_out" ELSE "start")
  /\ record_state' = 1
  /\ UNCHANGED <<queueVars, threadVars, historyVars>>

(* Opcode 10 does nothing when nothing is recording.                        *)
AudioEnd ==
  /\ record_state = 1
  /\ CommandGoto("idle", "reset_out")
  /\ record_state' = 0
  /\ UNCHANGED <<queueVars, threadVars, historyVars>>

(* Wrong: nobody is woken.                                                  *)
WrongResetSilent(e) ==
  /\ list' = [list EXCEPT ![e] = ResetList[e]]
  /\ stale' = [stale EXCEPT ![e] = @ \/ pc[e] \in {"using", "pass"}]
  /\ UNCHANGED <<ready, wanted>>

(* Wrong: ready is posted and wanted left set.                              *)
WrongResetStillWanted(e) ==
  /\ list' = [list EXCEPT ![e] = ResetList[e]]
  /\ ready' = [ready EXCEPT ![e] = IF wanted[e] THEN @ + 1 ELSE @]
  /\ stale' = [stale EXCEPT ![e] = @ \/ pc[e] \in {"using", "pass"}]
  /\ UNCHANGED wanted

(* ResetBufferList: rebuild the list, let a waiting thread go.              *)
ResetBufferList(e) ==
  /\ list' = [list EXCEPT ![e] = ResetList[e]]
  /\ ready' = [ready EXCEPT ![e] = IF wanted[e] THEN @ + 1 ELSE @]
  /\ wanted' = [wanted EXCEPT ![e] = FALSE]
  /\ stale' = [stale EXCEPT ![e] = @ \/ pc[e] \in {"using", "pass"}]

(* DisableBufferQueue, from pthread_mutex_lock to pthread_mutex_unlock.     *)
DisableResetFilled ==
  /\ ~locked
  /\ CommandGoto("reset_out", "reset_in")
  /\ locked' = TRUE
  /\ ResetBufferList("out")
  /\ UNCHANGED <<state, port, threadVars, record_state, fresh>>

DisableResetEmpty ==
  /\ CommandGoto("reset_in", "stop")
  /\ ResetBufferList("in")
  /\ fresh' = {}
  /\ UNCHANGED <<state, port, locked, threadVars, record_state>>

(* Wrong: out_state is forgotten.                                           *)
WrongStoreInOnly(from, value, next) ==
  /\ state' = [state EXCEPT !["in"] = value]
  /\ CommandGoto(from, next)
  /\ UNCHANGED <<list, wanted, ready, port, locked, threadVars,
                 record_state, historyVars>>

(* in_state and out_state are stored one after the other; "next" is where   *)
(* the command thread goes after the second store.                          *)
StoreState(from, value, next) ==
  \E e \in Ends :
    /\ state[e] # value
    /\ state' = [state EXCEPT ![e] = value]
    /\ CommandGoto(from, IF state[Other(e)] = value THEN next ELSE from)
    /\ UNCHANGED <<list, wanted, ready, port, locked, threadVars,
                   record_state, historyVars>>

DisableStop == StoreState("stop", "STOPPED", "close_in")

(* sem_trywait never blocks: it takes a token if there is one.              *)
Drained(e) == [port EXCEPT ![e] = IF @ > 0 THEN @ - 1 ELSE @]
Posted(e)  == [port EXCEPT ![e] = @ + 1]

PortStep(from, ports, to) ==
  /\ CommandGoto(from, to)
  /\ port' = ports
  /\ UNCHANGED <<list, wanted, ready, state, threadVars, record_state,
                 historyVars>>

DisableCloseIn == /\ PortStep("close_in", Drained("in"), "close_out")
                  /\ UNCHANGED locked

(* The last statement before the unlock.  A restart goes on to Enable.      *)
DisableCloseOut ==
  /\ PortStep("close_out", Drained("out"),
              IF record_state = 1 THEN "start" ELSE "idle")
  /\ locked' = FALSE

(* EnableBufferQueue: no lock.                                              *)
EnableStart == StoreState("start", "WORKING", "reopen_in")

EnablePort ==
  /\ \/ PortStep("reopen_in",  Drained("in"),  "post_in")
     \/ PortStep("post_in",    Posted("in"),   "reopen_out")
     \/ PortStep("reopen_out", Drained("out"), "post_out")
     \/ PortStep("post_out",   Posted("out"),  "idle")
  /\ UNCHANGED locked

Disable == DisableResetFilled \/ DisableResetEmpty \/ DisableStop
           \/ DisableCloseIn \/ DisableCloseOut
Enable  == EnableStart \/ EnablePort

Next == \/ \E e \in Ends : End(e)
        \/ AudioStart \/ AudioEnd \/ Disable \/ Enable

Spec == Init /\ [][Next]_vars

-----------------------------------------------------------------------------
(* Properties.                                                              *)

(* A thread works on a buffer outside the lock.                             *)
Holds(e) == pc[e] \in {"using", "pass"}

(* The variables have their types, and a thread that works on a buffer has  *)
(* one (record.c uses the pointer of GetBuffer/GetEmptyBuffer unchecked     *)
(* from there on).                                                          *)
TypeOK ==
  /\ list \in [Ends -> Seq(Buffers)]
  /\ wanted \in [Ends -> BOOLEAN]
  /\ ready \in [Ends -> Nat]
  /\ state \in [Ends -> {"WORKING", "STOPPED"}]
  /\ port \in [Ends -> Nat]
  /\ locked \in BOOLEAN
  /\ pc \in [Ends -> PCs]
  /\ buf \in [Ends -> Buffers \cup {NoBuffer}]
  /\ cmd \in Cmds
  /\ record_state \in {0, 1}
  /\ stale \in [Ends -> BOOLEAN]
  /\ fresh \subseteq Buffers
  /\ \A e \in Ends : Holds(e) => buf[e] # NoBuffer

(* Whenever the lock is free, every buffer is on exactly one list, once:    *)
(* FillBuffer, EmptyBuffer and DisableBufferQueue, in any order, by threads *)
(* that may hold a buffer from before a reset, lose and duplicate none.     *)
NoRepeats(s) == \A i, j \in DOMAIN s : s[i] = s[j] => i = j

Intact ==
  /\ NoRepeats(list["in"]) /\ NoRepeats(list["out"])
  /\ \A i \in DOMAIN list["in"], j \in DOMAIN list["out"] :
        list["in"][i] # list["out"][j]
  /\ Len(list["in"]) + Len(list["out"]) = BufferNum

Conservation == ~locked => Intact

(* The wanted/ready handshake of GetBuffer/GetEmptyBuffer: a thread waits   *)
(* in sem_wait exactly while either its request stands or its one token is  *)
(* on the way.  No token is ever left over for a later wait to trip over.   *)
Handshake ==
  \A e \in Ends :
    /\ ready[e] = IF pc[e] = "blocked" /\ ~wanted[e] THEN 1 ELSE 0
    /\ wanted[e] => pc[e] = "blocked"

(* A thread sleeps only while its end works and its list is empty: no lost  *)
(* wakeup, neither from the other end nor from DisableBufferQueue.          *)
NoLostWakeup ==
  \A e \in Ends :
    ~locked /\ wanted[e] => state[e] = "WORKING" /\ list[e] = << >>

(* Capture and send are never both asleep waiting for each other.           *)
NotBothAsleep == ~locked => ~(wanted["in"] /\ wanted["out"])

(* A stopped queue holds nothing to send: what audio_capture fills after    *)
(* DisableBufferQueue, because it was in the middle of a read or between    *)
(* sem_wait and the lock, never reaches list_filled.                        *)
StoppedIsDrained == ~locked /\ state["in"] = "STOPPED" => list["out"] = << >>

(* The buffer a thread works on outside the lock is still the head of its   *)
(* list, unless the queue was reset under it; so FillBuffer/EmptyBuffer,    *)
(* which move whatever is at the head, move the buffer the thread used.     *)
HeldIsHead ==
  \A e \in Ends :
    Holds(e) /\ ~stale[e] => list[e] # << >> /\ buf[e] = Head(list[e])

(* audio_capture never writes the samples audio_send is encoding, unless    *)
(* one of them still works on a buffer from before a reset.                 *)
ExclusiveUse ==
  ~locked /\ Holds("in") /\ Holds("out") /\ buf["in"] = buf["out"]
    => stale["in"] \/ stale["out"]

(* Of the filled buffers at most one was not recorded in this session: the  *)
(* one that a FillBuffer left over from before the reset moved.             *)
OneStaleFill ==
  \A i, j \in DOMAIN list["out"] :
    list["out"][i] \notin fresh /\ list["out"][j] \notin fresh => i = j

(* in_ready and out_ready are used as flags, and never exceed one.          *)
PortIsFlag == \A e \in Ends : port[e] \in {0, 1}

-----------------------------------------------------------------------------
(* The inductive invariant behind the properties above.                     *)

(* Where the command thread is determines the lock and, except between the  *)
(* two stores of a start or a stop, the state of both ends.                 *)
CommandInv ==
  /\ locked <=> cmd \in {"reset_in", "stop", "close_in", "close_out"}
  /\ cmd \in {"start", "reopen_in", "post_in", "reopen_out", "post_out"}
       => record_state = 1
  /\ \A e \in Ends :
       /\ cmd = "idle"
            => state[e] = IF record_state = 1 THEN "WORKING" ELSE "STOPPED"
       /\ cmd \in {"reset_out", "reset_in", "reopen_in", "post_in",
                   "reopen_out", "post_out"} => state[e] = "WORKING"
       /\ cmd \in {"close_in", "close_out"} => state[e] = "STOPPED"

(* What a reset leaves behind, while the lock is held and after.            *)
ResetInv ==
  /\ cmd = "reset_in" => list["out"] = << >> /\ ~wanted["out"]
  /\ cmd \in {"stop", "close_in", "close_out"}
       => list = ResetList /\ \A e \in Ends : ~wanted[e]
  /\ state["in"] = "STOPPED" => list["out"] = << >>

(* NoLostWakeup holds with the lock taken, too.                             *)
WantedInv ==
  \A e \in Ends : wanted[e] => state[e] = "WORKING" /\ list[e] = << >>

(* A capture thread with a buffer from before the reset has not filled any  *)
(* since; with a buffer of this session, it has recorded it before it fills.*)
StaleInv ==
  /\ stale["in"] => list["out"] = << >>
  /\ pc["in"] = "pass" /\ ~stale["in"] => buf["in"] \in fresh

(* A port is drained right before it is opened.                             *)
PortInv ==
  /\ PortIsFlag
  /\ cmd = "post_in" => port["in"] = 0
  /\ cmd = "post_out" => port["out"] = 0

(* Only between the two resets is a buffer on no list.                      *)
ListInv == cmd # "reset_in" => Intact

IInv == /\ TypeOK /\ CommandInv /\ ResetInv /\ Handshake /\ WantedInv
        /\ HeldIsHead /\ ListInv /\ StaleInv /\ OneStaleFill /\ PortInv

(* The start of end e has been announced: its port has been opened.         *)
Announced(e) == /\ record_state = 1
                /\ cmd \in IF e = "in" THEN {"reopen_out", "post_out", "idle"}
                                      ELSE {"idle"}

(* Behind the port, a thread that is woken up again finds a buffer: a       *)
(* wake-up meant for the session before has been taken by then.             *)
WokenToBuffer ==
  \A e \in Ends :
    /\ Announced(e) /\ port[e] = 0
    /\ \/ pc[e] \in {"woken", "relock"}
       \/ pc[e] = "blocked" /\ ready[e] > 0
    => list[e] # << >>

-----------------------------------------------------------------------------
(* What every step and every run does.                                      *)

(* A start is heeded: once it has let end e through its port, the thread    *)
(* comes back to that port during the same recording only if the port is    *)
(* still open, or because the sound card could not be opened.               *)
StartHeeded ==
  [][\A e \in Ends :
       Announced(e) /\ pc[e] # "open" /\ pc'[e] = "open"
         => port[e] = 1 \/ pc[e] = "device"]_vars

(* After an audio end that no start follows, the send thread comes to rest  *)
(* in OpenQueueOut, and the capture thread in OpenQueueIn, unless it has    *)
(* lost its device and tries to get it back for good.                       *)
StopParks ==
  <>[](record_state = 0) =>
     /\ <>[](pc["out"] = "open")
     /\ <>[](pc["in"] = "open") \/ <>[](pc["in"] = "away")

(* While the recorder is left running, the send thread keeps getting        *)
(* buffers, unless the sound card fails for good at opening or again and    *)
(* again at reading.                                                        *)
AudioFlows ==
  <>[](record_state = 1 /\ cmd = "idle") =>
     \/ []<>(pc["out"] = "using")
     \/ <>[](pc["in"] = "open")
     \/ []<>(pc["in"] = "away")
=============================================================================
