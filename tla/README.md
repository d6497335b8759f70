# Verification of the H.264 surveillance server

TLA+ models of the server in `src/`, the TLC runs that check them on small
instances, and TLAPS proofs for every value of the constants.  `PROJECT.json`
maps each definition to the lines of C that it models, and lists runs, mutants
(deliberate bugs that a property must catch), hazards, findings and theorems.

Run in this directory:

    tlc -config MCRecorder.cfg Recorder            # any run of PROJECT.json
    tlapm RecorderProofs.tla                       # any *Proofs module

## 1. The system

The server runs on a board with a USB camera and a microphone.  One client (a
phone) at a time logs in over a TCP *control connection*, then makes a second
TCP connection, the *data connection*, over which it gets H.264 pictures and
ADPCM sound.  `main` (core/main.c) prepares the camera, creates the threads, and
calls `network()`, which never returns: the process leaves by `exit` when the
client goes or something fails, and is started again from outside.

| thread | code | blocks on |
|---|---|---|
| main | `network()`: accept loop | `accept` |
| control thread | `set_opcode_connection`, `prase_packet` and the handlers | `recv`, `lock` of the queue |
| camera_thread | video/camera.c, video/v4l2.c | `start_camera`, `select`, `frame_list_lock` |
| send_picture_thread | video/camera.c | `pict_ready`, `usleep`, `AVsocket_mutex`, `send` |
| audio_capture | audio/record.c | `in_ready`, `list_empty.ready`, the sound card |
| audio_send | audio/record.c | `out_ready`, `list_filled.ready`, `AVsocket_mutex`, `send` |

How they interact:

    client --control--> set_opcode_connection --cmd 8/10--> Enable/DisableBufferQueue
                               |                                   |
                               | cmd 7: video_frameinterval        v
    network() --start_camera--> camera_thread          audio_capture -> queue -> audio_send
                               |                                                  |
                          frame list --pict_ready--> send_picture_thread          |
                                                               \                  |
    client <--data-- one socket, AVsocket_mutex <---------------+-----------------+

### Inventory

| component | state | operations | what is hard | what makes it correct |
|---|---|---|---|---|
| audio capture queue (audio/buffer.c) | two lists, a lock, a wanted flag and a semaphore for each list, a state and a port semaphore for each end | `OpenQueueIn/Out`, `GetEmptyBuffer`, `FillBuffer`, `GetBuffer`, `EmptyBuffer`, `Enable/DisableBufferQueue` | reads of the state without the lock after a wake-up; a reset under a thread that holds a buffer; tokens left over; `EnableBufferQueue` without lock | no buffer lost or used twice, no lost wake-up, no deadlock, a stop parks both threads, a start is heeded, at most one stale buffer |
| recorder (audio/record.c) | ALSA handle, parameters before and now, state of the loop | open, configure, read, reset | the device fails anywhere; handle closed but not cleared; configuration skipped when unchanged; the device is opened again and again without a look at the queue | a device opened anew is configured, the thread gets back to a working device |
| ADPCM (audio/adpcm.c) | predicted value and step index, the packed byte | one sample; start of a packet; reset of a session | saturation, table ends, state sent with a packet | in range; a client stays with the coder; the error is bounded |
| frame list (video/v4l2.c) | one chain with two heads and a tail, `pict_ready` | `get_frame`, `use_frame`, `empty_frame` | the camera's catch-up takes a token that the sender may have just taken | drop oldest only; in order; fresh; chain whole; the sender never meets an empty list |
| camera threads (video/camera.c) | driver buffer and frame of each thread, `video_frameinterval` | capture loop, send loop, command 7 | unlocked write of the raw interval | the threads implement the drop-oldest queue |
| video device (camera.c, v4l2.c) | descriptor, mapped buffers, which the driver has | open, request, map, queue, stream, dequeue, requeue | every request can fail, some results are not looked at | buffers are in one place; pictures come as long as one buffer goes round |
| format table (video/sonix_xu_ctrls.c) | the bytes read, the formats parsed | init, length, blocks, count, allocate, parse, commit | short last block, failure between blocks, two passes that must agree | what is committed is what the camera's table says |
| other camera controls (sonix_xu_ctrls.c, v4l2uvc.c) | which register the unit is switched to, the registers, the V4L2 controls | set-up of the unit, set and get of each register, get, set, step, toggle and reset of a control; `camera_setting` puts them together | a register takes two requests; any request can fail, and `camera_setting` goes on | each register has what was asked for it; a set-up without failures is complete |
| data connection (network/network.c) | the mutex, bytes sent, the retry counters | `send_picture`, `send_audio_data` | two writers, short sends, time-outs, static counters | whole packets; gives up only on a deaf client; no sender blocked for good |
| commands (network/prase_pkt.c, network.c) | recording, verification, the log-in numbers | one handler for each opcode | any order of commands | starts and stops alternate; verified first; challenge in the clear |
| control connection (network.c) | where in the stream, what of a message has been read | sync, head, text | `recv` in pieces, stray bytes, "MO_O" anywhere, wrong lengths, texts longer than the buffer | exactly the client's messages are executed; the buffer is not overrun by short texts |
| accept loop (network.c, main.c) | the client, what each connection is for, headers, `start_camera` | accept, reject, crash, restart | order of connections; clients that leave or vanish | one client; camera only when it can send; free again afterwards |
| log-in cipher (network.c) | key box, the halves | key set-up, encipher, decipher | the key box is used while it is filled; the loops run in opposite directions | deciphering undoes enciphering |

Not modelled: `audio.c` (only includes), `core/utils.c` and `core/rw.c` (nothing
calls them), `int_to_array.c` but for `byteArrayToInt`, `clear_recv_buf` (its
only call is commented out), the capture path of the vendor's sample in
`v4l2uvc.c` (lines 26-355, which nothing calls), the ALSA mixer,
`stop_capturing`/`uninit_device`/`close_camera` (never reached), logging, build files, and the vendored headers of libmad and libjpeg.

## 2. Modules

| module | models | abstracted |
|---|---|---|
| `BufferQueue` | buffer.c and its three users.  `pc[e]` is where the thread of end `e` is; the command thread's `cmd` goes through `Enable/DisableBufferQueue` store by store, because it shares them with unlocked readers | lists as sequences of buffers; contents as "recorded in this session or not" |
| `BufferList` (EXTENDS `BufferQueue`) | the two lists of buffer.c by their pointers `head`, `tail` and `next`, moved in the same steps as the sequences | |
| `Recorder` (EXTENDS `BufferList`) | audio_capture with the sound card; every step is one of the queue with its lists or leaves it alone | sound as success or failure of a read |
| `FrameQueue` | what the frame list promises: two sequences, one frame being filled, one being sent | pictures as numbers |
| `FrameList` | the pointers `ready_list_head`, `ready_list_tail`, `empty_list_head`, `next`, `flag`; one operator for each critical section.  Beside the pointers, and never read by a guard, the history sequences `busy` and `free` of READY and EMPTY frames | |
| `Camera` (EXTENDS `FrameList`) | both video threads, start, command 7; refines `FrameQueue`, whose two sequences are `busy` and `free` | time |
| `VideoDevice` | init_camera, start_capturing and the capture loop with a driver that fails | pictures' contents |
| `H264Format` | the format table from device to commit, byte by byte: here the data is the point | tables of a few formats |
| `CameraControls` | the other functions of sonix_xu_ctrls.c and those of v4l2uvc.c on controls; each is one step, since one thread has the descriptor, with an outcome for each request that may fail | of a register its first two bytes |
| `CameraSetting` (EXTENDS both) | `camera_setting` from the extension unit to the last reset, on a camera as an earlier server left it; or any other caller of the two libraries | |
| `AVSocket` | both senders on one socket | the stream as its last two packets, of each the number of bytes and the declared length |
| `Commands` | `prase_packet` and its handlers, one action for each command | texts, values of the log-in numbers as "plain" and "enciphered" |
| `ControlLink` (EXTENDS `Commands`) | the loop that cuts the stream, and whether "buffer" has room for what it reads | a byte is its position; of the bytes it is known at which places "MO_O" stands and what follows it as a header |
| `Session` (EXTENDS `Commands`) | the accept loop, connections, the headers that network() prepares statement by statement, the audio sender that writes into them meanwhile, exits and restart | addresses, descriptors |
| `Adpcm` | `adpcm_coder` with its real tables and `audio_send`'s handling of its state | |
| `Blowfish` | key set-up and the two loops, turn by turn | words of fewer bits, tables as parameters |

`MC*` modules only give constants values.  Operators named `Wrong...` are the
mutated forms of the definitions they stand before, and belong to no
specification.

Things in the models worth knowing:

* **Atomicity.**  A critical section is one action.  What the C code does without
  a lock is split at each access of shared state.  The reads of `in_state` and
  `out_state` outside the lock are data races in C; they are modelled as reads
  of the old or of the new value, which is what the two-valued enumeration in a
  register-sized word allows.
* **`sem_trywait` in the catch-up** (v4l2.c:108) takes a token if there is one; in
  the code the sender may just have taken the last.  `FrameList` and `FrameQueue`
  have both cases, and the proof of `TokensMatchFrames` shows what follows.
* **Verification** in `deal_verify_req` always ends in success, since the result is
  overwritten right after the comparison (network.c:770); modelled as it is.
* **The opcode** of a message is its low byte (264 is 8): modelled as it is.
* **Restart** of the process is from outside, as the message "exit to restart!"
  implies; `Session!Restart` is the only place that assumes it.
* **`pthread_mutex_init(&frame_list_lock)`** (v4l2.c:186) lacks its second argument;
  the models assume that the mutex works.
* **Sizes.**  `FrameNum >= 3` is assumed (the code has 40, v4l2.c:50): with fewer
  frames camera and sender leave no frame for the catch-up to take over.
* **Headers** (network.c:1114-1127): a client's `connect` succeeds as soon as the
  kernel has queued it, so that its command 8 can start the recorder before
  network() has prepared the header of audio packets.  `Session` keeps network()
  at each of its statements (`Steps`) and the sender at each pointer it follows.
* **`XU_Init_Ctrl`** counts every error but `EACCES` as "exists already": a unit
  that was set up half-way is never completed.
* **Bit rate** is computed with `m_CurrentFPS`, which is 24 whatever format has
  been committed.
* **`isv4l2Control`** compares the flags with `V4L2_CTRL_TYPE_BOOLEAN`, whose number
  is that of the flag "grabbed": so `v4l2ToggleControl` can only fail (what it lets
  through, the driver refuses), and booleans count as no controls.
* **-1** is both a value and the report of a failure: `v4l2UpControl` steps from -1
  after a failed read (`CameraControls!Read`).  Of the functions of v4l2uvc.c on
  controls, of which the server calls one, no more is claimed than that they keep
  a control in its range.
* **`MO_O`** is taken for the head of a message at whatever place the server reads
  its next four bytes (network.c:943).  A stream gives all the places where it
  stands, within texts and headers and between messages too, so that a false head
  is followed wherever the server can meet it: in the text of a message that is
  too long, which is not skipped (network.c:958), or once the server is out of step.
* **The text buffer** has 100 bytes (network.c:1014), and texts of up to 200 are read
  into it.  `overrun` says that this has happened.  What a process does after that
  is undefined: in the model it may end at any time, or go on.
* **A failed `VIDIOC_DQBUF`** (camera.c:163-178) makes the camera thread sleep and try
  again.  With no buffer left to the driver `select` returns at once, with an
  error that the thread does not see, and the dequeue fails: the thread neither
  takes pictures nor ends.
* **`TypeOK`** of a module is the first conjunct of its inductive invariant.  It is
  a property of a run where it is more than typing, and otherwise proved only.

## 3. What is checked

Passing runs:

| run | instance | shows |
|---|---|---|
| `recorder` | 3 buffers, as in the code | the queue with its three threads and the sound card behind one of them: buffers conserved and exclusive, wake-ups neither lost nor left over, starts heeded, stops that park both threads, audio that flows, list pointers that follow the sequences, a device that is configured after each reset, a recorder that gets back to a working one |
| `frame_queue` | 3 frames, 8 pictures | the sender survives each catch-up, no frame is in two places, pictures are sent in order and fresh |
| `camera` | 3 frames, 6 pictures, 2 driver buffers | pointers and threads refine `FrameQueue`, so that no pointer goes wrong; every picture is sent or superseded |
| `video_device` | 1, 2 or 4 buffers granted | buffer accounting; pictures keep coming as long as one buffer goes round |
| `camera_setting` | 5 tables, wrong lengths, failures of each request, every earlier state of the unit, 5 controls of which one is grabbed and one can be -1 | passes agree; without failures the camera comes out as asked; registers are not mixed up |
| `av_socket` | pictures of 0 and 5 bytes, audio of 1, 2 retries | whole packets, retry counting, `EachPacketEnds` |
| `control_link` | every order of 4 of the commands 0, 2, 8 and 10; 9 streams of the protocol, of stray bytes, wrong lengths and long texts; 4 with a false "MO_O" at every place where one can stand; all cut by `recv` | exactly the proper messages are executed, once and in order, unless the client has put the server out of step; the buffer is not overrun by a client with short texts; starts and stops alternate; verification comes first and ends the log-in |
| `session` | 4 connections from 2 addresses | one client; senders meet no half-prepared header unless audio was started too early; freed on close |
| `adpcm` | full scale of both signs and a quiet level, 3 packets of 4 samples | tracking, packing, error bound |
| `blowfish` | 16 rounds, words of 8 bits, any number of blocks one after the other | deciphering is the inverse, with the key box as it has been made |

Why the bounds are enough.  Queue and frame list: a list is empty, has one
element (its head is its tail) or more; a thread holds at most one, so three are
the first number at which "held, queued and one more" happens; the proofs then
take any number.  Pictures: each time around the chain of three
frames is passed twice.  Retries: `MAX_RETRY_NUM` 2 is the first with a middle
retry.  A send takes 3 bytes, 20 bytes or all that is left, so that headers and
bodies end in one call or in several.  Commands: four are verification, start,
start again (or stop), start; the nine other streams have one for each way in
which a stream leaves alignment or overruns the buffer, and ones that do not.
`recv` returns one byte or all that is wanted.  A false head stands in the unused
bytes of a header, in a text that is read, in one that is dropped, behind a text
that is longer than it says, and in stray bytes, at every distance from the read
of four there; what follows it asks for one byte of text or for more than the
buffer holds.
Devices: tables that end within a block of 11 and with one, formats with no
frame rate up to three; bit rates that round, and one that fills both bytes.
ADPCM: the limits of a sample are reached at the eleventh sample and the end of the
table at the twelfth, full scale back and forth, which is the last of three
packets of four (the server's have 1024, an even number too; that `Packed` holds of
odd ones is proved).  Blowfish: the number of
rounds is the real one; bytes have two bits so that the four boxes have 16 words.

Fairness.  Threads that can take a step do (`WF`); nothing is assumed of the
client, of sends or of the camera, except that a picture begun is finished.  Of
the sound card it is assumed that a call returns, with success or with an error,
and not which: record.c:237-244 may try to open it for ever, without looking at
the state of the queue, so that a stop does not reach audio_capture there.
`StopParks` and `Recovers` name this as an exception, together with a device that
is never configured and, `Recovers`, one that is used through a closed handle.
Strong fairness is assumed twice.  One is of
`pthread_mutex_lock(&AVsocket_mutex)` for each sender, since a mutex that is
released again and again by one thread is eventually got by the other; with weak
fairness alone one sender could starve the other.  The other is in `VideoDevice`,
of the driver: it fills the buffers it has (`WF`), and a picture that can be
dequeued again and again is dequeued at some time; without it the thread may
sleep and try for ever.  `select` returns after two seconds at the latest, so that
the timeout is part of the thread's fairness; an error of `select` is not.  In
`Session` the audio sender goes on once it has a buffer; when it gets one is left
open.

Deadlock checking is on for the recorder with its queue and for `Blowfish`, which
run for ever.  It is off where the model really stops: the process exits (`AVSocket`,
`ControlLink`, `VideoDevice`), the pictures of the bound are used up
(`FrameQueue`, `Camera`), the clients have made all their connections
(`Session`), `camera_setting` has returned (`CameraSetting`), the packets of the
bound are over (`Adpcm`).

### Disagreements found

Two runs check one statement of a comment or a message each, and TLC finds a
behaviour of the code against it.

| run | the code says | the code does |
|---|---|---|
| `pause_raw` | intervals come from the table (prase_pkt.c:55-125) | the sender may pause for the client's raw number, which is in the global until the table has been looked up |
| `reset_dangling` | the device is opened again until it works (record.c:241) | after a failed read, one try; then a closed handle is configured and read |

Others were met while modelling.  They are single steps of the models, named in
the last column, and have no run of their own.

| the code says | the code does | in the model |
|---|---|---|
| full speed at each start (prase_pkt.c:54) | the last interval stays | `Camera!IntervalMapped` is the only place that changes it |
| packets are numbered from 0 (protocol.h:279) | the number is counted and never stored in an audio header (network.c:621) | not represented |
| video starts on request (network.c:1132) | it starts with the data connection | `Session!Prepare` |
| a thread for each client request (network.c:1089) | a third connection is left open, unattended | `Session!AcceptMore` |
| the network is disconnected after a minute (network.c:690) | no timer is armed and the receive time-out is refused: a vanished client holds the server | `Session!Vanish` |
| the answer to command 8 names the connection to make (protocol.h:102) | command 8 before that connection ends the process | `Session!Crash` |
| open, init, start (v4l2.c:4) | streaming after a failed init, without a frame list | `VideoDevice!GetFrameNowhere` |
| one frame rate (sonix_xu_ctrls.c:13) | the second is set | `H264Format!Rate` |
| failure is reported (SONiX_UVC_TestAP.c:52) | then the process ends on what was not read | `H264Format!ParseNowhere`, `SetDivides` |
| a text of more than 200 bytes is "bad" (network.c:960), a shorter one is read | the buffer has 100 bytes (network.c:1014) | `ControlLink!Recv` |
| the key is extended to 72 bytes (network.c:280) | 73 are written | `Blowfish!Extend` |

## 4. What is proved

Theorems are in `*Proofs` modules and hold for every value of the constants.

* **`RecorderProofs`**, for every number of buffers.
  *The queue*: `TypeOK`, `Conservation`, `Handshake`, `NoLostWakeup`,
  `NotBothAsleep`, `StoppedIsDrained`, `ExclusiveUse`, `OneStaleFill`.  The
  properties are not inductive: that a sleeping thread's list is empty depends on
  which store of a stop or start the command thread has reached.  `IInv` adds this
  (`CommandInv`, `ResetInv`), the handshake with the lock taken (`WantedInv`), and
  which held buffers are from before a reset (`StaleInv`, `PortInv`).  One lemma
  for each action, one step for each conjunct it can disturb.
  `StartHeeded`, an action property, needs one thing more (`WokenToBuffer`): past
  an announced start, a thread that has been woken up behind its port finds a
  buffer, so that only the sound card sends it back.
  *The linked lists*: `LinkedSpec => Spec`, and with the queue's `IInv` from there,
  `ListsAsQueues`.  Four lemmas say what `OutBufferList` and `InBufferList` do to
  the chain they work on and that they leave the other one alone; for that, no
  buffer may be on a list twice or on both, which is `Intact`.
  *The recorder*: `ResetConfigures`, whatever the sound card does.
  `set_alsa_record_config` does nothing when the parameters are those of before; that
  it does configure a device that a reset has opened hangs on `pre_sound` having
  been cleared by then and on what command 8 has put into `cur_sound` before the
  thread could get there (`DeviceInv`, with the queue's `IInv`).  That the steps of
  `Recorder` are steps of the queue with its lists follows from how they are
  composed, and only carries the invariants over: `ListsAsQueues` holds of it, too.
* **`ControlProofs`**, for every set of streams, every way in which `recv` cuts them,
  and every number of connections, addresses and commands.  What a command does is
  proved once (`TypeOK`, `LogInOnly`, `StartStopAlternate`, `VerifiedFirst` are kept by
  each handler) and used by both specifications.  `ControlLink`: `GenuineOnly` and
  `BufferFits`.  What has been read of a command is known by its position
  (`ReadSoFar`), and what has been executed ends before the next read
  (`ExecutedBefore`).  That no false head is followed is a matter of where the
  server reads: as long as everything the client has sent up to there is harmless,
  its next four bytes are the first of a unit, or a number of fours into one that
  is dropped (`Aligned`), and there stands no head that is not a message's own.
  `Session`: `OneClient`, `SendersPrepared`, from which connections can have a role
  at each stage of the preparation and what of the headers is written by then.
* **`DeviceProofs`**, for every format table, every length the camera tells,
  every list of controls and every failure: `PassesAgree`, `RegistersAsAsked`,
  `SettingComplete`.  `WalkAsDevice` says where the walk is
  in the table as long as the bytes are the camera's, `Counted` that as many
  formats have been counted as will be filled, `InOrder` that the switches of the
  unit and its registers go together, `DoneSoFar` what each stage of
  `camera_setting` leaves behind.  (Of the V4L2 functions it is proved that they
  keep each control in its range.)
  *The video device*, for every number of buffers granted and whatever requests
  fail: `BuffersAccounted`.  It rests on where the buffers are before the driver
  streams (`NoPictureYet`) and on when the thread has one (`HeldWhileCopied`).
* **`FrameQueueProofs`**, for every `FrameNum >= 3`: the sender never meets an
  empty list, each frame is in one place, the newest pictures are kept in order,
  and `SentInOrder`, `SentFresh` as action properties.  The key is
  `TokensMatchFrames`: the semaphore counts ready frames but for the one a woken
  sender is entitled to; it holds only together with the placement of frames.
* **`CameraProofs`**, for every `FrameNum >= 3` and any number of driver buffers from
  two on: `Camera` implements `FrameQueue` (`ImplementsFrameQueue`), step by step.
  A frame's place in the chain is found by following `next`, which would be a
  recursion the provers cannot unfold for every length; so the model keeps the
  frames of the chain beside it (`busy`, `free`), and `Linked` says, link by link,
  that the pointers are as these have it: READY frames, the one that is filled,
  EMPTY frames.  `Linked` and `Flagged` are inductive only with the queue's own
  invariant, which says that no frame is in two places; this is had from
  `FrameQueueProofs`, instantiated at `Camera`, and so are order and freshness of
  what the thread sends.  That the sequences are no more than a description is
  what `ChainWhole` shows.
* **`AVSocketProofs`**, for every number of retries and every packet length:
  `PacketsWhole`, `BoundaryWhenFree`, `CountMatchesWire`, `GivesUpOnDeaf`, from
  mutual exclusion (`MutexInv`), that headers begin at boundaries (`StartInv`) and
  that the static counters are zero outside a run of time-outs (`RetryInv`).
* **`AdpcmProofs`**, for every sound and packet length: the coder stays in 16 bits
  and within its tables; a client tracks the coder, the last
  sample of a packet included (`InStep`, and `DecodedCode`: what the standard
  decoder makes of a code is what the coder made of the sample); and the error
  bound `Follows` (`Residue`: the three comparisons leave less than a quarter of
  the step and `vpdiff` has an eighth of it in advance; `CodedNear`: clamping only
  brings the value nearer).  `Packed`: bytes are written for pairs of codes, of which
  the first waits in `outputbuffer` (`PackIInv`).
* **`BlowfishProofs`**, for every even number of rounds, word size, key and `F`:
  deciphering undoes enciphering.  The invariant relates each turn of the
  deciphering loop to the mirrored turn of the enciphering one; `F` is never
  expanded.

Assumptions are the named `ASSUME`s of each module, as weak as the code allows;
TLC evaluates them in every run.  Most only type a constant.  The others:
`FrameNum >= 3`; a table of formats holds in its bytes the formats it is made of
(`TablesAssumption`: the camera is sane, though reads of it may fail or stop short);
what is asked of a register fits into it (`RegistersAssumption`: the server asks
for 1600 kbit/s, and a quantisation is one byte); a V4L2 control's default is within its
range; a stream is a row of messages and stray bytes, a message begins with a
head, two heads do not overlap (no "MO_O" can begin within another), and what
follows a head, genuine or not, has an opcode that is enumerated
(`StreamsAssumption`: the texts and the bytes between messages are otherwise
arbitrary); a connection comes from an address.

Only model-checked: all liveness (`StopParks`, `AudioFlows`, `Recovers`,
`SentOrSuperseded`, `EachPacketEnds`, `PicturesUntilStarved` and the like), which is out of
the prover's reach, and with it `AllExecuted` and `FreedOnClose`; and the two runs
of section 3 that end in a violation.  Every safety property of a passing run is
also proved.
Only proved, and not in a run: `NotBothAsleep`, `NewestInOrder`,
`BoundaryWhenFree`, `CountMatchesWire`, `Linked` and `Flagged` of the frame list, and
the `TypeOK`s of ADPCM, `Camera`, `VideoDevice`, `Session` and `CameraSetting`.
TLC was run on each inductive invariant before its proof.

## 5. Plan

Done, in this order, the most important behaviour first: the audio queue (the
densest concurrency), the video frame list and its threads, the shared socket,
commands and control connection, sessions, the recorder with its device, the
format table, the video device, the two pure algorithms; the proofs for the
queue, the frame queue, the socket, ADPCM and the cipher.  Then the audio lists
pointer by pointer, the preparation of headers under a running audio sender, the
other camera controls and `camera_setting` as a whole, and the proof that the
lists follow the queue.

After these, the remaining invariants: the control connection and sessions, the
device libraries, `Packed`, `StartHeeded`, and `Camera` as an implementation of
`FrameQueue`.  Last the control connection once more, with heads at any place of
the stream and the size of the buffer, and `ResetConfigures`.

Next, proving more:

1. `StopParks` as safety: from which states a stop can no longer leave a thread
   asleep (its liveness stays with TLC).
2. Of the driver's buffers, that `Camera`'s count and `VideoDevice`'s sets agree: the
   capture loop of the one implements that of the other.
3. `ControlLink` implements a reader of whole messages, so that what is proved of
   `Commands` on one message at a time holds of any cut of the stream.

And modelling, as far as it pays:

1. A composed server: `Session` with the recorder's and the camera's start and
   stop as they share `AVSocket`, so that a client that leaves in the middle of a
   packet, and the exit that follows, is one model.
2. The log-in: `Commands` with `Blowfish` as the cipher of its numbers.
