----------------------------- MODULE Microphone -----------------------------
(***************************************************************************)
(* What the person says on its way to the voice server.  Four threads      *)
(* share the recorder: the game thread, whose button sets m_bRecording and *)
(* sends an order through bufferedLocal; the voice consumer, which carries *)
(* the orders out; the voice network thread, which switches the recorder   *)
(* off by itself when it dials and when the server mutes the player; and   *)
(* OpenSL's callback, the only one to touch the ring of samples.           *)
(*                                                                         *)
(* The device is opened before the threads start, so opening it is part of *)
(* the initial states.  When the voice chat is off is up to the threads of *)
(* VoiceLink: here it may change at any step.  Left out: what the encoder  *)
(* makes of a frame, the frames between the callback and the network       *)
(* thread (an SPSCQueue), and android_AudioOut and the player's ring,      *)
(* which nothing calls.                                                    *)
(***************************************************************************)
EXTENDS Naturals, Sequences

CONSTANTS
    MaxOrders,      \* bound: orders in bufferedLocal
    BufferSize,     \* samples in the ring (100000)
    Chunk,          \* samples of one callback (BUFFERFRAMES)
    Frame,          \* samples of one encoded frame (FRAME_SIZE_OPUS)
    Cursors,        \* values of a size_t (2^32)
    Samples         \* bound: samples are numbered modulo this

ASSUME MicrophoneAssumption ==
    /\ {MaxOrders, BufferSize, Chunk, Frame, Cursors, Samples} \subseteq Nat \ {0}
    /\ MaxOrders >= 2 /\ 2 * Chunk + Frame <= BufferSize /\ BufferSize <= Cursors

VARIABLES
    device,         \* m_pPlayer is not null
    recorder,       \* the state of OpenSL's recorder
    m_bRecording,
    bufferedLocal,  \* the orders about the microphone
    asked,          \* the last order was BC_ENABLEMICRO (a ghost)
    late,           \* 30 s have passed since the button was pressed
    gamePc, netPc, draining,    \* where the three threads are
    off,            \* IsDisconnected()
    crashed,        \* the network thread has read through a null m_pPlayer
    writeCursor, readCursor, buffer,    \* m_RingBufferRecord
    encoding,       \* the callback is in its loop: no frame has failed
    spoken,         \* the number of the next sample
    heard,          \* what the ring was given and has to give back (a ghost)
    frame, due,     \* the last frame read, and what it had to be (a ghost)
    tight,          \* the last chunk left no room for another (a ghost)
    overrun         \* a chunk went past the end of a tight ring's cursors

ringVars == <<writeCursor, readCursor, buffer, encoding, spoken, heard, frame, due, tight, overrun>>
orderVars == <<recorder, m_bRecording, bufferedLocal, asked, late, gamePc, netPc, draining, off, crashed>>
micVars == <<device, orderVars, ringVars>>

-----------------------------------------------------------------------------
m_bCouldRecord == device

(* android_OpenAudioDevice: any of its calls may fail, and with it all.   *)
(* The constructor then leaves before it clears m_bRecording.             *)
MicInit ==
    /\ device \in BOOLEAN
    /\ recorder = "STOPPED" /\ m_bRecording \in IF m_bCouldRecord THEN {FALSE} ELSE BOOLEAN
    /\ bufferedLocal = << >> /\ asked = FALSE /\ late = TRUE
    /\ gamePc = "draw" /\ netPc = "turn" /\ draining = FALSE
    /\ off = FALSE /\ crashed = FALSE
    /\ writeCursor = 0 /\ readCursor = 0
    /\ buffer = [p \in 0 .. BufferSize - 1 |-> 0]
    /\ encoding = FALSE /\ spoken = 0 /\ heard = << >> /\ frame = << >> /\ due = << >>
    /\ tight = FALSE /\ overrun = FALSE

-----------------------------------------------------------------------------
(* The game thread: the microphone's button, once a frame *)

Step(from, to) == gamePc = from /\ gamePc' = to
GameOnly == UNCHANGED <<device, ringVars, recorder, netPc, draining, off, crashed>>

(* Mutant: no order is sent that the consumer is not there to read. *)
DisableInput_IfOn ==
    /\ m_bRecording' = FALSE
    /\ bufferedLocal' = IF off THEN bufferedLocal ELSE Append(bufferedLocal, "BC_DISABLEMICRO")
    /\ asked' = FALSE
    /\ UNCHANGED late

(* The flag and the order in one step: the network thread, too, only ever  *)
(* clears the flag and stops the recorder.                                 *)
DisableInput ==
    /\ m_bRecording' = FALSE
    /\ bufferedLocal' = Append(bufferedLocal, "BC_DISABLEMICRO")
    /\ asked' = FALSE
    /\ UNCHANGED late

(* TurnRecording flips the flag and then looks at it again. *)
Press ==
    /\ Step("draw", "turned")
    /\ Len(bufferedLocal) <= MaxOrders - 2      \* bound
    /\ m_bRecording' = ~m_bRecording
    /\ UNCHANGED <<bufferedLocal, asked, late>> /\ GameOnly

NoPress ==
    /\ Step("draw", "limit")
    /\ Len(bufferedLocal) <= MaxOrders - 2      \* bound
    /\ UNCHANGED <<m_bRecording, bufferedLocal, asked, late>> /\ GameOnly

(* EnableInput sets the flag, and then sends the order. *)
TurnRecording ==
    \/ /\ m_bRecording
       /\ Step("turned", "enabling")
       /\ UNCHANGED <<m_bRecording, bufferedLocal, asked, late>> /\ GameOnly
    \/ /\ ~m_bRecording
       /\ Step("turned", "pressed")
       /\ DisableInput /\ GameOnly

EnableInput ==
    /\ Step("enabling", "enabled")
    /\ m_bRecording' = TRUE
    /\ UNCHANGED <<bufferedLocal, asked, late>> /\ GameOnly

SendEnable ==
    /\ Step("enabled", "pressed")
    /\ bufferedLocal' = Append(bufferedLocal, "BC_ENABLEMICRO")
    /\ asked' = TRUE
    /\ UNCHANGED <<m_bRecording, late>> /\ GameOnly

(* The 30 seconds start if the flag is still set. *)
StartClock ==
    /\ Step("pressed", IF m_bRecording THEN "connected" ELSE "limit")
    /\ late' = (late /\ ~m_bRecording)
    /\ UNCHANGED <<m_bRecording, bufferedLocal, asked>> /\ GameOnly

(* A voice chat that is off takes the microphone away again: the hook      *)
(* looks after a press, and at the end of every frame.                     *)
VoiceOff(from, to) ==
    /\ Step(from, to)
    /\ IF off THEN DisableInput ELSE UNCHANGED <<m_bRecording, bufferedLocal, asked, late>>
    /\ GameOnly

TimeLimit ==
    /\ Step("limit", "check")
    /\ IF m_bRecording /\ late THEN DisableInput
       ELSE UNCHANGED <<m_bRecording, bufferedLocal, asked, late>>
    /\ GameOnly

EndFrame ==
    /\ Step("check", IF m_bRecording THEN "still connected" ELSE "draw")
    /\ UNCHANGED <<m_bRecording, bufferedLocal, asked, late>> /\ GameOnly

TimePasses ==
    /\ late' = TRUE
    /\ UNCHANGED <<m_bRecording, bufferedLocal, asked, gamePc>> /\ GameOnly

Button ==
    \/ Press \/ NoPress \/ TurnRecording \/ EnableInput \/ SendEnable
    \/ StartClock \/ VoiceOff("connected", "limit") \/ TimeLimit
    \/ EndFrame \/ VoiceOff("still connected", "draw")

-----------------------------------------------------------------------------
(* The voice network thread *)

NetOnly == UNCHANGED <<device, ringVars, bufferedLocal, asked, late, gamePc, draining, off>>

(* A dial clears the flag and then asks the device, which may not be       *)
(* there, for its recorder.                                                *)
DialStopsMic ==
    /\ netPc = "turn" /\ ~off
    /\ m_bRecording' = FALSE
    /\ IF ~device THEN crashed' = TRUE /\ UNCHANGED netPc
                      ELSE netPc' = "stop" /\ UNCHANGED crashed
    /\ UNCHANGED recorder /\ NetOnly

(* Packet 246. *)
ServerMutes ==
    /\ netPc = "turn" /\ ~off
    /\ m_bRecording' = FALSE
    /\ netPc' = IF m_bCouldRecord THEN "stop" ELSE "turn"
    /\ UNCHANGED <<recorder, crashed>> /\ NetOnly

StopRecorder ==
    /\ netPc = "stop" /\ netPc' = "turn"
    /\ recorder' = "STOPPED"
    /\ UNCHANGED <<m_bRecording, crashed>> /\ NetOnly

-----------------------------------------------------------------------------
(* The voice consumer: it looks at the voice chat once, and then takes all *)
(* the orders there are.                                                   *)

ConsumerOnly ==
    UNCHANGED <<device, ringVars, m_bRecording, asked, late, gamePc, netPc, off, crashed>>

TakeOrder ==
    /\ draining /\ bufferedLocal # << >>
    /\ bufferedLocal' = Tail(bufferedLocal)
    /\ recorder' = IF ~m_bCouldRecord THEN recorder
                   ELSE IF Head(bufferedLocal) = "BC_ENABLEMICRO" THEN "RECORDING" ELSE "STOPPED"
    /\ UNCHANGED draining /\ ConsumerOnly

(* The top of the loop and its end, 5 ms apart. *)
Turn ==
    /\ IF draining THEN bufferedLocal = << >> ELSE ~off
    /\ draining' = ~draining
    /\ UNCHANGED <<bufferedLocal, recorder>> /\ ConsumerOnly

Consumer == ~crashed /\ (TakeOrder \/ Turn)

(* VoiceLink's threads. *)
SwitchVoice ==
    /\ off' = ~off
    /\ UNCHANGED <<device, ringVars, recorder, m_bRecording, bufferedLocal, asked, late>>
    /\ UNCHANGED <<gamePc, netPc, draining, crashed>>

OrdersNext ==
    \/ Consumer
    \/ ~crashed /\ (Button \/ TimePasses \/ DialStopsMic \/ ServerMutes \/ StopRecorder \/ SwitchVoice)

-----------------------------------------------------------------------------
(* OpenSL's callback and the ring: positions count up for ever, as a       *)
(* size_t, and are divided by the size at each use.                        *)

Sum(a, b) == (a + b) % Cursors
BytesToRead == (writeCursor + Cursors - readCursor) % Cursors

(* How far position p of the buffer is from the cursor's. *)
Place(p, cursor) == (p + BufferSize - (cursor % BufferSize)) % BufferSize

(* A queue with so many of the samples that are being spoken behind it. *)
Behind(queue, count) ==
    [k \in 1 .. Len(queue) + count |->
        IF k <= Len(queue) THEN queue[k] ELSE (spoken + k - Len(queue) - 1) % Samples]

(* Mutant: the room is compared, and not the cursors, which overflow.      *)
RingBufferWrite_Room(count) ==
    LET full == BytesToRead + count > BufferSize
        from == IF full THEN 0 ELSE writeCursor IN
    /\ buffer' = [p \in DOMAIN buffer |->
                    IF Place(p, from) < count THEN (spoken + Place(p, from)) % Samples ELSE buffer[p]]
    /\ writeCursor' = Sum(from, count)
    /\ readCursor' = IF full THEN 0 ELSE readCursor
    /\ heard' = Behind(IF full THEN << >> ELSE heard, count)

(* The ring empties itself when the new samples do not fit.  Both sums     *)
(* overflow with the cursors.                                              *)
RingBufferWrite(count) ==
    LET full == Sum(writeCursor, count) > Sum(readCursor, BufferSize)
        from == IF full THEN 0 ELSE writeCursor IN
    /\ buffer' = [p \in DOMAIN buffer |->
                    IF Place(p, from) < count THEN (spoken + Place(p, from)) % Samples ELSE buffer[p]]
    /\ writeCursor' = Sum(from, count)
    /\ readCursor' = IF full THEN 0 ELSE readCursor
    /\ heard' = Behind(IF full THEN << >> ELSE heard, count)

(* OnVoiceInput: a chunk of samples goes into the ring, whose rest of the  *)
(* chunk before is still there, ...                                        *)
Capture ==
    /\ ~overrun /\ (encoding => BytesToRead < Frame)
    /\ ~off
    /\ RingBufferWrite(Chunk)
    /\ spoken' = (spoken + Chunk) % Samples
    /\ encoding' = TRUE /\ frame' = << >> /\ due' = << >>
    /\ tight' = (Len(heard') + Chunk > BufferSize)
    /\ overrun' = (tight /\ writeCursor + Chunk >= Cursors /\ writeCursor' = Sum(writeCursor, Chunk))
    /\ UNCHANGED <<device, orderVars>>

(* ... unless the voice chat is off: nothing of it is kept, and the rest   *)
(* stays where it is, in front of what is said when the voice chat is on.  *)
ChunkDropped ==
    /\ ~overrun /\ (encoding => BytesToRead < Frame)
    /\ off
    /\ spoken' = (spoken + Chunk) % Samples
    /\ encoding' = FALSE /\ frame' = << >> /\ due' = << >>
    /\ UNCHANGED <<writeCursor, readCursor, buffer, heard, tight, overrun, device, orderVars>>

(* Whole frames come out and are encoded, until one fails: the rest waits  *)
(* for the next chunk.                                                     *)
RingBufferRead ==
    LET count == IF Sum(readCursor, Frame) > writeCursor THEN BytesToRead ELSE Frame IN
    /\ ~overrun /\ encoding /\ BytesToRead >= Frame
    /\ frame' = [k \in 1 .. count |-> buffer[((readCursor % BufferSize) + k - 1) % BufferSize]]
    /\ readCursor' = Sum(readCursor, count)
    /\ heard' = [k \in 1 .. Len(heard) - count |-> heard[k + count]]
    /\ due' = [k \in 1 .. count |-> heard[k]]
    /\ encoding' \in BOOLEAN       \* what opus_encode returns
    /\ UNCHANGED <<writeCursor, buffer, spoken, tight, overrun, device, orderVars>>

RingNext == ~crashed /\ (Capture \/ ChunkDropped \/ RingBufferRead \/ SwitchVoice)

-----------------------------------------------------------------------------
(* Properties *)

(* When the consumer has taken every order, the recorder runs only if the  *)
(* last thing the game asked for was to record: what switches it off       *)
(* meanwhile, and a voice chat that is off, cannot turn an order around.   *)
MicFollowsOrders ==
    bufferedLocal = << >> /\ recorder = "RECORDING" => asked

(* Every frame handed to the encoder is a whole frame of the samples the   *)
(* ring was given, in the order they were spoken, none twice and none left *)
(* out, unless the ring has emptied itself since, through every failure of *)
(* the encoder and every overflow of the cursors but one: a ring without   *)
(* room for a chunk does not empty itself ("Buffer autoclear on overflow") *)
(* as its cursors overflow, and the oldest samples are lost (overrun).  It *)
(* was not given what was spoken while the voice chat was off: a frame may *)
(* join what was said before and after.                                    *)
FramesAsSpoken == ~overrun /\ frame # << >> => Len(frame) = Frame /\ frame = due

(* A microphone that was switched off falls silent, if the voice chat is   *)
(* on, whatever else the consumer has to do.                               *)
MicComesOff == ~asked ~> recorder = "STOPPED" \/ asked \/ off \/ crashed

(* CVoiceChatClient's constructor asks the person to allow the microphone  *)
(* ("Cannot open microphone, allow this in permissions") and goes on       *)
(* without one, with m_bCouldRecord cleared: so does the program.          *)
MicIsOptional == ~crashed
=============================================================================
