----------------------------- MODULE StreamPool -----------------------------
(***************************************************************************)
(* CStreamPool: the positioned audio streams a server places in the world. *)
(* The game thread reads the server's RPCs and queues commands; a worker   *)
(* thread owns the slots, and every 5 ms looks whether the game is paused, *)
(* carries out the queued commands, and starts and stops the streams.      *)
(*                                                                         *)
(* The heap is modelled by its addresses: delete leaves the pointer in the *)
(* slot, and a later new may return the same address.  The pool's          *)
(* destructor is left out, because nothing deletes the CNetGame that owns  *)
(* it; so is the stream of the player's own (PlayIndividualStream).        *)
(***************************************************************************)
EXTENDS Integers, Sequences, FiniteSets

CONSTANTS
    MAX_STREAMS,    \* slots
    Addrs,          \* bound: addresses the heap has for CStream objects
    Null,           \* the null pointer
    MaxCommands,    \* bound: commands waiting for the worker
    Faults          \* what the environment may do, a subset of FaultKinds

(* "pause": the player opens the menu, or the game stops drawing.          *)
(* "again": the server destroys or moves a stream, or sets its volume,     *)
(*          that it has not created.                                       *)
FaultKinds == {"pause", "again"}

ASSUME StreamsAssumption == MAX_STREAMS \in Nat /\ MaxCommands \in Nat
ASSUME NullAssumption == Null \notin Addrs
ASSUME FaultsAssumption == Faults \subseteq FaultKinds

VARIABLES
    m_pStreams, m_bSlotState,   \* the slots, written by the worker alone
    m_bIsDeactivated,           \* the server has switched the streams off
    m_bWasPaused,               \* the worker saw the game paused
    bufferedCommands,           \* from the game thread to the worker
    live,                       \* addresses of the CStream objects that exist
    deactivated,                \* the m_bIsDeactivated of each object
    playing,                    \* objects with an m_hStream
    volumes,                    \* floats allocated for BC_VOLUME
    moving,                     \* what GetStream returned, until SetPosition
    hasty,                      \* it returned it with a command about it under way (a ghost)
    worker,                     \* where the worker is in Process
    gamePaused,                 \* the menu is open, or nothing is drawn
    serverHas                   \* ids of the streams the server has created

slots == <<m_pStreams, m_bSlotState>>
objects == <<live, deactivated, playing>>
poolVars == <<slots, m_bIsDeactivated, m_bWasPaused, bufferedCommands, objects, volumes,
          moving, hasty, worker, gamePaused, serverHas>>

Ids == 0..(MAX_STREAMS - 1)
Commands == [command : {"add", "delete", "volume", "activate", "deactivate"},
             iID : Ids \cup {MAX_STREAMS}, stream : Addrs \cup {Null}]
About(command, i) == [command |-> command, iID |-> i, stream |-> Null]
AboutAll(command) == About(command, MAX_STREAMS)

PoolInit ==
    /\ m_pStreams = [i \in Ids |-> Null]
    /\ m_bSlotState = [i \in Ids |-> FALSE]
    /\ m_bIsDeactivated = FALSE /\ m_bWasPaused = FALSE
    /\ bufferedCommands = << >>
    /\ live = {} /\ playing = {} /\ deactivated = [a \in Addrs |-> FALSE]
    /\ volumes = 0
    /\ moving = Null /\ hasty = FALSE
    /\ worker = "asleep"
    /\ gamePaused = FALSE
    /\ serverHas = {}

-----------------------------------------------------------------------------
(* The game thread: the RPCs of the server *)

Queue(command) ==
    /\ moving = Null
    /\ Len(bufferedCommands) < MaxCommands
    /\ bufferedCommands' = Append(bufferedCommands, command)
    /\ UNCHANGED <<slots, m_bWasPaused, playing, moving, hasty, worker, gamePaused>>

AddStream(i, a) ==
    /\ a \notin live
    /\ live' = live \cup {a}
    /\ deactivated' = [deactivated EXCEPT ![a] = m_bIsDeactivated]
    /\ serverHas' = serverHas \cup {i}
    /\ Queue([command |-> "add", iID |-> i, stream |-> a])
    /\ UNCHANGED <<m_bIsDeactivated, volumes>>

DeleteStreamByID(i) ==
    /\ i \in serverHas \/ "again" \in Faults
    /\ serverHas' = serverHas \ {i}
    /\ Queue(About("delete", i))
    /\ UNCHANGED <<m_bIsDeactivated, live, deactivated, volumes>>

SetStreamVolume(i) ==
    /\ i \in serverHas \/ "again" \in Faults
    /\ volumes' = volumes + 1
    /\ Queue(About("volume", i))
    /\ UNCHANGED <<m_bIsDeactivated, live, deactivated, serverHas>>

Activate ==
    /\ m_bIsDeactivated' = FALSE
    /\ Queue(AboutAll("activate"))
    /\ UNCHANGED <<live, deactivated, volumes, serverHas>>

Deactivate ==
    /\ m_bIsDeactivated' = TRUE
    /\ Queue(AboutAll("deactivate"))
    /\ UNCHANGED <<live, deactivated, volumes, serverHas>>

(* The worker has still to fill or to empty slot i. *)
UnderWay(i) ==
    \E k \in DOMAIN bufferedCommands :
        bufferedCommands[k].command \in {"add", "delete"} /\ bufferedCommands[k].iID = i

(* Packet_CustomRPC calls it twice, to look for a stream and for the       *)
(* stream: a pointer that was there stays, so the second call decides.     *)
(* Neither asks for the slot's state, and stream 0 is never found.         *)
GetStream(i) ==
    /\ moving = Null
    /\ i \in serverHas \/ "again" \in Faults
    /\ i > 0 /\ m_pStreams[i] # Null
    /\ moving' = m_pStreams[i]
    /\ hasty' = UnderWay(i)
    /\ UNCHANGED <<slots, m_bIsDeactivated, m_bWasPaused, bufferedCommands, objects,
                   volumes, worker, gamePaused, serverHas>>

SetPosition ==
    /\ moving # Null
    /\ moving' = Null /\ hasty' = FALSE
    /\ UNCHANGED <<slots, m_bIsDeactivated, m_bWasPaused, bufferedCommands, objects,
                   volumes, worker, gamePaused, serverHas>>

(* A new connection: the server starts from nothing, the pool does not. *)
NewSession ==
    /\ moving = Null
    /\ serverHas # {}
    /\ serverHas' = {}
    /\ UNCHANGED <<slots, m_bIsDeactivated, m_bWasPaused, bufferedCommands, objects,
                   volumes, moving, hasty, worker, gamePaused>>

(* The player opens and closes the menu; the game stalls and goes on. *)
PauseOrResume ==
    /\ "pause" \in Faults
    /\ gamePaused' = ~gamePaused
    /\ UNCHANGED <<slots, m_bIsDeactivated, m_bWasPaused, bufferedCommands, objects,
                   volumes, moving, hasty, worker, serverHas>>

-----------------------------------------------------------------------------
(* The worker: Process *)

Occupied == {i \in Ids : m_bSlotState[i] /\ m_pStreams[i] # Null}
Placed == {m_pStreams[i] : i \in Occupied}

(* SetIsDeactivated on every stream that is in a slot. *)
DeactivateAll(b) ==
    deactivated' = [a \in Addrs |-> IF a \in Placed THEN b ELSE deactivated[a]]

(* Mutant: the commands are carried out while the game is paused. *)
Suspend_Drains ==
    /\ worker = "asleep" /\ gamePaused
    /\ DeactivateAll(TRUE)
    /\ m_bWasPaused' = TRUE
    /\ worker' = "drain"
    /\ UNCHANGED <<slots, m_bIsDeactivated, bufferedCommands, live, playing, volumes,
                   moving, hasty, gamePaused, serverHas>>

(* The game is paused: every stream is switched off, no command is read. *)
Suspend ==
    /\ worker = "asleep" /\ gamePaused
    /\ DeactivateAll(TRUE)
    /\ m_bWasPaused' = TRUE
    /\ worker' = "play"
    /\ UNCHANGED <<slots, m_bIsDeactivated, bufferedCommands, live, playing, volumes,
                   moving, hasty, gamePaused, serverHas>>

(* It is not: the first time after a pause every stream is switched on. *)
Wake ==
    /\ worker = "asleep" /\ ~gamePaused
    /\ IF m_bWasPaused THEN DeactivateAll(FALSE) ELSE UNCHANGED deactivated
    /\ m_bWasPaused' = FALSE
    /\ worker' = "drain"
    /\ UNCHANGED <<slots, m_bIsDeactivated, bufferedCommands, live, playing, volumes,
                   moving, hasty, gamePaused, serverHas>>

(* Mutant: BC_ADDSTREAM deletes without a look at the slot's state. *)
Deleted_Unchecked(c) ==
    IF c.command \in {"add", "delete"} THEN m_pStreams[c.iID] ELSE Null

(* The pointer that carrying out a command deletes. *)
Deleted(c) ==
    CASE c.command = "add" /\ c.iID \in Occupied -> m_pStreams[c.iID]
      [] c.command = "delete" -> m_pStreams[c.iID]
      [] OTHER -> Null

(* delete: a stale pointer takes whatever object lives there now.  The     *)
(* fields of an object that is gone are FALSE.                             *)
Delete(a) ==
    /\ live' = live \ {a}
    /\ playing' = playing \ {a}
    /\ deactivated' = [d \in Addrs |-> d # a /\ deactivated[d]]

TakeCommand(commands) ==
    /\ worker = "drain"
    /\ bufferedCommands # << >>
    /\ Head(bufferedCommands).command \in commands
    /\ bufferedCommands' = Tail(bufferedCommands)
    /\ UNCHANGED <<m_bIsDeactivated, m_bWasPaused, moving, hasty, worker, gamePaused, serverHas>>

(* Mutant: the stream that was in the slot is forgotten. *)
HandleAdd_Overwrites ==
    LET c == Head(bufferedCommands) IN
    /\ TakeCommand({"add"})
    /\ m_pStreams' = [m_pStreams EXCEPT ![c.iID] = c.stream]
    /\ m_bSlotState' = [m_bSlotState EXCEPT ![c.iID] = TRUE]
    /\ UNCHANGED <<objects, volumes>>

HandleAdd ==
    LET c == Head(bufferedCommands) IN
    /\ TakeCommand({"add"})
    /\ Delete(Deleted(c))
    /\ m_pStreams' = [m_pStreams EXCEPT ![c.iID] = c.stream]
    /\ m_bSlotState' = [m_bSlotState EXCEPT ![c.iID] = TRUE]
    /\ UNCHANGED volumes

(* Mutant: the slot stays marked. *)
HandleDelete_StillMarked ==
    LET c == Head(bufferedCommands) IN
    /\ TakeCommand({"delete"})
    /\ Delete(Deleted(c))
    /\ UNCHANGED <<slots, volumes>>

(* The pointer stays in the slot. *)
HandleDelete ==
    LET c == Head(bufferedCommands) IN
    /\ TakeCommand({"delete"})
    /\ Delete(Deleted(c))
    /\ m_bSlotState' = [m_bSlotState EXCEPT ![c.iID] = FALSE]
    /\ UNCHANGED <<m_pStreams, volumes>>

(* The float is freed with the stream found, not otherwise. *)
HandleVolume ==
    LET c == Head(bufferedCommands) IN
    /\ TakeCommand({"volume"})
    /\ volumes' = IF c.iID \in Occupied THEN volumes - 1 ELSE volumes
    /\ UNCHANGED <<slots, objects>>

HandleActivate ==
    /\ TakeCommand({"activate", "deactivate"})
    /\ DeactivateAll(Head(bufferedCommands).command = "deactivate")
    /\ UNCHANGED <<slots, live, playing, volumes>>

AllHandled ==
    /\ worker = "drain"
    /\ bufferedCommands = << >>
    /\ worker' = "play"
    /\ UNCHANGED <<slots, m_bIsDeactivated, m_bWasPaused, bufferedCommands, objects,
                   volumes, moving, hasty, gamePaused, serverHas>>

(* CStream::Process of every stream: those of near, which the player hears *)
(* and the network delivers, play unless they are switched off.            *)
ProcessStreams(near) ==
    /\ worker = "play"
    /\ playing' = (playing \ Placed) \cup {a \in near : ~deactivated[a]}
    /\ worker' = "asleep"
    /\ UNCHANGED <<slots, m_bIsDeactivated, m_bWasPaused, bufferedCommands, live, deactivated,
                   volumes, moving, hasty, gamePaused, serverHas>>

-----------------------------------------------------------------------------
GameThread ==
    \/ \E i \in Ids, a \in Addrs : AddStream(i, a)
    \/ \E i \in Ids : DeleteStreamByID(i) \/ SetStreamVolume(i) \/ GetStream(i)
    \/ Activate \/ Deactivate \/ SetPosition
    \/ NewSession

Worker ==
    \/ Suspend \/ Wake
    \/ HandleAdd \/ HandleDelete \/ HandleVolume \/ HandleActivate
    \/ AllHandled
    \/ \E near \in SUBSET Placed : ProcessStreams(near)

PoolNext == GameThread \/ Worker \/ PauseOrResume

PoolSpec == PoolInit /\ [][PoolNext]_poolVars /\ WF_poolVars(Worker)

-----------------------------------------------------------------------------
(* The slots and the heap *)

PoolTypeOK ==
    /\ m_pStreams \in [Ids -> Addrs \cup {Null}]
    /\ m_bSlotState \in [Ids -> BOOLEAN]
    /\ m_bIsDeactivated \in BOOLEAN /\ m_bWasPaused \in BOOLEAN
    /\ bufferedCommands \in Seq(Commands)
    /\ \A k \in DOMAIN bufferedCommands :
           LET c == bufferedCommands[k] IN
           /\ c.command \in {"add", "delete", "volume"} => c.iID \in Ids
           /\ c.command = "add" => c.stream \in Addrs
    /\ live \subseteq Addrs
    /\ deactivated \in [Addrs -> BOOLEAN]
    /\ playing \subseteq Addrs
    /\ volumes \in Int
    /\ moving \in Addrs \cup {Null} /\ hasty \in BOOLEAN
    /\ worker \in {"asleep", "drain", "play"}
    /\ gamePaused \in BOOLEAN
    /\ serverHas \subseteq Ids

(* A slot the pool calls taken holds a stream that exists, and only such   *)
(* streams play: the worker walks the slots every 5 ms and calls a method  *)
(* of each (streampool.cpp:283-289).                                       *)
SlotsLive ==
    /\ \A i \in Ids : m_bSlotState[i] => m_pStreams[i] \in live
    /\ playing \subseteq Placed

(* The commands that bring a stream. *)
Adds == {k \in DOMAIN bufferedCommands : bufferedCommands[k].command = "add"}

(* Every stream that exists is in one place, a slot or a command on its    *)
(* way to one: none leaks when a slot is filled twice, and no two slots    *)
(* would delete the same one (streampool.cpp:223-236).                     *)
StreamsHeld ==
    /\ \A a \in live : a \in Placed \/ \E k \in Adds : bufferedCommands[k].stream = a
    /\ \A i, j \in Occupied : m_pStreams[i] = m_pStreams[j] => i = j
    /\ \A j, k \in Adds : bufferedCommands[j].stream = bufferedCommands[k].stream => j = k
    /\ \A k \in Adds : bufferedCommands[k].stream \notin Placed

(* What the worker is about to delete exists, although a slot keeps its    *)
(* pointer after the delete (streampool.cpp:227, 234).                     *)
DeletesLive ==
    bufferedCommands # << >> => Deleted(Head(bufferedCommands)) \in live \cup {Null}

(* The stream whose position the game thread is about to set exists,       *)
(* unless the worker still had a command to fill or empty its slot when    *)
(* the game thread took the pointer: the worker may delete other streams,  *)
(* and carry out any other command, between the two (netgame.cpp:790-792). *)
MovesLive == moving # Null => moving \in live \/ hasty

(* Neither thread uses a stream that is gone: not the worker that plays or *)
(* deletes it, nor the game thread that moves it, hasty moves aside.       *)
PointersLive == SlotsLive /\ DeletesLive /\ MovesLive

(* Packet_CustomRPC looks for the stream first ("if (GetStreamPool()->     *)
(* GetStream(id))", netgame.cpp:790) and moves one that is there.          *)
FoundStreamIsThere == moving # Null => moving \in live

(* The floats of volume commands are freed: each that exists is on its way *)
(* to the worker (streampool.cpp:151, 259).                                *)
VolumesFreed ==
    volumes = Cardinality({k \in DOMAIN bufferedCommands :
                               bufferedCommands[k].command = "volume"})

(* Neither streams nor floats leak, however commands, pauses and new       *)
(* connections fall together.                                              *)
NothingLeaks == StreamsHeld /\ VolumesFreed

-----------------------------------------------------------------------------
(* What the server asked for *)

Brings(k, i) == bufferedCommands[k].command = "add" /\ bufferedCommands[k].iID = i
Removes(k, i) == bufferedCommands[k].command = "delete" /\ bufferedCommands[k].iID = i

(* Stream i is, or will be once the first n commands are carried out, in   *)
(* its slot.                                                               *)
PresentAfter(n, i) ==
    \/ m_bSlotState[i] /\ \A k \in 1..n : ~Removes(k, i)
    \/ \E k \in 1..n : Brings(k, i) /\ \A l \in (k + 1)..n : ~Removes(l, i)

(* The streams the server believes to exist are in the pool once it has    *)
(* caught up, across pauses and new connections.                           *)
ServerStreamsPresent == \A i \in serverHas : PresentAfter(Len(bufferedCommands), i)

(* After a pause, and while there is none, the streams are on if the       *)
(* server wants them on and the worker has seen it say so: those that were *)
(* there before, those that came meanwhile and those still on their way    *)
(* (streampool.cpp:86-89, 201-215, 262-278).                               *)
StreamsComeBack ==
    (/\ ~m_bWasPaused /\ ~m_bIsDeactivated
     /\ \A k \in DOMAIN bufferedCommands :
            bufferedCommands[k].command \notin {"activate", "deactivate"})
    => \A a \in live : ~deactivated[a]

(* In a pause nothing plays, whatever the server sends meanwhile           *)
(* (streampool.cpp:176-198, 219).                                          *)
SilentInPause == m_bWasPaused /\ worker = "asleep" => playing = {}

(* A stream the server destroys is gone soon unless the game is paused:    *)
(* the commands before it and the streams being played do not keep the     *)
(* worker from it.                                                         *)
DeletesHappen ==
    \A i \in Ids :
        (\E k \in DOMAIN bufferedCommands : bufferedCommands[k] = About("delete", i))
        ~> (~m_bSlotState[i] \/ gamePaused)

(* Both pauses and deletions end well.                                     *)
StreamsSettle == []StreamsComeBack /\ DeletesHappen
=============================================================================
