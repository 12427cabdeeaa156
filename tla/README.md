# A formal model of the multiplayer client

`src/jni/jni` is a multiplayer client for the Android build of a game. It is a
shared library that is loaded into the game's process, hooks the game's
functions, speaks the server's protocol over RakNet, and carries a voice chat of
its own over ENet. This directory holds TLA+ modules of the parts of it that keep
state across threads, packets and sessions, the TLC configurations that check
them on small instances, and TLAPS proofs of what matters most about them for
instances of any size.

Paths below are relative to `src/jni/jni/`. The code is compiled for
`armeabi-v7a` only (`Application.mk:1`), which matters for the queue.

Contents: [the system](#1-the-system), [the modules](#2-the-modules),
[the runs](#3-the-runs), [fairness and deadlock](#4-fairness-and-deadlock),
[the proofs](#5-the-proofs), [disagreements found](#6-disagreements-found),
[what is not modelled](#7-what-is-not-modelled), [the plan](#8-the-plan),
[running it](#9-running-it).

## 1. The system

### Threads

| thread | what it runs | talks through |
| --- | --- | --- |
| game thread | the game's frame: `CNetGame::Process`, every packet and RPC handler, the pools, the drawing | everything below |
| voice network thread | `CVoiceChatClient::Process`: dials the voice server, services the ENet host, pushes voice packets | `m_iNetworkState` (a plain int), the queue `bufferedNetwork` |
| voice consumer thread | the loop `CVoiceChatClient::StartProcessing` starts: takes packets and orders, decodes, owns the audio streams and the OpenAL sources | the queues `bufferedNetwork`, `bufferedLocal` |
| recorder callback | OpenSL's thread: fills the ring of recorded samples | `CRingBuffer` |
| stream pool worker | `CStreamPool::Process`: owns the positioned audio streams | the queue `bufferedCommands`, plain fields |
| Java thread | the keyboard and the dialogs of the activity | queues of typed text |

RakNet has a thread of its own too, but hands packets to the game thread, which
is the only one to see them.

Nearly every pair of threads is joined by one data structure, RakNet's
`DataStructures::SingleProducerConsumer`, so the whole design rests on that
structure being right, and on each side using it as it asks.

### Components

**The queue** (`vendor/raknet/SingleProducerConsumer.h`). State: a ring of
nodes with `readyToRead` flags, four pointers. Operations: `WriteLock`,
`WriteUnlock`, `ReadLock`, `ReadUnlock`. Hard: no lock anywhere; the ring grows
while the consumer walks it; flags of fresh nodes are uninitialised; the ARM
memory order. Correct if: objects come out once each, in order, never half
written, and no node is in use on both sides. *Modelled: `SPSCQueue`, against the
abstract `FifoChannel`.*

**The session** (`net/netgame.cpp`, `net/netrpc.cpp`). State: the connection
state `m_iGameState`, RakNet's link, the pools. Operations: dialling, the packets
about the connection, `InitGame`, the game mode restart, the calls that fill and
empty the pools. Hard: every handler may come in every state; a lost connection or
restart runs half of the same clean-up; what is not cleaned is taken into the next
session. Correct if: it dials exactly when it should, and nothing of one session
is left in the next. *Modelled: `NetGame`.*

**The local player** (`net/localplayer.cpp`, `net/scriptrpc.cpp`). State: active,
wasted, class selection, spectating, what the server was told. Operations: spawn,
death, respawn, class requests, spectating, all reached from several handlers and
from the tick. Hard: methods call one another in the middle of their own updates
(a death leaves the spectator mode, which spawns the player); what is told of him
goes out in packets of four kinds at rates of their own, less those that repeat the
last of their kind. Correct if: the server's picture and the client's agree and are
never older than the rates allow, a spectated player exists, a dead player comes
back. *Modelled: `LocalPlayer`, composed in `NetGame`; `PlayerSync`.*

**The player pool** (`net/playerpool.cpp`). State: the slots. Operations: `New`,
`Delete`, `Process`. *Modelled in `NetGame` (who is there, and what a spectator
sees) and in `RemotePlayers` (peds).*

**Remote players, peds, vehicles** (`net/remoteplayer.cpp`,
`net/vehiclepool.cpp`, `game/game.cpp`, `game/playerped.cpp`,
`game/vehicle.cpp`). State: each player's ped, the game's few ped slots, who sits
where, and the raw pointer `m_pCurrentVehicle`. Operations: the calls and the sync
packets, ordered apart from one another, and what the game does with a ped. Hard:
slots leak or are shared; pointers outlive vehicles; a packet is only stored and
obeyed in every frame after it, past the animations the server plays and what the
game does to the ped. *Modelled: `RemotePlayers`, and `RemoteSync` for how a ped
follows its packets.*

**Getting into vehicles** (`game/hooks.cpp`, `net/localplayer.cpp`,
`net/playerpool.cpp`, `net/scriptrpc.cpp`). State: the ped's task and seat, the
vehicles' locks and switches, what the server was told. Hard: the game decides when
a ped sets out, arrives or is thrown out, the hooks tell the server of some of it,
and the server orders people into seats. Correct if: who sits somewhere by his own
doing was announced there, and doors and switches are as the server set them.
*Modelled: `Boarding`.*

**What peds carry** (`game/CWeaponsOutFit.cpp`, `game/playerped.cpp`). State: ten
slots of attached objects per ped, some the server's and some the local player's
weapons on his back. Hard: death, re-creation, the setting and the server each
take objects away and the others are not told. Correct if: every object shown was
ordered or is a weapon not in the hand, and each is deleted once. *Modelled:
`Attachments`.*

**The voice connection** (`voice/CVoiceChatClient.cpp`, `voice/CENetClient.cpp`).
State: `m_iNetworkState`, written by two threads with no lock; the ENet host and
its peers. Operations: one turn of the network thread, in about a dozen steps, and
the game thread's connect and disconnect calls. Hard: the dial blocks for up to
five seconds between a test and the write that rests on it. *Modelled:
`VoiceLink`.*

**The voice consumer and its streams** (`voice/CVoiceChatClient.cpp`,
`voice/CStreamPlayer.cpp`, `voice/CSoundOutput.cpp`). State: the streams of those
who talk, their count, the lent and free sources, the mutes. Operations: a packet,
an order. Hard: any OpenAL call may fail half way; eviction at 240 streams changes
four things at once; orders wait while packets keep coming or the chat is off.
*Modelled: `VoiceStreams`.*

**The audio stream pool** (`net/streampool.cpp`, `game/stream.cpp`). State: slots
whose pointers are not cleared, a command queue, the pause flags. Operations: the
server's calls on the game thread, the worker's cycle. Hard: raw pointers to heap
objects in slots, in commands and on the game thread's stack; the heap reuses
addresses; pauses suspend half of the cycle. *Modelled: `StreamPool`.*

**Voice capture** (`voice/opensl_io2.cpp`, `voice/CRingBuffer.h`, the button and
the orders in `voice/CVoiceChatClient.cpp`). State: the recorder, `m_bRecording`,
the orders under way, the ring of samples. Operations: the button and its 30
seconds, the consumer's orders, the dial and the server's mute, OpenSL's callback.
Hard: three threads switch one recorder, one through a queue that is not read
while the voice chat is off; the ring's cursors overflow at a value its size does
not divide. Correct if: the recorder runs only when last asked to, comes off when
asked, and a frame is made of what the ring was given, in order. *Modelled: `Microphone`, composed
with `VoiceLink` in `Voice`.*

**Pads, camera and aim of remote players** (`game/pad.cpp`, `game/aimstuff.cpp`,
hooks). State: the keys and aims per player number, what is saved while the game
processes another's ped. Operations: the hooks around a ped, a gun and a vehicle,
the packets. Hard: one camera and one pad for all; hooks nest; peds are looked up
by address, and addresses come back. Correct if: everybody obeys his own keys,
aims his own way, and the local player's view returns. *Modelled:
`PlayerContext`.*

**Chat, keyboard, dialogs** (`keyboard.cpp`, `keyboardhistory.cpp`,
`chatwindow.cpp`, `dialog.cpp`, `scoreboard.cpp`, `util/CJavaWrapper.cpp`). State:
one line, one handler and one history for all text fields; a queue of strings from
the activity's thread; a switch of the player's control with no owner. Hard: a
string may arrive after the keyboard was closed or given to another field; windows
freeze and free the player in any order. Correct if: a text reaches its field, a
password stays out of the history, nobody stays frozen. *Modelled: `Keyboard` and
`PlayerControl`, joined in `TextInput`.*

**What is said and read** (`chatwindow.cpp`, `scrollbar.cpp`, `dialog.cpp`,
`playertags.cpp`, `net/textlabelpool.cpp`). State: the chat's messages under their
bar, the chosen row of a dialog, bubbles and labels over those they hang on, the
list of who talks. Hard: four parsers of one kind of colour tag; long messages cut
in two; players come and go under what hangs over them; a row index that outlives
its dialog. Correct if: the parsers agree, no letter is lost, what is drawn is
current, and the server gets the row that was pointed at. *Modelled: `ChatText`,
`ChatWindow`, `Overhead`, `NameTags`, `TabList`, joined in `Saying`.*

**Pickups, text draws, objects, actors, gang zones, labels** (`net/*pool.cpp`,
`game/textdraw.cpp`). State: tables of slots with a pointer, a flag and a handle of
the game's each, and each pool's own idea of when to test which; the texture slots
of text draws, which outlive the pool. Correct if: what the server has put there is
what the pool holds and the game shows. *Modelled: `Pickups`, `TextDraws`,
`SlotPools`, joined in `EntityPools`.*

**Objects' materials and attachment** (`game/object.cpp`, `net/scriptrpc.cpp`,
`game/hooks.cpp`). State: the textures put over the model's, the list of what to put
back after a drawing, the vehicle ordered. Hard: objects of a model share its
materials, and drawing one changes them for the others. *Modelled: `Objects`.*

**Map icons, checkpoints, removed buildings** (`net/netgame.cpp`, `game/game.cpp`,
`net/netrpc.cpp`). State: handles of the game's markers, made and taken away by
frames after the orders; the list of removals. Correct if: the radar shows what was
ordered and no more, and what is removed does not come back when the game loads it
again. *Modelled: `WorldMarks`.*

**Looks of vehicles** (`game/vehicle.cpp`, `game/CCustomPlateManager.cpp`). State:
the replaced textures and the shadow of each vehicle, the plates ordered and not
drawn yet. Hard: references counted by hand; a plate is drawn frames after it is
ordered, for whoever has the id by then. Correct if: a vehicle wears what was last
ordered for it, and each texture is given back once. *Modelled: `VehicleLook`.*

**Tuning of vehicles** (`game/vehicle.cpp`, hooks). State: handling, suspension,
wheels, headlights and parts of each vehicle. Hard: the lines of the suspension and
the size of the wheels belong to the model, which is changed for the length of a
call of the game and changed back. Correct if: each vehicle shows its own.
*Modelled: `VehicleTuning`.*

**Pictures drawn off screen** (`game/CCustomPlateManager.cpp`,
`game/CRenderTarget.cpp`, `game/snapshothelper.cpp`, `gui/CFontRenderer.cpp`).
State: a shared bitmap for texts, what is made for a picture. Hard: every step may
fail and must give back what the others made. Correct if: a picture shows what was
ordered and leaves nothing. *Modelled: `Offscreen`.*

**Settings** (`CSettings.cpp`, `util/CJavaWrapper.cpp`). State: the values in
memory, the file, the copies components keep. Hard: the file is removed before it
is written, and the system may end the program at any time; four groups of
settings are read, saved, restored and copied each in a way of its own. Correct if:
what was saved is what is there at the next start. *Modelled: `Settings`.*

**Everything else**: the rest of the game adapter (patches of the game's binary,
hooks without a state of their own), the drawing of the interface, start-up and the
Java bridge, file hashes, the server query. Not state machines, or their behaviour
is outside the repository (section 7).

### How they interact

```
 server --RakNet--> CNetGame (game thread) --calls--> CPlayerPool, CVehiclePool, CLocalPlayer
                       |   |                                  |
                       |   +-- Disconnect/FullDisconnect ---> m_iNetworkState <--- voice network thread
                       |                                                              |  bufferedNetwork
                       +-- MutePlayer/UnMutePlayer -- bufferedLocal ---> voice consumer <-+
                       |
                       +-- AddStream ... -- bufferedCommands ---> stream pool worker
                       |
                       +-- create, delete, restart ---> the pools ---> the game's own tables
                       |
 button, orders ---> recorder <--- dial, mute (voice network thread); callback ---> CRingBuffer
 activity --bufferedStrings--> keyboard ---> chat window, dialog ---> the player's control
 activity --settings window--> CSettings ---> settings.ini, the components' copies
 packets ---> stored data ---> CRemotePlayer::Process, every frame ---> peds, keys, aims
 the game's tasks and draw calls ---> hooks ---> CLocalPlayer, vehicles, objects ---> server, models
```

`PROJECT.json` lists the hazards of this code, each at its line, with the
properties that would catch it going wrong.

## 2. The modules

| module | models | composed with |
| --- | --- | --- |
| `FifoChannel` | what users of the queue expect | implemented by `SPSCQueue` |
| `SPSCQueue` | `SingleProducerConsumer`, one action per visible access | refines `FifoChannel` |
| `LocalPlayer` | the methods of `CLocalPlayer`, as operators from record to record | extended by `NetGame` |
| `NetGame` | the session, the pools, the local player | |
| `RemotePlayers` | peds, ped slots, vehicles and pointers of the other players | |
| `VoiceLink` | the voice connection, two threads | |
| `Microphone` | the recorder, its orders, the ring of samples, four threads | |
| `Voice` | the voice chat: connection and microphone | extends both |
| `VoiceThreads` | the voice chat's threads and the queue between them | extends `Voice`, `SPSCQueue` |
| `VoiceStreams` | the voice consumer, its streams and sources | assumes `FifoChannel` of its queues |
| `StreamPool` | the audio stream pool, two threads | assumes `FifoChannel` of its queue |
| `Sound` | what is heard | extends `VoiceStreams`, `StreamPool` |
| `PlayerContext` | the hooks' view, keys and aims | assumes `SlotsApart` of `RemotePlayers` |
| `PlayerSync` | what is told of the local player, and how late | |
| `RemoteSync` | how a remote player's ped follows its packets | |
| `Attachments` | what peds carry | |
| `Boarding` | getting into vehicles and out; the vehicles' switches | |
| `ChatText`, `ChatWindow`, `Overhead`, `NameTags`, `TabList` | colour tags; the chat; bubbles and labels; the list of talkers; tables | |
| `Saying` | what is said and read | extends the five |
| `PlayerSide` | the players | extends `PlayerContext`, `PlayerSync`, `RemoteSync`, `Attachments`, `Boarding`, `Saying` |
| `Pickups`, `TextDraws`, `SlotPools` | the pools of what a game mode shows | |
| `EntityPools` | these pools and the restart that replaces them all | extends the three |
| `Keyboard`, `PlayerControl` | the shared keyboard; who holds the player | |
| `TextInput` | what the person answers with | extends the two |
| `VehicleLook` | textures, shadows and plates of vehicles | |
| `VehicleTuning` | handling, suspension, wheels, lights and parts of vehicles | |
| `Offscreen` | plates' pictures and previews, step by step | |
| `Settings` | settings, their file and their copies | |
| `WorldMarks` | map icons, checkpoints, removed buildings | |
| `Objects` | objects' materials and what they hang on | |
| `ClientSide` | what is shown and answered | extends `EntityPools`, `TextInput`, `VehicleLook`, `VehicleTuning`, `Offscreen`, `Settings`, `WorldMarks`, `Objects` |
| `SPSCQueueProofs`, `NetGameProofs`, `VoiceLinkProofs`, `VoiceStreamsProofs`, `RemotePlayersProofs`, `StreamPoolProofs`, `PlayerSideProofs`, `ClientSideProofs` | the theorems, by the composition they are about | each extends the module of that name (`VoiceLinkProofs`: `Voice`) |

A module that joins others which share no state (`Voice`, `VoiceThreads`, `Sound`, `EntityPools`,
`TextInput`, `Saying`, `PlayerSide`, `ClientSide`) has a variable (`part`, `level`, `heard`,
`inputPart`, `sayPart`, `about`, `side`) for the one a behaviour exercises, so that
the states add up instead of multiplying; some modules do the same with groups of
operations that do not meet (`syncPart`, `remotePart`, `boardPart`, `tuningPart`,
`marksPart`, `objectPart`). Where the parts do meet (the restart, which replaces
every pool) the action is one. Nothing is lost by it: no property speaks of two of
the parts; and every step of such a module is a step of one part that leaves the others
alone, so that what is proved of a part by itself (`SPSCQueue`, `VoiceStreams`,
`StreamPool`, `VoiceLink`) holds of it there.

The specifications leave out data that no property tells apart: samples,
positions, names, colours. What is left is control: every handler with its early
returns and every call it makes that changes the state of the model.

**`SPSCQueue`.** Nodes are numbers; `next`, `readyToRead`, `object` are their
fields and the four pointers keep their names. `WriteLock` is `TestReader`,
`TestReady`, `AllocateNode`, `LinkNode` and `AdvanceWrite`, since the consumer may
act between any two of its accesses; `WriteUnlock` stores the object, the flag and
the pointer, one step each; `ReadLock` is `TestWriter` and `AdvanceRead`;
`ReadUnlock` is `ClearReady` and `StepRead`. A fresh node's flag is arbitrary
(nothing initialises it). Two constants choose the surroundings:
`StoresInOrder` (FALSE: the producer's stores become visible in any order, what
ARM allows for plain stores) and `FreeAfterUnlock` (TRUE: the consumer frees the
payload through the node after `ReadUnlock`, what the voice consumer's early exits
do). `CancelWriteLock`, `CancelReadLock` and `Clear` are not called by the
client's threads.

The refinement mapping to `FifoChannel` takes the objects of the nodes from
`readAheadPointer` to `writePointer` for the queue, and what `ReadLock` has
returned for what was delivered. `VoiceStreams` and `StreamPool` then model a
queue as a sequence.

**`LocalPlayer` and `NetGame`.** The player is one record and each method an
operator, so `Die(p)` says in one line that a death first leaves the spectator
mode and only then marks the player wasted. `NetGame` has one action per packet
and call, the two things `CNetGame::Process` does after the packets
(`ProcessPools`, `Connect`), and the game's own treatment of the ped (`PedKilled`,
`PedGoesOn`). The ghosts `reported` and `answered` remember what was last sent
to, and heard from, the server. `m_bClearedToSpawn` and `m_bSpectateProcessed`
start arbitrary, as the constructor leaves them. `PlayerIds` and `VehicleIds` may
overlap: `CPlayerPool::Delete` compares the spectated id with a player's id even
if a vehicle is spectated, and the model does too.

**`RemotePlayers`.** A player in the pool is a record: state, ped slot, whether
the game really created the ped (`ghost`), the vehicle it sits in, the one it is
about to enter, and the pointer `m_pCurrentVehicle`, which becomes `Freed` when
its vehicle is deleted. `used` is `bUsedPlayerSlots`; `lost` are the slots of
peds nobody points to. A sync packet may name any vehicle, also for a player who is
in another one here: that is how one arrives whom the server has moved from vehicle to
vehicle. The ghost `apart` remembers that the pointer came to name one vehicle while
the ped was in another. `Faults` names what the game or server may do wrong:
`"ghost"` (no ped is created), `"rejoin"` (a player is announced twice).

**`VoiceLink`.** `pc` walks through `CVoiceChatClient::Process`, one action per
read or write of `m_iNetworkState`. The dial is split into its start, its answer
or failure, and the write of the verdict. A peer is the number of its slot of the
ENet host. The game thread's actions are its calls, and `told` remembers that the
user was told the voice chat is off.

**`VoiceStreams`.** Only the consumer touches the streams, so a packet or an order
is one action. `Update` is `CStreamPlayer::Update`, whose OpenAL calls may each
fail: it ends with the source dropped or kept. `free` counts how often a source
stands in `freeSources`, so a source given back twice can be told from one given
back once. `wanted` remembers the last order.

**`StreamPool`.** The heap is its set of addresses: `new` returns any address
that is not live, and `delete` leaves the pointer in the slot, so a stale pointer
may come to name another object, exactly as in the code. The game thread's
`GetStream` and `SetPosition` are two actions, with the worker between them, whatever
commands about the stream are still in the queue; the ghost `hasty` remembers that
one was to fill or empty its slot. `serverHas` are the streams the server believes in.
`Faults` are `"pause"` and `"again"` (the server destroys, moves, or sets the volume
of, what it has not created). The pool's destructor is left out: `pNetGame` is never deleted
(`dialog.cpp` creates it only when it is null).

**`Microphone`.** `bufferedLocal` is the queue of orders; the consumer's reading of
it, the dial's and the mute's writes to the recorder (network thread) and the button
are actions. `EnableInput` is two, the flag and then the order; `DisableInput` is one, since
all that the network thread does between its two writes is to clear the flag as well.
`asked` is what the last order in or out of the queue wants.
Whether the voice chat is `off` changes at any step, which covers every behaviour
of `VoiceLink`. `crashed` is the null dereference of line 543, after which nothing
happens. The ring is the code's arithmetic on two cursors that overflow at
`Cursors`; samples are numbered modulo `Samples`. A chunk recorded while the voice
chat is off is dropped whole (`ChunkDropped`), with what is left in the ring kept for
later; a frame the encoder fails at ends the callback's loop, with the rest kept
too. The ghost `heard` is what the ring was given and has still to give
back, and `due` what the last frame had to be.

**`PlayerContext`.** `stack` holds the hooks in progress, innermost first, with
what each has saved in its locals; hooks nest as the game's calls do (a gun inside
its ped). `view` is what the game takes for its player's aim, zoom, camera modes
and focus, each the number of the player it belongs to. Peds are found by address,
and `Addrs` are given again. Of the keys the jump key is kept, which has a memory
(`ignoreJump`); `owed` remembers the press that is still to be answered.

**`PlayerSync`.** One turn of `CLocalPlayer::Process` is one action: it picks the
packet by what the player is doing, asks the rate shared by all kinds, and lets the
packet go unless it says what the last one of its kind has said less than half a
second ago; then comes the aim. Times are ages in frames, capped where no test tells
older ones apart. `unseen` is for how long what the server was told last has not
been true, which no variable of the code says.

**`RemoteSync`.** `StoreOnFootFullSyncData` and its like store; one action,
`RemoteFrame`, is the turn of `CRemotePlayer::Process` that makes the ped obey, in
the order of the code: away or not, the place, the animation, the action, the
weapon, the shot. Between two turns the server may play an animation on the ped,
create or remove it, and the game may move it or end what it plays. `body` is the
game's ped, with a weapon for each of its slots. The packet's byte is the weapon and
the keys pressed, packed by `WeaponByte` as the sender does and read whole, as
`Packet_PlayerSync` does. A weapon without a model is not given and armed all the same, and
for a number the game has no weapon for it arms whatever slot it finds (`stray`).

**`Attachments`.** A ped's slots are a function; the outfit's tables keep their
names. `objects` counts the game's objects, so one forgotten or deleted twice shows.
Death casts off what is attached and leaves the outfit's memory: `flushed` says which
weapons the outfit takes for worn that are not, and the property excuses those.

**`Boarding`.** The game's tasks are external: a ped may set out, arrive, be thrown
out or be put somewhere at any time. The hooks, the two ways in for passengers, the
server's orders and the switches are actions; `heard` is what the server was told
since the ped was last outside. The parts `"seats"` and `"switches"` share no
variable but the fleet's locks.

**`ChatText`, `ChatWindow`, `Overhead`, `NameTags`, `TabList`.** `ChatText` is four
functions on sequences of symbols and a behaviour that types every text; the parsers
are compared with one definition of what a tag is. `ChatWindow` keeps messages by
number, so order and loss are visible; heights are whole lines. `Overhead` has one
anchor per player and vehicle that is gone, not in the world, there or dead.
`NameTags` keeps of the names over heads only how long each talker was really heard without a break, which the
code's counters approximate. `TabList` numbers rows as the code does and remembers
in which dialog a row was pointed at.

**`Pickups`, `TextDraws`, `SlotPools`.** The game's handles, indexes and entities
are drawn from small sets and come back after they are destroyed. `SlotPools` is
four pools in one module, whose differences, what each tests before it destroys and
what its destructor leaves in the game, are operators. `spoilt` in `TextDraws`
names two things the code does to the texture slots that no bookkeeping survives.

**`Keyboard` and `PlayerControl`.** A text is the field whose keyboard it was typed
on, which is what tells where it may go. A tap is its push and its pop. The
handlers are atomic; the activity's strings come through the queue between any two
of them, and `late` marks those whose keyboard was closed, or whose text was sent,
while they were under way. `PlayerControl` remembers who froze the player last
(`frozenBy`, `lockedBy`), which the code does not.

**`VehicleLook`.** The methods of `CVehicle` are operators from a look and the
counts of references to the same. `m_Plates` is the list `Process` empties once a
frame. `lost` counts the references nobody holds: the texture of a shadow replaced
by another (`vehicle.cpp:1185`), and a plate drawn for a vehicle that is gone.

**`VehicleTuning`.** All vehicles are of one model, which is the interesting case.
`model` is what the game shares between them; `hook` is the call of the game that
is going on, so that the client's changes before and after it are two actions.
`sight` is what the game draws from. `tunedTo` remembers the orders.

**`Offscreen`.** `drawing` walks through a plate or a preview, one action for each
group of calls between which something is held; each may fail (`MaxFailures`). Any
kind of plate is a record of which font, sprite and texts it wants, and whether the
texts are in colour: the client is gone (`"crashed"`) when the image of such a text
cannot be read.

**`Settings`.** Settings that the code treats alike are one key; what is done with
each (read, saved, restored, mirrored) is a set of keys, and the sets are where the
code's groups differ. A save is three steps with a kill between any two. `chosen`
and `kept` are what the player has set and saved.

**`WorldMarks`, `Objects`.** The game's markers, race checkpoints and objects are
tables of handles. A checkpoint's marker is made by the frame after the order, so
order and frame are separate actions. `paint` in `Objects` is what the materials of
a model show; a drawing is its begin, where the object's textures go in, and its end.

## 3. The runs

Every run but the violations, which stop at their trace, searches its instance
completely.

| run | instance | what it shows |
| --- | --- | --- |
| `spsc_reordered` | 3 to 4 nodes, 3 objects, stores in any order | *violation*: an object is read before its store has arrived |
| `spsc_late_free` | 3 to 4 nodes, 5 objects, late free | *violation*: the payload of a later object is freed |
| `session` | one player and one vehicle that share an id, a voice server | any order of packets, calls, ticks and deaths, through restarts and lost connections |
| `remote_players` | 2 players, 2 vehicles, 2 ped slots, `"rejoin"` | slots are neither shared nor lost, at the limit and with players announced twice; who sits where, and the vehicle pointers, with players moved from vehicle to vehicle |
| `remote_players_hop` | 1 player | *violation*: a driver moved to another vehicle, which is then deleted |
| `voice_threads` | 3 peers, 4 orders; a ring of 11 samples, chunks of 4, frames of 3, cursors modulo 32; a queue of 3 nodes at first, 5 at most, 5 objects, payloads freed late | two threads write the network state in every order; four share the recorder; the ring goes through the overflow of its cursors, through failures of the encoder and chunks dropped. The queue implements `FifoChannel`: every object arrives, once and in order, whatever a fresh flag holds; no node is in use on both sides, and the ring stays one; the late free harms only payloads |
| `voice_told_off` | 2 peers | *violation*: a disconnect during a dial is lost |
| `voice_no_microphone` | module `Voice`, smaller | *violation*: the first dial without a microphone crashes |
| `sound` | 3 players, cap 2, 2 sources, 1 packet and 2 orders at most; 2 slots, 2 addresses, 3 commands, pauses | sources, the cap, mutes; no dangling use but a hasty move's, no leak, the pool follows the server, pauses are silent and end |
| `stream_pool_moves` | module `StreamPool`, no pauses | *violation*: a stream that was found is deleted before it is moved |
| `player_context` | module `PlayerSide`. 2 remote players, one sends keys, 2 addresses, an actor; 2 looks of the local player; one remote player's ped, 2 animations, the fist, a weapon and one without a model, no key or one; 3 weapons to wear (one without a model), 2 slots for them and 1 for the server; 2 vehicles to get into, one of them with other drivers and all its switches; texts of 6 symbols, a chat of 6 messages, 2 talkers and one row to list them, tables of 2 columns and 2 rows | everybody his own view and keys, in every nesting of hooks; the server is told in time what the player does, and of the seats he takes; a ped follows its packets; what is worn is what is carried; what is said is what is read |
| `client_side` | 3 pickups and indexes; 2 text draws and 1 texture slot; 2 ids and 3 entities for each other pool; a chat and a password field, 3 lines of history, 2 strings; 1 vehicle with 3 texture slots, 2 plates; 2 vehicles of one model with one value besides its own; plates of 4 kinds and one call that fails; one value besides the default for every setting; 1 icon, 3 markers, 2 places, 2 buildings and 2 removals; 2 objects of one model under 3 ids, 2 materials, 1 texture, 2 vehicles under one id | the pools, the texture slots, the keyboard, the player's control; the looks and tuning of vehicles; pictures; settings; icons, checkpoints, buildings; objects' materials and vehicles |

### Why the bounds are enough

* `SPSCQueue`: three nodes are the least the constructor's assertion allows
  (the code has eight), so the ring is full after two writes; five nodes let it grow twice,
  once for each of `WriteLock`'s two reasons, and five objects let the writer go
  round the grown ring. `MaxNodes` and `MaxWrites` are the only bounds; a producer
  at `MaxNodes` waits, which the code does not, and the order of delivery cannot be
  helped by it.
* `NetGame`: players do not interact, except through the one spectator; one
  player and one vehicle with one id is where the mix-up of ids can happen.
  No bound: the state is finite.
* `RemotePlayers`: slots 2 and 3 (0 and 1 are the local player's). A player
  announced twice leaves its first ped behind, so that two players can need more
  than the two slots; two players in one vehicle, and one player with two, are
  what the vehicle properties are about.
* `Voice`: three peers let two connections be lost track of and leave room
  for a third. A host that is full is reached. Four orders: a pair that cancels
  out, behind a pair that does. The ring is as tight as the assumption
  `2 * Chunk + Frame <= BufferSize` allows (11 = 2 * 4 + 3; the code's sizes satisfy it by
  far), and with less the property fails: the ring would empty itself too late.
  `Cursors` is not a multiple of `BufferSize`, as 2^32 is none of 100000. Twelve
  numbers tell the samples of a full ring apart. The overflow that a full ring does
  not survive is reached too; nothing more is recorded after it.
* `VoiceStreams`: one player more than the cap forces evictions and refusals; as
  many sources as the cap is what `RoomForAll` is about; two orders make "the
  last one wins" mean something.
* `StreamPool`: two addresses for two slots force reuse at every re-creation;
  three commands hold an add, a delete and a re-add of one stream, or a command
  about each stream and one about all.
* `PlayerContext`: two peds for two addresses make every re-creation a reuse; a
  third kind of ped is nobody's. Keys of one player suffice: each number has its own.
* `PlayerSync`, `RemoteSync`: a rate is one frame, a repeat is held for two; the
  ratio of the code's (a repeat waits for many sends) changes how long a wait is,
  not who waits for whom. One weapon of each sort (the fist, one with a model, one
  without) and one key tell the cases of the weapon's byte apart. Of the kinds a
  player can be, the pairs foot and driver, driver and passenger are where one kind's
  clock and data meet another's.
* `Attachments`: three weapons for two slots of the outfit, so one finds no room.
* `Boarding`: two vehicles, so the announced one and the taken one may differ.
* `ChatText`: every text of six symbols holds two tags of one digit and one cut
  short; `MaxLine` of four cuts a text in the middle of a tag. A colour of eight
  digits is one of two.
* `ChatWindow`: six messages for a box of two lines and a memory of four.
* `NameTags`: more talkers than rows; a break of one frame, and the limit of a
  quarter of an hour as four frames.
* `EntityPools`: as many indexes as pickups, one entity more than ids, one
  text draw more than texture slots: reuse, re-creation in a slot that is full, and the
  want of a slot all happen. 15 frames of rest become 2.
* `TextInput`: a secret and a public field; a history of three has a first,
  a middle and a last line; two strings can be for two fields.
* `VehicleLook`: as many slots as names (the code has 32 for 5), so that a slot not given back
  would be missed at once; two plates in the list make "the last one wins" mean
  something. One order changes the windows, the body or the plate besides the shadow; orders that
  change several at once reach nothing further, as the textures have names of their own.
  `MaxLost` caps the leaks.
* `VehicleTuning`: two vehicles of one model, since the model is what they share;
  one other value for each thing that can be tuned.
* `Offscreen`: a plate with a region, one without, one in colour, and one of a plain sprite; one
  whose sprite is missing goes the way of an unknown kind; two orders waiting, one failing call anywhere.
* `WorldMarks`: as many markers as an icon and two checkpoints need, so handles come
  back; an order for one model, and one for all (-1), near two buildings.
* `Objects`: two objects of one model drawn in turn, and a third id, 0, which the
  drawing never finds; `MaxOrphans` caps the leaks.

### The properties

*Queue.* `RingIntact` (no node is in use on both sides, and the ring stays one that
the destructor frees whole), and `ImplementsChannel`, which says by itself that
everything arrives once and in order. `DeliveredInOrder` and `FreedAsReceived` are
what the two violations refute.

*Session.* `SpectatedPlayerInPool` (`CPlayerPool::Process` indexes the pool with
`m_SpectateID` without a look), `AliveAsReported` (a death or spawn is never
reported twice, nor missed), `SessionsApart` (no session is dialled over, and none
starts with objects of another), `ClearedMeansAnswered` (a field the constructor
leaves to the heap has its meaning by the time it is read), `NobodyStuck` (a wasted
player comes back, and a client that waits dials).

*Remote players.* `SlotsHeld` (no slot leaks, under every fault), `SlotsApart`
(no slot is shared), `SeatedInPool`, `DriversOwnVehicle` (the vehicle `Process` reads
about through `m_pCurrentVehicle` is the ped's own or none, but for one who was moved from
vehicle to vehicle; what becomes of him is `DriverVehicleLive`, a violation).

*Voice connection and microphone.* `LightsTrue` (the green light means there is a
connection, the yellow one that somebody dials), `SettledStaysOff` (an action
property: once the network thread has seen the chat off, it stays off until the user
asks), `MicFollowsOrders` (with no order under way the recorder runs only if
recording was what was asked last), `FramesAsSpoken` (a frame is a whole piece of
what the ring was given, following the one before unless the ring has emptied itself, in
spite of failures of the encoder, but for a ring so full that the overflow of its cursors
breaks it),
`VoiceSettles` (a chat that waits for its server is dialled again; a microphone
switched off falls silent).

*Voice streams.* `SourcesConserved`, `RoomForAll` (the count of streams is exact,
the cap is kept, and a stream that wants a source finds one), `MutesFollowOrders`,
`OrdersCarriedOut`.

*Stream pool.* `PointersLive` (neither thread uses a stream that is gone, but for a
move made while the worker has still to fill or empty the slot, which
`FoundStreamIsThere` shows to go wrong),
`NothingLeaks`, `SilentInPause`, `StreamsSettle` (streams come back after a pause,
and what the server destroys goes).

*Players.* `ViewFollowsPed` (a ped is processed with its own view, and the local
player's comes back); `KeysTrue` (everybody obeys his own keys, and a held key makes
one jump); `PlayerTold` (what the server knows of the player is not older than the
rates and a repeat's delay, and a shot has a fresh aim); `RemoteAsSent` (an action
property: after each frame the ped stands, moves and holds what its last packet
says, where that names a weapon with a model; bullets take the health they should, no
marker is left behind; while the player presses a key the packet names no weapon, see
section 6); `WornAsCarried`
(slots, objects and the weapons on the back agree through death, re-creation, the
setting and the server's own objects); `BoardedAsTold` (where the player sits by his
own doing he was announced, in that seat of that vehicle; doors and switches are as
ordered).

*What is said.* `SaidIsShown` is six things: the parsers of colour tags agree
(`TagsAgree`), a cut message loses no letter (`NothingCutOff`), the chat is in
order under its bar (`ChatInOrder`), bubbles and labels are current (`OverheadTrue`),
the list of talkers is right (`TalkersListed`), a table answers for the row that was
pointed at, in columns that line up (`AnswersRight`, `RowsAligned`).

*What is shown.* `PoolsAsShown` (every pool holds, and the game has, exactly what
the server wants), `TexturesOwned` (no texture slot is lost, and none has two owners
until a sprite is edited), `PickupsTold` (an action property: the server is told of
the pickup walked into and no other). `CarsAsOrdered` (a vehicle wears its last
textures, which are given back once; it rides on its own suspension and wheels
although the model is shared, and shows the parts ordered). `PicturesTrue` (a plate
or preview shows what was asked for and leaves nothing behind, whichever calls fail, and
only a text in colour whose image cannot be read ends the client, see section 6).
`WorldAsOrdered`
(icons, checkpoints and buildings as the server placed and removed them; objects'
textures counted and the models' own put back; objects on their vehicles).

*What is answered and kept.* `TextToItsField`, `NotStuck`, `SettingsKept` (what was
saved is loaded, what the window shows is in force, and the program can start).

Several of these are conjunctions of named parts, one for each side of a question;
each part is stated, with a comment, in its module.

Each has a mutant in `PROJECT.json`, a plausible bug in the code that breaks it.

### What the faults break

Some properties hold only because the server or the game behaves. Adding a fault
to the cfg shows what depends on it:

| fault | breaks | what happens |
| --- | --- | --- |
| `"ghost"` in `RemotePlayers` | `SlotsApart` | `game.cpp:74` hands out a slot it does not mark; the next ped gets the same, and removing one frees it for a third |
| `"again"` in `StreamPool` | `PointersLive`, `NothingLeaks` | a second delete frees whatever now lives at the stale address; a volume for a stream that is not there leaks its float |

## 4. Fairness and deadlock

Fairness is weak, on the loop of a thread that never waits for another, with
two exceptions noted here.

* `SPSCQueue`: both threads poll. `WF(Producer)`, `WF(QueueConsumer)`. In
  `VoiceThreads` and `Sound` the fairness of each part is asked of it only in the
  behaviours that are about it.
* `NetGame`: the game draws frames, so its ticks happen: `WF(ProcessPools)`,
  `WF(Connect)`; the clock advances, `WF(TimePasses)`; and the game deals with a
  dead ped, `WF(PedGoesOn)`. Nothing is assumed of the server or of the network:
  no packet and no call need ever come.
* `Voice`: the network thread sleeps 5 ms a turn and waits at most five
  seconds in a dial, `WF(Process)`; the consumer's loop waits for nobody,
  `WF(Consumer)`. An answer is never assumed.
* `VoiceStreams`: `WF(Consume)`, and `SF(PacketsDone)`: the consumer looks at the
  orders only when it finds no packet, and packets of 20 ms and more of speech
  come far slower than it takes them, so it finds the queue empty again and again.
  Without that, `OrdersCarriedOut` is false, which is the hazard it is listed for.
* `StreamPool`: the worker loops for ever, `WF(Worker)`. Nothing is assumed of
  pauses: a game that stays paused keeps its streams.
* `RemotePlayers`, `PlayerSide` and `ClientSide` have safety properties only
  and no fairness. (`PlayerTold` bounds delays by counting frames, which needs none.)

`CHECK_DEADLOCK FALSE` appears where the system really may stop: in `SPSCQueue`
and `VoiceThreads` the bounded writes are all delivered; in `Voice` a client without a microphone
crashes; in `NetGame` and `RemotePlayers` the client
may have been closed out of its session for good (after `ID_DISCONNECTION_NOTIFICATION`
it tells the player to join again and does nothing more; a refused client waits
likewise). The other runs check for deadlock.

## 5. The proofs

TLAPS checks every theorem for every value of the constants, from the assumptions
named in the modules (`...Assumption`) and from the conditions a theorem names
itself, and from nothing else. All are invariance proofs: an inductive invariant
holds initially, every step keeps it, and it implies the property; the temporal step
is the last line. Steps are split by action. Every safety property of the passing
runs is a theorem.

**`SPSCQueueProofs`.** For any numbers of nodes and writes, given `StoresInOrder`
(without it the run `spsc_reordered` shows the delivery violated; the late free
may happen). The model finds the ring by walking `next`; the proof says instead that
there is a function `ring` from places to nodes that follows the links, names each
allocated node once and starts at the read pointer (`IInv`, with `IsRing`). `Places`
says where on it each cursor stands, `Contents` what the published nodes hold,
`Splice` what is known half-way through an insertion. Each action is then arithmetic
on places: reading rotates the function, inserting a node shifts its upper
part. That the walk follows the function (`Circled`) is an induction over the numbers of
steps. Theorems: `RingStaysIntact`, `ReadsInOrder`, and `ImplementsChannelSafely`: every
step of the ring is a step of `FifoChannel` or a stutter.

**`NetGameProofs`.** `Inv == TypeOK /\ Sound /\ Link`. `Sound(p, ps)` says of a
local player *p* and a pool *ps* what `SpectatedPlayerInPool` and
`AliveAsReported` say of the current ones; one lemma per method shows that
it keeps `Sound`, which is what makes the handlers, compositions of methods, short
to prove. It is stronger than the properties in one point: a spectator's player id
is an id of a player even while not spectating. `Link` relates the game state to
RakNet's link and empties the pools when it is down. Theorems: `TypeCorrect`,
`SpectatedInPool`, `ReportsRight`, `NoOverlap`, and `ClearedIsAnswered`, whose
`Agrees` is kept by every method in the same way: the uninitialised
`m_bClearedToSpawn` is either still unread or what the last class selection set.

**`VoiceLinkProofs`.** `ConnectedHasPeer` and `ConnectingIsDialling` are inductive
with `Dialling`: from the start of a dial until its verdict nobody can write
CONNECTED, and once answered the peer is one the host still holds. The game thread
can write over the state at any step; the proof shows that it never writes a state
that needs a peer. `OffIsFinal` proves the action property `SettledStaysOff`
directly from the actions. The module also proves two properties of the composed
`VoiceSpec`. `MicOrdersKept`: `LastOrder`, which says that the last order under way is
what was asked last, is what taking the last order needs. `FramesAreWhole`: the cursors
are reduced modulo `Cursors`, and places modulo `BufferSize`, which need not divide
it; `CursorsApart` says that the cursors are never further apart than the ring is long
and `SamplesInRing` what each place between them holds, which is `heard`, and no longer
what was spoken in one piece, as chunks are dropped. The theorem assumes no more of
the sizes than that they are positive, that two chunks and a frame fit in the ring, and that
the ring is no longer than the cursors' range.

**`VoiceStreamsProofs`.** The audio state and the mutes do not touch each other,
so there are two invariants. `Audio` is `Lending` (the types and
`SourcesConserved`) and `Counting` (`streams` is finite, and `CapKept`): evicting
a set of streams gives back the sources they held, once each. `Mutes` adds
`LastOrder` to `MutesFollowOrders`: the last order under way for a player is what
is wanted for that player; without it the invariant is not inductive, as taking
an order must establish `muted = wanted`. `SourceForAll` is the pigeonhole
principle: if every source were lent, the streams would be at least as many as
the sources, plus the one without, which the cap forbids.

**`RemotePlayersProofs`.** Each of two dozen actions is first shown to be one of
four kinds with respect to slots (`SlotStep`: keep, drop, take, lose), and the
slot theorems are proved of the kinds alone. `Held` is `SlotsHeld` said with
quantifiers and needs no assumption about faults; `Own` is `SlotsApart` in the
same form, under `"ghost" \notin Faults`. `Fitting` says of each player that a
seated ped is seated in a vehicle that exists and, unless the two are `apart`, that
the pointer names the vehicle the ped sits in or is about to enter, or none: so
deleting that vehicle also unseats the driver. It needs no assumption about faults.

**`StreamPoolProofs`.** Every action is shown to be one of six kinds
(`StreamStep`: create, ask, rest, adjust, and the two handlers that place and
delete). `Kept` has four parts. `Owned` (`SlotsLive`, `StreamsHeld`, and every
add under way brings a live stream) is ordinary ownership, but deleting needs to
know that the stale pointer of an empty slot is never deleted; that is `Chained`,
which says that when a delete is carried out its stream will be in its slot, and
which rests on `ServerStreamsPresent`, on a server that destroys only what it has
created. `Moved` and `Hushed` are added for the moves and the silence in pauses.
`StreamPoolDoesNotLeak` counts: the floats allocated are the volume commands that wait
(`Waiting`), which no step changes but the one that queues such a command and the one that
carries it out. `Moved` says of a stream being moved without haste that no waiting
command fills or empties its slot, so that the worker cannot delete it meanwhile.
Assumption: `"again" \notin Faults` for all but `TypeCorrect`.

**`PlayerSideProofs`.** One invariant per part of the players' side.

* *Hooks.* `KeysInv` says that the records name each player's ped
  and no two peds share an address (`Records`), that only a gun is ever nested and
  only in its own ped's hook (`Nested`), and whose number is current (`Current`). It
  needs no bound on the stack: that at most two hooks nest is part of the invariant.
  `ViewInv` adds `Saved`, what the outermost hook keeps of the local view. `JumpInv`
  adds `Ignored`: a key still reported after its jump is ignored until it is let go.
* *What the server is told.* `TellInv` ties the age of the server's picture to the ages
  of what sends the next packet (`Waits`): a player whose packet is like the last one of
  its kind waits for the refresh, any other for the rate; `ToldIsStored` says that the last
  packet is the one stored of its kind. `AimWaits` says the same of a shot's aim,
  where frames are no longer than the rate; of longer ones the property says nothing.
* *How a ped follows.* `RemoteInv`: the map has the remembered marker and no other, no
  ped is left without a player, and an animation a packet began is one that the flag
  will end (`WillEnd`), without which the step that ends animations proves nothing.
  Whatever the byte says, the weapon given is in its own slot of the ped (`WeaponsKept`),
  so that arming it brings it to hand.
  `FollowsItsPackets` is an action property.
* *Boarding.* `BoardInv`: each errand fits the seat (`Errands`), its clock runs since it was
  announced (`Clocks`), who has arrived had an errand (`Arrivals`), what he does was
  announced (`Announced`), the doors and switches are as ordered (`Obeyed`).
* *What is worn.* `CarryInv`: each taken slot of the outfit is one weapon's and that
  weapon hangs there, said of the whole state (`Wears`); a fresh outfit is enabled, parsed
  and uses what is on the back; the objects the game holds are as many as
  the pairs of a ped and a slot in which something hangs. The code's loops over weapons,
  slots and peds are folds over sets, unrolled by `FoldExists`.
* *What is said.* `SayInv` has a part for the chat (`WindowInv`: its list is the newest
  messages in order, as many as the bar can reach), the bubbles (`OverheadInv`), the
  talkers (`TagsInv`: with `TalkersListed`, that who is no longer heard has no count) and
  the tables (`TabInv`: an answer is what the window it closed shows, and the row it is
  about is one of the table's unless nobody has pointed at one). What the parsers of colour
  tags make of a text is no invariant but holds of every text: each is a fold with a
  step of its own, which a lemma unrolls into its values after each symbol (`SkimRuns`,
  `DrawRuns`, `ReadRuns`, `LineRuns`), and two parsers are compared by showing that they
  stay level: the one that strips and the one that draws by equality of what is left
  (`StrippedIsDrawn`), those that draw lines and the chat's by `Abreast`, under the
  condition that all braces are colours, and the lines by `SameLines`.

**`ClientSideProofs`.** Likewise.

* *Pools.* `PickupsInv` needs that the count is never below the pickups
  there are, which is why a full pool turns none away wrongly, and why `Destroy` at
  zero is safe. `TextDrawsInv` is `TexturesOwned` with the types; the parts of it are
  restated with explicit arguments (`NoneLost`, `OneEach`) so that each operation
  shows them of the new values. `ToldOfTheRightOne` is an action property, from the
  invariant of the state before.
* *Keyboard and control.* `KeyboardInv` adds to `TextToItsField` that the hidden flag is
  that of the field whose keyboard is open, which is what keeps passwords out of the
  history. `NotStuck` is inductive by itself.
* *Settings.* `SettingsInv`: between saves the file holds what was to be kept, and while
  the program runs so does its memory, also in the middle of a save, at each step of which
  the file is known to be empty or gone (`SavesInOrder`); the components use what their
  settings say (`InForce`); the program can start (`CanStart`).
* *Marks and buildings.* `MarksInv` says whose each of the game's handles is
  (`HandlesApart`) and that each mark shows what is wanted; `RemovalsInv` that a building
  is gone just when some removal in force names it.
* *Objects.* `ObjectsInv` counts a texture's references as pairs of an
  object and a material (`RefsBalanced`); entities, and the vehicles objects
  ride on, belong to one object each; and while an object is drawn the model's own
  textures are kept aside (`DrawingSound`).
* *Pictures.* `PicturesInv`, by the step of the drawing: whose texts the two fonts hold
  (`TextsOfPlate`), whose picture is in the target (`ResultOfPlate`), what of the
  camera and the model was borrowed (`BorrowedForShot`); and that a lost client was
  lost to a plate in colour (`LostToColour`).
* *Tuning.* `TunedInv`: the shared model has its own values, or those of the one
  vehicle at hand, at each of the places where a hook can be (`HookTrue`: at rest, in a
  collision, while drawing, between the two halves of a beam); what a vehicle keeps is
  what was ordered (`CarTrue`).
* *Looks.* `LookInv`: a vehicle has one slot for each name it replaces, and there is room for
  all names by the pigeonhole principle, given that the windows' textures and two
  more fit (`Cardinality(Toners) + 2 <= MaxReplaced`; the code has three windows and
  32 slots); a texture's
  references are the pairs of a vehicle and a place that shows it, and what an operation is
  known to lose (`Accounts`); a vehicle wears the plate wanted, or the last plate under
  way for it is that one (`Dressed`). A frame carries out the whole list of plates: a
  fold, unrolled by `DrawnInOrder`.

*Folds.* The library's induction theorems take an operator, which no installed prover can
instantiate. Where a module folds over a finite set or a list, its proofs use two
things instead: that a well-founded relation has a minimal element (`WFMin`, which takes
sets), here over the subsets of a finite set (`Subsets`) or over the naturals; and that
the function which the community modules' fold chooses exists (`FoldByExists`), from which its
equations follow. Over a sequence that function's rows are the sets of the first places
(`StepsExist`).

### What is only model-checked

Liveness (`NobodyStuck`, `VoiceSettles`, `OrdersCarriedOut`, `StreamsSettle`), and of the
refinement of `FifoChannel` its fairness: temporal proofs under fairness need ENABLED, which
the prover lacks. The violations are traces.


## 6. Disagreements found

1. **`WriteUnlock` publishes with plain stores** (`SingleProducerConsumer.h:172`).
   The object, `readyToRead` and `writePointer` are stored in program order with
   no barrier; on ARM they may be seen in another, and a fresh node's flag is
   garbage. `ReadLock`, documented (line 56) to return what was "previously written
   to", then returns what was not yet. Run `spsc_reordered`.
2. **The payload is read after `ReadUnlock`** (`CVoiceChatClient.cpp:352` and
   `359`), after which the pointer "is no longer valid, and should no longer be
   read" (`SingleProducerConsumer.h:64`). The producer may have reused the node:
   the packet freed is a later one, and the earlier one is lost. Run
   `spsc_late_free`; `voice_threads` shows that the damage stops there.
3. **A full disconnect during a dial is lost** (`CVoiceChatClient.cpp:563`). The
   verdict overwrites it and the user, told that the voice chat is off (line 311),
   is connected. Run `voice_told_off`; `SettledStaysOff` shows that this is the only
   window.
4. **No microphone, no program** (`CVoiceChatClient.cpp:543`). The constructor asks
   the person to allow the microphone and goes on without one (line 156); the first
   dial evaluates `m_pPlayer->recorderRecord` before `m_bCouldRecord` and reads
   through the null pointer. The three other users look first. Run
   `voice_no_microphone`.
5. **A driver moved from vehicle to vehicle leaves a freed pointer**
   (`remoteplayer.cpp:128`). `ScrPutPlayerInVehicle` puts a player straight from one
   into another; here only `m_pCurrentVehicle` follows his packets. When that vehicle is
   deleted the ped still sits in the first, and the test whether the vehicle is there
   reads its number through the freed pointer. Run `remote_players_hop`;
   `DriversOwnVehicle` shows that nothing else leads there.
6. **A stream that was found may be gone when it is moved** (`netgame.cpp:790`).
   The game thread takes the pointer with no lock and no look at the slot's state; a
   worker with a delete or an add of that slot still in its queue deletes the stream
   between the test and the move. Run `stream_pool_moves`; `PointersLive` shows that
   other commands do no harm.
Three more come from the repository's own words, and have no run of their own; the
properties name where they begin and say nothing of what follows:

* *A full ring does not always empty itself* (`CRingBuffer.h:24`), though the comment
  there says "Buffer autoclear on overflow". The test compares sums that each may
  overflow; when one does and the other does not, new samples are written over unread
  ones. It takes a ring without room for a chunk just as the cursors reach 2^32
  (`overrun` in `Microphone`).
* *Keys change the weapon* (`netgame.cpp:1274`). A packet is to bring the weapon
  (`remoteplayer.cpp:100`), and the sender packs two bits of keys over it
  (`localplayer.cpp:806`); the reader of the packet on foot does not mask them, as the
  reader of the packet in a vehicle does (line 1379). A ped whose player presses a key
  puts his weapon away, unless the server clears the bits (`InHand` in `RemoteSync`
  says what a number with a key in it does).
* *A text in colour without an image* (`util1.cpp:2065`).
  `GetRWRasterFromBitmapPalette` writes its colour into the image before it tests
  whether there is one (line 2076). Police, taxi and government plates pass colours;
  their callers allow for a null (`LostToColour` in `Offscreen`).

Not counted as disagreements, because nothing in the repository says otherwise,
but worth knowing:

* After a lost session the voice chat stays off until `/vconnect`, as the branch
  that would redial (`CVoiceChatClient.cpp:534`) is behind a test that state never
  passes. The host is created for ten peers under the comment "only allow 1
  outgoing connection" (`CENetClient.cpp:55`), and a dial over a live connection
  leaves that in the host.
* A microphone can run with `m_bRecording` clear, out of reach of the 30 seconds:
  an order that is in the queue when a dial or a mute clears the flag is carried
  out after it. `m_bClearInputBuffer` is cleared before the turn that would read
  it (lines 523, 602), so frames recorded before a pause are sent after it. A
  recorder whose set-up failed half-way is leaked: `opensl_io2.cpp:273` destroys it
  only if its record interface was obtained.
* A buffer of a voice stream is lost to it when `alBufferData` fails or the
  source is dropped (`CStreamPlayer.cpp:245`); after 16 the stream is silent for
  good. A player who stops talking keeps the source (line 176). Three threads share
  OpenAL's error state (`CVoiceChatClient.cpp:100`): a failure of one drops
  another's source.
* A pause switches streams back on that the server had switched off
  (`streampool.cpp:207`); stream 0 can never be moved (line 73); the player's own
  stream is played and stopped by two threads with no lock (line 120).
* `m_bIsActive` survives a restart of the game mode (`netgame.cpp:987`), so the
  client goes on sending in the class selection. A restart deletes every vehicle
  and keeps the players.
* A gun used inside its ped's processing leaves a remote player's aim in the
  camera until the camera next looks (`muddled` in `PlayerContext`).
* What was typed into one dialog is still there for the next (`dialog.cpp:28`); the
  back key closes the keyboard on the activity's thread, with no lock
  (`CJavaWrapper.cpp:303`). A restart during a selection of text draws leaves the
  player frozen (`cut` in `PlayerControl`).
* A text draw that is edited shares its texture slot with the next sprite
  (`textdraw.cpp:217`); a preview with no slot free is stored at element -1
  (line 290).
* The texture of a shadow is lost when another replaces it (`vehicle.cpp:1185`),
  as is that of a plate whose vehicle is gone by the frame it is drawn in. A new
  vehicle keeps clear of its predecessor's plate only because it gets one of its own
  behind it; were the picture of that one missing, it would wear the other. Where a
  font is missing, the list of plates is never emptied (`CCustomPlateManager.cpp:753`).
* *What is told.* A button pressed on foot starts a branch of the turn that sends no
  packet and restarts the rate, so it postpones the packet that tells it; the button a
  passenger presses is told with the next repeat. Weapons are
  sent unreliably and never again, and the ammunition of the one in hand only after
  it is put away. A driver who tows a trailer the pool does not have sends nothing. A
  vehicle's death is never reported, as the calls are commented out.
* *What is obeyed.* `dwTime - m_dwUnkTime` is unsigned, so no packet is too old
  (`remoteplayer.cpp:847`). A driver whose vehicle the client lacks keeps his unread
  packet and his idle state. A shotgun's pellets each take the weapon's full health
  whatever the distance. The map's marker of a player who spawns stays until the next
  packet of markers.
* *Boarding.* The result of `NotifyEnterVehicle` is ignored (`hooks.cpp:545`): who
  sets out for a locked vehicle walks on unannounced, and sits in it if the game lets
  him. A passenger gets in by the held button through locked doors, and while he is
  seated already. The server's order to sit where somebody drives is dropped without
  a word. A parameter never set (255) locks the doors, starts the engine and closes
  the lids.
* *Attachments.* Death takes the weapons off the back and the outfit goes on
  counting them as worn, so they come back only when the outfit next changes. The
  slot of the server's objects is not checked (`scriptrpc.cpp:1451`).
* *Text.* The chat draws a colour of eight digits as letters; dialogs and labels
  take it for one. A tag that is never closed takes their reader past the end of the
  text. Commands are looked for anywhere in a line (`strstr`).
* *Over heads.* A bubble outlives its time while its player cannot be drawn, and may
  be drawn once over the next player with that number. The talkers' count runs on
  while its player is out of sight: one seen talking again after fifteen minutes is
  not listed until he has been silent under his tag. A new bubble after an old one
  has ended loses the old one's buffer.
* *Tables.* `m_iSelectedItem` is initialised by nobody and reset by no dialog; rows
  of an empty dialog are the previous dialog's. A double click in a table with
  headers answers one row further than a button does.
* *Tuning.* A vehicle put back to its default handling keeps its own wheel size over
  the model's lines; alignment and offset, once set, cannot be ordered back to zero;
  `m_fWheelAlignment` is read uninitialised (`hooks.cpp:2087`); the test of the scale
  (`>= 2 || <= 7`) is always true; the packet that damages a vehicle without a flat
  tyre mends everything else; green is passed for blue in the shadow's colour
  (`netgame.cpp:546`).
* *Pictures.* A preview whose raster cannot be made leaves its ped or vehicle in the
  world, and a bitmap whose image or raster cannot be made leaves the game's PNG reader
  reading from memory (`util1.cpp:2126-2139`).
* *Settings.* A save removes the file before it writes the new one, and a client
  without a file ends itself at every later start (`CSettings.cpp:195`). Seven
  settings are read and never written; restoring the defaults tells no component;
  a name with a square bracket is not read back. `ScrSetPlayerName` changes the local
  name also when the server refuses the change.
* *Objects.* A material put over another loses a reference. Object 0 never shows its
  materials (`objectpool.cpp:63`), and the colour of a material is stored by the
  order's index instead of the slot (`scriptrpc.cpp:1030`), which nobody sees, as
  colours are not drawn. The address called as `pushCurrentTXD` is that of
  `setCurrentTXD` (lines 1462 and 1463). Attaching to a player uses the ped of one
  who may have none (line 1128).
* *Map.* A race checkpoint taken away before a frame has marked it stays until the
  next is set (`game.cpp:305`); setting one brings the other checkpoint back
  (`netrpc.cpp:407`). Icons and checkpoints survive a restart. Removals fill an array
  of 1200 that nobody checks (`netrpc.cpp:1050`), and one for all models is not
  applied to buildings that are loaded later.
* *The server's custom packets.* Fuel, mileage and hunger fall through to the next
  case (`netgame.cpp:858`), for want of a `break`.

## 7. What is not modelled

* Inside modelled components: RC mode, trailers, the smooth movement between
  packets, names, scores and colours; weather and similar one-assignment settings;
  the commands a line of the chat may be; the panel beside the speed; the encoder and
  the queue of frames; the OpenAL buffers of a stream and the recorder's set-up; the
  player's own stream (`PlayIndividualStream`), which two threads change with no order
  at all; the touches that scan the text draws from another thread; dropped weapons
  and the attachment of labels, which nothing reaches; dialogs without rows. Of a weapon's
  number only the six bits a sender can set are tried; what the game does past the end
  of a ped's slots is not. What the tags over heads look like (their bars and icons are
  placed by constants) is left out.
* Of the settings: that switching the figures of health and armour on
  (`setNativeHpArmourText`) gives those that have no colour, place or size one; these
  change the memory as the window of the HUD does, and are saved like it. The password
  is saved and read like the settings that `font` stands for, and nothing changes it.
* The rest of the game adapter (`game/hooks.cpp`, `util1.cpp`, `patches.cpp`,
  `scripting.cpp` and the like): calls into a binary that is not in the repository. What the
  modelled code needs of it is modelled as external: the ped's life and death,
  getting in and out of vehicles, whether a ped is created, the game's handles. The
  hooks that keep state of the client's own are modelled where that state is.
* The drawing of the interface, start-up, hashes, generated tables, the server query:
  pure input and output.
* RakNet, ENet, OpenAL, BASS: external, modelled by what they may answer.
* Data races on containers (the chat's list): every outcome is possible, so there
  is nothing to check until there is a lock.

The map names about a third of the implementation's lines. Most of the rest is of
the kinds above: vendored headers, tables (of animations in `util1.cpp`), patches of a
binary that is not here, drawing, and assignments of values no property could tell
apart. A model
of them would restate the code without saying anything about it.

## 8. The plan

Done: the queue and its abstraction; session and local player; voice connection,
microphone, consumer and streams; remote players, the context their peds are
processed in and how they follow their packets; what the server is told; boarding
and what peds carry; what is said and read; stream pool; the pools of a game mode;
keyboard and control; looks, tuning and pictures of vehicles; settings; marks on the
map and objects; proofs of every safety property and of the safety half of the
refinement, as section 5 says.

Left, in order of worth:

1. The OpenAL buffers of a voice stream, with the leak at `CStreamPlayer.cpp:245`;
   the recorder's set-up; the queue of frames between recorder and network thread.
2. The commands of the chat, and the dialogs without rows.
3. Trailers, and RC mode, in `RemotePlayers` and `Boarding`.
4. The player's own stream in `StreamPool`, once a lock gives it an order to check.

## 9. Running it

```
tlasany NetGame.tla                       # parse
tlc -workers 4 -config NetGame.cfg NetGame.tla
tlapm NetGameProofs.tla                   # check the proofs
```

Each run takes a few minutes at most and the largest have more than a million
states. `PROJECT.json` lists the components, runs, mutants, findings,
hazards and theorems, and maps each definition to the lines it models.
