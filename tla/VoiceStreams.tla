---------------------------- MODULE VoiceStreams ----------------------------
(***************************************************************************)
(* The voice consumer, the thread CVoiceChatClient::StartProcessing runs:  *)
(* it takes the packets the network thread received and the orders of the  *)
(* game thread from two SingleProducerConsumer queues (FifoChannel), and   *)
(* owns the audio streams of the players who talk, each of which borrows   *)
(* one of CSoundOutput's OpenAL sources.                                   *)
(*                                                                         *)
(* Only the consumer touches streams, sources and m_bMuted, so a packet or *)
(* an order is one action.  OpenAL is external: whether a call fails and   *)
(* whether a source still plays is its choice.  Left out: samples, buffer  *)
(* names, positions and volumes, and the orders for the microphone.        *)
(***************************************************************************)
EXTENDS Naturals, Sequences, FiniteSets

CONSTANTS
    Players,        \* player ids
    Sources,        \* the OpenAL sources CSoundOutput could create
    NoSource,
    MaxStreams,     \* 240
    MaxPackets,     \* bound: packets waiting
    MaxOrders       \* bound: orders of the game thread in all

ASSUME SourcesAssumption == NoSource \notin Sources
ASSUME BoundsAssumption ==
    /\ MaxStreams \in Nat \ {0} /\ MaxPackets \in Nat /\ MaxOrders \in Nat

VARIABLES
    packets,        \* bufferedNetwork: who sent each packet
    orders,         \* bufferedLocal: BC_MUTE and BC_UNMUTE
    muted,          \* m_bMuted
    wanted,         \* the last order given for each player (a ghost)
    given,          \* orders given so far
    streams,        \* players p with m_pStreamPlayers[p] # nullptr
    active,         \* m_iActiveStreams
    source,         \* of each stream: its source, while hasSource
    data,           \* of each stream: its ringBuffer holds samples
    old,            \* last pushed to at least 5000 ms ago
    free,           \* how often each source is in freeSources
    off,            \* IsDisconnected
    pc              \* where the consumer is in its loop

audio == <<streams, active, source, data, old, free>>
mutes == <<orders, muted, wanted, given>>
vars == <<packets, mutes, audio, off, pc>>

Init ==
    /\ packets = << >> /\ orders = << >> /\ given = 0
    /\ muted = [p \in Players |-> FALSE] /\ wanted = [p \in Players |-> FALSE]
    /\ streams = {} /\ active = 0
    /\ source = [p \in Players |-> NoSource]
    /\ data = [p \in Players |-> FALSE]
    /\ old = {}
    /\ free = [s \in Sources |-> 1]
    /\ off = FALSE /\ pc = "top"

-----------------------------------------------------------------------------
(* The other threads *)

(* OnPacketIncoming pushes a packet of another player. *)
Receive(p) ==
    /\ Len(packets) < MaxPackets
    /\ packets' = Append(packets, p)
    /\ UNCHANGED <<mutes, audio, off, pc>>

(* MutePlayer and UnMutePlayer; CPlayerPool::Delete calls the latter when  *)
(* the player leaves.                                                      *)
Order(p, mute) ==
    /\ given < MaxOrders
    /\ given' = given + 1
    /\ orders' = Append(orders, [player |-> p, mute |-> mute])
    /\ wanted' = [wanted EXCEPT ![p] = mute]
    /\ UNCHANGED <<packets, muted, audio, off, pc>>

LinkChanges ==
    /\ off' \in BOOLEAN
    /\ UNCHANGED <<packets, mutes, audio, pc>>

TimePasses(p) ==
    /\ p \in streams
    /\ old' = old \cup {p}
    /\ UNCHANGED <<packets, mutes, streams, active, source, data, free, off, pc>>

-----------------------------------------------------------------------------
(* Streams and sources *)

HasSource(p) == source[p] # NoSource

(* freeSources after the streams of gone gave back what they held. *)
Released(gone) ==
    [s \in Sources |-> free[s] + IF \E p \in gone : source[p] = s THEN 1 ELSE 0]

(* Mutant: a source is given back although none was held. *)
Drop_Twice(p, s) ==
    /\ source' = [source EXCEPT ![p] = NoSource]
    /\ free' = [free EXCEPT ![s] = @ + 1]

(* DropSource of p's stream, which holds s or got it in this very Update. *)
Drop(p, s) ==
    /\ source' = [source EXCEPT ![p] = NoSource]
    /\ free' = Released({p})

Keep(p, s) ==
    /\ source' = [source EXCEPT ![p] = s]
    /\ free' = IF HasSource(p) THEN free ELSE [free EXCEPT ![s] = @ - 1]

(* Update, of a stream whose ring holds samples or not (pushed).  Without  *)
(* a source it needs samples and a free one.  With one, OpenAL decides     *)
(* what becomes of it: a call that fails or a source that has finished     *)
(* drops it, any other outcome keeps it; some samples may be queued.       *)
Update(p, pushed) ==
    LET usable == IF HasSource(p) THEN {source[p]}
                  ELSE {s \in Sources : pushed /\ free[s] > 0}
    IN  \/ /\ usable = {}
           /\ data' = [data EXCEPT ![p] = pushed]
           /\ UNCHANGED <<source, free>>
        \/ \E s \in usable, rest \in {FALSE, pushed} :
              /\ Drop(p, s) \/ Keep(p, s)
              /\ data' = [data EXCEPT ![p] = rest]

-----------------------------------------------------------------------------
(* The consumer *)

TestDisconnected ==
    /\ pc = "top"
    /\ pc' = IF off THEN "top" ELSE "packets"
    /\ UNCHANGED <<packets, mutes, audio, off>>

(* A packet of a muted player, or one that comes during a pause, is dropped. *)
DropPacket(p, paused) ==
    /\ paused \/ muted[p]
    /\ UNCHANGED audio

(* PushOpusBuffer, which may fail to decode, and Update. *)
FeedStream(p) ==
    /\ p \in streams
    /\ old' = old \ {p}
    /\ \E pushed \in {data[p], TRUE} : Update(p, pushed)
    /\ UNCHANGED <<streams, active>>

(* Mutant: making room does not lower the count. *)
OpenStream_KeepsCount(p) ==
    LET gone == IF active >= MaxStreams THEN old ELSE {}
    IN  /\ p \notin streams
        /\ active' = IF active >= MaxStreams THEN active ELSE active + 1
        /\ streams' = (streams \ gone) \cup (IF active < MaxStreams THEN {p} ELSE {})
        /\ source' = [q \in Players |-> IF q \in gone THEN NoSource ELSE source[q]]
        /\ data' = [q \in Players |-> IF q \in gone THEN FALSE ELSE data[q]]
        /\ free' = Released(gone)
        /\ old' = old \ gone

(* A player's first packet opens a stream and is not played itself.  When  *)
(* there are too many, the streams not pushed to for 5000 ms are deleted,  *)
(* and without one the packet is dropped.                                  *)
OpenStream(p) ==
    LET gone == IF active >= MaxStreams THEN old ELSE {}
        left == active - Cardinality(gone)
    IN  /\ p \notin streams
        /\ streams' = (streams \ gone) \cup (IF left < MaxStreams THEN {p} ELSE {})
        /\ active' = left + IF left < MaxStreams THEN 1 ELSE 0
        /\ source' = [q \in Players |-> IF q \in gone THEN NoSource ELSE source[q]]
        /\ data' = [q \in Players |-> IF q \in gone THEN FALSE ELSE data[q]]
        /\ free' = Released(gone)
        /\ old' = old \ gone

TakePacket(paused) ==
    /\ pc = "packets" /\ packets # << >>
    /\ packets' = Tail(packets)
    /\ LET p == Head(packets)
       IN  \/ DropPacket(p, paused)
           \/ ~paused /\ ~muted[p] /\ (FeedStream(p) \/ OpenStream(p))
    /\ UNCHANGED <<mutes, off, pc>>

(* Mutant: without packets the turn is over. *)
PacketsDone_Returns ==
    /\ pc = "packets" /\ packets = << >>
    /\ pc' = "top"
    /\ UNCHANGED <<packets, mutes, audio, off>>

PacketsDone ==
    /\ pc = "packets" /\ packets = << >>
    /\ pc' = "orders"
    /\ UNCHANGED <<packets, mutes, audio, off>>

(* Mutant: an order for a player who has no stream is ignored. *)
TakeOrder_NeedsStream ==
    /\ pc = "orders" /\ orders # << >>
    /\ orders' = Tail(orders)
    /\ LET o == Head(orders)
       IN  muted' = [muted EXCEPT ![o.player] = IF o.player \in streams THEN o.mute ELSE @]
    /\ UNCHANGED <<packets, wanted, given, audio, off, pc>>

TakeOrder ==
    /\ pc = "orders" /\ orders # << >>
    /\ orders' = Tail(orders)
    /\ muted' = [muted EXCEPT ![Head(orders).player] = Head(orders).mute]
    /\ UNCHANGED <<packets, wanted, given, audio, off, pc>>

OrdersDone ==
    /\ pc = "orders" /\ orders = << >>
    /\ pc' = "top"
    /\ UNCHANGED <<packets, mutes, audio, off>>

Consume ==
    \/ TestDisconnected
    \/ \E paused \in BOOLEAN : TakePacket(paused)
    \/ PacketsDone \/ TakeOrder \/ OrdersDone

Others ==
    \/ \E p \in Players : Receive(p) \/ TimePasses(p)
    \/ \E p \in Players, mute \in BOOLEAN : Order(p, mute)
    \/ LinkChanges

Next == Consume \/ Others

(* The consumer sleeps 5 ms a turn and takes a packet much faster than the *)
(* next arrives, so it finds the packets' queue empty again and again.     *)
Spec == Init /\ [][Next]_vars /\ WF_vars(Consume) /\ SF_vars(PacketsDone)

-----------------------------------------------------------------------------
(* Properties *)

Orders == [player : Players, mute : BOOLEAN]

TypeOK ==
    /\ packets \in Seq(Players) /\ orders \in Seq(Orders) /\ given \in Nat
    /\ muted \in [Players -> BOOLEAN] /\ wanted \in [Players -> BOOLEAN]
    /\ streams \subseteq Players /\ old \subseteq streams
    /\ active \in Nat
    /\ source \in [Players -> Sources \cup {NoSource}]
    /\ data \in [Players -> BOOLEAN]
    /\ free \in [Sources -> Nat]
    /\ off \in BOOLEAN /\ pc \in {"top", "packets", "orders"}

(* A source is lent to one stream at most, is in freeSources once or not   *)
(* at all, and never both: no failure of OpenAL and no eviction, in any    *)
(* order, makes two players speak through one source or loses one.         *)
SourcesConserved ==
    /\ \A p, q \in Players : source[p] = source[q] /\ HasSource(p) => p = q
    /\ \A s \in Sources : free[s] = IF \E p \in streams : source[p] = s THEN 0 ELSE 1
    /\ \A p \in Players : HasSource(p) => p \in streams

(* m_iActiveStreams counts the streams and the cap of 240 is kept; with as *)
(* many sources as streams are allowed (255 against 240, where OpenAL      *)
(* grants them), a stream that has something to say then finds one.        *)
CapKept == active = Cardinality(streams) /\ active <= MaxStreams
AlwaysASource ==
    Cardinality(Sources) >= MaxStreams =>
        \A p \in streams : ~HasSource(p) => \E s \in Sources : free[s] > 0
RoomForAll == CapKept /\ AlwaysASource

(* A player none of whose orders is under way is muted as the last order   *)
(* said, also when the player left, or the voice chat was off, in between. *)
MutesFollowOrders ==
    \A p \in Players :
        (\A i \in DOMAIN orders : orders[i].player # p) => muted[p] = wanted[p]

(* Orders are carried out while the voice chat is on, however many packets *)
(* keep coming.                                                            *)
OrdersCarriedOut == orders # << >> ~> orders = << >> \/ off
=============================================================================
