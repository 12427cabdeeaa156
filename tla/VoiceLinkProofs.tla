--------------------------- MODULE VoiceLinkProofs ---------------------------
(***************************************************************************)
(* What the voice connection guarantees for any number of peers, however   *)
(* the two threads interleave, and the microphone for any number of orders *)
(* and any sizes of its ring of samples.                                   *)
(***************************************************************************)
EXTENDS Voice, Integers, TLAPS

(* While a dial has no verdict yet nobody can write CONNECTED, and once    *)
(* answered its peer is still the one the host holds: neither deleting the *)
(* client nor the end of a connection happens inside a dial.               *)
Dialling ==
    /\ pc \in {"dialling", "answered", "failed"} => netState # "CONNECTED"
    /\ pc \in {"dialling", "answered"} => client /\ peer \in inUse

Inv == TypeOK /\ ConnectedHasPeer /\ ConnectingIsDialling /\ Dialling

LEMMA InitInv == Init => Inv
BY HostPeersAssumption
   DEF Init, Inv, TypeOK, ConnectedHasPeer, ConnectingIsDialling, Dialling,
       NetStates, Down, Steps, Slots, NoPeer

(* A turn of the network thread up to its dial. *)
LEMMA TurnInv ==
    ASSUME Inv,
           TestDisconnected \/ TestPaused \/ TestFullDisconnected \/ TestDown
             \/ Redial \/ TestWait \/ TestConnected \/ EventsDone
    PROVE  Inv'
<1> USE DEF Inv, TypeOK, ConnectedHasPeer, ConnectingIsDialling, Dialling,
            Goto, game, host, NetStates, Steps, NoPeer, DeleteClient
<1>1. CASE TestDisconnected  BY <1>1 DEF TestDisconnected
<1>2. CASE TestPaused  BY <1>2 DEF TestPaused
<1>3. CASE TestFullDisconnected  BY <1>3 DEF TestFullDisconnected
<1>4. CASE TestDown  BY <1>4 DEF TestDown
<1>5. CASE Redial  BY <1>5 DEF Redial
<1>6. CASE TestWait  BY <1>6 DEF TestWait
<1>7. CASE TestConnected  BY <1>7 DEF TestConnected
<1>8. CASE EventsDone  BY <1>8 DEF EventsDone
<1>9. QED  BY <1>1, <1>2, <1>3, <1>4, <1>5, <1>6, <1>7, <1>8

(* A dial and the events of its connections. *)
LEMMA DialInv ==
    ASSUME Inv,
           Dial \/ DialAnswered \/ DialFailed \/ SetConnected \/ SetWait \/ PeerGone
    PROVE  Inv'
<1> USE DEF Inv, TypeOK, ConnectedHasPeer, ConnectingIsDialling, Dialling,
            Goto, game, host, NetStates, Steps
<1>1. CASE Dial  BY <1>1, HostPeersAssumption DEF Dial, Slots, NoPeer
<1>2. CASE DialAnswered  BY <1>2 DEF DialAnswered
<1>3. CASE DialFailed  BY <1>3 DEF DialFailed
<1>4. CASE SetConnected  BY <1>4 DEF SetConnected
<1>5. CASE SetWait  BY <1>5 DEF SetWait
<1>6. CASE PeerGone  BY <1>6 DEF PeerGone, Down
<1>7. QED  BY <1>1, <1>2, <1>3, <1>4, <1>5, <1>6

(* No write of the game thread says CONNECTED or CONNECTING. *)
LEMMA GameInv == ASSUME Inv, Game PROVE Inv'
BY DEF Game, Disconnect, SessionLost, FullDisconnect, VConnect, GameState, Pause,
       Inv, TypeOK, ConnectedHasPeer, ConnectingIsDialling, Dialling, host,
       NetStates, Down

LEMMA NextInv == Inv /\ [Next]_vars => Inv'
<1> SUFFICES ASSUME Inv, [Next]_vars PROVE Inv'  OBVIOUS
<1>1. CASE Process  BY <1>1, TurnInv, DialInv DEF Process
<1>2. CASE Game  BY <1>2, GameInv
<1>3. CASE UNCHANGED vars
  BY <1>3 DEF vars, game, host, Inv, TypeOK, ConnectedHasPeer, ConnectingIsDialling, Dialling
<1>4. QED  BY <1>1, <1>2, <1>3 DEF Next

(* The invariant that carries the theorems below, of the two threads of    *)
(* CVoiceChatClient together.                                              *)
THEOREM Invariance == Spec => []Inv
BY InitInv, NextInv, PTL DEF Spec

(* The voice connection's state is well typed in every interleaving.       *)
THEOREM TypeCorrect == Spec => []TypeOK
<1>1. Inv => TypeOK  BY DEF Inv
<1>2. QED  BY <1>1, Invariance, PTL

(* The lights of gui.cpp never lie: green means a peer of the host, for    *)
(* any number of peers, and yellow is left with the dial.                  *)
THEOREM LightsSafe == Spec => []LightsTrue
<1>1. Inv => LightsTrue  BY DEF Inv, LightsTrue
<1>2. QED  BY <1>1, Invariance, PTL

(* FullDisconnect is final once the network thread is back at the top of   *)
(* its loop, until the user asks for the voice chat again.                 *)
THEOREM OffIsFinal == Spec => SettledStaysOff
<1>1. ASSUME [Next]_vars, told, netState \in Down, pc = "top"
      PROVE  ~told' \/ (netState' \in Down /\ pc' = "top")
  <2>1. CASE Process
    BY <1>1, <2>1
       DEF Process, TestDisconnected, TestPaused, TestFullDisconnected, TestDown,
           Redial, TestWait, Dial, DialAnswered, DialFailed, SetConnected, SetWait,
           TestConnected, PeerGone, EventsDone, Goto, IsDisconnected, game
  <2>2. CASE Game
    BY <1>1, <2>2 DEF Game, Disconnect, SessionLost, FullDisconnect, VConnect,
                      GameState, Pause, Down
  <2>3. CASE UNCHANGED vars  BY <1>1, <2>3 DEF vars, game
  <2>4. QED  BY <1>1, <2>1, <2>2, <2>3 DEF Next
<1>2. [Next]_vars => [told /\ netState \in Down /\ pc = "top"
          => ~told' \/ (netState' \in Down /\ pc' = "top")]_vars
  BY <1>1
<1>3. QED  BY <1>2, PTL DEF Spec, SettledStaysOff
-----------------------------------------------------------------------------
(* The microphone *)

Orders == {"BC_ENABLEMICRO", "BC_DISABLEMICRO"}

OrdersTyped ==
    /\ device \in BOOLEAN
    /\ recorder \in {"STOPPED", "RECORDING"} /\ (recorder = "RECORDING" => device)
    /\ bufferedLocal \in Seq(Orders)
    /\ asked \in BOOLEAN

(* The last order under way is the one last given; MicFollowsOrders alone  *)
(* does not say so, and taking an order must establish it.                 *)
LastOrder ==
    bufferedLocal # << >> =>
        (asked <=> bufferedLocal[Len(bufferedLocal)] = "BC_ENABLEMICRO")

MicInv == OrdersTyped /\ LastOrder /\ MicFollowsOrders

LEMMA MicStart == MicInit => MicInv
<1> SUFFICES ASSUME MicInit PROVE MicInv  OBVIOUS
<1>1. /\ device \in BOOLEAN /\ recorder = "STOPPED"
      /\ bufferedLocal = << >> /\ asked = FALSE
  BY DEF MicInit
<1>2. bufferedLocal \in Seq(Orders)  BY <1>1
<1>3. QED
  BY <1>1, <1>2 DEF MicInv, OrdersTyped, LastOrder, MicFollowsOrders

(* Whoever gives an order appends it and remembers it. *)
LEMMA GivenKeeps ==
    ASSUME MicInv, NEW o \in Orders,
           bufferedLocal' = Append(bufferedLocal, o),
           asked' = (o = "BC_ENABLEMICRO"),
           UNCHANGED <<device, recorder>>
    PROVE  MicInv'
<1> USE DEF MicInv, OrdersTyped
<1>1. /\ bufferedLocal' \in Seq(Orders)
      /\ Len(bufferedLocal') = Len(bufferedLocal) + 1
      /\ bufferedLocal'[Len(bufferedLocal')] = o
      /\ bufferedLocal' # << >>
  OBVIOUS
<1>2. QED  BY <1>1 DEF LastOrder, MicFollowsOrders

(* Nobody who gives none and takes none can start the recorder. *)
LEMMA NoOrderKeeps ==
    ASSUME MicInv, UNCHANGED <<device, bufferedLocal, asked>>, recorder' \in {recorder, "STOPPED"}
    PROVE  MicInv'
BY DEF MicInv, OrdersTyped, LastOrder, MicFollowsOrders

LEMMA TakeOrderKeeps == ASSUME MicInv, TakeOrder PROVE MicInv'
<1> USE DEF MicInv, OrdersTyped
<1>1. bufferedLocal # << >> /\ bufferedLocal' = Tail(bufferedLocal) /\ UNCHANGED <<device, asked>>
  BY DEF TakeOrder, ConsumerOnly
<1>2. /\ bufferedLocal' \in Seq(Orders)
      /\ Len(bufferedLocal') = Len(bufferedLocal) - 1
      /\ \A i \in 1 .. Len(bufferedLocal') : bufferedLocal'[i] = bufferedLocal[i + 1]
  BY <1>1
<1>3. recorder' = "RECORDING" => device /\ Head(bufferedLocal) = "BC_ENABLEMICRO"
  BY <1>1 DEF TakeOrder, m_bCouldRecord
<1>4. recorder' \in {"STOPPED", "RECORDING"}  BY DEF TakeOrder
<1>5. CASE bufferedLocal' = << >>
  <2>1. Len(bufferedLocal) = 1
    <3>1. Len(bufferedLocal') = 0  BY <1>5
    <3>2. Len(bufferedLocal) \in Nat  OBVIOUS
    <3>3. QED  BY <1>2, <3>1, <3>2
  <2>2. Head(bufferedLocal) = bufferedLocal[1]  BY <1>1
  <2>3. QED  BY <1>1, <1>2, <1>3, <1>4, <1>5, <2>1, <2>2 DEF LastOrder, MicFollowsOrders
<1>6. CASE bufferedLocal' # << >>
  <2>1. Len(bufferedLocal') \in 1 .. Len(bufferedLocal')  BY <1>1, <1>2, <1>6
  <2>2. bufferedLocal'[Len(bufferedLocal')] = bufferedLocal[Len(bufferedLocal)]  BY <1>1, <1>2, <2>1
  <2>3. QED  BY <1>1, <1>2, <1>3, <1>4, <1>6, <2>2 DEF LastOrder, MicFollowsOrders
<1>7. QED  BY <1>5, <1>6

LEMMA DisableKeeps == ASSUME MicInv, DisableInput, GameOnly PROVE MicInv'
<1>1. "BC_DISABLEMICRO" \in Orders  BY DEF Orders
<1>2. asked' = ("BC_DISABLEMICRO" = "BC_ENABLEMICRO")  BY DEF DisableInput
<1>3. QED  BY <1>1, <1>2, GivenKeeps DEF DisableInput, GameOnly

LEMMA OrdersNextKeeps == ASSUME MicInv, OrdersNext PROVE MicInv'
<1>1. CASE Press \/ NoPress \/ EnableInput \/ StartClock \/ EndFrame
  BY <1>1, NoOrderKeeps DEF Press, NoPress, EnableInput, StartClock, EndFrame, GameOnly
<1>2. CASE TurnRecording  BY <1>2, NoOrderKeeps, DisableKeeps DEF TurnRecording, GameOnly
<1>3. CASE SendEnable
  <2>1. "BC_ENABLEMICRO" \in Orders  BY DEF Orders
  <2>2. asked' = ("BC_ENABLEMICRO" = "BC_ENABLEMICRO")  BY <1>3 DEF SendEnable
  <2>3. QED  BY <1>3, <2>1, <2>2, GivenKeeps DEF SendEnable, GameOnly
<1>4. CASE VoiceOff("connected", "limit") \/ VoiceOff("still connected", "draw")
  BY <1>4, NoOrderKeeps, DisableKeeps DEF VoiceOff, GameOnly
<1>5. CASE TimeLimit  BY <1>5, NoOrderKeeps, DisableKeeps DEF TimeLimit, GameOnly
<1>6. CASE TimePasses  BY <1>6, NoOrderKeeps DEF TimePasses, GameOnly
<1>7. CASE DialStopsMic \/ ServerMutes \/ StopRecorder
  BY <1>7, NoOrderKeeps DEF DialStopsMic, ServerMutes, StopRecorder, NetOnly
<1>8. CASE SwitchVoice  BY <1>8, NoOrderKeeps DEF SwitchVoice
<1>9. CASE Turn  BY <1>9, NoOrderKeeps DEF Turn, ConsumerOnly
<1>10. CASE TakeOrder  BY <1>10, TakeOrderKeeps
<1>11. QED
  BY <1>1, <1>2, <1>3, <1>4, <1>5, <1>6, <1>7, <1>8, <1>9, <1>10
     DEF OrdersNext, Consumer, Button

(* MicFollowsOrders: with no order under way the recorder runs only if it  *)
(* was asked to, whatever the dials, the mutes of the server and a voice   *)
(* chat that goes off and on have done to it and to the queue meanwhile.   *)
THEOREM MicOrdersKept == VoiceSpec => []MicFollowsOrders
<1>1. VoiceInit => MicInv  BY MicStart DEF VoiceInit
<1>2. MicInv /\ [VoiceNext]_voiceVars => MicInv'
  <2> SUFFICES ASSUME MicInv, [VoiceNext]_voiceVars PROVE MicInv'  OBVIOUS
  <2>1. CASE OrdersNext  BY <2>1, OrdersNextKeeps
  <2>2. CASE UNCHANGED orderVars /\ UNCHANGED device  BY <2>2, NoOrderKeeps DEF orderVars
  <2>3. QED
    BY <2>1, <2>2 DEF VoiceNext, voiceVars, micVars, OrdersNext, RingNext, Capture, ChunkDropped, RingBufferRead
<1>3. MicInv => MicFollowsOrders  BY DEF MicInv
<1>4. QED  BY <1>1, <1>2, <1>3, PTL DEF VoiceSpec

-----------------------------------------------------------------------------
(* Quotients and remainders by a number that is only known to be positive. *)
LEMMA Division ==
    ASSUME NEW a \in Int, NEW m \in Nat \ {0}
    PROVE  \E q \in Int, r \in Nat : r < m /\ a % m = r /\ a = m * q + r
<1>1. a % m \in 0..(m - 1) /\ a \div m \in Int  OBVIOUS
<1>2. a % m = a - m * (a \div m)  OBVIOUS
<1>3. PICK q \in Int, r \in Nat : q = a \div m /\ r = a % m /\ r < m
  BY <1>1
<1>4. r = a - m * q  BY <1>2, <1>3
<1>5. PICK p \in Int : p = m * q  OBVIOUS
<1>6. a = p + r  BY <1>4, <1>5
<1>7. a = m * q + r  BY <1>5, <1>6
<1>8. QED  BY <1>3, <1>7

LEMMA RemainderIs ==
    ASSUME NEW q \in Int, NEW r \in Nat, NEW m \in Nat \ {0}, r < m
    PROVE  (m * q + r) % m = r
OBVIOUS

(* A number below it is its own remainder, and a round changes nothing.    *)
LEMMA Small == ASSUME NEW a \in Nat, NEW m \in Nat \ {0}, a < m PROVE a % m = a
OBVIOUS

LEMMA RemainderOfSum ==
    ASSUME NEW a \in Int, NEW b \in Int, NEW m \in Nat \ {0}
    PROVE  ((a % m) + b) % m = (a + b) % m
<1>1. PICK q \in Int, r \in Nat : r < m /\ a % m = r /\ a = m * q + r  BY Division
<1>2. PICK t \in Int, s \in Nat : s < m /\ (r + b) % m = s /\ r + b = m * t + s
  BY Division, r + b \in Int
<1>3. a + b = m * (q + t) + s
  <2>1. m * (q + t) = m * q + m * t  OBVIOUS
  <2>2. PICK x \in Int, y \in Int : x = m * q /\ y = m * t  OBVIOUS
  <2>3. a = x + r /\ r + b = y + s  BY <1>1, <1>2, <2>2
  <2>4. a + b = x + y + s  BY <2>3
  <2>5. QED  BY <2>1, <2>2, <2>4
<1>4. (m * (q + t) + s) % m = s  BY <1>2, RemainderIs, q + t \in Int
<1>5. QED  BY <1>1, <1>2, <1>3, <1>4

LEMMA Round == ASSUME NEW a \in Int, NEW m \in Nat \ {0} PROVE (a + m) % m = a % m
<1>1. PICK q \in Int, r \in Nat : r < m /\ a % m = r /\ a = m * q + r  BY Division
<1>2. m * (q + 1) = m * q + m  OBVIOUS
<1>3. PICK x \in Int : x = m * q  OBVIOUS
<1>4. a + m = x + m + r  BY <1>1, <1>3
<1>5. a + m = m * (q + 1) + r  BY <1>2, <1>3, <1>4
<1>6. (m * (q + 1) + r) % m = r  BY <1>1, RemainderIs
<1>7. QED  BY <1>1, <1>5, <1>6

(* The remainder under a name of its own: the solvers look for instances   *)
(* of a lemma by names and not by arithmetic.                              *)
Rem(a, m) == a % m

LEMMA RemRange ==
    ASSUME NEW a \in Int, NEW m \in Nat \ {0} PROVE Rem(a, m) \in Nat /\ Rem(a, m) < m
BY Division DEF Rem

LEMMA RemDivides ==
    ASSUME NEW a \in Int, NEW m \in Nat \ {0}
    PROVE  \E q \in Int, r \in Nat : r = Rem(a, m) /\ a = m * q + r
<1>1. PICK q \in Int, r \in Nat : r < m /\ a % m = r /\ a = m * q + r  BY Division
<1>2. QED  BY <1>1 DEF Rem

LEMMA RemSmall == ASSUME NEW a \in Nat, NEW m \in Nat \ {0}, a < m PROVE Rem(a, m) = a
BY Small DEF Rem

LEMMA RemSum ==
    ASSUME NEW a \in Int, NEW b \in Int, NEW m \in Nat \ {0}
    PROVE  Rem(Rem(a, m) + b, m) = Rem(a + b, m)
BY RemainderOfSum DEF Rem

LEMMA RemRound == ASSUME NEW a \in Int, NEW m \in Nat \ {0} PROVE Rem(a + m, m) = Rem(a, m)
BY Round DEF Rem

-----------------------------------------------------------------------------
(* Places in the ring of samples *)

LEMMA Sizes ==
    /\ BufferSize \in Nat \ {0} /\ Chunk \in Nat \ {0} /\ Frame \in Nat \ {0}
    /\ Cursors \in Nat \ {0} /\ Samples \in Nat \ {0}
    /\ 2 * Chunk + Frame <= BufferSize /\ BufferSize <= Cursors
BY MicrophoneAssumption

(* How far the place of one position is from that of another.              *)
LEMMA PlaceOf ==
    ASSUME NEW i \in Nat, NEW c \in Nat, NEW d \in 0..(BufferSize - 1),
           i = c + d \/ i = c + d - BufferSize
    PROVE  Place(Rem(i, BufferSize), c) = d
<1> USE Sizes
<1>1. PICK q \in Int, p \in Nat : p = Rem(i, BufferSize) /\ i = BufferSize * q + p
  BY RemDivides, i \in Int, Zenon
<1>2. PICK t \in Int, s \in Nat : s = Rem(c, BufferSize) /\ c = BufferSize * t + s
  BY RemDivides, c \in Int, Zenon
<1>3. PICK x \in Int, y \in Int : x = BufferSize * q /\ y = BufferSize * t  OBVIOUS
<1>4. i = x + p /\ c = y + s  BY <1>1, <1>2, <1>3
<1>5. PICK n \in Int : p + BufferSize - s = BufferSize * n + d
  <2>1. CASE i = c + d
    <3>1. BufferSize * (t - q + 1) = y - x + BufferSize  BY <1>3
    <3>2. p + BufferSize - s = y - x + BufferSize + d  BY <1>4, <2>1
    <3>3. t - q + 1 \in Int  OBVIOUS
    <3>4. QED  BY <3>1, <3>2, <3>3
  <2>2. CASE i = c + d - BufferSize
    <3>1. BufferSize * (t - q) = y - x  BY <1>3
    <3>2. p + BufferSize - s = y - x + d  BY <1>4, <2>2
    <3>3. t - q \in Int  OBVIOUS
    <3>4. QED  BY <3>1, <3>2, <3>3
  <2>3. QED  BY <2>1, <2>2
<1>6. (BufferSize * n + d) % BufferSize = d  BY RemainderIs
<1>7. Place(p, c) = (p + BufferSize - s) % BufferSize  BY <1>2 DEF Place, Rem
<1>8. QED  BY <1>1, <1>5, <1>6, <1>7

LEMMA SumIs == \A a, b : Sum(a, b) = Rem(a + b, Cursors)
BY DEF Sum, Rem

(* Unless a tight ring is overrun, the cursors never overflow: before they *)
(* could, the sum of readCursor and the size does, the samples then do not *)
(* seem to fit, and the ring starts again.                                 *)
CursorsApart ==
    /\ readCursor \in Nat /\ writeCursor \in Nat /\ readCursor <= writeCursor
    /\ writeCursor < Cursors /\ writeCursor - readCursor <= BufferSize
    /\ tight \/ writeCursor + Chunk < Cursors

(* Between the cursors are the samples the ring has to give back.          *)
Unread(samples, from, to, queue) ==
    \A i \in from..(to - 1) : samples[Rem(i, BufferSize)] = queue[i - from + 1]

SamplesInRing ==
    /\ DOMAIN buffer = 0..(BufferSize - 1)
    /\ spoken \in Nat /\ Len(heard) = writeCursor - readCursor
    /\ Unread(buffer, readCursor, writeCursor, heard)

RingInv == FramesAsSpoken /\ (~overrun => CursorsApart /\ SamplesInRing)

LEMMA RingStart == MicInit => RingInv
<1> SUFFICES ASSUME MicInit PROVE RingInv  OBVIOUS
<1> USE Sizes
<1>1. CursorsApart  BY DEF MicInit, CursorsApart
<1>2. SamplesInRing  BY DEF MicInit, SamplesInRing, Unread
<1>3. FramesAsSpoken  BY DEF MicInit, FramesAsSpoken
<1>4. QED  BY <1>1, <1>2, <1>3 DEF RingInv

LEMMA ReadableBytes == CursorsApart => BytesToRead = writeCursor - readCursor
<1> SUFFICES ASSUME CursorsApart PROVE BytesToRead = writeCursor - readCursor  OBVIOUS
<1> USE Sizes DEF CursorsApart
<1>1. PICK u \in Nat : u = writeCursor - readCursor /\ u < Cursors  OBVIOUS
<1>2. Rem(u + Cursors, Cursors) = u  BY <1>1, RemRound, RemSmall
<1>3. writeCursor + Cursors - readCursor = u + Cursors  BY <1>1
<1>4. BytesToRead = Rem(writeCursor + Cursors - readCursor, Cursors)  BY DEF BytesToRead, Rem
<1>5. QED  BY <1>1, <1>2, <1>3, <1>4

(* The ring's samples and the queue, before and after a chunk.             *)
PutAt(old, new, w, last) ==
    new = [p \in DOMAIN old |-> IF Place(p, w) < Chunk THEN Rem(last + Place(p, w), Samples) ELSE old[p]]
Grown(queue, longer, n, last) ==
    /\ \A k \in 1..n : longer[k] = queue[k]
    /\ \A d \in 0..(Chunk - 1) : longer[n + d + 1] = Rem(last + d, Samples)

(* A chunk put into the ring, behind samples that are not read yet.        *)
LEMMA Written ==
    ASSUME NEW r \in Nat, NEW w \in Nat, NEW n \in Nat, n = w - r, n + Chunk <= BufferSize,
           NEW old, DOMAIN old = 0..(BufferSize - 1), NEW queue, Unread(old, r, w, queue),
           NEW last \in Nat, NEW new, PutAt(old, new, w, last),
           NEW longer, Grown(queue, longer, n, last)
    PROVE  Unread(new, r, w + Chunk, longer)
<1> USE Sizes
<1> SUFFICES ASSUME NEW i \in r..(w + Chunk - 1)
             PROVE  new[Rem(i, BufferSize)] = longer[i - r + 1]
  BY DEF Unread
<1>1. PICK p \in Nat : p = Rem(i, BufferSize) /\ p \in DOMAIN old
  <2>1. i \in Int  OBVIOUS
  <2>2. Rem(i, BufferSize) \in Nat /\ Rem(i, BufferSize) < BufferSize  BY <2>1, RemRange
  <2>3. QED  BY <2>2
<1>2. CASE i >= w
  <2>1. PICK d \in 0..(BufferSize - 1) : i = w + d /\ d < Chunk
    <3>1. i - w \in 0..(BufferSize - 1) /\ i - w < Chunk /\ i = w + (i - w)  BY <1>2
    <3>2. QED  BY <3>1
  <2>2. Place(p, w) = d  BY <1>1, <2>1, PlaceOf
  <2>3. new[p] = Rem(last + d, Samples)  BY <1>1, <2>1, <2>2 DEF PutAt
  <2>4. d \in 0..(Chunk - 1) /\ i - r + 1 = n + d + 1  BY <2>1
  <2>5. longer[n + d + 1] = Rem(last + d, Samples)  BY <2>4 DEF Grown
  <2>6. QED  BY <1>1, <2>3, <2>4, <2>5
<1>3. CASE i < w
  <2>1. PICK d \in 0..(BufferSize - 1) : i = w + d - BufferSize /\ d >= Chunk
    <3>1. i - w + BufferSize \in 0..(BufferSize - 1) /\ i - w + BufferSize >= Chunk  BY <1>3
    <3>2. i = w + (i - w + BufferSize) - BufferSize  OBVIOUS
    <3>3. QED  BY <3>1, <3>2
  <2>2. Place(p, w) = d  BY <1>1, <2>1, PlaceOf
  <2>3. new[p] = old[p]  BY <1>1, <2>1, <2>2 DEF PutAt
  <2>4. i \in r..(w - 1) /\ i - r + 1 \in 1..n  BY <1>3
  <2>5. old[Rem(i, BufferSize)] = queue[i - r + 1]  BY <2>4 DEF Unread
  <2>6. longer[i - r + 1] = queue[i - r + 1]  BY <2>4 DEF Grown
  <2>7. QED  BY <1>1, <2>3, <2>5, <2>6
<1>4. QED  BY <1>2, <1>3

(* The queue that has taken a chunk.                                       *)
LEMMA Lengthened ==
    ASSUME NEW queue, NEW n \in Nat, Len(queue) = n, NEW last \in Nat, last = spoken,
           NEW longer, longer = Behind(queue, Chunk)
    PROVE  Len(longer) = n + Chunk /\ Grown(queue, longer, n, last)
<1> USE Sizes
<1>1. PICK m \in Nat : m = n + Chunk  OBVIOUS
<1>2. longer = [k \in 1..m |-> IF k <= n THEN queue[k] ELSE (last + k - n - 1) % Samples]
  BY <1>1 DEF Behind
<1>3. Len(longer) = m  BY <1>2
<1>4. ASSUME NEW d \in 0..(Chunk - 1) PROVE longer[n + d + 1] = Rem(last + d, Samples)
  <2>1. n + d + 1 \in 1..m /\ ~(n + d + 1 <= n) /\ last + (n + d + 1) - n - 1 = last + d  BY <1>1
  <2>2. longer[n + d + 1] = (last + (n + d + 1) - n - 1) % Samples  BY <1>2, <2>1
  <2>3. QED  BY <2>1, <2>2 DEF Rem
<1>5. ASSUME NEW k \in 1..n PROVE longer[k] = queue[k]
  <2>1. k \in 1..m /\ k <= n  BY <1>1
  <2>2. QED  BY <1>2, <2>1
<1>6. QED  BY <1>1, <1>3, <1>4, <1>5 DEF Grown

LEMMA CaptureKeeps == ASSUME RingInv, Capture PROVE RingInv'
<1> USE Sizes
<1> SUFFICES ASSUME ~overrun' PROVE CursorsApart' /\ SamplesInRing'
  BY DEF Capture, FramesAsSpoken, RingInv
<1>1. CursorsApart /\ SamplesInRing  BY DEF RingInv, Capture
<1>2. PICK w \in Nat, r \in Nat, n \in Nat : w = writeCursor /\ r = readCursor /\ n = w - r
  BY <1>1 DEF CursorsApart
<1>3. r <= w /\ w < Cursors /\ w - r <= BufferSize /\ (tight \/ w + Chunk < Cursors)
  BY <1>1, <1>2 DEF CursorsApart
<1>4. PICK last \in Nat : last = spoken  BY <1>1 DEF SamplesInRing
<1>5. Unread(buffer, r, w, heard) /\ DOMAIN buffer = 0..(BufferSize - 1) /\ Len(heard) = n
  BY <1>1, <1>2 DEF SamplesInRing
<1>6. spoken' \in Nat
  <2>1. spoken' = Rem(last + Chunk, Samples)  BY <1>4 DEF Capture, Rem
  <2>2. QED  BY <2>1, RemRange
<1>7. /\ tight' = (Len(heard') + Chunk > BufferSize)
      /\ ~(tight /\ w + Chunk >= Cursors /\ writeCursor' = Sum(w, Chunk))
  BY <1>2 DEF Capture
<1>8. CASE ~(Sum(w, Chunk) > Sum(r, BufferSize))
  <2>1. /\ PutAt(buffer, buffer', w, last)
        /\ writeCursor' = Sum(w, Chunk) /\ readCursor' = r /\ heard' = Behind(heard, Chunk)
    BY <1>2, <1>4, <1>8 DEF Capture, RingBufferWrite, PutAt, Rem
  <2>2. w + Chunk < Cursors  BY <1>3, <1>7, <2>1
  <2>3. Sum(w, Chunk) = w + Chunk  BY <2>2, SumIs, RemSmall
  <2>4. r + BufferSize < Cursors
    <3> SUFFICES ASSUME r + BufferSize >= Cursors PROVE FALSE  OBVIOUS
    <3>1. PICK o \in Nat : r + BufferSize = o + Cursors /\ o < Cursors /\ o < w + Chunk
      <4>1. r + BufferSize - Cursors \in Nat /\ r + BufferSize - Cursors < w + Chunk  BY <1>3
      <4>2. r + BufferSize - Cursors < Cursors  BY <1>3
      <4>3. QED  BY <4>1, <4>2
    <3>2. Sum(r, BufferSize) = Rem(o + Cursors, Cursors)  BY <3>1, SumIs
    <3>3. Rem(o + Cursors, Cursors) = Rem(o, Cursors)  BY RemRound
    <3>4. Rem(o, Cursors) = o  BY <3>1, RemSmall
    <3>5. QED  BY <1>8, <2>3, <3>1, <3>2, <3>3, <3>4
  <2>5. Sum(r, BufferSize) = r + BufferSize  BY <2>4, SumIs, RemSmall
  <2>6. n + Chunk <= BufferSize  BY <1>2, <1>3, <1>8, <2>3, <2>5
  <2>7. Len(heard') = n + Chunk /\ Grown(heard, heard', n, last)
    BY <1>4, <1>5, <2>1, Lengthened
  <2>8. CursorsApart'
    <3>1. writeCursor' = w + Chunk /\ readCursor' = r  BY <2>1, <2>3
    <3>2. ASSUME ~tight' PROVE writeCursor' + Chunk < Cursors
      <4>1. ~(n + Chunk + Chunk > BufferSize)  BY <1>7, <2>7, <3>2
      <4>2. QED  BY <1>2, <2>4, <3>1, <4>1
    <3>3. QED  BY <1>2, <1>3, <2>2, <2>6, <3>1, <3>2 DEF CursorsApart
  <2>9. Unread(buffer', r, w + Chunk, heard')  BY <1>2, <1>5, <2>1, <2>6, <2>7, Written
  <2>10. DOMAIN buffer' = 0..(BufferSize - 1)  BY <1>5, <2>1 DEF PutAt
  <2>11. SamplesInRing'  BY <1>2, <1>6, <2>1, <2>3, <2>7, <2>9, <2>10 DEF SamplesInRing
  <2>12. QED  BY <2>8, <2>11
<1>9. CASE Sum(w, Chunk) > Sum(r, BufferSize)
  <2> PICK zero, none : zero \in Nat /\ zero = 0 /\ none = << >>
    <3>1. 0 \in Nat  OBVIOUS
    <3>2. QED  BY <3>1, Zenon
  <2>1. /\ PutAt(buffer, buffer', zero, last)
        /\ writeCursor' = Sum(zero, Chunk) /\ readCursor' = zero /\ heard' = Behind(none, Chunk)
    BY <1>2, <1>4, <1>9 DEF Capture, RingBufferWrite, PutAt, Rem
  <2>2. writeCursor' = Chunk  BY <2>1, SumIs, RemSmall
  <2>3. Len(none) = zero  OBVIOUS
  <2>4. Len(heard') = zero + Chunk /\ Grown(none, heard', zero, last)
    BY <1>4, <2>1, <2>3, Lengthened
  <2>5. CursorsApart'  BY <2>1, <2>2 DEF CursorsApart
  <2>6. Unread(buffer, zero, zero, none)  BY DEF Unread
  <2>7. zero = zero - zero /\ zero + Chunk <= BufferSize  OBVIOUS
  <2>8. Unread(buffer', zero, zero + Chunk, heard')  BY <1>5, <2>1, <2>4, <2>6, <2>7, Written
  <2>9. DOMAIN buffer' = 0..(BufferSize - 1)  BY <1>5, <2>1 DEF PutAt
  <2>10. SamplesInRing'  BY <1>6, <2>1, <2>2, <2>4, <2>8, <2>9 DEF SamplesInRing
  <2>11. QED  BY <2>5, <2>10
<1>10. QED  BY <1>8, <1>9

LEMMA ReadKeeps == ASSUME RingInv, RingBufferRead PROVE RingInv'
<1> USE Sizes
<1>1. CursorsApart /\ SamplesInRing /\ writeCursor - readCursor >= Frame
  BY ReadableBytes DEF RingInv, RingBufferRead
<1>2. PICK w \in Nat, r \in Nat, n \in Nat : w = writeCursor /\ r = readCursor /\ n = w - r
  BY <1>1 DEF CursorsApart
<1>3. r + Frame <= w /\ w < Cursors /\ w - r <= BufferSize  BY <1>1, <1>2 DEF CursorsApart
<1>4. Unread(buffer, r, w, heard) /\ Len(heard) = n  BY <1>1, <1>2 DEF SamplesInRing
<1>5. Sum(r, Frame) = r + Frame  BY <1>3, SumIs, RemSmall
<1>6. /\ frame' = [k \in 1..Frame |-> buffer[Rem(Rem(r, BufferSize) + k - 1, BufferSize)]]
      /\ readCursor' = r + Frame
      /\ heard' = [k \in 1..(n - Frame) |-> heard[k + Frame]]
      /\ due' = [k \in 1..Frame |-> heard[k]]
      /\ UNCHANGED <<writeCursor, buffer, spoken, tight, overrun>>
  <2>1. ~(Sum(r, Frame) > w)  BY <1>3, <1>5
  <2>2. PICK count : count = IF Sum(readCursor, Frame) > writeCursor THEN BytesToRead ELSE Frame  OBVIOUS
  <2>3. count = Frame  BY <1>2, <2>1, <2>2
  <2>4. /\ frame' = [k \in 1..count |-> buffer[((readCursor % BufferSize) + k - 1) % BufferSize]]
        /\ readCursor' = Sum(readCursor, count)
        /\ heard' = [k \in 1..(Len(heard) - count) |-> heard[k + count]]
        /\ due' = [k \in 1..count |-> heard[k]]
        /\ UNCHANGED <<writeCursor, buffer, spoken, tight, overrun>>
    BY <2>2 DEF RingBufferRead
  <2>5. QED  BY <1>2, <1>4, <1>5, <2>3, <2>4 DEF Rem
<1>7. CursorsApart'  BY <1>1, <1>2, <1>3, <1>6 DEF CursorsApart
<1>8. SamplesInRing'
  <2>1. Unread(buffer, r + Frame, w, heard')
    <3> SUFFICES ASSUME NEW i \in (r + Frame)..(w - 1)
                 PROVE  buffer[Rem(i, BufferSize)] = heard'[i - (r + Frame) + 1]
      BY DEF Unread
    <3>1. buffer[Rem(i, BufferSize)] = heard[i - r + 1]  BY <1>4 DEF Unread
    <3>2. i - (r + Frame) + 1 \in 1..(n - Frame) /\ i - (r + Frame) + 1 + Frame = i - r + 1  BY <1>2
    <3>3. heard'[i - (r + Frame) + 1] = heard[i - (r + Frame) + 1 + Frame]  BY <1>6, <3>2
    <3>4. QED  BY <3>1, <3>2, <3>3
  <2>2. Len(heard') = n - Frame
    <3>1. n - Frame \in Nat  BY <1>2, <1>3
    <3>2. QED  BY <1>6, <3>1
  <2>3. QED  BY <1>1, <1>2, <1>6, <2>1, <2>2 DEF SamplesInRing
<1>9. FramesAsSpoken'
  <2>1. Len(frame') = Frame  BY <1>6
  <2>2. ASSUME NEW k \in 1..Frame PROVE frame'[k] = due'[k]
    <3>1. PICK p \in Nat : p = Rem(r, BufferSize) /\ Rem(p + (k - 1), BufferSize) = Rem(r + (k - 1), BufferSize)
      <4>1. Rem(r, BufferSize) \in Nat  BY RemRange
      <4>2. Rem(Rem(r, BufferSize) + (k - 1), BufferSize) = Rem(r + (k - 1), BufferSize)  BY RemSum
      <4>3. QED  BY <4>1, <4>2
    <3>2. p + k - 1 = p + (k - 1)  OBVIOUS
    <3>3. frame'[k] = buffer[Rem(r + (k - 1), BufferSize)]  BY <1>6, <3>1, <3>2
    <3>4. r + (k - 1) \in r..(w - 1) /\ r + (k - 1) - r + 1 = k  BY <1>3
    <3>5. buffer[Rem(r + (k - 1), BufferSize)] = heard[r + (k - 1) - r + 1]
      BY <1>4, <3>4 DEF Unread
    <3>6. due'[k] = heard[k]  BY <1>6
    <3>7. QED  BY <3>3, <3>4, <3>5, <3>6
  <2>3. frame' = due'  BY <1>6, <2>2
  <2>4. QED  BY <2>1, <2>3 DEF FramesAsSpoken
<1>10. QED  BY <1>7, <1>8, <1>9 DEF RingInv

(* A chunk that is dropped leaves the ring as it is.                       *)
LEMMA DroppedKeeps == ASSUME RingInv, ChunkDropped PROVE RingInv'
<1> USE Sizes
<1>1. CursorsApart /\ SamplesInRing  BY DEF RingInv, ChunkDropped
<1>2. CursorsApart'  BY <1>1 DEF ChunkDropped, CursorsApart
<1>3. spoken' \in Nat
  <2>1. PICK last \in Nat : last = spoken  BY <1>1 DEF SamplesInRing
  <2>2. spoken' = Rem(last + Chunk, Samples)  BY <2>1 DEF ChunkDropped, Rem
  <2>3. QED  BY <2>2, RemRange
<1>4. SamplesInRing'  BY <1>1, <1>3 DEF ChunkDropped, SamplesInRing
<1>5. FramesAsSpoken'  BY DEF ChunkDropped, FramesAsSpoken
<1>6. QED  BY <1>2, <1>4, <1>5 DEF RingInv

(* The other threads leave the ring alone. *)
LEMMA OrdersLeaveRing == OrdersNext \/ SwitchVoice => UNCHANGED ringVars
BY DEF OrdersNext, Consumer, TakeOrder, Turn, ConsumerOnly, Button, Press, NoPress, TurnRecording,
       EnableInput, SendEnable, StartClock, VoiceOff, TimeLimit, EndFrame, TimePasses, GameOnly,
       DialStopsMic, ServerMutes, StopRecorder, NetOnly, SwitchVoice, ringVars

(* FramesAsSpoken: every frame has the samples the ring was given after    *)
(* those of the frame before, for any sizes of the ring, of chunks and of  *)
(* frames that fit each other, dividing each other or not, for cursors of  *)
(* any width that can count through the ring once, and whenever the        *)
(* encoder fails and the voice chat goes off.                              *)
THEOREM FramesAreWhole == VoiceSpec => []FramesAsSpoken
<1>1. VoiceInit => RingInv  BY RingStart DEF VoiceInit
<1>2. RingInv /\ [VoiceNext]_voiceVars => RingInv'
  <2> SUFFICES ASSUME RingInv, [VoiceNext]_voiceVars PROVE RingInv'  OBVIOUS
  <2>1. CASE RingNext
    <3>1. CASE SwitchVoice
      BY <3>1, OrdersLeaveRing DEF RingInv, CursorsApart, SamplesInRing, FramesAsSpoken, ringVars
    <3>2. QED  BY <2>1, <3>1, CaptureKeeps, DroppedKeeps, ReadKeeps DEF RingNext
  <2>2. CASE UNCHANGED ringVars
    BY <2>2 DEF RingInv, CursorsApart, SamplesInRing, FramesAsSpoken, ringVars
  <2>3. QED  BY <2>1, <2>2, OrdersLeaveRing DEF VoiceNext, voiceVars, micVars
<1>3. RingInv => FramesAsSpoken  BY DEF RingInv
<1>4. QED  BY <1>1, <1>2, <1>3, PTL DEF VoiceSpec
=============================================================================
