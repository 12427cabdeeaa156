------------------------- MODULE VoiceStreamsProofs -------------------------
(***************************************************************************)
(* What the voice consumer keeps for any number of players, sources and    *)
(* streams.  The audio state and the mutes do not touch each other, so     *)
(* each has an invariant of its own.                                       *)
(***************************************************************************)
EXTENDS VoiceStreams, FiniteSetTheorems, FunctionTheorems, TLAPS

Lending ==
    /\ streams \subseteq Players /\ old \subseteq streams
    /\ source \in [Players -> Sources \cup {NoSource}]
    /\ data \in [Players -> BOOLEAN]
    /\ free \in [Sources -> Nat]
    /\ SourcesConserved

Counting == IsFiniteSet(streams) /\ CapKept

Audio == Lending /\ Counting

(* The last order under way for a player is what is wanted for it. *)
LastOrder ==
    \A i \in DOMAIN orders :
        (\A j \in DOMAIN orders : j > i => orders[j].player # orders[i].player)
            => orders[i].mute = wanted[orders[i].player]

Mutes ==
    /\ orders \in Seq(Orders) /\ given \in Nat
    /\ muted \in [Players -> BOOLEAN] /\ wanted \in [Players -> BOOLEAN]
    /\ LastOrder /\ MutesFollowOrders

Control ==
    /\ packets \in Seq(Players)
    /\ off \in BOOLEAN /\ pc \in {"top", "packets", "orders"}

Inv == Audio /\ Mutes /\ Control

LEMMA InitInv == Init => Inv
<1> SUFFICES ASSUME Init PROVE Inv  OBVIOUS
<1>1. Counting  BY FS_EmptySet, BoundsAssumption DEF Init, Counting, CapKept
<1>2. Lending
  BY SourcesAssumption DEF Init, Lending, SourcesConserved, HasSource
<1>3. Mutes  BY DEF Init, Mutes, LastOrder, MutesFollowOrders, Orders
<1>4. Control
  <2>1. << >> \in Seq(Players)  OBVIOUS
  <2>2. QED  BY <2>1 DEF Init, Control
<1>5. QED  BY <1>1, <1>2, <1>3, <1>4 DEF Inv, Audio

-----------------------------------------------------------------------------
(* Sources *)

(* Whatever streams give up their source, it is free afterwards, and once. *)
LEMMA ReleasedSound ==
    ASSUME Lending, NEW gone \in SUBSET streams
    PROVE  /\ Released(gone) \in [Sources -> Nat]
           /\ \A s \in Sources :
                 Released(gone)[s] = IF \E p \in streams \ gone : source[p] = s THEN 0 ELSE 1
<1>1. \A s \in Sources : free[s] \in Nat  BY DEF Lending
<1>2. ASSUME NEW s \in Sources
      PROVE  Released(gone)[s] = IF \E p \in streams \ gone : source[p] = s THEN 0 ELSE 1
  <2>1. Released(gone)[s] = free[s] + IF \E p \in gone : source[p] = s THEN 1 ELSE 0
    BY DEF Released
  <2>2. free[s] = IF \E p \in streams : source[p] = s THEN 0 ELSE 1
    BY DEF Lending, SourcesConserved
  <2>3. CASE \E p \in gone : source[p] = s
    <3>1. PICK p \in gone : source[p] = s  BY <2>3
    <3>2. HasSource(p) /\ p \in Players
      BY <3>1, SourcesAssumption DEF HasSource, Lending
    <3>3. \A q \in streams \ gone : source[q] # s
      BY <3>1, <3>2 DEF Lending, SourcesConserved
    <3>4. QED  BY <2>1, <2>2, <2>3, <3>3
  <2>4. CASE ~ \E p \in gone : source[p] = s  BY <2>1, <2>2, <2>4
  <2>5. QED  BY <2>3, <2>4
<1>3. \A s \in Sources : Released(gone)[s] \in Nat  BY <1>2
<1>4. Released(gone) \in [Sources -> Nat]  BY <1>3 DEF Released
<1>5. QED  BY <1>2, <1>4

LEMMA UpdateSound ==
    ASSUME Lending, NEW p \in streams, NEW pushed \in BOOLEAN, Update(p, pushed),
           streams' = streams, old' \subseteq streams
    PROVE  Lending'
<1> USE DEF Lending
<1>1. p \in Players  OBVIOUS
<1>2. data' \in [Players -> BOOLEAN]  BY <1>1 DEF Update
<1>3. CASE UNCHANGED <<source, free>>
  BY <1>2, <1>3 DEF SourcesConserved, HasSource
<1>4. ASSUME NEW s \in Sources, HasSource(p) => s = source[p],
             ~HasSource(p) => free[s] > 0, Keep(p, s)
      PROVE  Lending'
  <2>1. source' = [source EXCEPT ![p] = s]  BY <1>4 DEF Keep
  <2>2. CASE HasSource(p)
    <3>1. UNCHANGED <<source, free>>  BY <1>4, <2>1, <2>2 DEF Keep
    <3>2. QED  BY <1>3, <3>1
  <2>3. CASE ~HasSource(p)
    <3>1. free' = [free EXCEPT ![s] = @ - 1]  BY <1>4, <2>3 DEF Keep
    <3>2. free[s] = 1 /\ \A q \in Players : source[q] # s
      BY <1>4, <2>3, SourcesAssumption DEF SourcesConserved, HasSource
    <3>3. free' \in [Sources -> Nat] /\ free'[s] = 0  BY <3>1, <3>2
    <3>4. source' \in [Players -> Sources \cup {NoSource}]  BY <2>1
    <3>5. SourcesConserved'
      <4>1. \A a, b \in Players : source'[a] = source'[b] /\ HasSource(a)' => a = b
        BY <2>1, <3>2 DEF SourcesConserved, HasSource
      <4>2. \A t \in Sources :
               free'[t] = IF \E q \in streams' : source'[q] = t THEN 0 ELSE 1
        BY <2>1, <2>3, <3>1, <3>2, <3>3, SourcesAssumption DEF SourcesConserved, HasSource
      <4>3. \A a \in Players : HasSource(a)' => a \in streams'
        BY <2>1 DEF SourcesConserved, HasSource
      <4>4. QED  BY <4>1, <4>2, <4>3 DEF SourcesConserved
    <3>6. QED  BY <1>2, <3>3, <3>4, <3>5
  <2>4. QED  BY <2>2, <2>3
<1>5. ASSUME NEW s, Drop(p, s) PROVE Lending'
  <2>1. /\ source' = [source EXCEPT ![p] = NoSource]
        /\ free' = Released({p})
    BY <1>5 DEF Drop
  <2>2. /\ free' \in [Sources -> Nat]
        /\ \A t \in Sources : free'[t] = IF \E q \in streams \ {p} : source[q] = t THEN 0 ELSE 1
    BY <2>1, ReleasedSound
  <2>3. \A t \in Sources : free'[t] = IF \E q \in streams' : source'[q] = t THEN 0 ELSE 1
    BY <2>1, <2>2, SourcesAssumption
  <2>4. \A a, b \in Players : source'[a] = source'[b] /\ HasSource(a)' => a = b
    BY <2>1 DEF SourcesConserved, HasSource
  <2>5. \A a \in Players : HasSource(a)' => a \in streams'
    BY <2>1 DEF SourcesConserved, HasSource
  <2>6. QED  BY <1>2, <2>1, <2>2, <2>3, <2>4, <2>5 DEF SourcesConserved
<1>6. QED
  <2>1. \A s : s \in (IF HasSource(p) THEN {source[p]} ELSE {t \in Sources : pushed /\ free[t] > 0})
          => s \in Sources /\ (HasSource(p) => s = source[p]) /\ (~HasSource(p) => free[s] > 0)
    BY <1>1 DEF HasSource
  <2>2. QED  BY <1>3, <1>4, <1>5, <2>1 DEF Update

(* Opening a stream: the evicted streams give up their sources, the new    *)
(* one has none, and the count follows.                                    *)
LEMMA OpenSound ==
    ASSUME Audio, NEW p \in Players, OpenStream(p)
    PROVE  Audio'
<1> DEFINE gone == IF active >= MaxStreams THEN old ELSE {}
           left == active - Cardinality(gone)
           kept == streams \ gone
<1>1. /\ p \notin streams
      /\ streams' = kept \cup (IF left < MaxStreams THEN {p} ELSE {})
      /\ active' = left + IF left < MaxStreams THEN 1 ELSE 0
      /\ source' = [q \in Players |-> IF q \in gone THEN NoSource ELSE source[q]]
      /\ data' = [q \in Players |-> IF q \in gone THEN FALSE ELSE data[q]]
      /\ free' = Released(gone)
      /\ old' = old \ gone
  BY DEF OpenStream
<1>2. gone \in SUBSET streams  BY DEF Audio, Lending
<1>3. Lending'
  <2>1. /\ free' \in [Sources -> Nat]
        /\ \A s \in Sources : free'[s] = IF \E q \in kept : source[q] = s THEN 0 ELSE 1
    BY <1>1, <1>2, ReleasedSound DEF Audio
  <2>2. source' \in [Players -> Sources \cup {NoSource}] /\ data' \in [Players -> BOOLEAN]
    BY <1>1 DEF Audio, Lending
  <2>3. source[p] = NoSource /\ kept \subseteq streams' /\ streams' \subseteq kept \cup {p}
        /\ streams' \subseteq Players /\ old' \subseteq streams'
    BY <1>1, <1>2 DEF Audio, Lending, SourcesConserved, HasSource
  <2> HIDE DEF gone, kept, left
  <2>4. \A q \in Players : source'[q] = IF q \in gone THEN NoSource ELSE source[q]
    BY <1>1
  <2>5. \A s \in Sources : free'[s] = IF \E q \in streams' : source'[q] = s THEN 0 ELSE 1
    <3>1. TAKE s \in Sources
    <3>2. (\E q \in streams' : source'[q] = s) <=> \E q \in kept : source[q] = s
      BY <2>3, <2>4, SourcesAssumption DEF kept
    <3>3. QED  BY <2>1, <3>2
  <2>6. \A a, b \in Players : source'[a] = source'[b] /\ HasSource(a)' => a = b
    BY <2>4 DEF Audio, Lending, SourcesConserved, HasSource
  <2>7. \A a \in Players : HasSource(a)' => a \in streams'
    BY <2>3, <2>4 DEF Audio, Lending, SourcesConserved, HasSource, kept
  <2>8. QED  BY <2>1, <2>2, <2>3, <2>5, <2>6, <2>7 DEF Lending, SourcesConserved
<1>4. Counting'
  <2>1. IsFiniteSet(streams) /\ active = Cardinality(streams) /\ active <= MaxStreams
        /\ MaxStreams \in Nat
    BY BoundsAssumption DEF Audio, Counting, CapKept
  <2>2. IsFiniteSet(gone) /\ IsFiniteSet(kept) /\ kept \in SUBSET streams
    BY <1>2, <2>1, FS_Subset
  <2>3. Cardinality(gone) \in Nat /\ Cardinality(kept) \in Nat /\ active \in Nat
    BY <2>1, <2>2, FS_CardinalityType
  <2>4. Cardinality(kept) = left
    <3>1. streams = gone \cup kept /\ gone \cap kept = {}  BY <1>2
    <3>2. Cardinality(streams) = Cardinality(gone) + Cardinality(kept) - Cardinality({})
      BY <2>2, <3>1, FS_Union
    <3>3. QED  BY <2>1, <2>3, <3>2, FS_EmptySet
  <2>5. p \notin kept  BY <1>1
  <2>6. IsFiniteSet(kept \cup {p}) /\ Cardinality(kept \cup {p}) = left + 1
    BY <2>2, <2>4, <2>5, FS_AddElement
  <2> HIDE DEF gone, kept, left
  <2>7. left \in Nat  BY <2>3, <2>4
  <2>8. left <= MaxStreams  BY <2>1, <2>3 DEF left
  <2>9. CASE left < MaxStreams
    <3>1. streams' = kept \cup {p} /\ active' = left + 1  BY <1>1, <2>9
    <3>2. QED  BY <2>1, <2>6, <2>7, <2>9, <3>1 DEF Counting, CapKept
  <2>10. CASE ~(left < MaxStreams)
    <3>1. streams' = kept /\ active' = left  BY <1>1, <2>7, <2>10
    <3>2. QED  BY <2>2, <2>4, <2>8, <3>1 DEF Counting, CapKept
  <2>11. QED  BY <2>9, <2>10
<1>5. QED  BY <1>3, <1>4 DEF Audio

LEMMA AudioUnchanged == ASSUME Audio, UNCHANGED audio PROVE Audio'
BY DEF Audio, Lending, Counting, CapKept, SourcesConserved, HasSource, audio

LEMMA TakePacketSound ==
    ASSUME Audio, Control, NEW paused \in BOOLEAN, TakePacket(paused)
    PROVE  Audio'
<1> DEFINE p == Head(packets)
<1>1. p \in Players  BY DEF TakePacket, Control
<1>2. CASE DropPacket(p, paused)  BY <1>2, AudioUnchanged DEF DropPacket
<1>3. CASE FeedStream(p)
  <2>1. PICK pushed \in {data[p], TRUE} : Update(p, pushed)  BY <1>3 DEF FeedStream
  <2>2. pushed \in BOOLEAN  BY <1>1, <2>1 DEF Audio, Lending
  <2>3. p \in streams /\ streams' = streams /\ old' \subseteq streams /\ active' = active
    BY <1>3 DEF FeedStream, Audio, Lending
  <2>4. Lending'  BY <2>1, <2>2, <2>3, UpdateSound DEF Audio
  <2>5. QED  BY <2>3, <2>4 DEF Audio, Counting, CapKept
<1>4. CASE OpenStream(p)  BY <1>1, <1>4, OpenSound
<1>5. QED  BY <1>2, <1>3, <1>4 DEF TakePacket
-----------------------------------------------------------------------------
(* Mutes *)

(* A new order is the last one of its player, and is what is wanted now.   *)
LEMMA OrderSound ==
    ASSUME Mutes, NEW p \in Players, NEW mute \in BOOLEAN, Order(p, mute)
    PROVE  Mutes'
<1> DEFINE o == [player |-> p, mute |-> mute]
           n == Len(orders)
<1>1. /\ orders' = Append(orders, o) /\ given' = given + 1
      /\ wanted' = [wanted EXCEPT ![p] = mute] /\ muted' = muted
  BY DEF Order
<1>2. o \in Orders /\ o.player = p /\ o.mute = mute  BY DEF Orders
<1>3. /\ orders \in Seq(Orders) /\ n \in Nat /\ DOMAIN orders = 1..n
      /\ wanted \in [Players -> BOOLEAN] /\ given \in Nat
      /\ \A i \in 1..n : orders[i].player \in Players
  <2>1. orders \in Seq(Orders)  BY DEF Mutes
  <2>2. \A i \in 1..n : orders[i] \in Orders  BY <2>1
  <2>3. \A i \in 1..n : orders[i].player \in Players  BY <2>2 DEF Orders
  <2>4. n \in Nat /\ DOMAIN orders = 1..n  BY <2>1
  <2>5. QED  BY <2>1, <2>3, <2>4 DEF Mutes
<1> HIDE DEF o
<1>4. /\ orders' \in Seq(Orders) /\ DOMAIN orders' = 1..(n + 1)
      /\ orders'[n + 1] = o /\ \A i \in 1..n : orders'[i] = orders[i]
  BY <1>1, <1>2, <1>3
<1>5. wanted' \in [Players -> BOOLEAN] /\ wanted'[p] = mute
      /\ \A q \in Players \ {p} : wanted'[q] = wanted[q]
  BY <1>1, <1>3
<1> HIDE DEF n
<1>6. LastOrder'
  <2>1. SUFFICES ASSUME NEW i \in 1..(n + 1),
                        \A j \in 1..(n + 1) : j > i => orders'[j].player # orders'[i].player
                 PROVE  orders'[i].mute = wanted'[orders'[i].player]
    BY <1>4 DEF LastOrder
  <2>2. CASE i = n + 1  BY <1>2, <1>4, <1>5, <2>2
  <2>3. CASE i # n + 1
    <3>1. i \in 1..n /\ n + 1 > i /\ n + 1 \in 1..(n + 1)  BY <1>3, <2>3
    <3>2. orders[i].player # p  BY <1>2, <1>4, <2>1, <3>1
    <3>3. \A j \in 1..n : j > i => orders[j].player # orders[i].player
      <4>1. \A j \in 1..n : j \in 1..(n + 1)  BY <1>3
      <4>2. QED  BY <1>4, <2>1, <3>1, <4>1
    <3>4. orders[i].mute = wanted[orders[i].player]
      BY <1>3, <3>1, <3>3 DEF Mutes, LastOrder
    <3>5. QED  BY <1>3, <1>4, <1>5, <3>1, <3>2, <3>4
  <2>4. QED  BY <2>2, <2>3
<1>7. MutesFollowOrders'
  <2>1. SUFFICES ASSUME NEW q \in Players, \A i \in 1..(n + 1) : orders'[i].player # q
                 PROVE  muted'[q] = wanted'[q]
    BY <1>4 DEF MutesFollowOrders
  <2>2. n + 1 \in 1..(n + 1) /\ \A i \in 1..n : i \in 1..(n + 1)  BY <1>3
  <2>3. q # p  BY <1>2, <1>4, <2>1, <2>2
  <2>4. \A i \in 1..n : orders[i].player # q  BY <1>4, <2>1, <2>2
  <2>5. muted[q] = wanted[q]  BY <1>3, <2>4 DEF Mutes, MutesFollowOrders
  <2>6. QED  BY <1>1, <1>5, <2>3, <2>5
<1>8. muted' \in [Players -> BOOLEAN] /\ given' \in Nat
  BY <1>1, <1>3 DEF Mutes
<1>9. QED  BY <1>4, <1>5, <1>6, <1>7, <1>8 DEF Mutes

(* An order taken is either not its player's last, or what is wanted.      *)
LEMMA TakeOrderSound == ASSUME Mutes, TakeOrder PROVE Mutes'
<1> DEFINE o == Head(orders)
           n == Len(orders)
<1>1. /\ orders # << >> /\ orders' = Tail(orders)
      /\ muted' = [muted EXCEPT ![o.player] = o.mute]
      /\ wanted' = wanted /\ given' = given
  BY DEF TakeOrder
<1>2. /\ orders \in Seq(Orders) /\ n \in Nat /\ n >= 1 /\ DOMAIN orders = 1..n
      /\ muted \in [Players -> BOOLEAN] /\ o = orders[1]
  BY <1>1 DEF Mutes
<1>3. o \in Orders  BY <1>2
<1>4. o.player \in Players /\ o.mute \in BOOLEAN  BY <1>3 DEF Orders
<1>5. /\ orders' \in Seq(Orders) /\ DOMAIN orders' = 1..(n - 1)
      /\ \A i \in 1..(n - 1) : orders'[i] = orders[i + 1]
  BY <1>1, <1>2
<1>6. /\ muted' \in [Players -> BOOLEAN] /\ muted'[o.player] = o.mute
      /\ \A q \in Players \ {o.player} : muted'[q] = muted[q]
  BY <1>1, <1>2, <1>4
<1> HIDE DEF o, n
<1>7. LastOrder'
  <2>1. SUFFICES ASSUME NEW i \in 1..(n - 1),
                        \A j \in 1..(n - 1) : j > i => orders'[j].player # orders'[i].player
                 PROVE  orders'[i].mute = wanted[orders'[i].player]
    BY <1>1, <1>5 DEF LastOrder
  <2>2. \A j \in 1..n : j > i + 1 => orders[j].player # orders[i + 1].player
    <3>1. SUFFICES ASSUME NEW j \in 1..n, j > i + 1
                   PROVE  orders[j].player # orders[i + 1].player
      OBVIOUS
    <3>2. j - 1 \in 1..(n - 1) /\ j - 1 > i /\ (j - 1) + 1 = j  BY <1>2, <3>1
    <3>3. orders'[j - 1] = orders[j]  BY <1>5, <3>2
    <3>4. QED  BY <1>5, <2>1, <3>2, <3>3
  <2>3. i + 1 \in 1..n  BY <1>2
  <2>4. QED  BY <1>2, <1>5, <2>2, <2>3 DEF Mutes, LastOrder
<1>8. MutesFollowOrders'
  <2>1. SUFFICES ASSUME NEW q \in Players, \A i \in 1..(n - 1) : orders'[i].player # q
                 PROVE  muted'[q] = wanted[q]
    BY <1>1, <1>5 DEF MutesFollowOrders
  <2>2. \A j \in 1..n : j > 1 => orders[j].player # q
    <3>1. SUFFICES ASSUME NEW j \in 1..n, j > 1 PROVE orders[j].player # q  OBVIOUS
    <3>2. j - 1 \in 1..(n - 1) /\ (j - 1) + 1 = j  BY <1>2, <3>1
    <3>3. QED  BY <1>5, <2>1, <3>2
  <2>3. 1 \in 1..n  BY <1>2
  <2>4. CASE q = o.player
    BY <1>2, <1>6, <2>2, <2>3, <2>4 DEF Mutes, LastOrder
  <2>5. CASE q # o.player
    <3>1. \A j \in 1..n : orders[j].player # q
      <4>1. \A j \in 1..n : j = 1 \/ j > 1  BY <1>2
      <4>2. QED  BY <1>2, <2>2, <2>5, <4>1
    <3>2. QED  BY <1>2, <1>6, <2>5, <3>1 DEF Mutes, MutesFollowOrders
  <2>6. QED  BY <2>4, <2>5
<1>9. QED  BY <1>1, <1>5, <1>6, <1>7, <1>8 DEF Mutes

LEMMA MutesUnchanged == ASSUME Mutes, UNCHANGED mutes PROVE Mutes'
BY DEF Mutes, LastOrder, MutesFollowOrders, mutes

-----------------------------------------------------------------------------
(* Steps *)

LEMMA ConsumeInv == ASSUME Inv, Consume PROVE Inv'
<1>1. CASE TestDisconnected
  BY <1>1, AudioUnchanged, MutesUnchanged DEF TestDisconnected, Inv, Control
<1>2. ASSUME NEW paused \in BOOLEAN, TakePacket(paused) PROVE Inv'
  <2>1. Audio'  BY <1>2, TakePacketSound DEF Inv
  <2>2. Mutes'  BY <1>2, MutesUnchanged DEF TakePacket, Inv
  <2>3. Control'  BY <1>2 DEF TakePacket, Inv, Control
  <2>4. QED  BY <2>1, <2>2, <2>3 DEF Inv
<1>3. CASE PacketsDone
  BY <1>3, AudioUnchanged, MutesUnchanged DEF PacketsDone, Inv, Control
<1>4. CASE TakeOrder
  <2>1. Audio'  BY <1>4, AudioUnchanged DEF TakeOrder, Inv
  <2>2. Mutes'  BY <1>4, TakeOrderSound DEF Inv
  <2>3. Control'  BY <1>4 DEF TakeOrder, Inv, Control
  <2>4. QED  BY <2>1, <2>2, <2>3 DEF Inv
<1>5. CASE OrdersDone
  BY <1>5, AudioUnchanged, MutesUnchanged DEF OrdersDone, Inv, Control
<1>6. QED  BY <1>1, <1>2, <1>3, <1>4, <1>5 DEF Consume

LEMMA OthersInv == ASSUME Inv, Others PROVE Inv'
<1>1. ASSUME NEW p \in Players, Receive(p) PROVE Inv'
  <2>1. Control'  BY <1>1 DEF Receive, Inv, Control
  <2>2. QED  BY <1>1, <2>1, AudioUnchanged, MutesUnchanged DEF Receive, Inv
<1>2. ASSUME NEW p \in Players, NEW mute \in BOOLEAN, Order(p, mute) PROVE Inv'
  <2>1. Audio'  BY <1>2, AudioUnchanged DEF Order, Inv
  <2>2. Mutes'  BY <1>2, OrderSound DEF Inv
  <2>3. Control'  BY <1>2 DEF Order, Inv, Control
  <2>4. QED  BY <2>1, <2>2, <2>3 DEF Inv
<1>3. CASE LinkChanges
  BY <1>3, AudioUnchanged, MutesUnchanged DEF LinkChanges, Inv, Control
<1>4. ASSUME NEW p \in Players, TimePasses(p) PROVE Inv'
  <2>1. Audio'
    BY <1>4 DEF TimePasses, Inv, Audio, Lending, Counting, CapKept, SourcesConserved, HasSource
  <2>2. Mutes' /\ Control'  BY <1>4, MutesUnchanged DEF TimePasses, Inv, Control
  <2>3. QED  BY <2>1, <2>2 DEF Inv
<1>5. QED  BY <1>1, <1>2, <1>3, <1>4 DEF Others

LEMMA NextInv == Inv /\ [Next]_vars => Inv'
<1> SUFFICES ASSUME Inv, [Next]_vars PROVE Inv'  OBVIOUS
<1>1. CASE Next  BY <1>1, ConsumeInv, OthersInv DEF Next
<1>2. CASE UNCHANGED vars
  BY <1>2, AudioUnchanged, MutesUnchanged DEF vars, Inv, Control
<1>3. QED  BY <1>1, <1>2

(* The voice consumer's invariant, in every order of packets, orders,      *)
(* OpenAL failures and disconnections.                                     *)
THEOREM Invariance == Spec => []Inv
BY InitInv, NextInv, PTL DEF Spec

(* The consumer's state is well typed.                                     *)
THEOREM TypeCorrect == Spec => []TypeOK
<1>1. Inv => TypeOK
  <2>1. SUFFICES ASSUME Inv PROVE TypeOK  OBVIOUS
  <2>2. active \in Nat
    BY <2>1, FS_CardinalityType DEF Inv, Audio, Counting, CapKept
  <2>3. QED  BY <2>1, <2>2 DEF Inv, Audio, Lending, Mutes, Control, TypeOK
<1>2. QED  BY <1>1, Invariance, PTL

(* CSoundOutput's sources are lent to one stream each and never lost.      *)
THEOREM SourcesSafe == Spec => []SourcesConserved
<1>1. Inv => SourcesConserved  BY DEF Inv, Audio, Lending
<1>2. QED  BY <1>1, Invariance, PTL

(* The mutes of CVoiceChatClient end as the game thread last said.         *)
THEOREM MutesSafe == Spec => []MutesFollowOrders
<1>1. Inv => MutesFollowOrders  BY DEF Inv, Mutes
<1>2. QED  BY <1>1, Invariance, PTL

(* The pigeonhole behind AlwaysASource: were every source lent, each would *)
(* have a stream of its own among those other than p.                      *)
LEMMA SourceLeft == Audio => AlwaysASource
<1> SUFFICES ASSUME Audio, Cardinality(Sources) >= MaxStreams,
                    NEW p \in streams, ~HasSource(p),
                    ~ \E s \in Sources : free[s] > 0
             PROVE  FALSE
  BY DEF AlwaysASource
<1> DEFINE owners == {q \in streams : HasSource(q)}
           lent == [q \in owners |-> source[q]]
<1>1. IsFiniteSet(streams) /\ Cardinality(streams) <= MaxStreams /\ owners \in SUBSET streams
  BY DEF Audio, Counting, CapKept
<1>2. IsFiniteSet(owners) /\ Cardinality(owners) <= Cardinality(streams)
      /\ Cardinality(owners) # Cardinality(streams)
  BY <1>1, FS_Subset
<1>3. lent \in Surjection(owners, Sources)
  <2>1. lent \in [owners -> Sources]  BY DEF Audio, Lending, HasSource
  <2>2. \A s \in Sources : \E q \in owners : lent[q] = s
    <3>1. TAKE s \in Sources
    <3>2. free[s] = 0  BY DEF Audio, Lending
    <3>3. PICK q \in streams : source[q] = s  BY <3>2 DEF Audio, Lending, SourcesConserved
    <3>4. q \in owners  BY <3>3, SourcesAssumption DEF HasSource
    <3>5. QED  BY <3>3, <3>4
  <2>3. QED  BY <2>1, <2>2 DEF Surjection
<1>4. Cardinality(Sources) <= Cardinality(owners) /\ IsFiniteSet(Sources)
  BY <1>2, <1>3, FS_Surjection
<1>5. /\ Cardinality(Sources) \in Nat /\ Cardinality(owners) \in Nat
      /\ Cardinality(streams) \in Nat
  BY <1>1, <1>2, <1>4, FS_CardinalityType
<1>6. QED  BY <1>1, <1>2, <1>4, <1>5, BoundsAssumption

(* The count is exact and the cap of StartProcessing kept, and with as     *)
(* many sources as streams are allowed no stream is left silent.           *)
THEOREM RoomSafe == Spec => []RoomForAll
<1>1. Inv => RoomForAll  BY SourceLeft DEF Inv, Audio, Counting, RoomForAll
<1>2. QED  BY <1>1, Invariance, PTL
=============================================================================
