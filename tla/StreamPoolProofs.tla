-------------------------- MODULE StreamPoolProofs --------------------------
(***************************************************************************)
(* What holds of the stream pool for any number of slots, addresses and    *)
(* waiting commands.  "again" \notin Faults says that the server destroys  *)
(* only what it has created; where it is not assumed, it is not needed.    *)
(***************************************************************************)
EXTENDS StreamPool, FiniteSetTheorems, TLAPS

LEMMA AppendFacts ==
    ASSUME NEW S, NEW s \in Seq(S), NEW e \in S
    PROVE  /\ Append(s, e) \in Seq(S)
           /\ Len(s) \in Nat /\ Len(Append(s, e)) = Len(s) + 1
           /\ DOMAIN s = 1..Len(s) /\ DOMAIN Append(s, e) = 1..(Len(s) + 1)
           /\ \A k \in 1..Len(s) : Append(s, e)[k] = s[k]
           /\ Append(s, e)[Len(s) + 1] = e
  OBVIOUS

LEMMA TailFacts ==
    ASSUME NEW S, NEW s \in Seq(S), s # << >>
    PROVE  /\ Head(s) = s[1] /\ s[1] \in S
           /\ Tail(s) \in Seq(S)
           /\ Len(s) \in Nat \ {0} /\ Len(Tail(s)) = Len(s) - 1
           /\ DOMAIN s = 1..Len(s) /\ DOMAIN Tail(s) = 1..(Len(s) - 1)
           /\ \A k \in 1..(Len(s) - 1) : Tail(s)[k] = s[k + 1]
  OBVIOUS

(* A command of the queue that has the type its handler relies on. *)
Wellformed(c) ==
    /\ c \in Commands
    /\ c.command \in {"add", "delete", "volume"} => c.iID \in Ids
    /\ c.command = "add" => c.stream \in Addrs

LEMMA AboutType ==
    /\ \A i \in Ids : Wellformed(About("delete", i)) /\ Wellformed(About("volume", i))
    /\ \A command \in {"activate", "deactivate"} : Wellformed(AboutAll(command))
    /\ \A i \in Ids, a \in Addrs : Wellformed([command |-> "add", iID |-> i, stream |-> a])
  BY DEF Wellformed, Commands, About, AboutAll

LEMMA QueueType ==
    ASSUME PoolTypeOK, NEW c, Wellformed(c), Queue(c)
    PROVE  /\ bufferedCommands' \in Seq(Commands)
           /\ \A k \in DOMAIN bufferedCommands' : Wellformed(bufferedCommands'[k])
<1>1. bufferedCommands \in Seq(Commands) /\ c \in Commands  BY DEF PoolTypeOK, Wellformed
<1>2. \A k \in DOMAIN bufferedCommands : Wellformed(bufferedCommands[k])
  BY <1>1 DEF PoolTypeOK, Wellformed
<1>3. bufferedCommands' = Append(bufferedCommands, c)  BY DEF Queue
<1>4. QED  BY <1>1, <1>2, <1>3, AppendFacts

LEMMA TakeType ==
    ASSUME PoolTypeOK, NEW commands, TakeCommand(commands)
    PROVE  /\ bufferedCommands' \in Seq(Commands)
           /\ \A k \in DOMAIN bufferedCommands' : Wellformed(bufferedCommands'[k])
           /\ Wellformed(Head(bufferedCommands))
<1>1. bufferedCommands \in Seq(Commands) /\ bufferedCommands # << >>
  BY DEF PoolTypeOK, TakeCommand
<1>2. \A k \in DOMAIN bufferedCommands : Wellformed(bufferedCommands[k])
  BY <1>1 DEF PoolTypeOK, Wellformed
<1>3. bufferedCommands' = Tail(bufferedCommands)  BY DEF TakeCommand
<1>4. QED  BY <1>1, <1>2, <1>3, TailFacts

LEMMA PlacedType == PoolTypeOK => Placed \subseteq Addrs
  BY DEF PoolTypeOK, Placed, Occupied

-----------------------------------------------------------------------------
LEMMA TypeStep == PoolTypeOK /\ [PoolNext]_poolVars => PoolTypeOK'
<1> SUFFICES ASSUME PoolTypeOK, [PoolNext]_poolVars PROVE PoolTypeOK'  OBVIOUS
<1> DEFINE WellQueued ==
           /\ bufferedCommands \in Seq(Commands)
           /\ \A k \in DOMAIN bufferedCommands : Wellformed(bufferedCommands[k])
           OtherTypes ==
           /\ m_pStreams \in [Ids -> Addrs \cup {Null}]
           /\ m_bSlotState \in [Ids -> BOOLEAN]
           /\ m_bIsDeactivated \in BOOLEAN /\ m_bWasPaused \in BOOLEAN
           /\ live \subseteq Addrs
           /\ deactivated \in [Addrs -> BOOLEAN]
           /\ playing \subseteq Addrs
           /\ volumes \in Int
           /\ moving \in Addrs \cup {Null} /\ hasty \in BOOLEAN
           /\ worker \in {"asleep", "drain", "play"}
           /\ gamePaused \in BOOLEAN
           /\ serverHas \subseteq Ids
<1>1. WellQueued /\ OtherTypes  BY DEF PoolTypeOK, Wellformed
<1>2. SUFFICES WellQueued' /\ OtherTypes'  BY DEF PoolTypeOK, Wellformed
<1>3. ASSUME NEW i \in Ids, NEW a \in Addrs, AddStream(i, a) PROVE WellQueued' /\ OtherTypes'
  <2>1. WellQueued'  BY <1>3, AboutType, QueueType DEF AddStream
  <2>2. OtherTypes'  BY <1>1, <1>3 DEF AddStream, Queue, slots
  <2>3. QED  BY <2>1, <2>2
<1>4. ASSUME NEW i \in Ids, DeleteStreamByID(i) \/ SetStreamVolume(i) PROVE WellQueued' /\ OtherTypes'
  <2>1. WellQueued'  BY <1>4, AboutType, QueueType DEF DeleteStreamByID, SetStreamVolume
  <2>2. OtherTypes'  BY <1>1, <1>4 DEF DeleteStreamByID, SetStreamVolume, Queue, slots
  <2>3. QED  BY <2>1, <2>2
<1>5. ASSUME NEW i \in Ids, GetStream(i) PROVE WellQueued' /\ OtherTypes'
  <2>1. UnderWay(i) \in BOOLEAN  BY Zenon DEF UnderWay
  <2>2. PICK late \in BOOLEAN : late = UnderWay(i)  BY <2>1
  <2>3. hasty' \in BOOLEAN  BY <1>5, <2>2 DEF GetStream
  <2>4. QED  BY <1>1, <1>5, <2>3 DEF GetStream, slots, objects
<1>6. ASSUME Activate \/ Deactivate PROVE WellQueued' /\ OtherTypes'
  <2>1. WellQueued'  BY <1>6, AboutType, QueueType DEF Activate, Deactivate
  <2>2. OtherTypes'  BY <1>1, <1>6 DEF Activate, Deactivate, Queue, slots
  <2>3. QED  BY <2>1, <2>2
<1>7. ASSUME SetPosition \/ NewSession \/ PauseOrResume PROVE WellQueued' /\ OtherTypes'
  BY <1>1, <1>7 DEF SetPosition, NewSession, PauseOrResume, slots, objects
<1>8. ASSUME Suspend \/ Wake \/ AllHandled PROVE WellQueued' /\ OtherTypes'
  BY <1>1, <1>8 DEF Suspend, Wake, AllHandled, DeactivateAll, slots, objects
<1>9. ASSUME HandleAdd \/ HandleDelete \/ HandleVolume \/ HandleActivate
      PROVE  WellQueued' /\ OtherTypes'
  <2> DEFINE c == Head(bufferedCommands)
  <2>1. WellQueued' /\ Wellformed(c)
    BY <1>9, TakeType DEF HandleAdd, HandleDelete, HandleVolume, HandleActivate
  <2>2. CASE HandleAdd \/ HandleDelete
    <3>1. c.iID \in Ids /\ (HandleAdd => c.stream \in Addrs)
      BY <2>1, <2>2 DEF HandleAdd, HandleDelete, TakeCommand, Wellformed
    <3> HIDE DEF c
    <3>2. m_pStreams' \in [Ids -> Addrs \cup {Null}] /\ m_bSlotState' \in [Ids -> BOOLEAN]
      BY <1>1, <2>2, <3>1 DEF HandleAdd, HandleDelete, slots, c
    <3>3. live' \subseteq Addrs /\ playing' \subseteq Addrs /\ deactivated' \in [Addrs -> BOOLEAN]
      BY <1>1, <2>2 DEF HandleAdd, HandleDelete, Delete
    <3>4. OtherTypes'
      BY <1>1, <2>2, <3>2, <3>3 DEF HandleAdd, HandleDelete, TakeCommand
    <3>5. QED  BY <2>1, <3>4
  <2>3. CASE HandleVolume
    BY <1>1, <2>1, <2>3 DEF HandleVolume, TakeCommand, slots, objects
  <2>4. CASE HandleActivate
    BY <1>1, <2>1, <2>4 DEF HandleActivate, TakeCommand, DeactivateAll, slots
  <2>5. QED  BY <1>9, <2>2, <2>3, <2>4
<1>10. ASSUME NEW near \in SUBSET Placed, ProcessStreams(near) PROVE WellQueued' /\ OtherTypes'
  <2>1. playing' \subseteq Addrs  BY <1>1, <1>10, PlacedType DEF ProcessStreams
  <2>2. QED  BY <1>1, <1>10, <2>1 DEF ProcessStreams, slots
<1>11. CASE UNCHANGED poolVars  BY <1>1, <1>11 DEF poolVars, slots, objects
<1>12. QED
  BY <1>3, <1>4, <1>5, <1>6, <1>7, <1>8, <1>9, <1>10, <1>11 DEF PoolNext, GameThread, Worker

LEMMA InitType == PoolInit => PoolTypeOK
<1> SUFFICES ASSUME PoolInit PROVE PoolTypeOK  OBVIOUS
<1>1. bufferedCommands \in Seq(Commands) /\ DOMAIN bufferedCommands = {}  BY DEF PoolInit
<1>2. /\ m_pStreams \in [Ids -> Addrs \cup {Null}] /\ m_bSlotState \in [Ids -> BOOLEAN]
      /\ deactivated \in [Addrs -> BOOLEAN]
  BY DEF PoolInit
<1>3. m_bIsDeactivated \in BOOLEAN /\ m_bWasPaused \in BOOLEAN /\ gamePaused \in BOOLEAN
  BY DEF PoolInit
<1>4. /\ live \subseteq Addrs /\ playing \subseteq Addrs /\ serverHas \subseteq Ids
      /\ volumes \in Int /\ moving \in Addrs \cup {Null} /\ worker \in {"asleep", "drain", "play"}
  BY DEF PoolInit
<1>5. hasty \in BOOLEAN
  <2>1. hasty = FALSE  BY DEF PoolInit
  <2>2. QED  BY <2>1
<1>6. QED  BY <1>1, <1>2, <1>3, <1>4, <1>5 DEF PoolTypeOK

(* Every variable has its type; a command on its way carries what its      *)
(* handler reads.                                                          *)
THEOREM TypeCorrect == PoolSpec => []PoolTypeOK
  BY InitType, TypeStep, PTL DEF PoolSpec

-----------------------------------------------------------------------------
(* What the steps do to the slots, the streams and the queue. *)

(* A stream is created and a command to place it queued. *)
Creates(i, a) ==
    /\ a \notin live
    /\ live' = live \cup {a}
    /\ bufferedCommands' = Append(bufferedCommands, [command |-> "add", iID |-> i, stream |-> a])
    /\ serverHas' = serverHas \cup {i}
    /\ moving = Null /\ moving' = Null
    /\ UNCHANGED <<slots, playing>>

(* Another command is queued. *)
Asks(c) ==
    /\ c.command # "add" /\ Wellformed(c)
    /\ bufferedCommands' = Append(bufferedCommands, c)
    /\ c.command \in {"delete", "volume"} => c.iID \in serverHas \/ "again" \in Faults
    /\ \/ c.command = "delete" /\ serverHas' = serverHas \ {c.iID}
       \/ c.command # "delete" /\ serverHas' = serverHas
    /\ moving = Null /\ moving' = Null
    /\ UNCHANGED <<slots, live, playing>>

(* Nothing moves between the queue and the slots; ProcessStreams changes   *)
(* what plays in them.                                                     *)
Rests ==
    /\ UNCHANGED <<slots, live, bufferedCommands>>
    /\ serverHas' \subseteq serverHas
    /\ \/ playing' = playing
       \/ playing' \subseteq (playing \ Placed) \cup Placed
    /\ \/ moving' = Null \/ UNCHANGED <<moving, hasty>>
       \/ \E i \in Ids : GetStream(i)

(* A command is carried out that places and deletes nothing. *)
Adjusts ==
    /\ \E commands \in {{"volume"}, {"activate", "deactivate"}} : TakeCommand(commands)
    /\ UNCHANGED <<slots, live, playing>>

StreamStep ==
    \/ \E i \in Ids, a \in Addrs : Creates(i, a)
    \/ \E c \in Commands : Asks(c)
    \/ Rests
    \/ Adjusts
    \/ HandleAdd
    \/ HandleDelete

LEMMA EveryStep ==
    ASSUME PoolTypeOK, [PoolNext]_poolVars
    PROVE  StreamStep
<1>1. ASSUME NEW i \in Ids, NEW a \in Addrs, AddStream(i, a) PROVE Creates(i, a)
  BY <1>1 DEF AddStream, Creates, Queue
<1>2. ASSUME NEW i \in Ids, DeleteStreamByID(i) PROVE \E c \in Commands : Asks(c)
  <2>1. Asks(About("delete", i))
    BY <1>2, AboutType DEF DeleteStreamByID, Asks, Queue, About
  <2>2. QED  BY <2>1, AboutType DEF Wellformed
<1>3. ASSUME NEW i \in Ids, SetStreamVolume(i) PROVE \E c \in Commands : Asks(c)
  <2>1. Asks(About("volume", i))
    BY <1>3, AboutType DEF SetStreamVolume, Asks, Queue, About
  <2>2. QED  BY <2>1, AboutType DEF Wellformed
<1>4. ASSUME Activate \/ Deactivate PROVE \E c \in Commands : Asks(c)
  <2>1. Asks(AboutAll("activate")) \/ Asks(AboutAll("deactivate"))
    BY <1>4, AboutType DEF Activate, Deactivate, Asks, Queue, About, AboutAll
  <2>2. QED  BY <2>1, AboutType DEF Wellformed
<1>5. ASSUME NEW i \in Ids, GetStream(i) PROVE Rests
  BY <1>5 DEF GetStream, Rests, objects
<1>6. ASSUME SetPosition \/ NewSession \/ PauseOrResume \/ Suspend \/ Wake \/ AllHandled
      PROVE  Rests
  BY <1>6 DEF SetPosition, NewSession, PauseOrResume, Suspend, Wake, AllHandled, Rests, objects
<1>7. ASSUME HandleVolume \/ HandleActivate PROVE Adjusts
  BY <1>7 DEF HandleVolume, HandleActivate, Adjusts, objects
<1>8. ASSUME NEW near \in SUBSET Placed, ProcessStreams(near) PROVE Rests
  BY <1>8 DEF ProcessStreams, Rests
<1>9. ASSUME UNCHANGED poolVars PROVE Rests  BY <1>9 DEF poolVars, Rests, objects
<1>10. QED
  BY <1>1, <1>2, <1>3, <1>4, <1>5, <1>6, <1>7, <1>8, <1>9 DEF PoolNext, GameThread, Worker, StreamStep

-----------------------------------------------------------------------------
(* The server's streams are present. *)

(* A command destroys, or makes louder, only what is there when its turn   *)
(* comes.                                                                  *)
Needs(k, i) == bufferedCommands[k].command \in {"delete", "volume"} /\ bufferedCommands[k].iID = i

Chained ==
    \A i \in Ids, k \in DOMAIN bufferedCommands : Needs(k, i) => PresentAfter(k - 1, i)

LEMMA PresentAppend ==
    ASSUME PoolTypeOK, NEW c \in Commands, NEW i \in Ids,
           NEW n \in Nat, n = Len(bufferedCommands),
           bufferedCommands' = Append(bufferedCommands, c), UNCHANGED m_bSlotState
    PROVE  /\ \A m \in 0..n : PresentAfter(m, i) => PresentAfter(m, i)'
           /\ \/ c.command = "add" /\ c.iID = i
              \/ PresentAfter(n, i) /\ ~(c.command = "delete" /\ c.iID = i)
              => PresentAfter(n + 1, i)'
<1>1. /\ \A k \in 1..n : bufferedCommands'[k] = bufferedCommands[k]
      /\ bufferedCommands'[n + 1] = c
  BY AppendFacts DEF PoolTypeOK
<1>2. \A k \in 1..n : Brings(k, i)' = Brings(k, i) /\ Removes(k, i)' = Removes(k, i)
  BY <1>1 DEF Brings, Removes
<1>3. /\ Brings(n + 1, i)' <=> (c.command = "add" /\ c.iID = i)
      /\ Removes(n + 1, i)' <=> (c.command = "delete" /\ c.iID = i)
  BY <1>1 DEF Brings, Removes
<1>4. \A m \in 0..n : PresentAfter(m, i) => PresentAfter(m, i)'
  BY <1>1, <1>2 DEF PresentAfter
<1>5. ASSUME c.command = "add", c.iID = i PROVE PresentAfter(n + 1, i)'
  BY <1>1, <1>3, <1>5 DEF PresentAfter
<1>6. ASSUME PresentAfter(n, i), ~(c.command = "delete" /\ c.iID = i) PROVE PresentAfter(n + 1, i)'
  BY <1>1, <1>2, <1>3, <1>6 DEF PresentAfter
<1>7. QED  BY <1>4, <1>5, <1>6

LEMMA PresentTail ==
    ASSUME PoolTypeOK, NEW i \in Ids, bufferedCommands # << >>,
           bufferedCommands' = Tail(bufferedCommands),
           m_bSlotState'[i] <=> Brings(1, i) \/ (m_bSlotState[i] /\ ~Removes(1, i))
    PROVE  \A m \in 0..(Len(bufferedCommands) - 1) : PresentAfter(m + 1, i) => PresentAfter(m, i)'
<1> DEFINE n == Len(bufferedCommands)
<1>1. /\ n \in Nat \ {0}
      /\ \A k \in 1..(n - 1) : bufferedCommands'[k] = bufferedCommands[k + 1]
  BY TailFacts DEF PoolTypeOK
<1> HIDE DEF n
<1>2. \A k \in 1..(n - 1) : Brings(k, i)' = Brings(k + 1, i) /\ Removes(k, i)' = Removes(k + 1, i)
  BY <1>1 DEF Brings, Removes
<1> SUFFICES ASSUME NEW m \in 0..(n - 1), PresentAfter(m + 1, i) PROVE PresentAfter(m, i)'
  BY DEF n
<1>3. CASE m_bSlotState[i] /\ \A k \in 1..(m + 1) : ~Removes(k, i)
  <2>1. m_bSlotState'[i]  BY <1>3
  <2>2. \A k \in 1..m : ~Removes(k, i)'  BY <1>1, <1>2, <1>3
  <2>3. QED  BY <2>1, <2>2 DEF PresentAfter
<1>4. ASSUME NEW k \in 1..(m + 1), Brings(k, i), \A l \in (k + 1)..(m + 1) : ~Removes(l, i)
      PROVE  PresentAfter(m, i)'
  <2>1. CASE k = 1
    <3>1. m_bSlotState'[i]  BY <1>4, <2>1
    <3>2. \A l \in 1..m : ~Removes(l, i)'  BY <1>1, <1>2, <1>4, <2>1
    <3>3. QED  BY <3>1, <3>2 DEF PresentAfter
  <2>2. CASE k > 1
    <3>1. k - 1 \in 1..m /\ Brings(k - 1, i)'  BY <1>1, <1>2, <1>4, <2>2
    <3>2. \A l \in ((k - 1) + 1)..m : ~Removes(l, i)'  BY <1>1, <1>2, <1>4, <2>2
    <3>3. QED  BY <3>1, <3>2 DEF PresentAfter
  <2>3. QED  BY <2>1, <2>2
<1>5. QED  BY <1>3, <1>4 DEF PresentAfter

LEMMA HandlersTake ==
    ASSUME PoolTypeOK, Adjusts \/ HandleAdd \/ HandleDelete, NEW i \in Ids
    PROVE  /\ bufferedCommands # << >> /\ bufferedCommands' = Tail(bufferedCommands)
           /\ m_bSlotState'[i] <=> Brings(1, i) \/ (m_bSlotState[i] /\ ~Removes(1, i))
           /\ serverHas' = serverHas
<1>1. /\ bufferedCommands # << >> /\ bufferedCommands' = Tail(bufferedCommands)
      /\ serverHas' = serverHas
  BY DEF Adjusts, HandleAdd, HandleDelete, TakeCommand
<1> DEFINE c == Head(bufferedCommands)
<1>2. c = bufferedCommands[1] /\ Wellformed(c)
  BY <1>1, TailFacts DEF PoolTypeOK, Wellformed
<1> HIDE DEF c
<1>3. CASE Adjusts
  <2>1. c.command \notin {"add", "delete"} /\ m_bSlotState' = m_bSlotState
    BY <1>3 DEF Adjusts, TakeCommand, slots, c
  <2>2. QED  BY <1>1, <1>2, <2>1 DEF Brings, Removes
<1>4. CASE HandleAdd
  <2>1. c.command = "add" /\ m_bSlotState' = [m_bSlotState EXCEPT ![c.iID] = TRUE]
    BY <1>4 DEF HandleAdd, TakeCommand, c
  <2>2. m_bSlotState'[i] <=> c.iID = i \/ m_bSlotState[i]  BY <1>2, <2>1 DEF PoolTypeOK, Wellformed
  <2>3. QED  BY <1>1, <1>2, <2>1, <2>2 DEF Brings, Removes
<1>5. CASE HandleDelete
  <2>1. c.command = "delete" /\ m_bSlotState' = [m_bSlotState EXCEPT ![c.iID] = FALSE]
    BY <1>5 DEF HandleDelete, TakeCommand, c
  <2>2. m_bSlotState'[i] <=> c.iID # i /\ m_bSlotState[i]  BY <1>2, <2>1 DEF PoolTypeOK, Wellformed
  <2>3. QED  BY <1>1, <1>2, <2>1, <2>2 DEF Brings, Removes
<1>6. QED  BY <1>3, <1>4, <1>5

LEMMA PresentStep ==
    ASSUME "again" \notin Faults, PoolTypeOK, Chained, ServerStreamsPresent, StreamStep
    PROVE  Chained' /\ ServerStreamsPresent'
<1> PICK n \in Nat : n = Len(bufferedCommands) /\ DOMAIN bufferedCommands = 1..n
  BY DEF PoolTypeOK
<1>1. ASSUME NEW c \in Commands, bufferedCommands' = Append(bufferedCommands, c),
             UNCHANGED m_bSlotState,
             \A i \in serverHas' : \/ c.command = "add" /\ c.iID = i
                                   \/ i \in serverHas /\ ~(c.command = "delete" /\ c.iID = i),
             \A i \in Ids : c.command \in {"delete", "volume"} /\ c.iID = i => i \in serverHas,
             serverHas' \subseteq Ids
      PROVE  Chained' /\ ServerStreamsPresent'
  <2>1. /\ Len(bufferedCommands') = n + 1 /\ DOMAIN bufferedCommands' = 1..(n + 1)
        /\ \A k \in 1..n : bufferedCommands'[k] = bufferedCommands[k]
        /\ bufferedCommands'[n + 1] = c
    BY <1>1, AppendFacts DEF PoolTypeOK
  <2>2. ASSUME NEW i \in Ids
        PROVE  /\ \A m \in 0..n : PresentAfter(m, i) => PresentAfter(m, i)'
               /\ \/ c.command = "add" /\ c.iID = i
                  \/ PresentAfter(n, i) /\ ~(c.command = "delete" /\ c.iID = i)
                  => PresentAfter(n + 1, i)'
    BY <1>1, PresentAppend
  <2>3. ServerStreamsPresent'
    <3> SUFFICES ASSUME NEW i \in serverHas' PROVE PresentAfter(n + 1, i)'
      BY <2>1 DEF ServerStreamsPresent
    <3>1. i \in Ids /\ (i \in serverHas => PresentAfter(n, i))
      BY <1>1 DEF ServerStreamsPresent
    <3>2. QED  BY <1>1, <2>2, <3>1
  <2>4. Chained'
    <3> SUFFICES ASSUME NEW i \in Ids, NEW k \in 1..(n + 1), Needs(k, i)'
                 PROVE  PresentAfter(k - 1, i)'
      BY <2>1 DEF Chained
    <3>1. CASE k \in 1..n
      <4>1. Needs(k, i)  BY <2>1, <3>1 DEF Needs
      <4>2. PresentAfter(k - 1, i)  BY <3>1, <4>1 DEF Chained
      <4>3. QED  BY <2>2, <3>1, <4>2
    <3>2. CASE k = n + 1
      <4>1. i \in serverHas  BY <1>1, <2>1, <3>2 DEF Needs
      <4>2. PresentAfter(n, i)  BY <4>1 DEF ServerStreamsPresent
      <4>3. QED  BY <2>2, <3>2, <4>2
    <3>3. QED  BY <3>1, <3>2
  <2>5. QED  BY <2>3, <2>4
<1>2. ASSUME NEW i \in Ids, NEW a \in Addrs, Creates(i, a) PROVE Chained' /\ ServerStreamsPresent'
  <2> DEFINE c == [command |-> "add", iID |-> i, stream |-> a]
  <2>1. c \in Commands  BY AboutType DEF Wellformed
  <2>2. QED  BY <1>1, <1>2, <2>1 DEF Creates, slots, PoolTypeOK
<1>3. ASSUME NEW c \in Commands, Asks(c) PROVE Chained' /\ ServerStreamsPresent'
  BY <1>1, <1>3 DEF Asks, slots, PoolTypeOK
<1>4. CASE Rests
  <2>1. bufferedCommands' = bufferedCommands /\ m_bSlotState' = m_bSlotState /\ serverHas' \subseteq serverHas
    BY <1>4 DEF Rests, slots
  <2>2. QED  BY <2>1 DEF Chained, ServerStreamsPresent, PresentAfter, Brings, Removes, Needs
<1>5. CASE Adjusts \/ HandleAdd \/ HandleDelete
  <2>1. bufferedCommands # << >> /\ bufferedCommands' = Tail(bufferedCommands)
    BY <1>5 DEF Adjusts, HandleAdd, HandleDelete, TakeCommand
  <2>2. /\ n > 0 /\ Len(bufferedCommands') = n - 1 /\ DOMAIN bufferedCommands' = 1..(n - 1)
        /\ \A k \in 1..(n - 1) : bufferedCommands'[k] = bufferedCommands[k + 1]
    BY <2>1, TailFacts DEF PoolTypeOK
  <2>3. ASSUME NEW i \in Ids
        PROVE  \A m \in 0..(n - 1) : PresentAfter(m + 1, i) => PresentAfter(m, i)'
    BY <1>5, HandlersTake, PresentTail
  <2>4. ServerStreamsPresent'
    <3> SUFFICES ASSUME NEW i \in serverHas' PROVE PresentAfter(n - 1, i)'
      BY <2>2 DEF ServerStreamsPresent
    <3>1. i \in serverHas /\ i \in Ids
      BY <1>5 DEF Adjusts, HandleAdd, HandleDelete, TakeCommand, PoolTypeOK
    <3>2. PresentAfter((n - 1) + 1, i)  BY <3>1 DEF ServerStreamsPresent
    <3>3. QED  BY <2>2, <2>3, <3>1, <3>2
  <2>5. Chained'
    <3> SUFFICES ASSUME NEW i \in Ids, NEW k \in 1..(n - 1), Needs(k, i)'
                 PROVE  PresentAfter(k - 1, i)'
      BY <2>2 DEF Chained
    <3>1. Needs(k + 1, i) /\ k + 1 \in 1..n  BY <2>2 DEF Needs
    <3>2. PresentAfter((k + 1) - 1, i)  BY <3>1 DEF Chained
    <3>3. (k + 1) - 1 = (k - 1) + 1 /\ k - 1 \in 0..(n - 1)  BY <2>2
    <3>4. QED  BY <2>3, <3>2, <3>3
  <2>6. QED  BY <2>4, <2>5
<1>6. QED  BY <1>2, <1>3, <1>4, <1>5 DEF StreamStep

-----------------------------------------------------------------------------
(* Who owns the streams. *)

(* A stream on its way to a slot exists. *)
QueuedLive == \A k \in Adds : bufferedCommands[k].stream \in live

Owned == SlotsLive /\ QueuedLive /\ StreamsHeld

LEMMA NothingPlaced == PoolTypeOK /\ SlotsLive => Occupied = {i \in Ids : m_bSlotState[i]}
  BY NullAssumption DEF PoolTypeOK, SlotsLive, Occupied

LEMMA OwnedCreates ==
    ASSUME PoolTypeOK, Owned, NEW i \in Ids, NEW a \in Addrs, Creates(i, a)
    PROVE  Owned'
<1> DEFINE c == [command |-> "add", iID |-> i, stream |-> a]
<1> PICK n \in Nat : n = Len(bufferedCommands) /\ DOMAIN bufferedCommands = 1..n
  BY DEF PoolTypeOK
<1>1. c \in Commands  BY AboutType DEF Wellformed
<1>2. /\ DOMAIN bufferedCommands' = 1..(n + 1)
      /\ \A k \in 1..n : bufferedCommands'[k] = bufferedCommands[k]
      /\ bufferedCommands'[n + 1] = c
  BY <1>1, AppendFacts DEF PoolTypeOK, Creates
<1>3. Adds' = Adds \cup {n + 1} /\ Adds \subseteq 1..n  BY <1>2 DEF Adds
<1>4. Placed' = Placed /\ Occupied' = Occupied  BY DEF Creates, slots, Placed, Occupied
<1>5. Placed \subseteq live  BY DEF Owned, SlotsLive, Placed, Occupied
<1>6. a \notin live /\ live' = live \cup {a}  BY DEF Creates
<1>7. SlotsLive'
  BY <1>4, <1>6 DEF Owned, SlotsLive, Creates, slots
<1>8. QueuedLive'
  <2>1. \A k \in Adds : bufferedCommands'[k].stream \in live'
    BY <1>2, <1>3, <1>6 DEF Owned, QueuedLive
  <2>2. bufferedCommands'[n + 1].stream \in live'  BY <1>2, <1>6
  <2>3. QED  BY <1>3, <2>1, <2>2 DEF QueuedLive
<1>9. StreamsHeld'
  <2>1. \A b \in live' : b \in Placed' \/ \E k \in Adds' : bufferedCommands'[k].stream = b
    BY <1>2, <1>3, <1>4, <1>6 DEF Owned, StreamsHeld
  <2>2. \A k \in Adds' : bufferedCommands'[k].stream \notin Placed'
    BY <1>2, <1>3, <1>4, <1>5, <1>6 DEF Owned, StreamsHeld
  <2>3. \A j, k \in Adds' : bufferedCommands'[j].stream = bufferedCommands'[k].stream => j = k
    BY <1>2, <1>3, <1>6 DEF Owned, StreamsHeld, QueuedLive
  <2>4. \A j, k \in Occupied' : m_pStreams'[j] = m_pStreams'[k] => j = k
    BY <1>4 DEF Owned, StreamsHeld, Creates, slots
  <2>5. QED  BY <2>1, <2>2, <2>3, <2>4 DEF StreamsHeld
<1>10. QED  BY <1>7, <1>8, <1>9 DEF Owned

LEMMA OwnedAsks ==
    ASSUME PoolTypeOK, Owned, NEW c \in Commands, Asks(c)
    PROVE  Owned'
<1> PICK n \in Nat : n = Len(bufferedCommands) /\ DOMAIN bufferedCommands = 1..n
  BY DEF PoolTypeOK
<1>1. /\ DOMAIN bufferedCommands' = 1..(n + 1)
      /\ \A k \in 1..n : bufferedCommands'[k] = bufferedCommands[k]
      /\ bufferedCommands'[n + 1] = c
  BY AppendFacts DEF PoolTypeOK, Asks
<1>2. Adds' = Adds /\ Adds \subseteq 1..n  BY <1>1 DEF Adds, Asks
<1>3. Placed' = Placed /\ Occupied' = Occupied  BY DEF Asks, slots, Placed, Occupied
<1>4. \A k \in Adds : bufferedCommands'[k] = bufferedCommands[k]  BY <1>1, <1>2
<1>5. live' = live /\ playing' = playing /\ m_pStreams' = m_pStreams /\ m_bSlotState' = m_bSlotState
  BY DEF Asks, slots
<1>6. SlotsLive' /\ QueuedLive'
  BY <1>2, <1>3, <1>4, <1>5 DEF Owned, SlotsLive, QueuedLive
<1>7. StreamsHeld'
  BY <1>2, <1>3, <1>4, <1>5 DEF Owned, StreamsHeld
<1>8. QED  BY <1>6, <1>7 DEF Owned

LEMMA OwnedRests ==
    ASSUME PoolTypeOK, Owned, Rests
    PROVE  Owned'
<1>1. /\ Placed' = Placed /\ Occupied' = Occupied /\ Adds' = Adds
      /\ live' = live /\ m_pStreams' = m_pStreams /\ m_bSlotState' = m_bSlotState
      /\ bufferedCommands' = bufferedCommands
  BY DEF Rests, slots, Placed, Occupied, Adds
<1>2. playing' \subseteq Placed  BY DEF Rests, Owned, SlotsLive
<1>3. QED  BY <1>1, <1>2 DEF Owned, SlotsLive, QueuedLive, StreamsHeld

(* What taking the first command does to those that bring a stream. *)
LEMMA AddsTail ==
    ASSUME PoolTypeOK, bufferedCommands # << >>, bufferedCommands' = Tail(bufferedCommands)
    PROVE  /\ Adds \subseteq Nat \ {0} /\ Adds' \subseteq Nat \ {0}
           /\ \A k \in Nat \ {0} : k \in Adds' <=> k + 1 \in Adds
           /\ \A k \in Adds' : bufferedCommands'[k] = bufferedCommands[k + 1]
           /\ 1 \in Adds <=> Head(bufferedCommands).command = "add"
           /\ Head(bufferedCommands) = bufferedCommands[1]
<1> PICK n \in Nat \ {0} : n = Len(bufferedCommands) /\ DOMAIN bufferedCommands = 1..n
  BY TailFacts DEF PoolTypeOK
<1>1. /\ Head(bufferedCommands) = bufferedCommands[1]
      /\ DOMAIN bufferedCommands' = 1..(n - 1)
      /\ \A k \in 1..(n - 1) : bufferedCommands'[k] = bufferedCommands[k + 1]
  BY TailFacts DEF PoolTypeOK
<1>2. QED  BY <1>1 DEF Adds

LEMMA OwnedAdjusts ==
    ASSUME PoolTypeOK, Owned, Adjusts
    PROVE  Owned'
<1>1. /\ bufferedCommands # << >> /\ bufferedCommands' = Tail(bufferedCommands)
      /\ Head(bufferedCommands).command # "add"
  BY DEF Adjusts, TakeCommand
<1>2. Placed' = Placed /\ Occupied' = Occupied  BY DEF Adjusts, slots, Placed, Occupied
<1>3. 1 \notin Adds  BY <1>1, AddsTail
<1>4. \A k \in Adds : k - 1 \in Adds' /\ bufferedCommands'[k - 1] = bufferedCommands[k]
  <2> SUFFICES ASSUME NEW k \in Adds
               PROVE  k - 1 \in Adds' /\ bufferedCommands'[k - 1] = bufferedCommands[k]
    OBVIOUS
  <2>1. k - 1 \in Nat \ {0} /\ (k - 1) + 1 = k  BY <1>1, <1>3, AddsTail
  <2>2. k - 1 \in Adds'  BY <1>1, <2>1, AddsTail
  <2>3. QED  BY <1>1, <2>1, <2>2, AddsTail
<1>5. \A k \in Adds' : k + 1 \in Adds /\ bufferedCommands'[k] = bufferedCommands[k + 1] /\ k \in Nat
  BY <1>1, AddsTail
<1>6. SlotsLive' /\ QueuedLive'
  BY <1>2, <1>5 DEF Owned, SlotsLive, QueuedLive, Adjusts, slots
<1>7. StreamsHeld'
  <2>1. \A b \in live' : b \in Placed' \/ \E k \in Adds' : bufferedCommands'[k].stream = b
    BY <1>2, <1>4 DEF Owned, StreamsHeld, Adjusts
  <2>2. \A k \in Adds' : bufferedCommands'[k].stream \notin Placed'
    BY <1>2, <1>5 DEF Owned, StreamsHeld
  <2>3. \A j, k \in Adds' : bufferedCommands'[j].stream = bufferedCommands'[k].stream => j = k
    BY <1>5 DEF Owned, StreamsHeld
  <2>4. \A j, k \in Occupied' : m_pStreams'[j] = m_pStreams'[k] => j = k
    BY <1>2 DEF Owned, StreamsHeld, Adjusts, slots
  <2>5. QED  BY <2>1, <2>2, <2>3, <2>4 DEF StreamsHeld
<1>8. QED  BY <1>6, <1>7 DEF Owned

(* The commands left over, when one that brings a stream may be taken. *)
LEMMA AddsLeft ==
    ASSUME PoolTypeOK, bufferedCommands # << >>, bufferedCommands' = Tail(bufferedCommands)
    PROVE  /\ \A k \in Adds' : /\ k + 1 \in Adds /\ k \in Nat \ {0}
                               /\ bufferedCommands'[k] = bufferedCommands[k + 1]
           /\ \A k \in Adds : \/ k = 1
                              \/ k - 1 \in Adds' /\ bufferedCommands'[k - 1] = bufferedCommands[k]
<1>1. \A k \in Adds' : /\ k + 1 \in Adds /\ k \in Nat \ {0}
                       /\ bufferedCommands'[k] = bufferedCommands[k + 1]
  BY AddsTail
<1>2. ASSUME NEW k \in Adds, k # 1
      PROVE  k - 1 \in Adds' /\ bufferedCommands'[k - 1] = bufferedCommands[k]
  <2>1. k - 1 \in Nat \ {0} /\ (k - 1) + 1 = k  BY <1>2, AddsTail
  <2>2. k - 1 \in Adds'  BY <2>1, AddsTail
  <2>3. QED  BY <2>1, <2>2, AddsTail
<1>3. QED  BY <1>1, <1>2

LEMMA OwnedAdd ==
    ASSUME PoolTypeOK, Owned, HandleAdd
    PROVE  Owned'
<1> DEFINE c == Head(bufferedCommands)
           i == c.iID
           b == c.stream
           d == IF i \in Occupied THEN m_pStreams[i] ELSE Null
<1>1. bufferedCommands # << >> /\ bufferedCommands' = Tail(bufferedCommands) /\ c.command = "add"
  BY DEF HandleAdd, TakeCommand
<1>2. Wellformed(c)  BY <1>1, TakeType DEF HandleAdd
<1>3. i \in Ids /\ b \in Addrs /\ b # Null  BY <1>1, <1>2, NullAssumption DEF Wellformed
<1>4. 1 \in Adds /\ c = bufferedCommands[1]  BY <1>1, AddsTail
<1>5. b \in live /\ b \notin Placed /\ \A k \in Adds : bufferedCommands[k].stream = b => k = 1
  BY <1>4 DEF Owned, QueuedLive, StreamsHeld
<1>6. Deleted(c) = d  BY <1>1 DEF Deleted
<1>7. /\ live' = live \ {d} /\ playing' = playing \ {d}
      /\ m_pStreams' = [m_pStreams EXCEPT ![i] = b]
      /\ m_bSlotState' = [m_bSlotState EXCEPT ![i] = TRUE]
  BY <1>6 DEF HandleAdd, Delete
<1> HIDE DEF c
<1>8. \A j \in Ids : /\ m_pStreams'[j] = IF j = i THEN b ELSE m_pStreams[j]
                     /\ m_bSlotState'[j] = (j = i \/ m_bSlotState[j])
  BY <1>3, <1>7 DEF PoolTypeOK
<1>9. Occupied' = Occupied \cup {i}  BY <1>3, <1>8 DEF Occupied
<1>10. d \in Placed \cup {Null} /\ d # b /\ \A j \in Occupied : m_pStreams[j] = d => j = i
  BY <1>3, <1>5, NullAssumption DEF Placed, Occupied, Owned, StreamsHeld
<1> HIDE DEF b, d, i
<1>11. Placed' = (Placed \ {d}) \cup {b}
  <2>1. Placed' = {m_pStreams'[j] : j \in Occupied'}  BY DEF Placed
  <2>2. ASSUME NEW a \in Placed, a # d PROVE a \in Placed'
    <3>1. PICK j \in Occupied : m_pStreams[j] = a  BY DEF Placed
    <3>2. j # i  BY <2>2, <3>1 DEF d
    <3>3. m_pStreams'[j] = a  BY <1>8, <3>1, <3>2 DEF Occupied
    <3>4. QED  BY <1>9, <2>1, <3>1, <3>3
  <2>3. b \in Placed'  BY <1>3, <1>8, <1>9, <2>1
  <2>4. ASSUME NEW a \in Placed', a # b PROVE a \in Placed \ {d}
    <3>1. PICK j \in Occupied' : m_pStreams'[j] = a  BY <2>1
    <3>2. j \in Ids /\ j # i /\ j \in Occupied  BY <1>3, <1>8, <1>9, <2>4, <3>1 DEF Occupied
    <3>3. m_pStreams[j] = a  BY <1>8, <3>1, <3>2
    <3>4. QED  BY <1>10, <3>2, <3>3 DEF Placed
  <2>5. d \notin Placed'
    <3>1. SUFFICES ASSUME d \in Placed' PROVE FALSE  OBVIOUS
    <3>2. QED  BY <1>10, <2>4, <3>1
  <2>6. QED  BY <2>2, <2>3, <2>4, <2>5
<1>12. SlotsLive'
  <2>1. ASSUME NEW j \in Ids, m_bSlotState'[j] PROVE m_pStreams'[j] \in live'
    <3>1. CASE j = i
      <4>1. m_pStreams'[j] = b  BY <1>8, <3>1
      <4>2. b \in live'  BY <1>5, <1>7, <1>10
      <4>3. QED  BY <4>1, <4>2
    <3>2. CASE j # i
      <4>1. m_bSlotState[j] /\ m_pStreams'[j] = m_pStreams[j]  BY <1>8, <2>1, <3>2
      <4>2. m_pStreams[j] \in live /\ j \in Occupied
        BY <4>1, NullAssumption DEF Owned, SlotsLive, PoolTypeOK, Occupied
      <4>3. QED  BY <1>7, <1>10, <3>2, <4>1, <4>2
    <3>3. QED  BY <3>1, <3>2
  <2>2. playing' \subseteq Placed'  BY <1>7, <1>11 DEF Owned, SlotsLive
  <2>3. QED  BY <2>1, <2>2 DEF SlotsLive
<1>13. \A k \in Adds' : /\ k + 1 \in Adds /\ k \in Nat \ {0}
                        /\ bufferedCommands'[k] = bufferedCommands[k + 1]
  BY <1>1, AddsLeft
<1>14. QueuedLive'
  <2> SUFFICES ASSUME NEW k \in Adds' PROVE bufferedCommands'[k].stream \in live'
    BY DEF QueuedLive
  <2>1. bufferedCommands[k + 1].stream \in live /\ bufferedCommands[k + 1].stream \notin Placed
    BY <1>13 DEF Owned, QueuedLive, StreamsHeld
  <2>2. bufferedCommands[k + 1].stream # Null  BY <2>1, NullAssumption DEF PoolTypeOK
  <2>3. QED  BY <1>7, <1>10, <1>13, <2>1, <2>2
<1>15. StreamsHeld'
  <2>1. ASSUME NEW a \in live' PROVE a \in Placed' \/ \E k \in Adds' : bufferedCommands'[k].stream = a
    <3>1. CASE a \in Placed  BY <1>7, <1>11, <3>1
    <3>2. ASSUME NEW k \in Adds, bufferedCommands[k].stream = a PROVE a \in Placed' \/ \E l \in Adds' : bufferedCommands'[l].stream = a
      <4>1. CASE k = 1
        <5>1. a = b  BY <1>4, <3>2, <4>1 DEF b
        <5>2. QED  BY <1>11, <5>1
      <4>2. CASE k # 1  BY <1>1, <3>2, <4>2, AddsLeft
      <4>3. QED  BY <4>1, <4>2
    <3>3. QED  BY <1>7, <3>1, <3>2 DEF Owned, StreamsHeld
  <2>2. ASSUME NEW k \in Adds' PROVE bufferedCommands'[k].stream \notin Placed'
    <3>1. bufferedCommands[k + 1].stream \notin Placed /\ k + 1 # 1
      BY <1>13, <2>2 DEF Owned, StreamsHeld
    <3>2. bufferedCommands[k + 1].stream # b  BY <1>5, <1>13, <2>2, <3>1
    <3>3. QED  BY <1>11, <1>13, <2>2, <3>1, <3>2
  <2>3. \A j, k \in Adds' : bufferedCommands'[j].stream = bufferedCommands'[k].stream => j = k
    BY <1>13 DEF Owned, StreamsHeld
  <2>4. \A j, k \in Occupied' : m_pStreams'[j] = m_pStreams'[k] => j = k
    <3> SUFFICES ASSUME NEW j \in Occupied', NEW k \in Occupied', m_pStreams'[j] = m_pStreams'[k]
                 PROVE  j = k
      OBVIOUS
    <3>1. j \in Ids /\ k \in Ids /\ j \in Occupied \cup {i} /\ k \in Occupied \cup {i}
      BY <1>3, <1>9 DEF Occupied
    <3>2. \A l \in Occupied : m_pStreams[l] # b  BY <1>5 DEF Placed
    <3>3. QED  BY <1>8, <3>1, <3>2 DEF Owned, StreamsHeld
  <2>5. QED  BY <2>1, <2>2, <2>3, <2>4 DEF StreamsHeld
<1>16. QED  BY <1>12, <1>14, <1>15 DEF Owned

LEMMA OwnedDelete ==
    ASSUME PoolTypeOK, Chained, Owned, HandleDelete
    PROVE  Owned'
<1> DEFINE c == Head(bufferedCommands)
           i == c.iID
           d == m_pStreams[i]
<1>1. bufferedCommands # << >> /\ bufferedCommands' = Tail(bufferedCommands) /\ c.command = "delete"
  BY DEF HandleDelete, TakeCommand
<1>2. i \in Ids  BY <1>1, TakeType DEF HandleDelete, Wellformed
<1>3. m_bSlotState[i]
  <2>1. 1 \in DOMAIN bufferedCommands /\ c = bufferedCommands[1]
    BY <1>1, TailFacts DEF PoolTypeOK
  <2>2. Needs(1, i)  BY <1>1, <2>1 DEF Needs
  <2>3. PresentAfter(0, i)  BY <1>2, <2>1, <2>2 DEF Chained
  <2>4. QED  BY <2>3 DEF PresentAfter
<1>4. Deleted(c) = d  BY <1>1 DEF Deleted
<1>5. /\ live' = live \ {d} /\ playing' = playing \ {d} /\ m_pStreams' = m_pStreams
      /\ m_bSlotState' = [m_bSlotState EXCEPT ![i] = FALSE]
  BY <1>4 DEF HandleDelete, Delete
<1>6. 1 \notin Adds  BY <1>1, AddsTail
<1> HIDE DEF c
<1>7. \A j \in Ids : m_bSlotState'[j] = (j # i /\ m_bSlotState[j])  BY <1>2, <1>5 DEF PoolTypeOK
<1>8. i \in Occupied /\ Occupied' = Occupied \ {i}
  BY <1>2, <1>3, <1>5, <1>7, NothingPlaced DEF Owned, Occupied
<1>9. \A j \in Occupied : m_pStreams[j] = d => j = i  BY <1>8 DEF Owned, StreamsHeld
<1> HIDE DEF d, i
<1>10. Placed' = Placed \ {d}
  BY <1>5, <1>8, <1>9 DEF Placed, d
<1>11. SlotsLive'
  <2>1. ASSUME NEW j \in Ids, m_bSlotState'[j] PROVE m_pStreams'[j] \in live'
    <3>1. m_bSlotState[j] /\ j # i  BY <1>7, <2>1
    <3>2. m_pStreams[j] \in live /\ j \in Occupied
      BY <3>1, NothingPlaced DEF Owned, SlotsLive
    <3>3. QED  BY <1>5, <1>9, <3>1, <3>2
  <2>2. playing' \subseteq Placed'  BY <1>5, <1>10 DEF Owned, SlotsLive
  <2>3. QED  BY <2>1, <2>2 DEF SlotsLive
<1>12. /\ \A k \in Adds' : /\ k + 1 \in Adds /\ k \in Nat \ {0}
                           /\ bufferedCommands'[k] = bufferedCommands[k + 1]
       /\ \A k \in Adds : k - 1 \in Adds' /\ bufferedCommands'[k - 1] = bufferedCommands[k]
  BY <1>1, <1>6, AddsLeft
<1>13. d \in Placed  BY <1>8 DEF Placed, d
<1>14. QueuedLive'
  BY <1>5, <1>12, <1>13 DEF Owned, QueuedLive, StreamsHeld
<1>15. StreamsHeld'
  <2>1. \A a \in live' : a \in Placed' \/ \E k \in Adds' : bufferedCommands'[k].stream = a
    BY <1>5, <1>10, <1>12 DEF Owned, StreamsHeld
  <2>2. \A k \in Adds' : bufferedCommands'[k].stream \notin Placed'
    BY <1>10, <1>12 DEF Owned, StreamsHeld
  <2>3. \A j, k \in Adds' : bufferedCommands'[j].stream = bufferedCommands'[k].stream => j = k
    BY <1>12 DEF Owned, StreamsHeld
  <2>4. \A j, k \in Occupied' : m_pStreams'[j] = m_pStreams'[k] => j = k
    BY <1>5, <1>8 DEF Owned, StreamsHeld
  <2>5. QED  BY <2>1, <2>2, <2>3, <2>4 DEF StreamsHeld
<1>16. QED  BY <1>11, <1>14, <1>15 DEF Owned

-----------------------------------------------------------------------------
(* What the pool, with a server that destroys only what it created, keeps. *)
Kept == PoolTypeOK /\ Chained /\ ServerStreamsPresent /\ Owned

LEMMA KeptInit == PoolInit => Kept
<1> SUFFICES ASSUME PoolInit PROVE Kept  OBVIOUS
<1>1. DOMAIN bufferedCommands = {} /\ Adds = {}  BY DEF PoolInit, Adds
<1>2. \A i \in Ids : m_bSlotState[i] = FALSE  BY DEF PoolInit
<1>3. Occupied = {} /\ Placed = {}  BY <1>2 DEF Occupied, Placed
<1>4. PoolTypeOK  BY InitType
<1>5. Chained /\ ServerStreamsPresent  BY <1>1 DEF PoolInit, Chained, ServerStreamsPresent
<1>6. Owned  BY <1>1, <1>2, <1>3 DEF PoolInit, Owned, SlotsLive, QueuedLive, StreamsHeld
<1>7. QED  BY <1>4, <1>5, <1>6 DEF Kept

LEMMA KeptStep ==
    ASSUME "again" \notin Faults
    PROVE  Kept /\ [PoolNext]_poolVars => Kept'
<1> SUFFICES ASSUME Kept, [PoolNext]_poolVars PROVE Kept'  OBVIOUS
<1>1. PoolTypeOK /\ Chained /\ ServerStreamsPresent /\ Owned  BY DEF Kept
<1>2. StreamStep  BY <1>1, EveryStep
<1>3. PoolTypeOK'  BY <1>1, TypeStep
<1>4. Chained' /\ ServerStreamsPresent'  BY <1>1, <1>2, PresentStep
<1>5. Owned'
  BY <1>1, <1>2, OwnedCreates, OwnedAsks, OwnedRests, OwnedAdjusts, OwnedAdd, OwnedDelete
     DEF StreamStep
<1>6. QED  BY <1>3, <1>4, <1>5 DEF Kept

LEMMA KeptAlways == ASSUME "again" \notin Faults PROVE PoolSpec => []Kept
  BY KeptInit, KeptStep, PTL DEF PoolSpec

(* The worker never touches a stream that is gone, and none that is gone   *)
(* plays, however the heap reuses its memory.                              *)
THEOREM SlotsSafe == ASSUME "again" \notin Faults PROVE PoolSpec => []SlotsLive
<1>1. Kept => SlotsLive  BY DEF Kept, Owned
<1>2. QED  BY <1>1, KeptAlways, PTL

(* No stream leaks and no two slots, or commands, hold the same one.       *)
THEOREM NoStreamLeaks == ASSUME "again" \notin Faults PROVE PoolSpec => []StreamsHeld
<1>1. Kept => StreamsHeld  BY DEF Kept, Owned
<1>2. QED  BY <1>1, KeptAlways, PTL

-----------------------------------------------------------------------------
(* The floats of volume commands. *)

Waiting == {k \in DOMAIN bufferedCommands : bufferedCommands[k].command = "volume"}

LEMMA WaitingFinite == PoolTypeOK => IsFiniteSet(Waiting)
<1> SUFFICES ASSUME PoolTypeOK PROVE IsFiniteSet(Waiting)  OBVIOUS
<1>1. PICK n \in Nat : DOMAIN bufferedCommands = 1..n  BY DEF PoolTypeOK
<1>2. IsFiniteSet(1..n)  BY FS_Interval
<1>3. Waiting \subseteq 1..n  BY <1>1 DEF Waiting
<1>4. QED  BY <1>2, <1>3, FS_Subset

LEMMA WaitingAppend ==
    ASSUME PoolTypeOK, NEW c \in Commands, bufferedCommands' = Append(bufferedCommands, c)
    PROVE  Cardinality(Waiting') = IF c.command = "volume" THEN Cardinality(Waiting) + 1
                                                           ELSE Cardinality(Waiting)
<1>1. PICK n \in Nat : n = Len(bufferedCommands) /\ DOMAIN bufferedCommands = 1..n
  BY DEF PoolTypeOK
<1>2. /\ DOMAIN bufferedCommands' = 1..(n + 1)
      /\ \A k \in 1..n : bufferedCommands'[k] = bufferedCommands[k]
      /\ bufferedCommands'[n + 1] = c
  BY <1>1, AppendFacts DEF PoolTypeOK
<1>3. n + 1 \notin Waiting  BY <1>1 DEF Waiting
<1>4. CASE c.command = "volume"
  <2>1. Waiting' = Waiting \cup {n + 1}  BY <1>1, <1>2, <1>4 DEF Waiting
  <2>2. QED  BY <1>3, <1>4, <2>1, WaitingFinite, FS_AddElement
<1>5. CASE c.command # "volume"
  <2>1. Waiting' = Waiting  BY <1>1, <1>2, <1>5 DEF Waiting
  <2>2. QED  BY <1>5, <2>1
<1>6. QED  BY <1>4, <1>5

LEMMA WaitingTail ==
    ASSUME PoolTypeOK, bufferedCommands # << >>, bufferedCommands' = Tail(bufferedCommands)
    PROVE  Cardinality(Waiting') = IF Head(bufferedCommands).command = "volume"
                                   THEN Cardinality(Waiting) - 1 ELSE Cardinality(Waiting)
<1>1. PICK n \in Nat \ {0} : n = Len(bufferedCommands) /\ DOMAIN bufferedCommands = 1..n
  BY TailFacts DEF PoolTypeOK
<1>2. /\ DOMAIN bufferedCommands' = 1..(n - 1)
      /\ \A k \in 1..(n - 1) : bufferedCommands'[k] = bufferedCommands[k + 1]
      /\ Head(bufferedCommands) = bufferedCommands[1]
  BY <1>1, TailFacts DEF PoolTypeOK
<1>3. PICK before, after : before = Waiting \ {1} /\ after = Waiting'
  OBVIOUS
<1>4. /\ \A k \in before : k \in 2..n /\ k - 1 \in after
      /\ \A k \in after : k \in Nat \ {0} /\ k + 1 \in before
  <2>1. ASSUME NEW k \in before PROVE k \in 2..n /\ k - 1 \in after
    <3>1. k \in 1..n /\ k # 1 /\ bufferedCommands[k].command = "volume"
      BY <1>1, <1>3, <2>1 DEF Waiting
    <3>2. k - 1 \in 1..(n - 1) /\ (k - 1) + 1 = k  BY <1>1, <3>1
    <3>3. bufferedCommands'[k - 1] = bufferedCommands[k]  BY <1>2, <3>2
    <3>4. QED  BY <1>2, <1>3, <3>1, <3>2, <3>3 DEF Waiting
  <2>2. ASSUME NEW k \in after PROVE k \in Nat \ {0} /\ k + 1 \in before
    <3>1. k \in 1..(n - 1) /\ bufferedCommands'[k].command = "volume"
      BY <1>2, <1>3, <2>2 DEF Waiting
    <3>2. QED  BY <1>1, <1>2, <1>3, <3>1 DEF Waiting
  <2>3. QED  BY <2>1, <2>2
<1>5. IsFiniteSet(before)  BY <1>3, WaitingFinite, FS_RemoveElement
<1>6. ExistsBijection(before, after)
  <2> DEFINE f == [k \in before |-> k - 1]
  <2>1. f \in [before -> after]  BY <1>4
  <2>2. \A j, k \in before : f[j] = f[k] => j = k  BY <1>4
  <2>3. \A k \in after : \E j \in before : f[j] = k
    <3> SUFFICES ASSUME NEW k \in after PROVE \E j \in before : f[j] = k
      OBVIOUS
    <3>1. k + 1 \in before /\ f[k + 1] = k  BY <1>4
    <3>2. QED  BY <3>1
  <2> HIDE DEF f
  <2>4. f \in Bijection(before, after)
    BY <2>1, <2>2, <2>3 DEF Bijection, Injection, Surjection, IsInjective
  <2>5. QED  BY <2>4 DEF ExistsBijection
<1>7. Cardinality(Waiting') = Cardinality(Waiting \ {1})
  BY <1>3, <1>5, <1>6, FS_Bijection
<1>8. 1 \in Waiting <=> Head(bufferedCommands).command = "volume"
  BY <1>1, <1>2 DEF Waiting
<1>9. Cardinality(Waiting \ {1}) =
         IF 1 \in Waiting THEN Cardinality(Waiting) - 1 ELSE Cardinality(Waiting)
  BY WaitingFinite, FS_RemoveElement
<1>10. QED  BY <1>7, <1>8, <1>9

(* Every float is on its way to a worker that will find its stream.        *)
LEMMA VolumesStep == Kept /\ VolumesFreed /\ [PoolNext]_poolVars => VolumesFreed'
<1> SUFFICES ASSUME Kept, VolumesFreed, [PoolNext]_poolVars PROVE VolumesFreed'  OBVIOUS
<1>1. PoolTypeOK /\ volumes = Cardinality(Waiting) /\ Cardinality(Waiting) \in Nat
  BY WaitingFinite, FS_CardinalityType DEF Kept, VolumesFreed, Waiting
<1>2. SUFFICES volumes' = Cardinality(Waiting')
  BY DEF VolumesFreed, Waiting
<1>3. ASSUME NEW i \in Ids, SetStreamVolume(i) PROVE volumes' = Cardinality(Waiting')
  <2>1. /\ bufferedCommands' = Append(bufferedCommands, About("volume", i))
        /\ volumes' = volumes + 1 /\ About("volume", i).command = "volume"
    BY <1>3 DEF SetStreamVolume, Queue, About
  <2>2. About("volume", i) \in Commands  BY AboutType DEF Wellformed
  <2>3. QED  BY <1>1, <2>1, <2>2, WaitingAppend
<1>4. ASSUME NEW c \in Commands, c.command # "volume", volumes' = volumes,
             bufferedCommands' = Append(bufferedCommands, c)
      PROVE  volumes' = Cardinality(Waiting')
  BY <1>1, <1>4, WaitingAppend
<1>5. ASSUME NEW i \in Ids, NEW a \in Addrs, AddStream(i, a) PROVE volumes' = Cardinality(Waiting')
  <2> DEFINE c == [command |-> "add", iID |-> i, stream |-> a]
  <2>1. c \in Commands /\ c.command = "add"  BY AboutType DEF Wellformed
  <2>2. bufferedCommands' = Append(bufferedCommands, c) /\ volumes' = volumes
    BY <1>5 DEF AddStream, Queue
  <2> HIDE DEF c
  <2>3. QED  BY <1>4, <2>1, <2>2
<1>6. ASSUME \/ \E i \in Ids : DeleteStreamByID(i)
             \/ Activate \/ Deactivate
      PROVE  volumes' = Cardinality(Waiting')
  <2>1. /\ \A i \in Ids : About("delete", i) \in Commands /\ About("delete", i).command = "delete"
        /\ \A command \in {"activate", "deactivate"} :
              AboutAll(command) \in Commands /\ AboutAll(command).command = command
    BY AboutType DEF Wellformed, About, AboutAll
  <2>2. PICK c \in Commands : /\ c.command # "volume" /\ volumes' = volumes
                              /\ bufferedCommands' = Append(bufferedCommands, c)
    BY <1>6, <2>1 DEF DeleteStreamByID, Activate, Deactivate, Queue
  <2>3. QED  BY <1>4, <2>2
<1>7. ASSUME HandleAdd \/ HandleDelete \/ HandleActivate PROVE volumes' = Cardinality(Waiting')
  <2>1. /\ bufferedCommands # << >> /\ bufferedCommands' = Tail(bufferedCommands)
        /\ Head(bufferedCommands).command # "volume" /\ volumes' = volumes
    BY <1>7 DEF HandleAdd, HandleDelete, HandleActivate, TakeCommand
  <2>2. QED  BY <1>1, <2>1, WaitingTail
<1>8. CASE HandleVolume
  <2> DEFINE c == Head(bufferedCommands)
  <2>1. /\ bufferedCommands # << >> /\ bufferedCommands' = Tail(bufferedCommands)
        /\ c.command = "volume"
        /\ volumes' = IF c.iID \in Occupied THEN volumes - 1 ELSE volumes
    BY <1>8 DEF HandleVolume, TakeCommand
  <2>2. c.iID \in Ids  BY <1>1, <1>8, <2>1, TakeType DEF HandleVolume, Wellformed
  <2>3. 1 \in DOMAIN bufferedCommands /\ c = bufferedCommands[1]
    BY <2>1, TailFacts DEF Kept, PoolTypeOK
  <2>4. PresentAfter(0, c.iID)  BY <2>1, <2>2, <2>3 DEF Kept, Chained, Needs
  <2>5. c.iID \in Occupied
    <3>1. m_bSlotState[c.iID]  BY <2>4 DEF PresentAfter
    <3>2. QED  BY <2>2, <3>1, NothingPlaced DEF Kept, Owned
  <2>6. QED  BY <1>1, <2>1, <2>5, WaitingTail
<1>9. ASSUME UNCHANGED <<bufferedCommands, volumes>> PROVE volumes' = Cardinality(Waiting')
  BY <1>1, <1>9 DEF Waiting
<1>10. QED
  BY <1>3, <1>5, <1>6, <1>7, <1>8, <1>9
  DEF PoolNext, GameThread, Worker, PauseOrResume, Suspend, Wake, AllHandled, ProcessStreams, GetStream,
      SetPosition, NewSession, poolVars

(* Neither streams nor floats leak, with any number of either, however     *)
(* commands, pauses and new connections fall together.                     *)
THEOREM StreamPoolDoesNotLeak == ASSUME "again" \notin Faults PROVE PoolSpec => []NothingLeaks
<1>1. PoolInit => VolumesFreed
  <2> SUFFICES ASSUME PoolInit PROVE VolumesFreed
    OBVIOUS
  <2>1. Waiting = {} /\ volumes = 0  BY DEF PoolInit, Waiting
  <2>2. QED  BY <2>1, FS_EmptySet DEF VolumesFreed, Waiting
<1>2. Kept /\ VolumesFreed => NothingLeaks  BY DEF Kept, Owned, NothingLeaks
<1>3. QED  BY <1>1, <1>2, KeptAlways, VolumesStep, PTL DEF PoolSpec

(* The streams the server believes in are there once the worker has caught *)
(* up, through pauses and new connections.                                 *)
THEOREM ServerAgrees == ASSUME "again" \notin Faults PROVE PoolSpec => []ServerStreamsPresent
<1>1. Kept => ServerStreamsPresent  BY DEF Kept
<1>2. QED  BY <1>1, KeptAlways, PTL

(* Nothing is deleted twice, although the slots keep stale pointers.       *)
THEOREM DeletesSafe == ASSUME "again" \notin Faults PROVE PoolSpec => []DeletesLive
<1>1. Kept => DeletesLive
  <2> SUFFICES ASSUME Kept, bufferedCommands # << >>
               PROVE  Deleted(Head(bufferedCommands)) \in live \cup {Null}
    BY DEF DeletesLive
  <2> DEFINE c == Head(bufferedCommands)
  <2>1. c = bufferedCommands[1] /\ 1 \in DOMAIN bufferedCommands /\ Wellformed(c)
    BY TailFacts DEF Kept, PoolTypeOK, Wellformed
  <2> HIDE DEF c
  <2>2. \A i \in Ids : m_bSlotState[i] => m_pStreams[i] \in live  BY DEF Kept, Owned, SlotsLive
  <2>3. CASE c.command = "delete"
    <3>1. c.iID \in Ids /\ Needs(1, c.iID)  BY <2>1, <2>3 DEF Wellformed, Needs
    <3>2. PresentAfter(0, c.iID)  BY <2>1, <3>1 DEF Kept, Chained
    <3>3. m_bSlotState[c.iID]  BY <3>2 DEF PresentAfter
    <3>4. Deleted(c) = m_pStreams[c.iID]  BY <2>3 DEF Deleted
    <3>5. QED  BY <2>2, <3>1, <3>3, <3>4 DEF c
  <2>4. CASE c.command = "add" /\ c.iID \in Occupied
    <3>1. Deleted(c) = m_pStreams[c.iID]  BY <2>4 DEF Deleted
    <3>2. QED  BY <2>2, <2>4, <3>1 DEF Occupied, c
  <2>5. CASE ~(c.command = "delete") /\ ~(c.command = "add" /\ c.iID \in Occupied)
    BY <2>5 DEF Deleted, c
  <2>6. QED  BY <2>3, <2>4, <2>5
<1>2. QED  BY <1>1, KeptAlways, PTL

-----------------------------------------------------------------------------
(* A stream that is moved without haste sits in a slot that no waiting     *)
(* command fills or empties.                                               *)
Moved ==
    moving # Null /\ ~hasty =>
        \E i \in Ids : m_bSlotState[i] /\ m_pStreams[i] = moving /\ ~UnderWay(i)

LEMMA MovedStep ==
    ASSUME "again" \notin Faults, Kept, Moved, StreamStep
    PROVE  Moved'
<1>1. CASE (\E i \in Ids, a \in Addrs : Creates(i, a)) \/ (\E c \in Commands : Asks(c))
  BY <1>1 DEF Creates, Asks, Moved
<1>2. CASE Rests
  <2>1. UNCHANGED <<slots, bufferedCommands>> /\ \A i \in Ids : UnderWay(i)' = UnderWay(i)
    BY <1>2 DEF Rests, UnderWay
  <2>2. CASE moving' = Null \/ UNCHANGED <<moving, hasty>>  BY <2>1, <2>2 DEF Moved, slots
  <2>3. ASSUME NEW i \in Ids, GetStream(i) PROVE Moved'
    <3>1. i \in serverHas /\ hasty' = UnderWay(i) /\ moving' = m_pStreams[i]  BY <2>3 DEF GetStream
    <3>2. PresentAfter(Len(bufferedCommands), i)  BY <3>1 DEF Kept, ServerStreamsPresent
    <3>3. DOMAIN bufferedCommands = 1..Len(bufferedCommands)  BY DEF Kept, PoolTypeOK
    <3>4. UnderWay(i) \/ m_bSlotState[i]  BY <3>2, <3>3 DEF PresentAfter, Brings, UnderWay
    <3>5. QED  BY <2>1, <3>1, <3>4 DEF Moved, slots
  <2>4. QED  BY <1>2, <2>2, <2>3 DEF Rests
<1>3. CASE Adjusts \/ HandleAdd \/ HandleDelete
  <2>1. /\ bufferedCommands # << >> /\ bufferedCommands' = Tail(bufferedCommands)
        /\ moving' = moving /\ hasty' = hasty
    BY <1>3 DEF Adjusts, HandleAdd, HandleDelete, TakeCommand
  <2> SUFFICES ASSUME moving # Null, ~hasty PROVE Moved'  BY <2>1 DEF Moved
  <2>2. PICK i \in Ids : m_bSlotState[i] /\ m_pStreams[i] = moving /\ ~UnderWay(i)
    BY DEF Moved
  <2> PICK n \in Nat \ {0} : n = Len(bufferedCommands) /\ DOMAIN bufferedCommands = 1..n
    BY <2>1, TailFacts DEF Kept, PoolTypeOK
  <2>3. /\ Head(bufferedCommands) = bufferedCommands[1]
        /\ DOMAIN bufferedCommands' = 1..(n - 1)
        /\ \A k \in 1..(n - 1) : bufferedCommands'[k] = bufferedCommands[k + 1]
    BY <2>1, TailFacts DEF Kept, PoolTypeOK
  <2>4. Head(bufferedCommands).command \in {"add", "delete"} => Head(bufferedCommands).iID # i
    BY <2>2, <2>3 DEF UnderWay
  <2>5. m_bSlotState'[i] = m_bSlotState[i] /\ m_pStreams'[i] = m_pStreams[i]
    BY <1>3, <2>4 DEF Adjusts, HandleAdd, HandleDelete, TakeCommand, slots, Kept, PoolTypeOK
  <2>6. ~UnderWay(i)'
    <3>1. \A k \in 1..(n - 1) : k + 1 \in DOMAIN bufferedCommands  OBVIOUS
    <3>2. QED  BY <2>2, <2>3, <3>1 DEF UnderWay
  <2>7. QED  BY <2>1, <2>2, <2>5, <2>6 DEF Moved
<1>4. QED  BY <1>1, <1>2, <1>3 DEF StreamStep

(* SetPosition meets a stream that exists, whatever the worker does        *)
(* meanwhile, unless its slot was about to be filled or emptied.           *)
THEOREM MovesSafe == ASSUME "again" \notin Faults PROVE PoolSpec => []MovesLive
<1>1. PoolInit => Kept /\ Moved  BY KeptInit DEF PoolInit, Moved
<1>2. Kept /\ Moved /\ [PoolNext]_poolVars => Kept' /\ Moved'
  BY KeptStep, EveryStep, MovedStep DEF Kept
<1>3. Kept /\ Moved => MovesLive  BY DEF Kept, Moved, MovesLive, Owned, SlotsLive
<1>4. QED  BY <1>1, <1>2, <1>3, PTL DEF PoolSpec

(* All three pointers that the two threads follow are live.                *)
THEOREM PointersSafe == ASSUME "again" \notin Faults PROVE PoolSpec => []PointersLive
<1>1. SlotsLive /\ DeletesLive /\ MovesLive => PointersLive  BY DEF PointersLive
<1>2. QED  BY <1>1, SlotsSafe, DeletesSafe, MovesSafe, PTL

-----------------------------------------------------------------------------
(* In a pause every stream in a slot is off, and the worker reads nothing. *)
Hushed ==
    m_bWasPaused =>
        /\ worker \in {"play", "asleep"}
        /\ \A a \in Placed : deactivated[a]
        /\ worker = "asleep" => playing = {}

LEMMA HushedStep == Kept /\ Hushed /\ [PoolNext]_poolVars => Hushed'
<1> SUFFICES ASSUME Kept, Hushed, [PoolNext]_poolVars PROVE Hushed'  OBVIOUS
<1>1. Placed \subseteq live /\ Placed \subseteq Addrs /\ playing \subseteq Placed
  BY PlacedType DEF Kept, Owned, SlotsLive, Placed, Occupied
<1>2. UNCHANGED slots => Placed' = Placed  BY DEF slots, Placed, Occupied
<1>3. ASSUME NEW i \in Ids, NEW a \in Addrs, AddStream(i, a) PROVE Hushed'
  <2>1. /\ Placed' = Placed /\ m_bWasPaused' = m_bWasPaused /\ worker' = worker /\ playing' = playing
    BY <1>2, <1>3 DEF AddStream, Queue
  <2>2. \A b \in Placed : deactivated'[b] = deactivated[b]
    BY <1>1, <1>3 DEF AddStream, Kept, PoolTypeOK
  <2>3. QED  BY <2>1, <2>2 DEF Hushed
<1>4. ASSUME \/ \E i \in Ids : DeleteStreamByID(i) \/ SetStreamVolume(i) \/ GetStream(i)
             \/ Activate \/ Deactivate \/ SetPosition \/ NewSession \/ PauseOrResume
             \/ UNCHANGED poolVars
      PROVE  Hushed'
  <2>1. /\ UNCHANGED slots /\ m_bWasPaused' = m_bWasPaused /\ worker' = worker
        /\ playing' = playing /\ deactivated' = deactivated
    BY <1>4 DEF DeleteStreamByID, SetStreamVolume, GetStream, Activate, Deactivate, SetPosition,
                NewSession, PauseOrResume, Queue, objects, poolVars
  <2>2. QED  BY <1>2, <2>1 DEF Hushed
<1>5. CASE Suspend
  <2>1. Placed' = Placed /\ worker' = "play" /\ \A a \in Placed : deactivated'[a]
    BY <1>1, <1>2, <1>5 DEF Suspend, DeactivateAll
  <2>2. QED  BY <2>1 DEF Hushed
<1>6. CASE Wake  BY <1>6 DEF Wake, Hushed
<1>7. CASE HandleAdd \/ HandleDelete \/ HandleVolume \/ HandleActivate \/ AllHandled
  BY <1>7 DEF HandleAdd, HandleDelete, HandleVolume, HandleActivate, TakeCommand, AllHandled, Hushed
<1>8. ASSUME NEW near \in SUBSET Placed, ProcessStreams(near) PROVE Hushed'
  <2>1. /\ Placed' = Placed /\ m_bWasPaused' = m_bWasPaused /\ deactivated' = deactivated
        /\ worker' = "asleep" /\ playing' = (playing \ Placed) \cup {a \in near : ~deactivated[a]}
    BY <1>2, <1>8 DEF ProcessStreams
  <2>2. m_bWasPaused => playing' = {}  BY <1>1, <2>1 DEF Hushed
  <2>3. QED  BY <2>1, <2>2 DEF Hushed
<1>9. QED
  BY <1>3, <1>4, <1>5, <1>6, <1>7, <1>8 DEF PoolNext, GameThread, Worker

(* Whatever the server sends while the game is paused, nothing plays.      *)
THEOREM PauseIsSilent == ASSUME "again" \notin Faults PROVE PoolSpec => []SilentInPause
<1>1. PoolInit => Kept /\ Hushed  BY KeptInit DEF PoolInit, Hushed
<1>2. Kept /\ Hushed /\ [PoolNext]_poolVars => Kept' /\ Hushed'  BY KeptStep, HushedStep
<1>3. Hushed => SilentInPause  BY DEF Hushed, SilentInPause
<1>4. QED  BY <1>1, <1>2, <1>3, PTL DEF PoolSpec
=============================================================================
