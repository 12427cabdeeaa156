--------------------------- MODULE NetGameProofs ---------------------------
(***************************************************************************)
(* What NetGame guarantees for any players, vehicles and server.  Sound    *)
(* joins the parts of the invariant about the local player, and each of    *)
(* its operations is shown to keep it; Link joins the parts about the      *)
(* connection.                                                             *)
(***************************************************************************)
EXTENDS NetGame, TLAPS

Slots == [PlayerIds -> Remote \cup {NoPlayer}]

(* The local player is well typed, is what was reported, and names a       *)
(* player of the pool ps whenever it watches one.                          *)
Sound(p, ps) ==
    /\ p \in LocalPlayerType
    /\ p.spectateType = "player" => p.spectateId \in PlayerIds
    /\ p.isSpectating /\ p.spectateType = "player" => ps[p.spectateId] # NoPlayer
    /\ p.isActive => ~p.isWasted /\ p.reported = "spawned"
    /\ p.isWasted => p.reported = "dead"

(* Spawn keeps the player sound. *)
LEMMA SpawnSound ==
    ASSUME NEW p, NEW ps, Sound(p, ps)
    PROVE  Sound(Spawn(p), ps)
  <1>1. CASE ~p.hasSpawnInfo
    BY <1>1 DEF Spawn
  <1>2. CASE p.hasSpawnInfo
    <2> DEFINE t == IF p.trigger = "wasted" \/ ~p.firstSpawn THEN "normal" ELSE p.trigger
               h == p.healthy \/ p.trigger = "wasted"
    <2>1. p \in LocalPlayerType
      BY DEF Sound
    <2>2. t \in {"normal", "death", "wasted"} /\ h \in BOOLEAN
      BY <2>1 DEF LocalPlayerType
    <2>3. Spawn(p) = [p EXCEPT !.isWasted = FALSE, !.isActive = TRUE, !.firstSpawn = FALSE,
                               !.trigger = t, !.healthy = h, !.reported = "spawned"]
      BY <1>2 DEF Spawn
    <2> HIDE DEF t, h
    <2>4. Spawn(p) \in LocalPlayerType
      BY <2>1, <2>2, <2>3 DEF LocalPlayerType
    <2> QED
      BY <2>1, <2>3, <2>4 DEF Sound, LocalPlayerType
  <1> QED
    BY <1>1, <1>2

(* So does leaving or entering the spectator mode, whatever the pool.      *)
LEMMA ToggleSound ==
    ASSUME NEW p, NEW ps, NEW qs, NEW t \in BOOLEAN, Sound(p, ps)
    PROVE  /\ Sound(ToggleSpectating(p, t), qs)
           /\ ToggleSpectating(p, t).isSpectating = t
  <1> DEFINE q == IF p.isSpectating /\ ~t THEN Spawn(p) ELSE p
  <1>1. Sound(q, ps)
    BY SpawnSound
  <1> HIDE DEF q
  <1>2. ToggleSpectating(p, t) = [q EXCEPT !.isSpectating = t, !.spectateType = "none",
                                           !.spectateId = NoTarget, !.spectateProcessed = FALSE]
    BY DEF ToggleSpectating, q
  <1> QED
    BY <1>1, <1>2 DEF Sound, LocalPlayerType

(* The class selection, its outcome and the server's other calls. *)
LEMMA ClassSelectionSound ==
    ASSUME NEW p, NEW ps, Sound(p, ps)
    PROVE  /\ Sound(HandleClassSelection(p), ps)
           /\ Sound(HandleClassSelectionOutcome(p), ps)
           /\ Sound(SetSpawnInfo(p), ps)
           /\ Sound(ReturnToClassSelection(p), ps)
  <1>1. Sound(HandleClassSelection(p), ps)
    BY DEF Sound, HandleClassSelection, LocalPlayerType
  <1>2. Sound(HandleClassSelectionOutcome(p), ps)
    BY DEF Sound, HandleClassSelectionOutcome, LocalPlayerType
  <1>3. Sound(SetSpawnInfo(p), ps)
    BY DEF Sound, SetSpawnInfo, LocalPlayerType
  <1>4. Sound(ReturnToClassSelection(p), ps)
    BY DEF Sound, ReturnToClassSelection, LocalPlayerType
  <1> QED
    BY <1>1, <1>2, <1>3, <1>4

(* A target is only ever taken from the pool. *)
LEMMA SpectateSound ==
    ASSUME NEW p, NEW ps, Sound(p, ps), NEW vs
    PROVE  /\ \A id \in PlayerIds : Sound(SpectatePlayer(p, id, ps), ps)
           /\ \A id \in VehicleIds : Sound(SpectateVehicle(p, id, vs), ps)
  <1>0. p \in LocalPlayerType
    BY DEF Sound
  <1>1. ASSUME NEW id \in PlayerIds \cup VehicleIds, NEW k \in {"player", "vehicle"},
               k = "player" => id \in PlayerIds /\ ps[id] # NoPlayer
        PROVE  Sound([p EXCEPT !.spectateType = k, !.spectateId = id, !.spectateProcessed = FALSE], ps)
    <2> DEFINE q == [p EXCEPT !.spectateType = k, !.spectateId = id, !.spectateProcessed = FALSE]
    <2>1. q \in LocalPlayerType
      BY <1>0 DEF LocalPlayerType
    <2> QED
      BY <1>0, <1>1, <2>1 DEF Sound, LocalPlayerType
  <1>2. ASSUME NEW id \in PlayerIds PROVE Sound(SpectatePlayer(p, id, ps), ps)
    <2>1. CASE ps[id] # NoPlayer /\ ps[id].state = "playing"
      BY <1>1, <2>1 DEF SpectatePlayer
    <2> QED
      BY <2>1 DEF SpectatePlayer
  <1>3. ASSUME NEW id \in VehicleIds PROVE Sound(SpectateVehicle(p, id, vs), ps)
    <2>1. CASE id \in vs
      BY <1>1, <2>1 DEF SpectateVehicle
    <2> QED
      BY <2>1 DEF SpectateVehicle
  <1> QED
    BY <1>2, <1>3

(* Spectating for a tick either keeps the target or drops it. *)
LEMMA ProcessSpectatingSound ==
    ASSUME NEW p, NEW ps, Sound(p, ps), NEW vs
    PROVE  Sound(ProcessSpectating(p, ps, vs), ps)
  <1> DEFINE lost == p.spectateType = "player" /\ ~Watchable(ps[p.spectateId])
             target == IF lost THEN "none" ELSE p.spectateType
             pointed == \/ ~lost /\ p.spectateProcessed
                        \/ target \in {"none", "player"}
                        \/ target = "vehicle" /\ p.spectateId \in vs
  <1>1. ProcessSpectating(p, ps, vs) =
          [p EXCEPT !.healthy = TRUE, !.spectateType = target, !.spectateProcessed = pointed]
    BY DEF ProcessSpectating
  <1>2. target \in {p.spectateType, "none"} /\ pointed \in BOOLEAN
    OBVIOUS
  <1> HIDE DEF target, pointed
  <1>3. p \in LocalPlayerType
    BY DEF Sound
  <1>4. target \in {"none", "player", "vehicle"}
    BY <1>2, <1>3 DEF LocalPlayerType
  <1>5. ProcessSpectating(p, ps, vs) \in LocalPlayerType
    BY <1>1, <1>2, <1>3, <1>4 DEF LocalPlayerType
  <1> QED
    BY <1>1, <1>2, <1>3, <1>5 DEF Sound, LocalPlayerType

(* A death ends in a sound player, whoever it watched. *)
LEMMA DieSound ==
    ASSUME NEW p, NEW ps, Sound(p, ps)
    PROVE  Sound(Die(p), ps)
  <1> DEFINE q == ToggleSpectating(p, FALSE)
  <1>1. Sound(q, ps)
    BY ToggleSound
  <1>2. Die(p) = [q EXCEPT !.healthy = FALSE, !.trigger = "death", !.reported = "dead",
                           !.isActive = FALSE, !.isWasted = TRUE]
    BY DEF Die
  <1> HIDE DEF q
  <1> QED
    BY <1>1, <1>2 DEF Sound, LocalPlayerType

(* So does coming round. *)
LEMMA RespawnSound ==
    ASSUME NEW p, NEW ps, Sound(p, ps), NEW c
    PROVE  Sound(Respawn(p, c), ps)
  <1> DEFINE q == [p EXCEPT !.isWasted = FALSE]
             r == HandleClassSelection(q)
  <1>0. p \in LocalPlayerType
    BY DEF Sound
  <1>1. Sound(q, ps)
    BY <1>0 DEF Sound, LocalPlayerType
  <1>2. Sound(r, ps)
    BY <1>1, ClassSelectionSound
  <1> HIDE DEF r
  <1>3. Sound([r EXCEPT !.wantsAnotherClass = FALSE], ps)
    BY <1>2 DEF Sound, LocalPlayerType
  <1> QED
    BY <1>3, SpawnSound DEF Respawn, r

(* CLocalPlayer::Process keeps the player sound. *)
LEMMA ProcessSound ==
    ASSUME NEW p, NEW ps, Sound(p, ps), NEW c, NEW vs
    PROVE  Sound(Process(p, c, ps, vs), ps)
  <1> DEFINE q == IF p.isSpectating THEN ProcessSpectating(p, ps, vs) ELSE p
  <1>1. Sound(q, ps)
    BY ProcessSpectatingSound
  <1>2. Sound(Respawn(q, c), ps)
    BY <1>1, RespawnSound
  <1> QED
    BY <1>1, <1>2, DieSound, ProcessSpectatingSound DEF Process

(* A pool that lost nobody keeps the player sound. *)
LEMMA PoolSound ==
    ASSUME NEW p, NEW ps, NEW qs, Sound(p, ps),
           \A id \in PlayerIds : ps[id] # NoPlayer => qs[id] # NoPlayer
    PROVE  Sound(p, qs)
  BY DEF Sound

(* CPlayerPool::Delete lets the spectator go before the player goes. *)
LEMMA ForgetSound ==
    ASSUME NEW p, NEW ps, NEW qs, NEW ids, Sound(p, ps),
           \A id \in PlayerIds \ ids : ps[id] # NoPlayer => qs[id] # NoPlayer
    PROVE  Sound(Forget(p, ids), qs)
  <1>1. CASE p.isSpectating /\ p.spectateId \in ids
    BY <1>1, ToggleSound DEF Forget
  <1>2. CASE ~(p.isSpectating /\ p.spectateId \in ids)
    BY <1>2 DEF Forget, Sound
  <1> QED
    BY <1>1, <1>2

(* CPlayerPool::Process empties no slot. *)
LEMMA RemotesSound ==
    ASSUME players \in Slots
    PROVE  /\ ProcessRemotes \in Slots
           /\ \A id \in PlayerIds : ProcessRemotes[id] = NoPlayer <=> players[id] = NoPlayer
  <1>1. ASSUME NEW id \in PlayerIds
        PROVE  /\ ProcessRemote(players[id]) \in Remote \cup {NoPlayer}
               /\ ProcessRemote(players[id]) = NoPlayer <=> players[id] = NoPlayer
    <2>1. players[id] \in Remote \cup {NoPlayer}
      BY DEF Slots
    <2>2. CASE players[id] # NoPlayer /\ players[id].state = "none"
      BY <2>1, <2>2, SlotAssumption DEF ProcessRemote, Remote
    <2> QED
      BY <2>1, <2>2 DEF ProcessRemote
  <1> QED
    BY <1>1 DEF ProcessRemotes, Slots

-----------------------------------------------------------------------------
(* The connection: RakNet's state bounds the game state, and no object     *)
(* outlives a session.                                                     *)
Link ==
    /\ link = "up" => gameState \in {"AWAIT_JOIN", "CONNECTED", "RESTARTING"}
    /\ link = "connecting" => gameState = "CONNECTING"
    /\ DialsEmpty

Inv ==
    /\ TypeOK
    /\ Sound(lp, players)
    /\ Link

(* The constructors establish the invariant. *)
LEMMA InitInv == Init => Inv
  <1> SUFFICES ASSUME Init PROVE Inv
    OBVIOUS
  <1>1. PICK c \in BOOLEAN, s \in BOOLEAN :
          lp = [isActive |-> FALSE, isWasted |-> FALSE, hasSpawnInfo |-> FALSE,
                wantsAnotherClass |-> FALSE, clearedToSpawn |-> c, answered |-> FALSE,
                firstSpawn |-> TRUE, isSpectating |-> FALSE, spectateType |-> "none",
                spectateId |-> NoTarget, spectateProcessed |-> s,
                trigger |-> "normal", healthy |-> TRUE, reported |-> "none"]
    BY DEF Init, NewLocalPlayers
  <1>2. lp \in LocalPlayerType
    BY <1>1 DEF LocalPlayerType
  <1>3. Sound(lp, players)
    BY <1>1, <1>2 DEF Sound
  <1>4. TypeOK
    BY <1>2 DEF Init, TypeOK
  <1> QED
    BY <1>3, <1>4 DEF Init, Inv, Link, DialsEmpty

(* The ticks of the game loop keep it. *)
LEMMA TickInv ==
    ASSUME Inv, ProcessPools \/ Connect
    PROVE  Inv'
  <1>1. CASE ProcessPools
    <2>1. players' = ProcessRemotes /\ lp' = Process(lp, TRUE, players', vehicles)
      BY <1>1 DEF ProcessPools
    <2>2. players' \in Slots /\ \A id \in PlayerIds : players'[id] = NoPlayer <=> players[id] = NoPlayer
      BY <2>1, RemotesSound DEF Inv, TypeOK, Slots
    <2>3. Sound(lp, players')
      BY <2>2, PoolSound DEF Inv
    <2>4. Sound(lp', players')
      BY <2>1, <2>3, ProcessSound
    <2> QED
      BY <1>1, <2>2, <2>4 DEF Inv, TypeOK, Link, DialsEmpty, ProcessPools, session, Slots, Sound
  <1>2. CASE Connect
    BY <1>2 DEF Inv, TypeOK, Link, DialsEmpty, Connect, pools, Sound
  <1> QED
    BY <1>1, <1>2

(* A restart, whether the server asks for it or the connection is lost. *)
LEMMA RestartedSound ==
    ASSUME Inv
    PROVE  Sound(Restarted, ProcessRemotes)
  <1>1. Sound(ToggleSpectating(lp, FALSE), ProcessRemotes)
    BY ToggleSound DEF Inv
  <1> QED
    BY <1>1, ProcessSound DEF Restarted

(* The packets about the session keep the invariant. *)
LEMMA SessionPacketInv ==
    ASSUME Inv, SessionPacket
    PROVE  Inv'
  <1>1. CASE ConnectionAttemptFailed
    BY <1>1 DEF Inv, TypeOK, Link, DialsEmpty, ConnectionAttemptFailed, pools, Sound
  <1>2. CASE Refused
    BY <1>2 DEF Inv, TypeOK, Link, DialsEmpty, Refused, pools, Sound
  <1>3. CASE ConnectionSucceeded
    BY <1>3 DEF Inv, TypeOK, Link, DialsEmpty, ConnectionSucceeded, pools, Sound
  <1>4. CASE DisconnectionNotification
    BY <1>4 DEF Inv, TypeOK, Link, DialsEmpty, DisconnectionNotification, pools, Sound
  <1>5. CASE ConnectionLost
    <2> DEFINE present == {id \in PlayerIds : players[id] # NoPlayer}
    <2>1. lp' = Forget(Restarted, present) /\ players' = [id \in PlayerIds |-> NoPlayer]
      BY <1>5 DEF ConnectionLost
    <2>2. \A id \in PlayerIds \ present : ProcessRemotes[id] = NoPlayer
      BY RemotesSound DEF Inv, TypeOK, Slots
    <2> HIDE DEF present
    <2>3. Sound(lp', players')
      BY <2>1, <2>2, RestartedSound, ForgetSound
    <2> QED
      BY <1>5, <2>3 DEF Inv, TypeOK, Link, DialsEmpty, ConnectionLost, Sound
  <1> QED
    BY <1>1, <1>2, <1>3, <1>4, <1>5 DEF SessionPacket

(* So do the calls about the session. *)
LEMMA SessionCallInv ==
    ASSUME Inv, SessionCall
    PROVE  Inv'
  <1>1. CASE InitGame
    <2>1. Sound(lp', players')
      BY <1>1, ClassSelectionSound DEF Inv, InitGame, pools
    <2> QED
      BY <1>1, <2>1 DEF Inv, TypeOK, Link, DialsEmpty, InitGame, pools, Sound
  <1>2. CASE GameModeRestart
    <2>1. players' \in Slots
      BY <1>2, RemotesSound DEF Inv, TypeOK, Slots, GameModeRestart
    <2>2. Sound(lp', players')
      BY <1>2, RestartedSound DEF GameModeRestart
    <2> QED
      BY <1>2, <2>1, <2>2 DEF Inv, TypeOK, Link, DialsEmpty, GameModeRestart, Slots, Sound
  <1>3. CASE ConnectionRejected
    BY <1>3 DEF Inv, TypeOK, Link, DialsEmpty, ConnectionRejected, pools, Sound
  <1> QED
    BY <1>1, <1>2, <1>3 DEF SessionCall

(* The calls that move one player in, out or about. *)
LEMMA PlayerCallInv ==
    ASSUME Inv, NEW id \in PlayerIds, PlayerCall(id)
    PROVE  Inv'
  <1>1. players \in Slots /\ players[id] \in Remote \cup {NoPlayer}
    BY DEF Inv, TypeOK, Slots
  <1>2. link = "up" /\ UNCHANGED <<session, vehicles>>
    BY DEF PlayerCall, ServerJoin, ServerQuit, WorldPlayerAdd, WorldPlayerRemove,
           WorldPlayerDeath, PlayerSync
  <1>3. ASSUME players' \in Slots, Sound(lp', players') PROVE Inv'
    BY <1>2, <1>3 DEF Inv, TypeOK, Link, DialsEmpty, session, Slots, Sound
  <1>4. CASE ServerQuit(id)
    <2>1. lp' = Forget(lp, {id}) /\ players' = [players EXCEPT ![id] = NoPlayer]
      BY <1>4 DEF ServerQuit
    <2>2. players' \in Slots /\ \A j \in PlayerIds \ {id} : players'[j] = players[j]
      BY <1>1, <2>1 DEF Slots
    <2> QED
      BY <1>3, <2>1, <2>2, ForgetSound DEF Inv
  <1>5. CASE ~ServerQuit(id)
    <2>1. PICK r \in Remote : players' = [players EXCEPT ![id] = r] /\ lp' = lp
      <3>1. CASE ServerJoin(id)
        <4>1. [state |-> "none", ped |-> FALSE] \in Remote
          BY DEF Remote, RemoteStates
        <4> QED
          BY <3>1, <4>1 DEF ServerJoin
      <3>2. CASE WorldPlayerAdd(id)
        <4>1. PICK b \in BOOLEAN :
                players' = [players EXCEPT ![id] = [state |-> IF b THEN "playing" ELSE "none", ped |-> b]]
          BY <3>2 DEF WorldPlayerAdd
        <4>2. [state |-> IF b THEN "playing" ELSE "none", ped |-> b] \in Remote
          BY DEF Remote, RemoteStates
        <4> QED
          BY <3>2, <4>1, <4>2 DEF WorldPlayerAdd
      <3>3. CASE WorldPlayerRemove(id)
        <4>1. [players[id] EXCEPT !.ped = FALSE] \in Remote
          BY <1>1, <3>3 DEF WorldPlayerRemove, Remote
        <4>2. players' = [players EXCEPT ![id] = [players[id] EXCEPT !.ped = FALSE]] /\ lp' = lp
          BY <3>3 DEF WorldPlayerRemove
        <4> QED
          BY <4>1, <4>2
      <3>4. CASE WorldPlayerDeath(id)
        <4>1. [players[id] EXCEPT !.state = "wasted"] \in Remote
          BY <1>1, <3>4 DEF WorldPlayerDeath, Remote, RemoteStates
        <4>2. players' = [players EXCEPT ![id] = [players[id] EXCEPT !.state = "wasted"]] /\ lp' = lp
          BY <3>4 DEF WorldPlayerDeath
        <4> QED
          BY <4>1, <4>2
      <3>5. CASE PlayerSync(id)
        <4>1. [players[id] EXCEPT !.state = "playing"] \in Remote
          BY <1>1, <3>5 DEF PlayerSync, Remote, RemoteStates
        <4>2. players' = [players EXCEPT ![id] = [players[id] EXCEPT !.state = "playing"]] /\ lp' = lp
          BY <3>5 DEF PlayerSync
        <4> QED
          BY <4>1, <4>2
      <3> QED
        BY <1>5, <3>1, <3>2, <3>3, <3>4, <3>5 DEF PlayerCall
    <2>2. players' \in Slots /\ \A j \in PlayerIds : players[j] # NoPlayer => players'[j] # NoPlayer
      BY <1>1, <2>1, SlotAssumption DEF Slots
    <2> QED
      BY <1>3, <2>1, <2>2, PoolSound DEF Inv
  <1> QED
    BY <1>4, <1>5

(* The calls about the local player, and what the game does to its ped. *)
LEMMA LocalInv ==
    ASSUME Inv, LocalPlayerCall \/ PedKilled \/ PedGoesOn
    PROVE  Inv'
  <1>1. UNCHANGED <<session, pools>>
    BY DEF LocalPlayerCall, PedKilled, PedGoesOn
  <1>2. Sound(lp, players)
    BY DEF Inv
  <1>3. Sound(lp', players)
    <2>1. CASE LocalPlayerCall
      <3>1. Sound(RequestClass, players)
        BY <1>2, ClassSelectionSound DEF RequestClass
      <3>2. Sound(RequestSpawn, players)
        BY <1>2, SpawnSound DEF RequestSpawn
      <3> QED
        BY <1>2, <2>1, <3>1, <3>2, ClassSelectionSound, ToggleSound, SpectateSound DEF LocalPlayerCall
    <2>2. CASE PedKilled
      BY <1>2, <2>2 DEF PedKilled, Sound, LocalPlayerType
    <2>3. CASE PedGoesOn
      BY <1>2, <2>3 DEF PedGoesOn, Sound, LocalPlayerType
    <2> QED
      BY <2>1, <2>2, <2>3
  <1> QED
    BY <1>1, <1>3 DEF Inv, TypeOK, Link, DialsEmpty, session, pools, Sound

(* Every step keeps the invariant. *)
LEMMA NextInv == Inv /\ [Next]_vars => Inv'
  <1> SUFFICES ASSUME Inv, [Next]_vars PROVE Inv'
    OBVIOUS
  <1>1. ASSUME NEW id \in VehicleIds, VehicleCall(id) PROVE Inv'
    BY <1>1 DEF VehicleCall, WorldVehicleAdd, WorldVehicleRemove, Inv, TypeOK, Link,
                DialsEmpty, session, Sound
  <1>2. CASE TimePasses
    BY <1>2 DEF TimePasses, Inv, TypeOK, Link, DialsEmpty, pools, Sound
  <1>3. CASE UNCHANGED vars
    BY <1>3 DEF vars, Inv, TypeOK, Link, DialsEmpty, Sound
  <1> QED
    BY <1>1, <1>2, <1>3, TickInv, SessionPacketInv, SessionCallInv, PlayerCallInv, LocalInv DEF Next

(* The invariant holds in every reachable state. *)
THEOREM Invariance == Spec => []Inv
  BY InitInv, NextInv, PTL DEF Spec

(* NetGame::TypeOK, for any players, vehicles and server. *)
THEOREM TypeCorrect == Spec => []TypeOK
  <1>1. Inv => TypeOK
    BY DEF Inv
  <1> QED
    BY <1>1, Invariance, PTL

(* A spectator's player is in the pool, for any players. *)
THEOREM SpectatedInPool == Spec => []SpectatedPlayerInPool
  <1>1. Inv => SpectatedPlayerInPool
    BY DEF Inv, Sound, SpectatedPlayerInPool
  <1> QED
    BY <1>1, Invariance, PTL

(* The server was told what the client takes the player for. *)
THEOREM ReportsRight == Spec => []AliveAsReported
  <1>1. Inv => AliveAsReported
    BY DEF Inv, Sound, AliveAsReported
  <1> QED
    BY <1>1, Invariance, PTL

(* No session is dialled over, and none starts with another's objects. *)
THEOREM NoOverlap == Spec => []SessionsApart
  <1>1. Inv => SessionsApart
    BY DEF Inv, TypeOK, Link, SessionsApart, DialsOnlyWhenDown
  <1> QED
    BY <1>1, Invariance, PTL

-----------------------------------------------------------------------------
(* The class requests *)

Agrees(p) == p.clearedToSpawn = p.answered

(* No operation but the constructor parts the two. *)
LEMMA SpawnAgrees ==
    ASSUME NEW p \in LocalPlayerType, Agrees(p)
    PROVE  /\ Agrees(Spawn(p))
           /\ \A toggle \in BOOLEAN : Agrees(ToggleSpectating(p, toggle))
  <1>1. Agrees(Spawn(p))
    BY DEF Spawn, Agrees, LocalPlayerType
  <1>2. Spawn(p) \in LocalPlayerType
    <2>1. CASE ~p.hasSpawnInfo
      BY <2>1 DEF Spawn
    <2>2. CASE p.hasSpawnInfo
      <3> DEFINE t == IF p.trigger = "wasted" \/ ~p.firstSpawn THEN "normal" ELSE p.trigger
                 h == p.healthy \/ p.trigger = "wasted"
      <3>1. t \in {"normal", "death", "wasted"} /\ h \in BOOLEAN
        BY DEF LocalPlayerType
      <3>2. Spawn(p) = [p EXCEPT !.isWasted = FALSE, !.isActive = TRUE, !.firstSpawn = FALSE,
                                 !.trigger = t, !.healthy = h, !.reported = "spawned"]
        BY <2>2 DEF Spawn
      <3> HIDE DEF t, h
      <3> QED
        BY <3>1, <3>2 DEF LocalPlayerType
    <2> QED
      BY <2>1, <2>2
  <1>3. ASSUME NEW toggle \in BOOLEAN PROVE Agrees(ToggleSpectating(p, toggle))
    <2> DEFINE q == IF p.isSpectating /\ ~toggle THEN Spawn(p) ELSE p
    <2>1. q \in LocalPlayerType /\ Agrees(q)
      BY <1>1, <1>2
    <2> HIDE DEF q
    <2>2. ToggleSpectating(p, toggle) = [q EXCEPT !.isSpectating = toggle, !.spectateType = "none",
                                                  !.spectateId = NoTarget, !.spectateProcessed = FALSE]
      BY DEF ToggleSpectating, q
    <2> QED
      BY <2>1, <2>2 DEF Agrees, LocalPlayerType
  <1> QED
    BY <1>1, <1>3

LEMMA CallsAgree ==
    ASSUME NEW p \in LocalPlayerType, Agrees(p), NEW ps, NEW vs
    PROVE  /\ Agrees(HandleClassSelection(p)) /\ Agrees(SetSpawnInfo(p))
           /\ Agrees(HandleClassSelectionOutcome(SetSpawnInfo(p)))
           /\ Agrees(ReturnToClassSelection(p))
           /\ \A id : Agrees(SpectatePlayer(p, id, ps)) /\ Agrees(SpectateVehicle(p, id, vs))
           /\ \A ids : Agrees(Forget(p, ids))
           /\ Agrees(ProcessSpectating(p, ps, vs))
  <1>1. Agrees(HandleClassSelection(p)) /\ Agrees(SetSpawnInfo(p)) /\ Agrees(ReturnToClassSelection(p))
    BY DEF HandleClassSelection, SetSpawnInfo, ReturnToClassSelection, Agrees, LocalPlayerType
  <1>2. Agrees(HandleClassSelectionOutcome(SetSpawnInfo(p)))
    BY DEF HandleClassSelectionOutcome, SetSpawnInfo, Agrees, LocalPlayerType
  <1>3. \A id : Agrees(SpectatePlayer(p, id, ps)) /\ Agrees(SpectateVehicle(p, id, vs))
    BY DEF SpectatePlayer, SpectateVehicle, Agrees, LocalPlayerType
  <1>4. \A ids : Agrees(Forget(p, ids))
    BY SpawnAgrees DEF Forget
  <1>5. Agrees(ProcessSpectating(p, ps, vs))
    BY DEF ProcessSpectating, Agrees, LocalPlayerType
  <1> QED
    BY <1>1, <1>2, <1>3, <1>4, <1>5

LEMMA ProcessAgrees ==
    ASSUME NEW p, NEW ps, Sound(p, ps), Agrees(p), NEW c, NEW vs
    PROVE  Agrees(Process(p, c, ps, vs))
  <1> DEFINE q == IF p.isSpectating THEN ProcessSpectating(p, ps, vs) ELSE p
  <1>1. p \in LocalPlayerType
    BY DEF Sound
  <1>2. q \in LocalPlayerType /\ Agrees(q)
    BY <1>1, ProcessSpectatingSound, CallsAgree DEF Sound
  <1>3. Agrees(Die(p))
    <2> DEFINE d == ToggleSpectating(p, FALSE)
    <2>1. d \in LocalPlayerType /\ Agrees(d)
      BY <1>1, SpawnAgrees, ToggleSound DEF Sound
    <2>2. Die(p) = [d EXCEPT !.healthy = FALSE, !.trigger = "death", !.reported = "dead",
                             !.isActive = FALSE, !.isWasted = TRUE]
      BY DEF Die
    <2> HIDE DEF d
    <2> QED
      BY <2>1, <2>2 DEF Agrees, LocalPlayerType
  <1> HIDE DEF q
  <1>4. Agrees(Respawn(q, c))
    <2> DEFINE w == [q EXCEPT !.isWasted = FALSE]
               r == HandleClassSelection(w)
    <2>1. r.clearedToSpawn = FALSE /\ r.answered = FALSE /\ r \in LocalPlayerType
      BY <1>2 DEF HandleClassSelection, LocalPlayerType
    <2> HIDE DEF r
    <2>2. Agrees([r EXCEPT !.wantsAnotherClass = FALSE])
      BY <2>1 DEF Agrees, LocalPlayerType
    <2> QED
      BY <1>2, <2>2, SpawnAgrees DEF Respawn, r
  <1> QED
    BY <1>1, <1>2, <1>3, <1>4, CallsAgree DEF Process, q

(* Whatever the heap held in m_bClearedToSpawn, no session runs before a   *)
(* class selection has set it, and from then on it tells the truth.        *)
THEOREM ClearedIsAnswered == Spec => []ClearedMeansAnswered
  <1>1. Init => ClearedMeansAnswered
    BY DEF Init, ClearedMeansAnswered
  <1>2. Inv /\ ClearedMeansAnswered /\ [Next]_vars => ClearedMeansAnswered'
    <2> SUFFICES ASSUME Inv, ClearedMeansAnswered, [Next]_vars, gameState' = "CONNECTED"
                 PROVE  Agrees(lp')
      BY DEF ClearedMeansAnswered, Agrees
    <2>1. lp \in LocalPlayerType /\ Sound(lp, players)
      BY DEF Inv, Sound
    <2>2. CASE InitGame
      BY <2>1, <2>2 DEF InitGame, HandleClassSelection, Agrees, LocalPlayerType
    <2>3. CASE ProcessPools
      <3>1. Agrees(lp) /\ lp' = Process(lp, TRUE, players', vehicles) /\ players' = ProcessRemotes
        BY <2>3 DEF ProcessPools, ClearedMeansAnswered, Agrees
      <3>2. Sound(lp, players')
        BY <2>1, <3>1, RemotesSound, PoolSound DEF Inv, TypeOK, Slots
      <3> QED
        BY <3>1, <3>2, ProcessAgrees
    <2>4. ASSUME gameState = "CONNECTED", lp' = lp PROVE Agrees(lp')
      BY <2>4 DEF ClearedMeansAnswered, Agrees
    <2>5. ASSUME gameState = "CONNECTED", LocalPlayerCall PROVE Agrees(lp')
      <3>1. Agrees(lp)
        BY <2>5 DEF ClearedMeansAnswered, Agrees
      <3> QED
        BY <2>1, <2>5, <3>1, CallsAgree, SpawnAgrees DEF LocalPlayerCall, RequestClass, RequestSpawn
    <2>6. ASSUME gameState = "CONNECTED", NEW id \in PlayerIds, ServerQuit(id) PROVE Agrees(lp')
      <3>1. Agrees(lp) /\ lp' = Forget(lp, {id})
        BY <2>6 DEF ClearedMeansAnswered, Agrees, ServerQuit
      <3> QED
        BY <2>1, <3>1, CallsAgree
    <2>7. ASSUME gameState = "CONNECTED", PedKilled \/ PedGoesOn PROVE Agrees(lp')
      BY <2>1, <2>7 DEF PedKilled, PedGoesOn, ClearedMeansAnswered, Agrees, LocalPlayerType
    <2> QED
      BY <2>2, <2>3, <2>4, <2>5, <2>6, <2>7
      DEF Next, Connect, SessionPacket, ConnectionAttemptFailed, Refused, ConnectionSucceeded,
          DisconnectionNotification, ConnectionLost, SessionCall, GameModeRestart, ConnectionRejected,
          LocalPlayerCall, PlayerCall, ServerJoin, ServerQuit, WorldPlayerAdd, WorldPlayerRemove,
          WorldPlayerDeath, PlayerSync, VehicleCall, WorldVehicleAdd, WorldVehicleRemove, PedKilled,
          PedGoesOn, TimePasses, session, pools, vars
  <1> QED
    BY <1>1, <1>2, Invariance, PTL DEF Spec
=============================================================================
