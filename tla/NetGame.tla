------------------------------ MODULE NetGame ------------------------------
(***************************************************************************)
(* The session of the client: CNetGame's connection state, the player and  *)
(* vehicle pools, and the local player.  All of it runs in the game        *)
(* thread.  CNetGame::Process handles every packet and remote procedure    *)
(* call RakNet has queued, one action each, and then does its own work,    *)
(* ProcessPools or Connect; any number of handlers may come between two.   *)
(* RakNet, the game's own treatment of the ped and the clock are external. *)
(* The voice client is modelled by the last order the session gave it.     *)
(***************************************************************************)
EXTENDS LocalPlayer

CONSTANTS VoiceServer       \* g_IsVoiceServer(): the server runs a voice server

ASSUME VoiceAssumption == VoiceServer \in BOOLEAN

VARIABLES
    gameState,      \* m_iGameState
    link,           \* RakNet's connection; "closed": Disconnect stopped the peer
    waited,         \* more than 3000 ms since m_dwLastConnectAttempt
    lp,             \* m_pLocalPlayer
    players,        \* m_pPlayers and m_bPlayerSlotState
    vehicles,       \* the ids in the vehicle pool
    voice           \* the last order given to pVoice, "null" before it exists

vars == <<gameState, link, waited, lp, players, vehicles, voice>>
session == <<gameState, link, waited, voice>>
pools == <<players, vehicles>>

Init ==
    /\ gameState = "WAIT_CONNECT" /\ link = "idle" /\ waited = FALSE
    /\ lp \in NewLocalPlayers
    /\ players = [id \in PlayerIds |-> NoPlayer]
    /\ vehicles = {}
    /\ voice = "null"

-----------------------------------------------------------------------------
(* CNetGame::Process after the packets *)

(* CRemotePlayer::Process takes the ped of an inactive player away. *)
ProcessRemote(r) == IF r # NoPlayer /\ r.state = "none" THEN [r EXCEPT !.ped = FALSE] ELSE r
ProcessRemotes == [id \in PlayerIds |-> ProcessRemote(players[id])]

ProcessPools ==
    /\ gameState = "CONNECTED"
    /\ players' = ProcessRemotes
    /\ lp' = Process(lp, TRUE, players', vehicles)
    /\ UNCHANGED <<session, vehicles>>

(* RakClient::Connect first stops the peer, whatever it was doing. *)
Connect ==
    /\ gameState = "WAIT_CONNECT" /\ waited
    /\ link' = "connecting"
    /\ waited' = FALSE
    /\ gameState' = "CONNECTING"
    /\ UNCHANGED <<lp, pools, voice>>

-----------------------------------------------------------------------------
(* The packets of UpdateNetwork that change the session *)

(* ID_CONNECTION_ATTEMPT_FAILED and ID_NO_FREE_INCOMING_CONNECTIONS *)
ConnectionAttemptFailed ==
    /\ link = "connecting"
    /\ link' = "idle"
    /\ gameState' = "WAIT_CONNECT"
    /\ UNCHANGED <<waited, lp, pools, voice>>

(* ID_CONNECTION_BANNED is only shown; after ID_INVALID_PASSWORD the peer  *)
(* is stopped too.  The client goes on waiting for a connection.           *)
Refused ==
    /\ link = "connecting"
    /\ link' \in {"idle", "closed"}
    /\ UNCHANGED <<gameState, waited, lp, pools, voice>>

ConnectionSucceeded ==
    /\ link = "connecting"
    /\ link' = "up"
    /\ gameState' = "AWAIT_JOIN"
    /\ UNCHANGED <<waited, lp, pools, voice>>

(* The server closed the connection: the player is told to join again, and *)
(* the session stays as it was.                                            *)
DisconnectionNotification ==
    /\ link = "up"
    /\ link' = "closed"
    /\ voice' = IF voice = "null" THEN voice ELSE "fullDisconnect"
    /\ UNCHANGED <<gameState, waited, lp, pools>>

(* ShutDownForGameRestart processes the player pool once, in the state     *)
(* RESTARTING, with the vehicles still there, then drops the other pools.  *)
Restarted == Process(ToggleSpectating(lp, FALSE), FALSE, ProcessRemotes, vehicles)

(* CPlayerPool::Delete, for the local player: it compares the id alone,    *)
(* though a spectated vehicle's id is kept in the same field.              *)
Forget(p, ids) ==
    IF p.isSpectating /\ p.spectateId \in ids THEN ToggleSpectating(p, FALSE) ELSE p

(* Mutant: the players of the lost session are kept. *)
ConnectionLost_KeepsPlayers ==
    /\ link = "up"
    /\ link' = "closed"
    /\ voice' = IF voice = "null" THEN voice ELSE "disconnect"
    /\ lp' = Restarted
    /\ players' = ProcessRemotes
    /\ vehicles' = {}
    /\ gameState' = "WAIT_CONNECT"
    /\ UNCHANGED waited

ConnectionLost ==
    /\ link = "up"
    /\ link' = "closed"
    /\ voice' = IF voice = "null" THEN voice ELSE "disconnect"
    /\ lp' = Forget(Restarted, {id \in PlayerIds : players[id] # NoPlayer})
    /\ players' = [id \in PlayerIds |-> NoPlayer]
    /\ vehicles' = {}
    /\ gameState' = "WAIT_CONNECT"
    /\ UNCHANGED waited

-----------------------------------------------------------------------------
(* The remote procedure calls about the session; RakNet runs them only     *)
(* while it is connected.                                                  *)
InitGame ==
    /\ link = "up"
    /\ gameState' = "CONNECTED"
    /\ lp' = HandleClassSelection(lp)
    /\ voice' = IF voice # "null" THEN voice ELSE IF VoiceServer THEN "connect" ELSE "created"
    /\ UNCHANGED <<link, waited, pools>>

GameModeRestart ==
    /\ link = "up"
    /\ gameState' = "RESTARTING"
    /\ lp' = Restarted
    /\ players' = ProcessRemotes
    /\ vehicles' = {}
    /\ UNCHANGED <<link, waited, voice>>

ConnectionRejected ==
    /\ link = "up"
    /\ link' = "closed"
    /\ UNCHANGED <<gameState, waited, lp, pools, voice>>

-----------------------------------------------------------------------------
(* The calls about remote players and vehicles *)

(* CPlayerPool::New puts a new object in the slot, whatever was there. *)
ServerJoin(id) ==
    /\ link = "up"
    /\ players' = [players EXCEPT ![id] = [state |-> "none", ped |-> FALSE]]
    /\ UNCHANGED <<session, lp, vehicles>>

(* Mutant: CPlayerPool::Delete forgets who watches the player. *)
ServerQuit_StillWatched(id) ==
    /\ link = "up" /\ players[id] # NoPlayer
    /\ players' = [players EXCEPT ![id] = NoPlayer]
    /\ UNCHANGED <<session, lp, vehicles>>

ServerQuit(id) ==
    /\ link = "up" /\ players[id] # NoPlayer
    /\ lp' = Forget(lp, {id})
    /\ players' = [players EXCEPT ![id] = NoPlayer]
    /\ UNCHANGED <<session, vehicles>>

(* CRemotePlayer::Spawn: a new ped instead of the old one, if the game has *)
(* a free ped slot.                                                        *)
WorldPlayerAdd(id) ==
    /\ link = "up" /\ players[id] # NoPlayer
    /\ \E spawned \in BOOLEAN :
         players' = [players EXCEPT ![id] = [state |-> IF spawned THEN "playing" ELSE "none",
                                             ped |-> spawned]]
    /\ UNCHANGED <<session, lp, vehicles>>

(* CRemotePlayer::Remove leaves the state alone. *)
WorldPlayerRemove(id) ==
    /\ link = "up" /\ players[id] # NoPlayer
    /\ players' = [players EXCEPT ![id].ped = FALSE]
    /\ UNCHANGED <<session, lp, vehicles>>

WorldPlayerDeath(id) ==
    /\ link = "up" /\ players[id] # NoPlayer
    /\ players' = [players EXCEPT ![id].state = "wasted"]
    /\ UNCHANGED <<session, lp, vehicles>>

(* A sync packet, or ScrSetPlayerSpectating: any late one revives the      *)
(* state of a wasted player, and of one who has no ped.                    *)
PlayerSync(id) ==
    /\ link = "up" /\ players[id] # NoPlayer
    /\ players' = [players EXCEPT ![id].state = "playing"]
    /\ UNCHANGED <<session, lp, vehicles>>

WorldVehicleAdd(id) ==
    /\ link = "up"
    /\ vehicles' = vehicles \cup {id}
    /\ UNCHANGED <<session, lp, players>>

WorldVehicleRemove(id) ==
    /\ link = "up"
    /\ vehicles' = vehicles \ {id}
    /\ UNCHANGED <<session, lp, players>>

-----------------------------------------------------------------------------
(* The calls about the local player *)
RequestClass == HandleClassSelectionOutcome(SetSpawnInfo(lp))
RequestSpawn == Spawn(lp)

LocalPlayerCall ==
    /\ link = "up"
    /\ \/ lp' = RequestClass
       \/ lp' = RequestSpawn
       \/ lp' = SetSpawnInfo(lp)
       \/ lp' = ReturnToClassSelection(lp)
       \/ \E toggle \in BOOLEAN : lp' = ToggleSpectating(lp, toggle)
       \/ \E id \in PlayerIds : lp' = SpectatePlayer(lp, id, players)
       \/ \E id \in VehicleIds : lp' = SpectateVehicle(lp, id, vehicles)
    /\ UNCHANGED <<session, pools>>

-----------------------------------------------------------------------------
(* External: the game's ped and the clock *)

(* The ped loses its health, and may be dying already.  A wasted player's  *)
(* ped is not killed again before a tick has dealt with it: reviving takes *)
(* the game many frames.                                                   *)
PedKilled ==
    /\ lp.healthy /\ ~lp.isWasted /\ lp.trigger = "normal"
    /\ \E t \in {"normal", "death"} : lp' = [lp EXCEPT !.healthy = FALSE, !.trigger = t]
    /\ UNCHANGED <<session, pools>>

(* The game goes on with a dying ped: it dies, lies wasted and is revived. *)
PedGoesOn ==
    /\ \/ /\ ~lp.healthy /\ lp.trigger = "normal"
          /\ lp' = [lp EXCEPT !.trigger = "death"]
       \/ /\ lp.trigger = "death"
          /\ lp' = [lp EXCEPT !.trigger = "wasted"]
       \/ /\ lp.trigger = "wasted"
          /\ lp' = [lp EXCEPT !.trigger = "normal", !.healthy = TRUE]
    /\ UNCHANGED <<session, pools>>

TimePasses ==
    /\ ~waited
    /\ waited' = TRUE
    /\ UNCHANGED <<gameState, link, lp, pools, voice>>

-----------------------------------------------------------------------------
SessionPacket ==
    ConnectionAttemptFailed \/ Refused \/ ConnectionSucceeded
    \/ DisconnectionNotification \/ ConnectionLost
SessionCall == InitGame \/ GameModeRestart \/ ConnectionRejected
PlayerCall(id) ==
    ServerJoin(id) \/ ServerQuit(id) \/ WorldPlayerAdd(id) \/ WorldPlayerRemove(id)
    \/ WorldPlayerDeath(id) \/ PlayerSync(id)
VehicleCall(id) == WorldVehicleAdd(id) \/ WorldVehicleRemove(id)

Next ==
    \/ ProcessPools \/ Connect
    \/ SessionPacket \/ SessionCall \/ LocalPlayerCall
    \/ \E id \in PlayerIds : PlayerCall(id)
    \/ \E id \in VehicleIds : VehicleCall(id)
    \/ PedKilled \/ PedGoesOn \/ TimePasses

(* The game loop runs, its clock advances and the game deals with a dead   *)
(* ped; the server and the network owe nothing.                            *)
Fairness == WF_vars(ProcessPools) /\ WF_vars(Connect) /\ WF_vars(PedGoesOn) /\ WF_vars(TimePasses)

Spec == Init /\ [][Next]_vars /\ Fairness

-----------------------------------------------------------------------------
(* Every variable holds one of its values. *)
TypeOK ==
    /\ gameState \in {"WAIT_CONNECT", "CONNECTING", "AWAIT_JOIN", "CONNECTED", "RESTARTING"}
    /\ link \in {"idle", "connecting", "up", "closed"}
    /\ waited \in BOOLEAN
    /\ lp \in LocalPlayerType
    /\ players \in [PlayerIds -> Remote \cup {NoPlayer}]
    /\ vehicles \subseteq VehicleIds
    /\ voice \in {"null", "created", "connect", "disconnect", "fullDisconnect"}

(* A spectator's player is in the pool: CPlayerPool::Process indexes       *)
(* m_pPlayers with m_SpectateID, and the player may have quit, or the      *)
(* session restarted, since the server named the target.                   *)
SpectatedPlayerInPool ==
    lp.isSpectating /\ lp.spectateType = "player" =>
        lp.spectateId \in PlayerIds /\ players[lp.spectateId] # NoPlayer

(* The player the client takes for active was last reported spawned, and   *)
(* the one it takes for wasted was last reported dead, through spectating, *)
(* restarts and reconnections: no death is reported twice, none is missed. *)
AliveAsReported ==
    /\ lp.isActive => ~lp.isWasted /\ lp.reported = "spawned"
    /\ lp.isWasted => lp.reported = "dead"

(* The client dials only when no session is open, ... *)
DialsOnlyWhenDown == gameState = "WAIT_CONNECT" => link \in {"idle", "closed"}

(* ... with no player and no vehicle of an earlier session left. *)
DialsEmpty ==
    gameState \in {"WAIT_CONNECT", "CONNECTING"} =>
        vehicles = {} /\ \A id \in PlayerIds : players[id] = NoPlayer

(* Sessions do not run into each other: none is dialled over, and none     *)
(* begins with objects of another (netgame.cpp:219, 1136).                 *)
SessionsApart == DialsOnlyWhenDown /\ DialsEmpty

(* In a running session m_bClearedToSpawn, which the constructor does not  *)
(* set, says whether the last class request was answered.                  *)
ClearedMeansAnswered == gameState = "CONNECTED" => lp.clearedToSpawn = lp.answered

(* A wasted player of a running session respawns or goes back to the class *)
(* selection, unless the server has it spectate.                           *)
WastedPlayerReturns ==
    (gameState = "CONNECTED" /\ lp.isWasted) ~> (~lp.isWasted \/ lp.isSpectating \/ gameState # "CONNECTED")

(* A client that waits for a connection dials. *)
WaitingDials == (gameState = "WAIT_CONNECT") ~> (gameState = "CONNECTING")

(* Neither a wasted player nor a client that waits is left waiting.        *)
NobodyStuck == WastedPlayerReturns /\ WaitingDials
=============================================================================
