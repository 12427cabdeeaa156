---------------------------- MODULE LocalPlayer ----------------------------
(***************************************************************************)
(* CLocalPlayer: whether the player is active, wasted, choosing a class or *)
(* spectating.  The object is one record; each method is an operator from  *)
(* the record before the call to the record after it, so that a handler    *)
(* that calls several methods is their composition, in the order of the    *)
(* code.  m_bWaitingForSpawnRequestReply is left out: its only setter,     *)
(* SendSpawn, has no caller, so it is false for ever.                      *)
(***************************************************************************)
CONSTANTS
    PlayerIds,      \* the ids of remote players
    VehicleIds,     \* the ids of vehicles, numbers too: the sets overlap
    NoTarget,       \* the m_SpectateID 0xFFFFFFFF
    NoPlayer        \* an empty slot of the player pool

ASSUME TargetAssumption == NoTarget \notin PlayerIds \cup VehicleIds

(* What the code tells apart of a remote player's m_byteState: NONE, WASTED,
   and all the others (on foot, driver, passenger, spawned, spectating). *)
RemoteStates == {"none", "playing", "wasted"}
Remote == [state : RemoteStates, ped : BOOLEAN]

ASSUME SlotAssumption == NoPlayer \notin Remote

LocalPlayerType == [
    isActive : BOOLEAN, isWasted : BOOLEAN, hasSpawnInfo : BOOLEAN,
    wantsAnotherClass : BOOLEAN, clearedToSpawn : BOOLEAN,
    answered : BOOLEAN,         \* history: the last class request was answered
    firstSpawn : BOOLEAN,
    isSpectating : BOOLEAN, spectateType : {"none", "player", "vehicle"},
    spectateId : PlayerIds \cup VehicleIds \cup {NoTarget},
    spectateProcessed : BOOLEAN,
    trigger : {"normal", "death", "wasted"},    \* the ped's GetActionTrigger()
    healthy : BOOLEAN,                          \* its health is above zero
    reported : {"none", "spawned", "dead"}]     \* history: RPC_Spawn or RPC_Death sent last

(* The constructor, which leaves m_bClearedToSpawn (and m_bSpectateProcessed)
   as the heap held them. *)
NewLocalPlayers ==
    {[isActive |-> FALSE, isWasted |-> FALSE, hasSpawnInfo |-> FALSE,
      wantsAnotherClass |-> FALSE, clearedToSpawn |-> c, answered |-> FALSE,
      firstSpawn |-> TRUE, isSpectating |-> FALSE, spectateType |-> "none",
      spectateId |-> NoTarget, spectateProcessed |-> s,
      trigger |-> "normal", healthy |-> TRUE, reported |-> "none"] : c, s \in BOOLEAN}

-----------------------------------------------------------------------------
(* SetInitialState and RestartIfWastedAt are the game's: they put the ped  *)
(* back to the normal action, and the second revives it if it was wasted.  *)
Spawn(p) ==
    IF p.hasSpawnInfo
    THEN [p EXCEPT !.isWasted = FALSE, !.isActive = TRUE, !.firstSpawn = FALSE,
                   !.trigger = IF @ = "wasted" \/ ~p.firstSpawn THEN "normal" ELSE @,
                   !.healthy = @ \/ p.trigger = "wasted",
                   !.reported = "spawned"]
    ELSE p

(* Leaving the spectator mode spawns the player. *)
ToggleSpectating(p, toggle) ==
    [(IF p.isSpectating /\ ~toggle THEN Spawn(p) ELSE p)
        EXCEPT !.isSpectating = toggle, !.spectateType = "none",
               !.spectateId = NoTarget, !.spectateProcessed = FALSE]

(* Mutant: the class selection leaves m_bClearedToSpawn alone. *)
HandleClassSelection_KeepsCleared(p) == [p EXCEPT !.answered = FALSE, !.trigger = "normal", !.healthy = TRUE]

HandleClassSelection(p) ==
    [p EXCEPT !.clearedToSpawn = FALSE, !.answered = FALSE, !.trigger = "normal", !.healthy = TRUE]

HandleClassSelectionOutcome(p) == [p EXCEPT !.clearedToSpawn = TRUE, !.answered = TRUE]

SetSpawnInfo(p) == [p EXCEPT !.hasSpawnInfo = TRUE]

ReturnToClassSelection(p) == [p EXCEPT !.wantsAnotherClass = TRUE]

(* The server may name a target whether or not the player spectates. *)
SpectatePlayer(p, id, remotes) ==
    IF remotes[id] # NoPlayer /\ remotes[id].state = "playing"
    THEN [p EXCEPT !.spectateType = "player", !.spectateId = id, !.spectateProcessed = FALSE]
    ELSE p

SpectateVehicle(p, id, vehicles) ==
    IF id \in vehicles
    THEN [p EXCEPT !.spectateType = "vehicle", !.spectateId = id, !.spectateProcessed = FALSE]
    ELSE p

-----------------------------------------------------------------------------
(* CRemotePlayer::IsActive, and not wasted. *)
Watchable(r) == r # NoPlayer /\ r.ped /\ r.state = "playing"

(* ProcessSpectating first drops a player who left or died, then points the *)
(* camera unless it already did.                                            *)
ProcessSpectating(p, remotes, vehicles) ==
    LET lost == p.spectateType = "player" /\ ~Watchable(remotes[p.spectateId])
        target == IF lost THEN "none" ELSE p.spectateType
        pointed == \/ ~lost /\ p.spectateProcessed
                   \/ target \in {"none", "player"}
                   \/ target = "vehicle" /\ p.spectateId \in vehicles
    IN  [p EXCEPT !.healthy = TRUE, !.spectateType = target, !.spectateProcessed = pointed]

(* Mutant: the death is reported before the spectator is spawned. *)
Die_ReportsFirst(p) ==
    [ToggleSpectating([p EXCEPT !.reported = "dead"], FALSE) EXCEPT !.healthy = FALSE, !.trigger = "death", !.isActive = FALSE, !.isWasted = TRUE]

(* The branch of Process for a player who just died.  SetDead has the game *)
(* kill the ped.                                                           *)
Die(p) ==
    [ToggleSpectating(p, FALSE)
        EXCEPT !.healthy = FALSE, !.trigger = "death", !.reported = "dead",
               !.isActive = FALSE, !.isWasted = TRUE]

(* Mutant: the class selection branch forgets to clear m_bIsWasted, and so *)
(* asks for a class on every tick.                                         *)
Respawn_StaysWasted(p, connected) ==
    IF p.clearedToSpawn /\ ~p.wantsAnotherClass /\ connected
    THEN IF p.healthy THEN Spawn(p) ELSE p
    ELSE [HandleClassSelection(p) EXCEPT !.wantsAnotherClass = FALSE]

(* The last branch of Process: a wasted player whose ped is up again. *)
Respawn(p, connected) ==
    IF p.clearedToSpawn /\ ~p.wantsAnotherClass /\ connected
    THEN IF p.healthy THEN Spawn(p) ELSE p
    ELSE [HandleClassSelection([p EXCEPT !.isWasted = FALSE]) EXCEPT !.wantsAnotherClass = FALSE]

(* Line 198 reads !m_bIsWasted && trigger == DEATH || IsDead(). *)
Dying(p) == p.isActive /\ ((~p.isWasted /\ p.trigger = "death") \/ ~p.healthy)

(* The sync messages of an active player change none of this state. *)
Process(p, connected, remotes, vehicles) ==
    IF Dying(p) THEN Die(p)
    ELSE IF p.isSpectating /\ ~p.isActive THEN ProcessSpectating(p, remotes, vehicles)
    ELSE LET q == IF p.isSpectating THEN ProcessSpectating(p, remotes, vehicles) ELSE p
         IN  IF q.isWasted /\ q.trigger = "normal" THEN Respawn(q, connected) ELSE q
=============================================================================
