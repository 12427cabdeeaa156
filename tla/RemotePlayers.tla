--------------------------- MODULE RemotePlayers ---------------------------
(***************************************************************************)
(* The other players as the client shows them: every CRemotePlayer in the  *)
(* pool may own a ped, every ped occupies one of the game's player slots,  *)
(* and a player keeps a pointer to the vehicle its last sync packet named. *)
(* The server's calls about players and vehicles and the players' sync     *)
(* packets arrive in any order.  What the game does with a ped that was    *)
(* told to enter or leave a vehicle is external.                           *)
(***************************************************************************)
EXTENDS Naturals, FiniteSets

CONSTANTS
    Players,        \* ids of other players
    Vehicles,       \* ids in the vehicle pool
    LastSlot,       \* PLAYER_PED_SLOTS - 1
    Faults,         \* what the game and the server may do wrong:
                    \*   "ghost"   the game creates no ped (m_pPed is null)
                    \*   "rejoin"  ServerJoin for a player who is in the pool
    NoVehicle,      \* null
    Freed,          \* a pointer to a vehicle that has been deleted
    Leave           \* the task of leaving a vehicle

ASSUME RemoteAssumption ==
    /\ LastSlot \in Nat
    /\ Faults \subseteq {"ghost", "rejoin"}
    /\ NoVehicle \notin Vehicles
    /\ Freed \notin Vehicles \cup {NoVehicle}
    /\ Leave \notin Vehicles \cup {NoVehicle}

NoPlayer == [state |-> "absent"]
NoPed == 0

(* Slots 0 and 1 are the local player's. *)
Slots == 2 .. LastSlot

States == {"none", "spawned", "onfoot", "driver", "passenger", "wasted", "spectating"}

Remote == [
    state : States,
    ped : Slots \cup {NoPed},                       \* m_pPlayerPed->m_bytePlayerNumber
    ghost : BOOLEAN,                                \* its m_pPed is null
    car : Vehicles \cup {NoVehicle},                \* the vehicle the ped sits in
    task : Vehicles \cup {NoVehicle, Leave},        \* the vehicle it is about to enter
    current : Vehicles \cup {NoVehicle, Freed},     \* m_pCurrentVehicle
    apart : BOOLEAN]                                \* a ghost: the ped was in one vehicle, or on its
                                                    \* way to it, as the pointer came to name another

VARIABLES
    session,        \* "down"; "open": connected, not in a game; "playing";
                    \* "shut", "closed": the server left, before or during a game
    players,        \* m_pPlayers and m_bPlayerSlotState
    used,           \* bUsedPlayerSlots
    lost,           \* slots of peds no CRemotePlayer in the pool points to
    vehicles        \* the ids in the vehicle pool

vars == <<session, players, used, lost, vehicles>>

Init ==
    /\ session = "down"
    /\ players = [p \in Players |-> NoPlayer]
    /\ used = {} /\ lost = {}
    /\ vehicles = {}

Here(p) == players[p] # NoPlayer
Connected == session \in {"open", "playing"}

-----------------------------------------------------------------------------
(* Peds and their slots *)

(* What FindFirstFreePlayerPedSlot finds *)
FirstFree(slot, taken) == \A t \in Slots \ taken : slot <= t

(* What is left of r when its ped is deleted; ~CPlayerPed takes the ped    *)
(* out of its vehicle.                                                     *)
Pedless(r) == [r EXCEPT !.ped = NoPed, !.ghost = FALSE, !.car = NoVehicle, !.task = NoVehicle]

(* CGame::RemovePlayer frees the slot the ped says it has. *)
SlotsOf(ids) == {players[p].ped : p \in {q \in ids : Here(q)}}

(* What IsInVehicle says, and CPlayerPed's own test of m_pPed *)
Seated(r) == r.car # NoVehicle
CanSit(r) == r.ped # NoPed /\ ~r.ghost /\ ~Seated(r)

(* The constructor of CRemotePlayer *)
NewRemote == [state |-> "none", ped |-> NoPed, ghost |-> FALSE,
              car |-> NoVehicle, task |-> NoVehicle, current |-> NoVehicle, apart |-> FALSE]

(* CPlayerPool::New, which does not look at what the slot holds. *)
ServerJoin(p) ==
    /\ Connected
    /\ Here(p) => "rejoin" \in Faults
    /\ players' = [players EXCEPT ![p] = NewRemote]
    /\ lost' = lost \cup (SlotsOf({p}) \ {NoPed})
    /\ UNCHANGED <<session, used, vehicles>>

(* CPlayerPool::Delete; ~CRemotePlayer calls Remove. *)
ServerQuit(p) ==
    /\ Connected /\ Here(p)
    /\ players' = [players EXCEPT ![p] = NoPlayer]
    /\ used' = used \ SlotsOf({p})
    /\ UNCHANGED <<session, lost, vehicles>>

(* The two ends of CRemotePlayer::Spawn, once the old ped is gone: no free *)
(* slot, or a ped in the first one.  A ped the game did not create keeps   *)
(* the slot's number without marking it.                                   *)
NoSlot(r) == [Pedless(r) EXCEPT !.state = "none"]
NewPed(r, slot, ghost) == [Pedless(r) EXCEPT !.state = "spawned", !.ped = slot, !.ghost = ghost]

(* Mutant: NewPlayer does not mark the slot. *)
WorldPlayerAdd_Unmarked(p) ==
    LET taken == used \ SlotsOf({p}) IN
    /\ Connected /\ Here(p)
    /\ \/ /\ Slots \subseteq taken
          /\ players' = [players EXCEPT ![p] = NoSlot(players[p])]
       \/ \E slot \in Slots \ taken :
             /\ FirstFree(slot, taken)
             /\ players' = [players EXCEPT ![p] = NewPed(players[p], slot, FALSE)]
    /\ used' = taken
    /\ UNCHANGED <<session, lost, vehicles>>

WorldPlayerAdd(p) ==
    LET taken == used \ SlotsOf({p}) IN
    /\ Connected /\ Here(p)
    /\ \/ /\ Slots \subseteq taken
          /\ players' = [players EXCEPT ![p] = NoSlot(players[p])]
          /\ used' = taken
       \/ \E slot \in Slots \ taken, ghost \in BOOLEAN :
             /\ FirstFree(slot, taken)
             /\ ghost => "ghost" \in Faults
             /\ players' = [players EXCEPT ![p] = NewPed(players[p], slot, ghost)]
             /\ used' = IF ghost THEN taken ELSE taken \cup {slot}
    /\ UNCHANGED <<session, lost, vehicles>>

(* Mutant: the slot stays marked. *)
WorldPlayerRemove_KeepsSlot(p) ==
    /\ Connected /\ Here(p)
    /\ players' = [players EXCEPT ![p] = Pedless(players[p])]
    /\ UNCHANGED <<session, used, lost, vehicles>>

(* CRemotePlayer::Remove leaves the state alone. *)
WorldPlayerRemove(p) ==
    /\ Connected /\ Here(p)
    /\ players' = [players EXCEPT ![p] = Pedless(players[p])]
    /\ used' = used \ SlotsOf({p})
    /\ UNCHANGED <<session, lost, vehicles>>

(* CRemotePlayer::Process: the ped of an inactive player is removed. *)
Idle == {p \in Players : Here(p) /\ players[p].state = "none"}
Processed(p) == IF p \in Idle THEN Pedless(players[p]) ELSE players[p]

ProcessPools ==
    /\ session \in {"playing", "closed"}
    /\ players' = [p \in Players |-> Processed(p)]
    /\ used' = used \ SlotsOf(Idle)
    /\ UNCHANGED <<session, lost, vehicles>>

-----------------------------------------------------------------------------
(* What the server and the players report *)

(* HandleDeath: SetDead resets the tasks of a ped the game has. *)
WorldPlayerDeath(p) ==
    /\ Connected /\ Here(p)
    /\ players' = [players EXCEPT ![p].state = "wasted", ![p].task = NoVehicle]
    /\ UNCHANGED <<session, used, lost, vehicles>>

ScrSetPlayerSpectating(p) ==
    /\ Connected /\ Here(p)
    /\ players' = [players EXCEPT ![p].state = "spectating"]
    /\ UNCHANGED <<session, used, lost, vehicles>>

(* StoreOnFootFullSyncData: a ped in a vehicle is put beside it, unless    *)
(* the player is just entering or leaving one.                             *)
PlayerSync(p) ==
    /\ session = "playing" /\ Here(p)
    /\ \E onTheWay \in BOOLEAN :
         players' = [players EXCEPT ![p].state = "onfoot",
                                    ![p].car = IF onTheWay THEN players[p].car ELSE NoVehicle]
    /\ UNCHANGED <<session, used, lost, vehicles>>

(* CVehiclePool::GetAt *)
GetAt(v) == IF v \in vehicles THEN v ELSE NoVehicle

(* The ped is not in another vehicle, nor on its way to one. *)
GotIn(r, v) == r.car \in {NoVehicle, v} /\ r.task \in {NoVehicle, Leave, v}

(* Mutant: the pointer is set only with the ped. *)
Stored_WithPed(r, v, state, put) ==
    [r EXCEPT !.state = state, !.apart = ~GotIn(r, v),
              !.current = IF CanSit(r) THEN GetAt(v) ELSE @,
              !.car = IF CanSit(r) /\ v \in vehicles /\ put THEN v ELSE @]

(* The pointer follows the packet, whatever the ped is doing.  The ped is  *)
(* put in the vehicle (HandleVehicleEntryExit) if it is in none, unless    *)
(* that is a wreck or has a driver already.                                *)
Stored(r, v, state, put) ==
    [r EXCEPT !.state = state, !.current = GetAt(v), !.apart = ~GotIn(r, v),
              !.car = IF CanSit(r) /\ v \in vehicles /\ put THEN v ELSE @]

(* StoreInCarFullSyncData.  A player who is in another vehicle here stays  *)
(* in it, only the pointer moves: so it is for a player whom the server's  *)
(* ScrPutPlayerInVehicle has moved at home from one vehicle to another.    *)
VehicleSync(p, v) ==
    /\ session = "playing" /\ Here(p)
    /\ \E put \in BOOLEAN : players' = [players EXCEPT ![p] = Stored(players[p], v, "driver", put)]
    /\ UNCHANGED <<session, used, lost, vehicles>>

PassengerSync(p, v) ==
    /\ session = "playing" /\ Here(p)
    /\ \E put \in BOOLEAN : players' = [players EXCEPT ![p] = Stored(players[p], v, "passenger", put)]
    /\ UNCHANGED <<session, used, lost, vehicles>>

(* The call only sets the ped going; the pointer stays as it is.           *)
EnterVehicle(p, v) ==
    /\ Connected /\ Here(p)
    /\ CanSit(players[p]) /\ v \in vehicles
    /\ players' = [players EXCEPT ![p].task = v,
                                  ![p].apart = @ \/ players[p].current \notin {NoVehicle, v}]
    /\ UNCHANGED <<session, used, lost, vehicles>>

ExitVehicle(p) ==
    /\ Connected /\ Here(p) /\ Seated(players[p])
    /\ players' = [players EXCEPT ![p].task = Leave]
    /\ UNCHANGED <<session, used, lost, vehicles>>

-----------------------------------------------------------------------------
(* External: the game moves the peds *)

GetsIn(p) ==
    /\ Here(p) /\ CanSit(players[p]) /\ players[p].task \in vehicles
    /\ players' = [players EXCEPT ![p].car = players[p].task, ![p].task = NoVehicle]
    /\ UNCHANGED <<session, used, lost, vehicles>>

(* The ped leaves, is dragged or thrown out, or gives its task up. *)
GetsOut(p) ==
    /\ Here(p) /\ Seated(players[p])
    /\ players' = [players EXCEPT ![p].car = NoVehicle, ![p].task = NoVehicle]
    /\ UNCHANGED <<session, used, lost, vehicles>>

GivesUp(p) ==
    /\ Here(p) /\ players[p].task # NoVehicle
    /\ players' = [players EXCEPT ![p].task = NoVehicle]
    /\ UNCHANGED <<session, used, lost, vehicles>>

-----------------------------------------------------------------------------
(* Vehicles *)

(* Mutant: ~CVehicle does not remove the people in it. *)
Bereft_Seated(r, gone) ==
    IF r = NoPlayer THEN r
    ELSE [r EXCEPT !.task = IF @ \in gone THEN NoVehicle ELSE @,
                   !.current = IF @ \in gone THEN Freed ELSE @]

(* ~CVehicle removes everyone from the vehicle and frees the object; no    *)
(* player's m_pCurrentVehicle is told.                                     *)
Bereft(r, gone) ==
    IF r = NoPlayer THEN r
    ELSE [r EXCEPT !.car = IF @ \in gone THEN NoVehicle ELSE @,
                   !.task = IF @ \in gone THEN NoVehicle ELSE @,
                   !.current = IF @ \in gone THEN Freed ELSE @]
Without(gone) == [p \in Players |-> Bereft(players[p], gone)]

(* CVehiclePool::New deletes a vehicle that has the id. *)
WorldVehicleAdd(v) ==
    /\ Connected
    /\ players' = IF v \in vehicles THEN Without({v}) ELSE players
    /\ vehicles' = vehicles \cup {v}
    /\ UNCHANGED <<session, used, lost>>

WorldVehicleRemove(v) ==
    /\ Connected /\ v \in vehicles
    /\ players' = Without({v})
    /\ vehicles' = vehicles \ {v}
    /\ UNCHANGED <<session, used, lost>>

-----------------------------------------------------------------------------
(* The session, as far as the players see it *)

ConnectionSucceeded ==
    /\ session = "down" /\ session' = "open"
    /\ UNCHANGED <<players, used, lost, vehicles>>

InitGame ==
    /\ Connected /\ session' = "playing"
    /\ UNCHANGED <<players, used, lost, vehicles>>

DisconnectionNotification ==
    /\ Connected
    /\ session' = IF session = "playing" THEN "closed" ELSE "shut"
    /\ UNCHANGED <<players, used, lost, vehicles>>

(* ShutDownForGameRestart processes the players once more, keeps them and  *)
(* drops the vehicles.                                                     *)
GameModeRestart ==
    /\ Connected /\ session' = "open"
    /\ players' = [p \in Players |-> Bereft(Processed(p), vehicles)]
    /\ used' = used \ SlotsOf(Idle)
    /\ vehicles' = {}
    /\ UNCHANGED lost

(* Packet_ConnectionLost deletes the players too. *)
ConnectionLost ==
    /\ Connected /\ session' = "down"
    /\ players' = [p \in Players |-> NoPlayer]
    /\ used' = used \ SlotsOf(Players)
    /\ vehicles' = {}
    /\ UNCHANGED lost

-----------------------------------------------------------------------------
PlayerCall(p) ==
    \/ ServerJoin(p) \/ ServerQuit(p) \/ WorldPlayerAdd(p) \/ WorldPlayerRemove(p)
    \/ WorldPlayerDeath(p) \/ ScrSetPlayerSpectating(p) \/ PlayerSync(p) \/ ExitVehicle(p)
PlayerVehicleCall(p, v) == VehicleSync(p, v) \/ PassengerSync(p, v) \/ EnterVehicle(p, v)
PedMoves(p) == GetsIn(p) \/ GetsOut(p) \/ GivesUp(p)
VehicleCall(v) == WorldVehicleAdd(v) \/ WorldVehicleRemove(v)
SessionStep ==
    ConnectionSucceeded \/ InitGame \/ DisconnectionNotification \/ GameModeRestart \/ ConnectionLost

Next ==
    \/ \E p \in Players : PlayerCall(p) \/ PedMoves(p)
    \/ \E p \in Players, v \in Vehicles : PlayerVehicleCall(p, v)
    \/ \E v \in Vehicles : VehicleCall(v)
    \/ ProcessPools
    \/ SessionStep

Spec == Init /\ [][Next]_vars

-----------------------------------------------------------------------------
(* Every variable holds one of its values. *)
TypeOK ==
    /\ session \in {"down", "open", "playing", "shut", "closed"}
    /\ players \in [Players -> Remote \cup {NoPlayer}]
    /\ used \subseteq Slots
    /\ lost \subseteq Slots
    /\ vehicles \subseteq Vehicles

HasPed(p) == Here(p) /\ players[p].ped # NoPed

(* No slot leaks: one that is marked used is the slot of a ped, through    *)
(* every respawn, quit and lost connection, even if the game creates no    *)
(* ped or the server announces a player twice.                             *)
SlotsHeld == used \subseteq SlotsOf(Players) \cup lost

(* Every ped has a slot of its own, marked used: RemotePlayerKeys, the aim *)
(* and the ped's record are all indexed with it.                           *)
SlotsApart ==
    /\ \A p \in Players : HasPed(p) => players[p].ped \in used \ lost
    /\ \A p, q \in Players : HasPed(p) /\ HasPed(q) /\ p # q => players[p].ped # players[q].ped

(* A ped sits only in a vehicle of the pool, and only a ped sits anywhere. *)
SeatedInPool ==
    \A p \in Players : Here(p) /\ Seated(players[p]) => HasPed(p) /\ players[p].car \in vehicles

(* CRemotePlayer::Process reads through m_pCurrentVehicle for a driver who *)
(* sits in a vehicle: the vehicle is then the ped's own, or none, unless   *)
(* the pointer came to name one while the ped was in another, or the ped   *)
(* was sent into another afterwards.  Otherwise no deletion, restart,      *)
(* removal or late packet makes Process touch another vehicle than the     *)
(* one the ped is in, nor one that is gone.                                *)
DriversOwnVehicle ==
    \A p \in Players :
        Here(p) /\ players[p].state = "driver" /\ Seated(players[p]) /\ ~players[p].apart =>
            players[p].current \in {NoVehicle, players[p].car}

(* Process looks whether the vehicle is still there before it goes on      *)
(* ("if (!GamePool_Vehicle_GetAt(m_pCurrentVehicle->m_dwGTAId))"): what    *)
(* it looks through has not been deleted.                                  *)
DriverVehicleLive ==
    \A p \in Players :
        Here(p) /\ players[p].state = "driver" /\ Seated(players[p]) => players[p].current # Freed
=============================================================================
