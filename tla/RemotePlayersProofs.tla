------------------------ MODULE RemotePlayersProofs ------------------------
(***************************************************************************)
(* What holds of the remote players' peds, slots and vehicles for any      *)
(* number of players, vehicles and slots.                                  *)
(***************************************************************************)
EXTENDS RemotePlayers, TLAPS

LEMMA Apart == NoPlayer \notin Remote
<1> SUFFICES ASSUME NoPlayer \in Remote PROVE FALSE  OBVIOUS
<1>1. NoPlayer.state \in States  BY DEF Remote
<1>2. NoPlayer.state = "absent"  BY DEF NoPlayer
<1>3. "absent" \notin States  BY DEF States
<1>4. QED  BY <1>1, <1>2, <1>3

LEMMA HereIsRemote ==
    ASSUME TypeOK, NEW p \in Players, Here(p)
    PROVE  players[p] \in Remote
  BY DEF TypeOK, Here

-----------------------------------------------------------------------------
(* What the operators make of a player is a player. *)

LEMMA PedlessType ==
    ASSUME NEW r \in Remote
    PROVE  Pedless(r) \in Remote
  BY DEF Pedless, Remote, NoPed

LEMMA NoSlotType ==
    ASSUME NEW r \in Remote
    PROVE  NoSlot(r) \in Remote
<1>1. Pedless(r) \in Remote  BY PedlessType
<1>2. QED  BY <1>1 DEF NoSlot, Remote, States

LEMMA NewPedType ==
    ASSUME NEW r \in Remote, NEW slot \in Slots, NEW ghost \in BOOLEAN
    PROVE  NewPed(r, slot, ghost) \in Remote
<1>1. Pedless(r) \in Remote  BY PedlessType
<1>2. QED  BY <1>1 DEF NewPed, Remote, States

LEMMA StoredType ==
    ASSUME TypeOK, NEW r \in Remote, NEW v \in Vehicles, NEW state \in States, NEW put \in BOOLEAN
    PROVE  Stored(r, v, state, put) \in Remote
<1>1. GetAt(v) \in Vehicles \cup {NoVehicle}  BY DEF GetAt
<1>2. QED  BY <1>1 DEF Stored, Remote

LEMMA BereftType ==
    ASSUME NEW r \in Remote \cup {NoPlayer}, NEW gone
    PROVE  Bereft(r, gone) \in Remote \cup {NoPlayer}
  BY DEF Bereft, Remote

LEMMA ProcessedType ==
    ASSUME TypeOK, NEW p \in Players
    PROVE  Processed(p) \in Remote \cup {NoPlayer}
  BY HereIsRemote, PedlessType DEF Processed, Idle, TypeOK

LEMMA NewRemoteType == NewRemote \in Remote
  BY DEF NewRemote, Remote, States

LEMMA InitType == Init => TypeOK
  BY DEF Init, TypeOK

(* A call or a sync packet about one player *)
LEMMA PlayerCallType ==
    ASSUME TypeOK, NEW p \in Players, PlayerCall(p)
    PROVE  TypeOK'
<1>1. ASSUME Here(p) PROVE players[p] \in Remote  BY <1>1, HereIsRemote
<1>2. SlotsOf({p}) \ {NoPed} \subseteq Slots
  BY <1>1 DEF SlotsOf, Remote
<1>3. CASE ServerJoin(p)  BY <1>2, <1>3, NewRemoteType DEF ServerJoin, TypeOK, Connected
<1>4. CASE ServerQuit(p)  BY <1>4 DEF ServerQuit, TypeOK
<1>5. CASE WorldPlayerAdd(p)
  <2>1. Here(p) /\ players[p] \in Remote  BY <1>1, <1>5 DEF WorldPlayerAdd
  <2>2. NoSlot(players[p]) \in Remote /\ \A slot \in Slots, ghost \in BOOLEAN :
            NewPed(players[p], slot, ghost) \in Remote
    BY <2>1, NoSlotType, NewPedType
  <2>3. players' \in [Players -> Remote \cup {NoPlayer}]
    BY <2>2, <1>5 DEF WorldPlayerAdd, TypeOK
  <2>4. used' \subseteq Slots  BY <1>5 DEF WorldPlayerAdd, TypeOK
  <2>5. QED  BY <2>3, <2>4, <1>5 DEF WorldPlayerAdd, TypeOK
<1>6. CASE WorldPlayerRemove(p)
  BY <1>1, <1>6, PedlessType DEF WorldPlayerRemove, TypeOK
<1>7. CASE WorldPlayerDeath(p)
  <2>1. [players[p] EXCEPT !.state = "wasted", !.task = NoVehicle] \in Remote
    BY <1>1, <1>7 DEF WorldPlayerDeath, Remote, States
  <2>2. QED  BY <2>1, <1>7 DEF WorldPlayerDeath, TypeOK
<1>8. CASE ScrSetPlayerSpectating(p)
  <2>1. [players[p] EXCEPT !.state = "spectating"] \in Remote
    BY <1>1, <1>8 DEF ScrSetPlayerSpectating, Remote, States
  <2>2. QED  BY <2>1, <1>8 DEF ScrSetPlayerSpectating, TypeOK
<1>9. CASE PlayerSync(p)
  <2> PICK onTheWay \in BOOLEAN :
         players' = [players EXCEPT ![p].state = "onfoot",
                                    ![p].car = IF onTheWay THEN players[p].car ELSE NoVehicle]
    BY <1>9 DEF PlayerSync
  <2>1. [players[p] EXCEPT !.state = "onfoot",
                           !.car = IF onTheWay THEN players[p].car ELSE NoVehicle] \in Remote
    BY <1>1, <1>9 DEF PlayerSync, Remote, States
  <2>2. players' \in [Players -> Remote \cup {NoPlayer}]  BY <2>1 DEF TypeOK
  <2>3. QED  BY <2>2, <1>9 DEF PlayerSync, TypeOK
<1>10. CASE ExitVehicle(p)
  <2>1. [players[p] EXCEPT !.task = Leave] \in Remote
    BY <1>1, <1>10 DEF ExitVehicle, Remote
  <2>2. QED  BY <2>1, <1>10 DEF ExitVehicle, TypeOK
<1>11. QED
  BY <1>3, <1>4, <1>5, <1>6, <1>7, <1>8, <1>9, <1>10, PlayerCall(p) DEF PlayerCall

LEMMA PlayerVehicleCallType ==
    ASSUME TypeOK, NEW p \in Players, NEW v \in Vehicles, PlayerVehicleCall(p, v)
    PROVE  TypeOK'
<1>1. ASSUME Here(p) PROVE players[p] \in Remote  BY <1>1, HereIsRemote
<1>2. ASSUME Here(p), NEW put \in BOOLEAN, NEW state \in {"driver", "passenger"}
      PROVE  Stored(players[p], v, state, put) \in Remote
  BY <1>1, <1>2, StoredType DEF States
<1>3. CASE VehicleSync(p, v)
  <2>1. players' \in [Players -> Remote \cup {NoPlayer}]
    BY <1>2, <1>3 DEF VehicleSync, TypeOK
  <2>2. QED  BY <2>1, <1>3 DEF VehicleSync, TypeOK
<1>4. CASE PassengerSync(p, v)
  <2>1. players' \in [Players -> Remote \cup {NoPlayer}]
    BY <1>2, <1>4 DEF PassengerSync, TypeOK
  <2>2. QED  BY <2>1, <1>4 DEF PassengerSync, TypeOK
<1>5. CASE EnterVehicle(p, v)
  <2>1. PICK apart \in BOOLEAN : apart = (players[p].apart \/ players[p].current \notin {NoVehicle, v})
    OBVIOUS
  <2>2. [players[p] EXCEPT !.task = v, !.apart = apart] \in Remote
    BY <1>1, <1>5 DEF EnterVehicle, Remote
  <2>3. players' = [players EXCEPT ![p] = [players[p] EXCEPT !.task = v, !.apart = apart]]
    BY <1>1, <1>5, <2>1 DEF EnterVehicle, TypeOK, Remote
  <2>4. QED  BY <2>2, <2>3, <1>5 DEF EnterVehicle, TypeOK
<1>6. QED  BY <1>3, <1>4, <1>5, PlayerVehicleCall(p, v) DEF PlayerVehicleCall

LEMMA PedMovesType ==
    ASSUME TypeOK, NEW p \in Players, PedMoves(p)
    PROVE  TypeOK'
<1>1. ASSUME Here(p) PROVE players[p] \in Remote  BY <1>1, HereIsRemote
<1>2. CASE GetsIn(p)
  <2>1. [players[p] EXCEPT !.car = players[p].task, !.task = NoVehicle] \in Remote
    BY <1>1, <1>2 DEF GetsIn, Remote, TypeOK
  <2>2. QED  BY <2>1, <1>2 DEF GetsIn, TypeOK
<1>3. CASE GetsOut(p)
  <2>1. [players[p] EXCEPT !.car = NoVehicle, !.task = NoVehicle] \in Remote
    BY <1>1, <1>3 DEF GetsOut, Remote
  <2>2. QED  BY <2>1, <1>3 DEF GetsOut, TypeOK
<1>4. CASE GivesUp(p)
  <2>1. [players[p] EXCEPT !.task = NoVehicle] \in Remote
    BY <1>1, <1>4 DEF GivesUp, Remote
  <2>2. QED  BY <2>1, <1>4 DEF GivesUp, TypeOK
<1>5. QED  BY <1>2, <1>3, <1>4, PedMoves(p) DEF PedMoves

LEMMA WorldType ==
    ASSUME TypeOK, \/ \E v \in Vehicles : VehicleCall(v)
                   \/ ProcessPools \/ SessionStep
    PROVE  TypeOK'
<1>1. ASSUME NEW gone PROVE Without(gone) \in [Players -> Remote \cup {NoPlayer}]
  BY BereftType DEF Without, TypeOK
<1>2. CASE \E v \in Vehicles : VehicleCall(v)
  BY <1>1, <1>2 DEF VehicleCall, WorldVehicleAdd, WorldVehicleRemove, TypeOK
<1>3. CASE ProcessPools  BY <1>3, ProcessedType DEF ProcessPools, TypeOK
<1>4. CASE ConnectionSucceeded \/ InitGame \/ DisconnectionNotification
  BY <1>4 DEF ConnectionSucceeded, InitGame, DisconnectionNotification, TypeOK
<1>5. CASE GameModeRestart
  BY <1>5, ProcessedType, BereftType DEF GameModeRestart, TypeOK
<1>6. CASE ConnectionLost  BY <1>6 DEF ConnectionLost, TypeOK
<1>7. QED  BY <1>2, <1>3, <1>4, <1>5, <1>6 DEF SessionStep

LEMMA TypeStep == TypeOK /\ [Next]_vars => TypeOK'
<1> SUFFICES ASSUME TypeOK, [Next]_vars PROVE TypeOK'  OBVIOUS
<1>1. CASE UNCHANGED vars  BY <1>1 DEF vars, TypeOK
<1>2. CASE Next
  BY <1>2, PlayerCallType, PlayerVehicleCallType, PedMovesType, WorldType DEF Next
<1>3. QED  BY <1>1, <1>2

(* Every variable keeps its type; in particular a ped's slot is one of the *)
(* slots FindFirstFreePlayerPedSlot hands out.                             *)
THEOREM TypeCorrect == Spec => []TypeOK
  BY InitType, TypeStep, PTL DEF Spec

-----------------------------------------------------------------------------
(* Slots.  Whatever a step does to the players, it does one of four things *)
(* to their peds.                                                          *)

PedOf(p) == IF Here(p) THEN players[p].ped ELSE NoPed

Keep == used' = used /\ lost' = lost /\ \A p \in Players : PedOf(p)' = PedOf(p)

Drop(ids) ==
    /\ used' = used \ {PedOf(p) : p \in ids} /\ lost' = lost
    /\ \A p \in Players : PedOf(p)' = IF p \in ids THEN NoPed ELSE PedOf(p)

Take(p, slot) ==
    /\ slot \in Slots \ (used \ {PedOf(p)}) /\ lost' = lost
    /\ \/ used' = (used \ {PedOf(p)}) \cup {slot}
       \/ used' = used \ {PedOf(p)} /\ "ghost" \in Faults
    /\ \A q \in Players : PedOf(q)' = IF q = p THEN slot ELSE PedOf(q)

Lose(p) ==
    /\ used' = used /\ lost' = lost \cup ({PedOf(p)} \ {NoPed})
    /\ \A q \in Players : PedOf(q)' = IF q = p THEN NoPed ELSE PedOf(q)

SlotStep ==
    \/ Keep
    \/ \E ids \in SUBSET Players : Drop(ids)
    \/ \E p \in Players : Lose(p) \/ \E slot \in Slots : Take(p, slot)

(* A slot that is marked is never NoPed, so it does not matter that        *)
(* SlotsOf knows only the players in the pool.                             *)
LEMMA Unmarked ==
    ASSUME TypeOK, NEW ids \in SUBSET Players
    PROVE  used \ SlotsOf(ids) = used \ {PedOf(p) : p \in ids}
<1>1. NoPed \notin used  BY DEF TypeOK, Slots, NoPed
<1>2. QED  BY <1>1 DEF SlotsOf, PedOf

LEMMA PlayerCallSlots ==
    ASSUME TypeOK, NEW p \in Players, PlayerCall(p)
    PROVE  SlotStep
<1>1. used \ SlotsOf({p}) = used \ {PedOf(p)}  BY Unmarked
<1>2. ASSUME Here(p) PROVE players[p] \in Remote  BY <1>2, HereIsRemote
<1> USE DEF TypeOK
<1>3. CASE ServerJoin(p)
  <2>1. SlotsOf({p}) \ {NoPed} = {PedOf(p)} \ {NoPed}  BY DEF SlotsOf, PedOf
  <2>2. NewRemote # NoPlayer /\ NewRemote.ped = NoPed
    BY Apart, NewRemoteType DEF NewRemote
  <2>3. Lose(p)  BY <1>3, <2>1, <2>2 DEF ServerJoin, Lose, PedOf, Here
  <2>4. QED  BY <2>3 DEF SlotStep
<1>4. CASE ServerQuit(p)
  <2>1. Drop({p})  BY <1>1, <1>4 DEF ServerQuit, Drop, PedOf, Here
  <2>2. QED  BY <2>1 DEF SlotStep
<1>5. CASE WorldPlayerAdd(p)
  <2>1. Here(p) /\ players[p] \in Remote  BY <1>2, <1>5 DEF WorldPlayerAdd
  <2>2. CASE players' = [players EXCEPT ![p] = NoSlot(players[p])] /\ used' = used \ SlotsOf({p})
    <3>1. NoSlot(players[p]) # NoPlayer  BY <2>1, Apart, NoSlotType
    <3>2. NoSlot(players[p]).ped = NoPed  BY <2>1 DEF NoSlot, Pedless, Remote
    <3>3. Drop({p})  BY <1>1, <1>5, <2>2, <3>1, <3>2 DEF WorldPlayerAdd, Drop, PedOf, Here
    <3>4. QED  BY <3>3 DEF SlotStep
  <2>3. ASSUME NEW slot \in Slots \ (used \ SlotsOf({p})), NEW ghost \in BOOLEAN,
               ghost => "ghost" \in Faults,
               players' = [players EXCEPT ![p] = NewPed(players[p], slot, ghost)],
               used' = IF ghost THEN used \ SlotsOf({p}) ELSE (used \ SlotsOf({p})) \cup {slot}
        PROVE  SlotStep
    <3>1. NewPed(players[p], slot, ghost) # NoPlayer  BY <2>1, Apart, NewPedType
    <3>2. NewPed(players[p], slot, ghost).ped = slot  BY <2>1 DEF NewPed, Pedless, Remote
    <3>3. Take(p, slot)  BY <1>1, <1>5, <2>3, <3>1, <3>2 DEF WorldPlayerAdd, Take, PedOf, Here
    <3>4. QED  BY <3>3 DEF SlotStep
  <2>4. QED  BY <1>5, <2>2, <2>3 DEF WorldPlayerAdd
<1>6. CASE WorldPlayerRemove(p)
  <2>1. Here(p) /\ players[p] \in Remote  BY <1>2, <1>6 DEF WorldPlayerRemove
  <2>2. Pedless(players[p]) # NoPlayer  BY <2>1, Apart, PedlessType
  <2>3. Pedless(players[p]).ped = NoPed  BY <2>1 DEF Pedless, Remote
  <2>4. Drop({p})  BY <1>1, <1>6, <2>2, <2>3 DEF WorldPlayerRemove, Drop, PedOf, Here
  <2>5. QED  BY <2>4 DEF SlotStep
<1>7. CASE WorldPlayerDeath(p) \/ ScrSetPlayerSpectating(p) \/ PlayerSync(p) \/ ExitVehicle(p)
  <2> SUFFICES Keep  BY DEF SlotStep
  <2>1. Here(p) /\ players[p] \in Remote /\ used' = used /\ lost' = lost
    BY <1>2, <1>7 DEF WorldPlayerDeath, ScrSetPlayerSpectating, PlayerSync, ExitVehicle
  <2>2. players'[p].ped = players[p].ped
    BY <1>7, <2>1 DEF WorldPlayerDeath, ScrSetPlayerSpectating, PlayerSync, ExitVehicle, Remote
  <2>3. players'[p] # NoPlayer
    <3>1. players'[p] \in Remote
      BY <1>7, <2>1 DEF WorldPlayerDeath, ScrSetPlayerSpectating, PlayerSync, ExitVehicle, Remote, States
    <3>2. QED  BY <3>1, Apart
  <2>4. \A q \in Players \ {p} : players'[q] = players[q]
    BY <1>7 DEF WorldPlayerDeath, ScrSetPlayerSpectating, PlayerSync, ExitVehicle
  <2>5. QED  BY <2>1, <2>2, <2>3, <2>4 DEF Keep, PedOf, Here
<1>8. QED
  BY <1>3, <1>4, <1>5, <1>6, <1>7, PlayerCall(p) DEF PlayerCall

LEMMA PedStaysSlots ==
    ASSUME TypeOK, NEW p \in Players,
           PedMoves(p) \/ \E v \in Vehicles : PlayerVehicleCall(p, v)
    PROVE  SlotStep
<1> SUFFICES Keep  BY DEF SlotStep
<1> USE DEF TypeOK
<1>1. Here(p) /\ players[p] \in Remote /\ used' = used /\ lost' = lost
  BY HereIsRemote DEF PedMoves, GetsIn, GetsOut, GivesUp,
                      PlayerVehicleCall, VehicleSync, PassengerSync, EnterVehicle
<1>2. /\ players'[p] # NoPlayer /\ players'[p].ped = players[p].ped
      /\ \A q \in Players \ {p} : players'[q] = players[q]
  <2>1. CASE PedMoves(p)
    <3>1. players'[p] \in Remote
      BY <1>1, <2>1 DEF PedMoves, GetsIn, GetsOut, GivesUp, Remote
    <3>2. QED  BY <1>1, <2>1, <3>1, Apart DEF PedMoves, GetsIn, GetsOut, GivesUp, Remote
  <2>2. ASSUME NEW v \in Vehicles, PlayerVehicleCall(p, v)
        PROVE  /\ players'[p] # NoPlayer /\ players'[p].ped = players[p].ped
               /\ \A q \in Players \ {p} : players'[q] = players[q]
    <3>1. ASSUME NEW put \in BOOLEAN, NEW state \in {"driver", "passenger"}
          PROVE  /\ Stored(players[p], v, state, put) # NoPlayer
                 /\ Stored(players[p], v, state, put).ped = players[p].ped
      <4>1. Stored(players[p], v, state, put) \in Remote  BY <1>1, StoredType DEF States
      <4>2. Stored(players[p], v, state, put).ped = players[p].ped  BY <1>1 DEF Stored, Remote
      <4>3. QED  BY <4>1, <4>2, Apart
    <3>2. CASE VehicleSync(p, v)  BY <1>1, <3>1, <3>2 DEF VehicleSync
    <3>3. CASE PassengerSync(p, v)  BY <1>1, <3>1, <3>3 DEF PassengerSync
    <3>4. CASE EnterVehicle(p, v)
      <4>1. players'[p] \in Remote  BY <1>1, <3>4 DEF EnterVehicle, Remote
      <4>2. QED  BY <1>1, <3>4, <4>1, Apart DEF EnterVehicle, Remote
    <3>5. QED  BY <2>2, <3>2, <3>3, <3>4 DEF PlayerVehicleCall
  <2>3. QED  BY <2>1, <2>2
<1>3. QED  BY <1>1, <1>2 DEF Keep, PedOf, Here

LEMMA BereftPed ==
    ASSUME NEW r \in Remote \cup {NoPlayer}, NEW gone
    PROVE  /\ Bereft(r, gone) = NoPlayer <=> r = NoPlayer
           /\ r # NoPlayer => Bereft(r, gone).ped = r.ped
<1>1. CASE r = NoPlayer  BY <1>1 DEF Bereft
<1>2. CASE r # NoPlayer
  <2>1. r \in Remote /\ Bereft(r, gone) \in Remote  BY <1>2 DEF Bereft, Remote
  <2>2. Bereft(r, gone).ped = r.ped  BY <1>2, <2>1 DEF Bereft, Remote
  <2>3. QED  BY <1>2, <2>1, <2>2, Apart
<1>3. QED  BY <1>1, <1>2

(* Process takes the ped of an idle player, and touches nobody else. *)
LEMMA ProcessedPed ==
    ASSUME TypeOK, NEW p \in Players
    PROVE  /\ Processed(p) \in Remote \cup {NoPlayer}
           /\ Processed(p) = NoPlayer <=> ~Here(p)
           /\ Here(p) => Processed(p).ped = IF p \in Idle THEN NoPed ELSE players[p].ped
<1>1. CASE p \in Idle
  <2>1. Here(p) /\ players[p] \in Remote  BY <1>1, HereIsRemote DEF Idle
  <2>2. Pedless(players[p]) \in Remote  BY <2>1, PedlessType
  <2>3. Pedless(players[p]).ped = NoPed  BY <2>1 DEF Pedless, Remote
  <2>4. QED  BY <1>1, <2>1, <2>2, <2>3, Apart DEF Processed
<1>2. CASE p \notin Idle  BY <1>2 DEF Processed, Here, TypeOK
<1>3. QED  BY <1>1, <1>2

LEMMA WorldSlots ==
    ASSUME TypeOK, \/ \E v \in Vehicles : VehicleCall(v)
                   \/ ProcessPools \/ SessionStep
    PROVE  SlotStep
<1>1. Idle \in SUBSET Players /\ Players \in SUBSET Players  BY DEF Idle
<1>2. CASE \E v \in Vehicles : VehicleCall(v)
  <2>1. used' = used /\ lost' = lost
    BY <1>2 DEF VehicleCall, WorldVehicleAdd, WorldVehicleRemove
  <2>2. \A p \in Players : PedOf(p)' = PedOf(p)
    BY <1>2, BereftPed DEF VehicleCall, WorldVehicleAdd, WorldVehicleRemove, Without, PedOf, Here, TypeOK
  <2>3. QED  BY <2>1, <2>2 DEF Keep, SlotStep
<1>3. CASE ProcessPools
  <2>1. used' = used \ {PedOf(p) : p \in Idle} /\ lost' = lost
    BY <1>1, <1>3, Unmarked DEF ProcessPools
  <2>2. ASSUME NEW p \in Players PROVE PedOf(p)' = IF p \in Idle THEN NoPed ELSE PedOf(p)
    <3>1. players'[p] = Processed(p)  BY <1>3 DEF ProcessPools
    <3>2. QED  BY <3>1, ProcessedPed DEF PedOf, Here, Idle
  <2>3. Drop(Idle)  BY <2>1, <2>2 DEF Drop
  <2>4. QED  BY <1>1, <2>3 DEF SlotStep
<1>4. CASE ConnectionSucceeded \/ InitGame \/ DisconnectionNotification
  BY <1>4 DEF ConnectionSucceeded, InitGame, DisconnectionNotification, Keep, PedOf, Here, SlotStep
<1>5. CASE GameModeRestart
  <2>1. used' = used \ {PedOf(p) : p \in Idle} /\ lost' = lost
    BY <1>1, <1>5, Unmarked DEF GameModeRestart
  <2>2. ASSUME NEW p \in Players PROVE PedOf(p)' = IF p \in Idle THEN NoPed ELSE PedOf(p)
    <3>1. players'[p] = Bereft(Processed(p), vehicles)  BY <1>5 DEF GameModeRestart
    <3>2. QED  BY <3>1, ProcessedPed, BereftPed DEF PedOf, Here, Idle
  <2>3. Drop(Idle)  BY <2>1, <2>2 DEF Drop
  <2>4. QED  BY <1>1, <2>3 DEF SlotStep
<1>6. CASE ConnectionLost
  <2>1. Drop(Players)
    BY <1>1, <1>6, Unmarked DEF ConnectionLost, Drop, PedOf, Here
  <2>2. QED  BY <1>1, <2>1 DEF SlotStep
<1>7. QED  BY <1>2, <1>3, <1>4, <1>5, <1>6 DEF SessionStep

LEMMA NextSlots == TypeOK /\ [Next]_vars => SlotStep
<1> SUFFICES ASSUME TypeOK, [Next]_vars PROVE SlotStep  OBVIOUS
<1>1. CASE UNCHANGED vars  BY <1>1 DEF vars, Keep, PedOf, Here, SlotStep
<1>2. CASE Next  BY <1>2, PlayerCallSlots, PedStaysSlots, WorldSlots DEF Next
<1>3. QED  BY <1>1, <1>2

(* SlotsHeld, slot by slot *)
Held == \A s \in used : s \in lost \/ \E p \in Players : PedOf(p) = s

LEMMA HeldMeansSlotsHeld == TypeOK /\ Held => SlotsHeld
<1> SUFFICES ASSUME TypeOK, Held, NEW s \in used, s \notin lost PROVE s \in SlotsOf(Players)
  BY DEF SlotsHeld
<1>1. PICK p \in Players : PedOf(p) = s  BY DEF Held
<1>2. s # NoPed  BY DEF TypeOK, Slots, NoPed
<1>3. QED  BY <1>1, <1>2 DEF PedOf, SlotsOf

LEMMA HeldStep == TypeOK /\ Held /\ SlotStep => Held'
<1> SUFFICES ASSUME TypeOK, Held, SlotStep PROVE Held'  OBVIOUS
<1>1. CASE Keep  BY <1>1 DEF Keep, Held
<1>2. ASSUME NEW ids \in SUBSET Players, Drop(ids) PROVE Held'
  BY <1>2 DEF Drop, Held
<1>3. ASSUME NEW p \in Players, Lose(p) PROVE Held'
  BY <1>3 DEF Lose, Held, TypeOK, Slots, NoPed
<1>4. ASSUME NEW p \in Players, NEW slot \in Slots, Take(p, slot) PROVE Held'
  BY <1>4 DEF Take, Held
<1>5. QED  BY <1>1, <1>2, <1>3, <1>4 DEF SlotStep

(* CGame::bUsedPlayerSlots leaks no slot: a marked slot is the slot of a   *)
(* ped, whatever the game and the server do wrong.                         *)
THEOREM NoSlotLeaks == Spec => []SlotsHeld
<1>1. Init => TypeOK /\ Held  BY InitType DEF Init, Held
<1>2. TypeOK /\ Held /\ [Next]_vars => (TypeOK /\ Held)'  BY TypeStep, NextSlots, HeldStep
<1>3. QED  BY <1>1, <1>2, HeldMeansSlotsHeld, PTL DEF Spec

(* SlotsApart, and why it lasts: a lost ped's slot stays marked. *)
Own ==
    /\ lost \subseteq used
    /\ \A p \in Players : PedOf(p) # NoPed => PedOf(p) \in used \ lost
    /\ \A p, q \in Players : PedOf(p) # NoPed /\ PedOf(q) # NoPed /\ p # q => PedOf(p) # PedOf(q)

LEMMA OwnStep ==
    ASSUME "ghost" \notin Faults, TypeOK, Own, SlotStep
    PROVE  Own'
<1>1. CASE Keep  BY <1>1 DEF Keep, Own
<1>2. ASSUME NEW ids \in SUBSET Players, Drop(ids) PROVE Own'
  <2>1. lost' \subseteq used'  BY <1>2 DEF Drop, Own, TypeOK, Slots, NoPed
  <2>2. QED  BY <1>2, <2>1 DEF Drop, Own
<1>3. ASSUME NEW p \in Players, Lose(p) PROVE Own'
  BY <1>3 DEF Lose, Own
<1>4. ASSUME NEW p \in Players, NEW slot \in Slots, Take(p, slot) PROVE Own'
  <2>1. PedOf(p) \notin lost  BY DEF Own, TypeOK, Slots, NoPed
  <2>2. slot \notin lost /\ lost' \subseteq used'  BY <1>4, <2>1 DEF Take, Own
  <2>3. \A q \in Players \ {p} : PedOf(q) # NoPed => PedOf(q) \in used \ {PedOf(p)}
    BY DEF Own
  <2>4. QED  BY <1>4, <2>2, <2>3 DEF Take, Own
<1>5. QED  BY <1>1, <1>2, <1>3, <1>4 DEF SlotStep

(* As long as the game creates the peds it is asked for, every ped has a   *)
(* slot of its own, marked used.                                           *)
THEOREM PedsApart ==
    ASSUME "ghost" \notin Faults
    PROVE  Spec => []SlotsApart
<1>1. Init => TypeOK /\ Own  BY InitType DEF Init, Own, PedOf, Here
<1>2. TypeOK /\ Own /\ [Next]_vars => (TypeOK /\ Own)'  BY TypeStep, NextSlots, OwnStep
<1>3. Own => SlotsApart  BY DEF Own, SlotsApart, HasPed, PedOf
<1>4. QED  BY <1>1, <1>2, <1>3, PTL DEF Spec

-----------------------------------------------------------------------------
(* Vehicles.  What is true of one player's record, whoever it is. *)

Sits(r, vs) == r.car # NoVehicle => r.ped # NoPed /\ r.car \in vs

(* A driver's pointer is null, or it is the vehicle the ped sits in or may *)
(* get into, or it is stale and the ped neither sits nor is about to.      *)
Aim(r) ==
    r.state = "driver" =>
        \/ r.current = NoVehicle
        \/ /\ r.current \in Vehicles
           /\ r.car \in {NoVehicle, r.current} /\ r.task \in {NoVehicle, Leave, r.current}
        \/ r.current = Freed /\ r.car = NoVehicle /\ r.task \in {NoVehicle, Leave}

Fits(r, vs) == Sits(r, vs) /\ (~r.apart => Aim(r))

Fitting == \A p \in Players : Here(p) => Fits(players[p], vehicles)

LEMMA PedlessFits ==
    ASSUME NEW r \in Remote, NEW vs
    PROVE  /\ Fits(r, vs) => Fits(Pedless(r), vs)
           /\ Fits(NoSlot(r), vs)
           /\ \A slot \in Slots, ghost \in BOOLEAN : Fits(NewPed(r, slot, ghost), vs)
<1>1. Fits(r, vs) => Fits(Pedless(r), vs)  BY DEF Fits, Sits, Aim, Pedless, Remote
<1>2. Pedless(r) \in Remote /\ Pedless(r).car = NoVehicle
  BY PedlessType DEF Pedless, Remote
<1>3. Fits(NoSlot(r), vs)  BY <1>2 DEF Fits, Sits, Aim, NoSlot, Remote
<1>4. \A slot \in Slots, ghost \in BOOLEAN : Fits(NewPed(r, slot, ghost), vs)
  BY <1>2 DEF Fits, Sits, Aim, NewPed, Remote
<1>5. QED  BY <1>1, <1>3, <1>4

LEMMA BereftFits ==
    ASSUME NEW r \in Remote \cup {NoPlayer}, NEW gone \in SUBSET Vehicles, NEW vs,
           r # NoPlayer => Fits(r, vs)
    PROVE  r # NoPlayer => Fits(Bereft(r, gone), vs \ gone)
<1> SUFFICES ASSUME r # NoPlayer PROVE Fits(Bereft(r, gone), vs \ gone)  OBVIOUS
<1> DEFINE b == Bereft(r, gone)
<1>1. r \in Remote  OBVIOUS
<1>2. /\ b.state = r.state /\ b.ped = r.ped /\ b.apart = r.apart
      /\ b.car = IF r.car \in gone THEN NoVehicle ELSE r.car
      /\ b.task = IF r.task \in gone THEN NoVehicle ELSE r.task
      /\ b.current = IF r.current \in gone THEN Freed ELSE r.current
  BY <1>1 DEF Bereft, Remote
<1>3. NoVehicle \notin gone /\ Freed \notin gone /\ Leave \notin gone  BY RemoteAssumption
<1> HIDE DEF b
<1>4. Sits(b, vs \ gone)  BY <1>1, <1>2 DEF Fits, Sits
<1>5. Aim(r) => Aim(b)  BY <1>1, <1>2, <1>3 DEF Aim, Remote
<1>6. QED  BY <1>2, <1>4, <1>5 DEF Fits, b

LEMMA StoredFits ==
    ASSUME TypeOK, NEW r \in Remote, NEW v \in Vehicles, NEW put \in BOOLEAN,
           NEW state \in {"driver", "passenger"}, Fits(r, vehicles)
    PROVE  Fits(Stored(r, v, state, put), vehicles)
<1> DEFINE n == Stored(r, v, state, put)
<1>1. /\ n.state = state /\ n.ped = r.ped /\ n.task = r.task
      /\ n.current = GetAt(v) /\ n.apart = ~GotIn(r, v)
      /\ n.car = IF CanSit(r) /\ v \in vehicles /\ put THEN v ELSE r.car
  BY DEF Stored, Remote
<1> HIDE DEF n
<1>2. Sits(n, vehicles)  BY <1>1 DEF Fits, Sits, CanSit
<1>3. ~n.apart => Aim(n)
  BY <1>1 DEF Aim, GotIn, GetAt
<1>4. QED  BY <1>2, <1>3 DEF Fits, n

(* More vehicles do no harm. *)
LEMMA FitsMonotone ==
    ASSUME NEW r, NEW vs, NEW ws, vs \subseteq ws, Fits(r, vs)
    PROVE  Fits(r, ws)
  BY DEF Fits, Sits

LEMMA PlayerCallFits ==
    ASSUME TypeOK, Fitting, NEW p \in Players, PlayerCall(p)
    PROVE  Fitting'
<1> SUFFICES vehicles' = vehicles /\ (players'[p] # NoPlayer => Fits(players'[p], vehicles))
             /\ \A q \in Players \ {p} : players'[q] = players[q]
  BY DEF Fitting, Here
<1>1. vehicles' = vehicles /\ \A q \in Players \ {p} : players'[q] = players[q]
  BY PlayerCall(p) DEF PlayerCall, ServerJoin, ServerQuit, WorldPlayerAdd, WorldPlayerRemove,
     WorldPlayerDeath, ScrSetPlayerSpectating, PlayerSync, ExitVehicle, TypeOK
<1>2. ASSUME Here(p) PROVE players[p] \in Remote /\ Fits(players[p], vehicles)
  BY <1>2, HereIsRemote DEF Fitting
<1> SUFFICES players'[p] # NoPlayer => Fits(players'[p], vehicles)  BY <1>1
<1> USE DEF TypeOK
<1>3. CASE ServerJoin(p)
  BY <1>3 DEF ServerJoin, NewRemote, Fits, Sits, Aim
<1>4. CASE ServerQuit(p)  BY <1>4 DEF ServerQuit
<1>5. CASE WorldPlayerAdd(p) \/ WorldPlayerRemove(p)
  BY <1>2, <1>5, PedlessFits DEF WorldPlayerAdd, WorldPlayerRemove
<1>6. CASE WorldPlayerDeath(p) \/ ScrSetPlayerSpectating(p) \/ PlayerSync(p)
  <2>1. players[p] \in Remote /\ Fits(players[p], vehicles)
    BY <1>2, <1>6 DEF WorldPlayerDeath, ScrSetPlayerSpectating, PlayerSync
  <2>2. /\ players'[p].state \in {"wasted", "spectating", "onfoot"}
        /\ players'[p].ped = players[p].ped
        /\ players'[p].car \in {NoVehicle, players[p].car}
    BY <1>6, <2>1 DEF WorldPlayerDeath, ScrSetPlayerSpectating, PlayerSync, Remote
  <2>3. QED  BY <2>1, <2>2 DEF Fits, Sits, Aim
<1>7. CASE ExitVehicle(p)
  <2>1. players[p] \in Remote /\ Fits(players[p], vehicles) /\ Seated(players[p])
    BY <1>2, <1>7 DEF ExitVehicle
  <2>2. /\ players'[p].state = players[p].state /\ players'[p].ped = players[p].ped
        /\ players'[p].car = players[p].car /\ players'[p].task = Leave
        /\ players'[p].current = players[p].current /\ players'[p].apart = players[p].apart
    BY <1>7, <2>1 DEF ExitVehicle, Remote
  <2>3. QED  BY <2>1, <2>2 DEF Fits, Sits, Aim, Seated
<1>8. QED  BY <1>3, <1>4, <1>5, <1>6, <1>7, PlayerCall(p) DEF PlayerCall

LEMMA PlayerVehicleCallFits ==
    ASSUME TypeOK, Fitting, NEW p \in Players, NEW v \in Vehicles, PlayerVehicleCall(p, v)
    PROVE  Fitting'
<1>1. /\ Here(p) /\ vehicles' = vehicles /\ \A q \in Players \ {p} : players'[q] = players[q]
  BY PlayerVehicleCall(p, v) DEF PlayerVehicleCall, VehicleSync, PassengerSync, EnterVehicle, TypeOK
<1>2. players[p] \in Remote /\ Fits(players[p], vehicles)
  BY <1>1, HereIsRemote DEF Fitting
<1> SUFFICES Fits(players'[p], vehicles)  BY <1>1 DEF Fitting, Here
<1> USE DEF TypeOK
<1>3. CASE VehicleSync(p, v)  BY <1>2, <1>3, StoredFits DEF VehicleSync
<1>4. CASE PassengerSync(p, v)  BY <1>2, <1>4, StoredFits DEF PassengerSync
<1>5. CASE EnterVehicle(p, v)
  <2>1. /\ players'[p].state = players[p].state /\ players'[p].ped = players[p].ped
        /\ players'[p].car = players[p].car /\ players'[p].task = v
        /\ players'[p].current = players[p].current
        /\ ~players'[p].apart => ~players[p].apart /\ players[p].current \in {NoVehicle, v}
    BY <1>2, <1>5 DEF EnterVehicle, Remote
  <2>2. players[p].car = NoVehicle  BY <1>5 DEF EnterVehicle, CanSit, Seated
  <2>3. QED  BY <1>2, <2>1, <2>2 DEF Fits, Sits, Aim
<1>6. QED  BY <1>3, <1>4, <1>5, PlayerVehicleCall(p, v) DEF PlayerVehicleCall

LEMMA PedMovesFits ==
    ASSUME TypeOK, Fitting, NEW p \in Players, PedMoves(p)
    PROVE  Fitting'
<1>1. /\ Here(p) /\ vehicles' = vehicles /\ \A q \in Players \ {p} : players'[q] = players[q]
  BY PedMoves(p) DEF PedMoves, GetsIn, GetsOut, GivesUp, TypeOK
<1>2. players[p] \in Remote /\ Fits(players[p], vehicles)
  BY <1>1, HereIsRemote DEF Fitting
<1> SUFFICES Fits(players'[p], vehicles)  BY <1>1 DEF Fitting, Here
<1>3. /\ players'[p].state = players[p].state /\ players'[p].ped = players[p].ped
      /\ players'[p].current = players[p].current /\ players'[p].apart = players[p].apart
  BY <1>2, PedMoves(p) DEF PedMoves, GetsIn, GetsOut, GivesUp, Remote, TypeOK
<1>4. \/ /\ CanSit(players[p]) /\ players[p].task \in vehicles
         /\ players'[p].car = players[p].task /\ players'[p].task = NoVehicle
      \/ players'[p].car \in {NoVehicle, players[p].car} /\ players'[p].task = NoVehicle
  BY <1>2, PedMoves(p) DEF PedMoves, GetsIn, GetsOut, GivesUp, Remote, TypeOK
<1>5. vehicles \subseteq Vehicles /\ Leave \notin Vehicles /\ NoVehicle \notin Vehicles
  BY RemoteAssumption DEF TypeOK
<1>6. Sits(players'[p], vehicles)
  BY <1>2, <1>3, <1>4 DEF Fits, Sits, CanSit
<1>7. Aim(players[p]) => Aim(players'[p])
  BY <1>3, <1>4, <1>5 DEF Aim
<1>8. QED  BY <1>2, <1>3, <1>6, <1>7 DEF Fits

LEMMA WorldFits ==
    ASSUME TypeOK, Fitting, \/ \E v \in Vehicles : VehicleCall(v)
                            \/ ProcessPools \/ SessionStep
    PROVE  Fitting'
<1>1. ASSUME NEW p \in Players, players[p] # NoPlayer
      PROVE  players[p] \in Remote /\ Fits(players[p], vehicles)
  BY <1>1, HereIsRemote DEF Fitting, Here
<1>2. ASSUME NEW p \in Players, NEW gone \in SUBSET Vehicles, Without(gone)[p] # NoPlayer
      PROVE  Fits(Without(gone)[p], vehicles \ gone)
  BY <1>1, <1>2, BereftFits DEF Without, Bereft, TypeOK
<1>3. ASSUME NEW p \in Players, Processed(p) # NoPlayer
      PROVE  Processed(p) \in Remote /\ Fits(Processed(p), vehicles)
  BY <1>1, <1>3, PedlessFits, ProcessedPed DEF Processed, Idle, Here
<1>4. vehicles \in SUBSET Vehicles  BY DEF TypeOK
<1>5. ASSUME NEW v \in Vehicles, WorldVehicleAdd(v) PROVE Fitting'
  <2>1. CASE v \in vehicles
    <3>1. players' = Without({v})  BY <1>5, <2>1 DEF WorldVehicleAdd
    <3>2. vehicles \ {v} \subseteq vehicles'  BY <1>5 DEF WorldVehicleAdd
    <3>3. ASSUME NEW p \in Players, players'[p] # NoPlayer PROVE Fits(players'[p], vehicles')
      <4>1. Fits(players'[p], vehicles \ {v})  BY <1>2, <3>1, <3>3
      <4>2. QED  BY <4>1, <3>2, FitsMonotone
    <3>4. QED  BY <3>3 DEF Fitting, Here
  <2>2. CASE v \notin vehicles
    <3>1. players' = players /\ vehicles \subseteq vehicles'
      BY <1>5, <2>2 DEF WorldVehicleAdd
    <3>2. ASSUME NEW p \in Players, players[p] # NoPlayer PROVE Fits(players[p], vehicles')
      BY <1>1, <3>1, <3>2, FitsMonotone
    <3>3. QED  BY <3>1, <3>2 DEF Fitting, Here
  <2>3. QED  BY <2>1, <2>2
<1>6. ASSUME NEW v \in Vehicles, WorldVehicleRemove(v) PROVE Fitting'
  BY <1>2, <1>6 DEF WorldVehicleRemove, Fitting, Here
<1>7. CASE ProcessPools
  BY <1>3, <1>7 DEF ProcessPools, Fitting, Here
<1>8. CASE ConnectionSucceeded \/ InitGame \/ DisconnectionNotification
  BY <1>8 DEF ConnectionSucceeded, InitGame, DisconnectionNotification, Fitting, Here
<1>9. CASE GameModeRestart
  <2>1. ASSUME NEW p \in Players, players'[p] # NoPlayer PROVE Fits(players'[p], vehicles')
    <3>1. players'[p] = Bereft(Processed(p), vehicles) /\ vehicles' = vehicles \ vehicles
      BY <1>9 DEF GameModeRestart
    <3>2. Processed(p) # NoPlayer  BY <2>1, <3>1 DEF Bereft
    <3>3. Fits(Bereft(Processed(p), vehicles), vehicles \ vehicles)
      BY <1>3, <1>4, <3>2, BereftFits
    <3>4. QED  BY <3>1, <3>3
  <2>2. QED  BY <2>1 DEF Fitting, Here
<1>10. CASE ConnectionLost  BY <1>10 DEF ConnectionLost, Fitting, Here
<1>11. QED  BY <1>5, <1>6, <1>7, <1>8, <1>9, <1>10 DEF VehicleCall, SessionStep

LEMMA FittingStep == TypeOK /\ Fitting /\ [Next]_vars => Fitting'
<1> SUFFICES ASSUME TypeOK, Fitting, [Next]_vars PROVE Fitting'  OBVIOUS
<1>1. CASE UNCHANGED vars  BY <1>1 DEF vars, Fitting, Here
<1>2. CASE Next
  BY <1>2, PlayerCallFits, PlayerVehicleCallFits, PedMovesFits, WorldFits DEF Next
<1>3. QED  BY <1>1, <1>2

LEMMA InitFitting == Init => Fitting
  BY DEF Init, Fitting, Here

(* A ped sits only in a vehicle that is in the pool. *)
THEOREM SeatsSafe == Spec => []SeatedInPool
<1>1. TypeOK /\ Fitting => SeatedInPool
  BY DEF Fitting, Fits, Sits, SeatedInPool, HasPed, Seated
<1>2. QED  BY <1>1, InitType, InitFitting, TypeStep, FittingStep, PTL DEF Spec

(* Process reads through no driver's pointer but one to the vehicle the    *)
(* ped sits in, unless the pointer and the ped have parted company, which  *)
(* only a packet or a call that names another vehicle can bring about.     *)
THEOREM DriversSafe == Spec => []DriversOwnVehicle
<1>1. TypeOK /\ Fitting => DriversOwnVehicle
  BY RemoteAssumption DEF Fitting, Fits, Sits, Aim, DriversOwnVehicle, Seated, TypeOK
<1>2. QED  BY <1>1, InitType, InitFitting, TypeStep, FittingStep, PTL DEF Spec
=============================================================================
