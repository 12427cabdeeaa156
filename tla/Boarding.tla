------------------------------ MODULE Boarding ------------------------------
(***************************************************************************)
(* How the local player gets into vehicles and out of them, and what the   *)
(* server is told of it: the hooks of the game's tasks (hooks.cpp), the    *)
(* passenger's entry by the held button and by G (localplayer.cpp), the    *)
(* server's orders, other players and actors who take the wheel, and the   *)
(* vehicles' switches (scriptrpc.cpp).  How a ped gets to a door and       *)
(* through it is the game's.  Left out: m_LastVehicle, which nobody reads  *)
(* (the calls of NotifyVehicleDeath are commented out), trains, which the  *)
(* client does not create, and the panel beside the speed.                 *)
(***************************************************************************)
EXTENDS Naturals

CONSTANTS
    Cars,         \* ids of vehicles
    SharedCars,   \* bound: those others drive, and whose other switches are ordered
    NoCar,
    Second        \* how many frames there are in 1000 ms

ASSUME BoardingAssumption ==
    /\ SharedCars \subseteq Cars /\ NoCar \notin Cars
    /\ Second \in Nat \ {0}

Gone == [driver |-> "gone"]
Switches == {"doors", "engine", "lights", "boot", "bonnet"}

(* What the server may write for a switch; 255 is -1, "as it was". *)
SwitchValues == {0, 1, 255}

VARIABLES
    fleet,    \* the vehicles: m_bDoorsLocked, the game's switches, who drives
              \* ("player": another player's ped, "actor": an actor)
    ordered,  \* how the server last set each vehicle's switches
    seat,     \* where the local player's ped sits, whether it got there by itself,
              \* and whether the entry was one that is not told
    errand,   \* the ped's task: "none", "drive", "ride" or "leave"
    coming,   \* the vehicle another player's ped is about to drive
    news,     \* the last the server was told
    heard,    \* the entries it was told of since the ped was last outside
    pause,    \* frames since m_dwPassengerEnterExit, as far as they count
    calm,     \* frames since the last passenger's entry was told, likewise
    hasty,    \* entries told too early
    boardPart \* what this behaviour is about: "seats" or "switches"

carVars == <<fleet, ordered>>
tellVars == <<news, heard, pause, calm, hasty>>
boardVars == <<carVars, seat, errand, coming, tellVars, boardPart>>

Outside == [car |-> NoCar, at |-> "none", own |-> FALSE, barred |-> FALSE]
Idling == [what |-> "none", car |-> NoCar, told |-> FALSE, barred |-> FALSE]
NoNews == [what |-> "none", car |-> NoCar]

BoardInit ==
    /\ fleet = [v \in Cars |-> Gone]
    /\ ordered = [v \in Cars |-> [s \in Switches |-> 0]]
    /\ seat = Outside /\ errand = Idling /\ coming = NoCar
    /\ news = NoNews /\ heard = {}
    /\ pause = Second /\ calm = Second /\ hasty = FALSE
    /\ boardPart \in {"seats", "switches"}

(* GetSlotState, GetAt and FindIDFromGtaPtr; every vehicle of the pool is  *)
(* active from the start.                                                  *)
Pooled(v) == fleet[v] # Gone

Seated == seat.car # NoCar
IsAPassenger == Seated /\ seat.at # "driver"
Drives(v) == seat.car = v /\ ~IsAPassenger
HasDriver(v) == fleet[v].driver # "nobody" \/ Drives(v)

-----------------------------------------------------------------------------
(* What the server is told *)

SendEnterVehicleNotification(v, as) ==
    /\ news' = [what |-> "enter", car |-> v]
    /\ heard' = heard \cup {<<v, as>>}

SendExitVehicleNotification(v) ==
    /\ news' = [what |-> "exit", car |-> v]
    /\ UNCHANGED heard

(* Outside again, only what is told of the task at hand still counts. *)
HeardFor(task) == {h \in heard : h[1] = task.car}

(* ExitVehicleJustDown: for a second after a passenger's entry the button  *)
(* does not reach the game.                                                *)
ButtonCounts == pause = Second

(* CPlayerPed::EnterVehicle for a passenger, whatever the ped is about     *)
EnterVehicle(v) == errand' = [what |-> "ride", car |-> v, told |-> TRUE, barred |-> FALSE]

(* Any vehicle of the pool may be the nearest.                             *)
FindNearestToLocalPlayerPed == {v \in Cars : Pooled(v)}

(* NotifyEnterVehicle: nothing is said of a locked vehicle, nor of one     *)
(* that an actor drives; the task begins all the same.                     *)
Barred(v) == fleet[v].locked \/ fleet[v].driver = "actor"

CTaskComplexEnterCarAsDriver_hook(v) ==
    /\ ButtonCounts /\ ~Seated /\ Pooled(v)
    /\ errand' = [what |-> "drive", car |-> v, told |-> ~Barred(v), barred |-> Barred(v)]
    /\ IF Barred(v) THEN UNCHANGED <<news, heard>> ELSE SendEnterVehicleNotification(v, "driver")
    /\ UNCHANGED <<carVars, seat, coming, pause, calm, hasty>>

CTaskComplexLeaveCar_hook ==
    /\ ButtonCounts /\ Seated
    /\ errand' = [Idling EXCEPT !.what = "leave", !.car = seat.car, !.told = TRUE]
    /\ SendExitVehicleNotification(seat.car)
    /\ UNCHANGED <<carVars, seat, coming, pause, calm, hasty>>

(* Mutant: m_dwPassengerEnterExit is not set. *)
HandlePassengerEntry_NoTime(v) ==
    /\ pause = Second /\ v \in FindNearestToLocalPlayerPed
    /\ EnterVehicle(v)
    /\ SendEnterVehicleNotification(v, "passenger")
    /\ calm' = 0 /\ hasty' = (hasty \/ calm < Second)
    /\ UNCHANGED <<carVars, seat, coming, pause>>

(* HandlePassengerEntry, from ExitVehicleJustDown while the button is held *)
(* down and v is the nearest vehicle, within reach.  Neither the doors nor *)
(* the seat the ped is in matter.                                          *)
HandlePassengerEntry(v) ==
    /\ pause = Second /\ v \in FindNearestToLocalPlayerPed
    /\ EnterVehicle(v)
    /\ SendEnterVehicleNotification(v, "passenger")
    /\ pause' = 0
    /\ calm' = 0 /\ hasty' = (hasty \/ calm < Second)
    /\ UNCHANGED <<carVars, seat, coming>>

(* The button G, which is there for a ped outside *)
HandlePassengerEntryEx(v) == ~Seated /\ HandlePassengerEntry(v)

NextFrame ==
    /\ pause < Second \/ calm < Second
    /\ pause' = IF pause < Second THEN pause + 1 ELSE pause
    /\ calm' = IF calm < Second THEN calm + 1 ELSE calm
    /\ UNCHANGED <<carVars, seat, errand, coming, news, heard, hasty>>

-----------------------------------------------------------------------------
(* What the game makes of the tasks *)

GetsIn ==
    /\ errand.what \in {"drive", "ride"}
    /\ errand.what = "drive" => "doors" \notin fleet[errand.car].on
    /\ seat' = [car |-> errand.car, own |-> TRUE, barred |-> errand.barred,
                at |-> IF errand.what = "drive" THEN "driver" ELSE "passenger"]
    /\ fleet' = IF errand.what = "drive"
                THEN [fleet EXCEPT ![errand.car].driver = "nobody"] ELSE fleet
    /\ errand' = Idling
    /\ UNCHANGED <<ordered, coming, tellVars>>

GivesUp ==
    /\ errand.what # "none"
    /\ errand' = Idling
    /\ UNCHANGED <<carVars, seat, coming, tellVars>>

GetsOut ==
    /\ errand.what = "leave"
    /\ seat' = Outside /\ errand' = Idling /\ heard' = {}
    /\ UNCHANGED <<carVars, coming, news, pause, calm, hasty>>

-----------------------------------------------------------------------------
(* The server's orders, and the others *)

(* CPlayerPed::PutDirectlyInVehicle: the wheel only if nobody has it. *)
PutDirectlyInVehicle(v, at) ==
    /\ at = "driver" => ~HasDriver(v)
    /\ seat' = [Outside EXCEPT !.car = v, !.at = at]
    /\ errand' = Idling /\ heard' = {}

ScrPutPlayerInVehicle(v, at) ==
    /\ Pooled(v) /\ PutDirectlyInVehicle(v, at)
    /\ UNCHANGED <<carVars, coming, news, pause, calm, hasty>>

(* ExitCurrentVehicle begins the task at another place than the player's   *)
(* button does: the server is not told what it ordered.                    *)
ExitCurrentVehicle ==
    /\ Seated
    /\ errand' = [Idling EXCEPT !.what = "leave", !.car = seat.car]

ScrRemovePlayerFromVehicle ==
    /\ ExitCurrentVehicle
    /\ UNCHANGED <<carVars, seat, coming, tellVars>>

(* Another player's ped is sent to the wheel, unless it sits already. *)
RemoteEnters(v) ==
    /\ Pooled(v) /\ \A w \in Cars : fleet[w].driver # "player"
    /\ coming' = v
    /\ UNCHANGED <<carVars, seat, errand, tellVars>>

RemoteArrives ==
    /\ coming # NoCar
    /\ fleet' = [fleet EXCEPT ![coming].driver = "player"]
    /\ coming' = NoCar
    /\ IF Drives(coming) THEN seat' = Outside /\ errand' = Idling /\ heard' = {}
       ELSE UNCHANGED <<seat, errand, heard>>
    /\ UNCHANGED <<ordered, news, pause, calm, hasty>>

RemoteExits(v) ==
    /\ fleet[v].driver = "player"
    /\ fleet' = [fleet EXCEPT ![v].driver = "nobody"]
    /\ UNCHANGED <<ordered, seat, errand, coming, tellVars>>

(* CActorPed::PutDirectlyInVehicle, to the wheel *)
PutActorDirectlyInVehicle(v) ==
    /\ ~HasDriver(v)
    /\ fleet' = [fleet EXCEPT ![v].driver = "actor"]

(* RPC_CUSTOM_ACTOR_PUT_IN_VEH; _ADD_ADDITIONAL does the same. *)
ActorPutIn(v) ==
    /\ Pooled(v) /\ PutActorDirectlyInVehicle(v)
    /\ UNCHANGED <<ordered, seat, errand, coming, tellVars>>

ActorRemoved(v) ==
    /\ fleet[v].driver = "actor"
    /\ fleet' = [fleet EXCEPT ![v].driver = "nobody"]
    /\ UNCHANGED <<ordered, seat, errand, coming, tellVars>>

(* RemoveEveryoneFromVehicle comes first; a task that is about another     *)
(* vehicle may outlast it.                                                 *)
Delete(v, goesOn) ==
    LET left == IF errand.car # v /\ (goesOn \/ seat.car # v) THEN errand ELSE Idling IN
    /\ errand' = left
    /\ coming' = IF coming = v THEN NoCar ELSE coming
    /\ IF seat.car = v THEN seat' = Outside /\ heard' = HeardFor(left)
       ELSE UNCHANGED <<seat, heard>>
    /\ UNCHANGED <<news, pause, calm, hasty>>

NewCar == [driver |-> "nobody", locked |-> FALSE, on |-> {}]

(* WorldVehicleAdd: one that is there is deleted first. *)
WorldVehicleAdd(v, goesOn) ==
    /\ Delete(v, goesOn)
    /\ fleet' = [fleet EXCEPT ![v] = NewCar]
    /\ ordered' = [ordered EXCEPT ![v] = [s \in Switches |-> 0]]

WorldVehicleRemove(v, goesOn) ==
    /\ Pooled(v) /\ Delete(v, goesOn)
    /\ fleet' = [fleet EXCEPT ![v] = Gone]
    /\ UNCHANGED ordered

-----------------------------------------------------------------------------
(* The switches *)

(* Anything but 0 locks the doors, starts the engine and lights the lamps, *)
(* but only 1 opens a lid.                                                 *)
SetDoorState(position) == position # 0
SetEngineState(position) == position # 0
SetLightsState(position) == position # 0
SetBootAndBonnetState(position) == position = 1

SwitchedOn(positions) ==
    {s \in Switches :
        \/ s = "doors" /\ SetDoorState(positions[s])
        \/ s = "engine" /\ SetEngineState(positions[s])
        \/ s = "lights" /\ SetLightsState(positions[s])
        \/ s \in {"boot", "bonnet"} /\ SetBootAndBonnetState(positions[s])}

AssignSpecialParamsToVehicle(v, doors) ==
    fleet' = [fleet EXCEPT ![v].locked = SetDoorState(doors),
                           ![v].on = IF SetDoorState(doors)
                                     THEN @ \cup {"doors"} ELSE @ \ {"doors"}]

ScrVehicleParams(v, doors) ==
    /\ Pooled(v) /\ AssignSpecialParamsToVehicle(v, doors)
    /\ ordered' = [ordered EXCEPT ![v]["doors"] = doors]
    /\ UNCHANGED <<seat, errand, coming, tellVars>>

ScrVehicleParamsEx(v, positions) ==
    /\ Pooled(v)
    /\ fleet' = [fleet EXCEPT ![v].locked = SetDoorState(positions["doors"]),
                              ![v].on = SwitchedOn(positions)]
    /\ ordered' = [ordered EXCEPT ![v] = positions]
    /\ UNCHANGED <<seat, errand, coming, tellVars>>

SeatsNext ==
    \/ \E v \in Cars :
          \/ CTaskComplexEnterCarAsDriver_hook(v)
          \/ HandlePassengerEntry(v) \/ HandlePassengerEntryEx(v)
          \/ \E at \in {"driver", "passenger"} : ScrPutPlayerInVehicle(v, at)
          \/ v \in SharedCars /\ (RemoteEnters(v) \/ RemoteExits(v) \/ ActorPutIn(v) \/ ActorRemoved(v))
          \/ \E goesOn \in BOOLEAN : WorldVehicleAdd(v, goesOn) \/ WorldVehicleRemove(v, goesOn)
          \/ \E doors \in {0, 1} : ScrVehicleParams(v, doors)
    \/ CTaskComplexLeaveCar_hook
    \/ ScrRemovePlayerFromVehicle
    \/ RemoteArrives
    \/ GetsIn \/ GivesUp \/ GetsOut
    \/ NextFrame

SwitchesNext == \E v \in SharedCars :
    \/ WorldVehicleAdd(v, FALSE) \/ WorldVehicleRemove(v, FALSE)
    \/ \E doors \in SwitchValues : ScrVehicleParams(v, doors)
    \/ \E positions \in [Switches -> SwitchValues] : ScrVehicleParamsEx(v, positions)

BoardNext ==
    \/ boardPart = "seats" /\ SeatsNext /\ UNCHANGED boardPart
    \/ boardPart = "switches" /\ SwitchesNext /\ UNCHANGED boardPart

-----------------------------------------------------------------------------
(* Where the player sits by his own doing he was announced to the server,  *)
(* in that seat of that vehicle, unless it was locked or driven by an      *)
(* actor when he set out; a task that was announced is still the one that  *)
(* was; while he leaves by his own doing his leaving is the last that was  *)
(* said; no two passenger's entries are announced within a second; and the *)
(* doors the client knows and the game's are as the server set them last.  *)
BoardedAsTold ==
    /\ seat.own => <<seat.car, seat.at>> \in heard \/ seat.barred
    /\ errand.what = "drive" /\ errand.told => <<errand.car, "driver">> \in heard
    /\ errand.what = "ride" => <<errand.car, "passenger">> \in heard
    /\ errand.what = "leave" /\ errand.told => news = [what |-> "exit", car |-> seat.car]
    /\ ~hasty
    /\ \A v \in Cars : Pooled(v) =>
          /\ fleet[v].locked = (ordered[v]["doors"] # 0)
          /\ \A s \in Switches : ordered[v][s] # 255 => (s \in fleet[v].on <=> ordered[v][s] = 1)
=============================================================================
